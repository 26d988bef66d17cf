CONSTANTS
  Client = {c1, c2}
  Conn = {d1, d2}
  IP <- MCIP
  Resolved <- MCResolved
  NoConn = NoConn
  NoClient = NoClient
  Mixers = {c1, c2}
  MaxPages <- MCMaxPages
  Watched = {d1}
SPECIFICATION FairSpec
INVARIANTS TypeOK ConnIsOwn ServedOrWaiting FaultCause
PROPERTIES KeepsConnection UnassignedIsRead
CHECK_DEADLOCK FALSE
