CONSTANTS
  Client = {c1, c2}
  NoClient = NoClient
  Freed = Freed
  Chan = {ch1, ch2}
  Conn = {d1, d2}
  NoConn = NoConn
  NoPage = NoPage
  Layout <- MCLayout
  Senders = {c1}
  Multi = {c1}
  MaxLogins = 3
SPECIFICATION Spec
SYMMETRY Symmetry
INVARIANTS TypeOK SerialsAreTheClients HeadersAreHeaders FaultCause
PROPERTIES RelayedAsSent
CHECK_DEADLOCK FALSE
