CONSTANTS
  Client = {c1, c2}
  NoClient = NoClient
  Freed = Freed
  Chan = {ch1}
  Conn = {d1, d2, d3}
  NoConn = NoConn
  NoPage = NoPage
  Layout <- MCLayout
  Senders = {c1}
  Multi = {c1}
  MaxLogins = 2
SPECIFICATION Spec
SYMMETRY Symmetry
PROPERTIES IncomingIsSent
CHECK_DEADLOCK FALSE
