CONSTANTS
  Client = {c1, c2, c3}
  MaxPart = 1
  Slow = {c1, c2, c3}
  Urgent = {c1, c2, c3}
  Watched = {}
SPECIFICATION Spec
INVARIANTS IntoReadBuf
CHECK_DEADLOCK FALSE
