CONSTANTS
  PingInterval = 3
  Timeout = 2
  LoginWait = 4
  Password = TRUE
  Lag = 2
  MaxTime = 24
SPECIFICATION Spec
INVARIANTS TypeOK SilentIsDropped AnsweredIsKept LoginDeadline
CHECK_DEADLOCK FALSE
