CONSTANTS
  Size = 6
  MaxLine = 3
  MaxLines = 2
SPECIFICATION Spec
INVARIANTS NoLineLost
CHECK_DEADLOCK FALSE
