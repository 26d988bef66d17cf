CONSTANTS
  Size = 4
  MaxLine = 6
  MaxLines = 4
SPECIFICATION Spec
INVARIANTS RoomLeft ObeyedAtOnce
PROPERTIES MidLineOnlyIfCut ObeyedInOrder
CHECK_DEADLOCK FALSE
