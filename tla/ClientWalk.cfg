CONSTANTS
  Client = {c1, c2, c3}
  MaxPart = 1
  Slow = {c2}
  Watched = {c1}
  Urgent = {c1}
SPECIFICATION FairSpec
INVARIANTS TypeOK NeverMissedTwice OnlyFirstPassedOver
PROPERTIES StaleOnlyIfServedBefore LostIsRemoved InputIsRead
CHECK_DEADLOCK FALSE
