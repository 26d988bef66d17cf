CONSTANTS
  Ptr = {p1, p2}
  p = p1
  NumChannels = 5
SPECIFICATION Spec
INVARIANTS WalkAgrees OneSteppedOver
PROPERTIES WalkEnds
CHECK_DEADLOCK FALSE
