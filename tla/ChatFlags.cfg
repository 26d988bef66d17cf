CONSTANTS
  Ptr = {p1, p2}
  FlagReaders = {}
  NoNick = NoNick
  NoClient = NoClient
  ann = ann
  Ann = Ann
  bob = bob
  bad = bad
  Nick = {ann, Ann, bob, bad}
  BadNick = {bad}
  Upper <- MCUpper
  NumChannels = 1
SPECIFICATION Spec
SYMMETRY SameNicks
CHECK_DEADLOCK FALSE
INVARIANTS ListAsDocumented
