CONSTANTS
  Ptr = {p1, p2}
  FlagReaders = {p1}
  NoNick = NoNick
  NoClient = NoClient
  ann = ann
  Ann = Ann
  bob = bob
  bad = bad
  Nick = {ann, Ann, bob, bad}
  BadNick = {bad}
  Upper <- MCUpper
  NumChannels = 2
SPECIFICATION Spec
SYMMETRY SameNicks
VIEW WithoutOut
CHECK_DEADLOCK FALSE
INVARIANTS TypeOK NickUnique LoginIffCredentials MembersAreLive ViewAgrees FaultCause
PROPERTIES SpeakerIsKnown IsDirectory
