CONSTANTS
  Char <- MCChar
  Limit = 4
  Probes <- MCProbes
  Edits <- MCEdits
  Places = {"initial", "etc", "arg"}
  Wanted <- MCWanted
SPECIFICATION Spec
INVARIANTS SettingsAreTheFile GetIsCurrent SavedIsLoaded
CHECK_DEADLOCK FALSE
