SPECIFICATION FairSpec
CONSTANTS
  Jobs = {j1, j2, j3}
  NoJob = NoJob
INVARIANTS
  SoloTokenIsReal
  QuietUnloadDiscards
PROPERTIES
  UnloadSettles
CHECK_DEADLOCK FALSE
