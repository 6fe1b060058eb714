SPECIFICATION Spec
CONSTANTS
  Jobs = {j1, j2, j3}
  NoJob = NoJob
INVARIANTS
  TokenIsReal
CHECK_DEADLOCK FALSE
