SPECIFICATION Spec
CONSTANTS
  MaxQueue = 2
  ServiceAttempts = 1
  Greetings = 1
  Versions = {10}
  InitialVersion = 11
INVARIANTS
  PairedAfterConfirmation
CHECK_DEADLOCK FALSE
