SPECIFICATION FairSpec
CONSTANTS
  MaxQueue = 2
  ServiceAttempts = 2
  Greetings = 1
  Versions = {10}
  InitialVersion = 11
INVARIANTS
  OneLink
  LinkIsolation
  DecisionKept
PROPERTIES
  NoReconnectOnceAsked
  PairingEnds
CHECK_DEADLOCK FALSE
