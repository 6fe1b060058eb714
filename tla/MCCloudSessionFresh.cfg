SPECIFICATION Spec
CONSTANTS
  Sockets = {s1, s2, s3}
  NoSocket = NoSocket
  MaxSequence = 1
  Backoffs = 1
INVARIANTS
  FreshStatus
CHECK_DEADLOCK FALSE
