SPECIFICATION FairSpec
CONSTANTS
  Sockets = {s1, s2, s3}
  NoSocket = NoSocket
  MaxSequence = 2
  Backoffs = 2
INVARIANTS
  OneSocket
  FullySubscribed
  BoundedPoll
  StaleByAtMostOne
PROPERTIES
  WakeHonoured
  ImplementsContract
  UnloadEnds
CHECK_DEADLOCK FALSE
