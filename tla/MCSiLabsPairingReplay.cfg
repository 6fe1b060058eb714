SPECIFICATION Spec
CONSTANTS
  MaxQueue = 2
  MaxResponses = 3
  MinVersion = 9
  MaxVersion = 11
  HubVersions = {11}
  MaxSent = 4
INVARIANTS
  ReplayMeansRepeat
CHECK_DEADLOCK FALSE
