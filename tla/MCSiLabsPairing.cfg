SPECIFICATION FairSpec
CONSTANTS
  MaxQueue = 2
  MaxResponses = 2
  MinVersion = 9
  MaxVersion = 11
  HubVersions = {8, 11}
  MaxSent = 4
INVARIANTS
  AgreedToLast
  OneRouteOneDelivery
PROPERTIES
  ContractKept
  ExchangeEnds
CHECK_DEADLOCK FALSE
