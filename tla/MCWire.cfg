SPECIFICATION Spec
CONSTANTS
  MaxRecords = 3
  MaxSaid = 2
  Reports <- MCReports
  Statuses <- MCStatuses
INVARIANTS
  FamilyIsReal
  AcceptedAsSent
  RouterAgrees
  TailIffMalformed
  CapabilitiesUnambiguous
  ReadingsAreSent
  NothingLost
