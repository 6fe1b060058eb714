SPECIFICATION ESpec
CONSTANTS
  MaxAge = 1
  Threshold = 2
  FuelKeys = {"fuel_percent"}
  HubSensors = {"fuel_percent", "battery_level"}
INVARIANTS
  OfflineIsBare
  ShownAvailability
  IssueMeansFailure
  ReportedIsShown
  KnownSlotsReturn
PROPERTIES
  FuelFresh
  CloudStatusCurrent
  RetainedStays
