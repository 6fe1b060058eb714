SPECIFICATION FairSpec
CONSTANTS
  Flows = {f1, f2}
  Hubs = {h1, h2}
  Silabs = {h1}
  Companions = {c1, c2}
  Appliances = {a1, a2}
  None = None
INVARIANTS
  OneGeneration
  RefStored
  OneFlowPerHub
PROPERTIES
  NeverReplaces
  RepairKeepsAppliance
  NeverStuck
CHECK_DEADLOCK FALSE
