SPECIFICATION Spec
CONSTANTS
  Flows = {f1}
  Hubs = {h1}
  Silabs = {h1}
  Companions = {c1, c2}
  Appliances = {a1}
  None = None
INVARIANTS
  RemovedFlowIsQuiet
CHECK_DEADLOCK FALSE
