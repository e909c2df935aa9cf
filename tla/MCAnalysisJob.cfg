SPECIFICATION Spec
CONSTANTS
  Jobs = {j1, j2}
  Deliveries = 2
  Overlap = FALSE
  Timeouts = FALSE
  Faults = {"update", "save", "append"}
SYMMETRY Symmetry
INVARIANTS
  StoreIsHonest
  LastWordAgrees
CHECK_DEADLOCK FALSE
