SPECIFICATION Spec
CONSTANTS
  j1 = j1
  j2 = j2
  Jobs = {j1, j2}
  Questions = {"q"}
  Version <- MCVersion
  Plan <- MCPlan
  MaxTexts = 1
  Rows = 1
  TopK = 2
  Limit = 2
  MaxAttempts = 2
  MaxRestarts = 1
  MaxLost = 2
  Faults = {"model", "cache", "store", "budget"}
INVARIANTS
  SpendIsHeld
  IndexIsSound
PROPERTIES
  RagEnds
CHECK_DEADLOCK FALSE
