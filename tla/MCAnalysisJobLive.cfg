SPECIFICATION FairSpec
CONSTANTS
  Jobs = {j1}
  Deliveries = 2
  Overlap = TRUE
  Timeouts = TRUE
  Faults = {"add", "lookup", "save", "append", "publish"}
PROPERTY EndsForGood
CHECK_DEADLOCK FALSE
