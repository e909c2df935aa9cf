SPECIFICATION Spec
CONSTANTS
  Communities = {1, 2, 3}
  Complexity <- MCComplexity
  Lenses = {1, 2}
  MaxCommunities = 2
  MaxHard = 1
  HardThreshold = 2
  Samples = 2
  MaxConcurrency = 2
  Limit = 3
  MaxScore = 2
  MaxRuns = 2
  MaxUnheard = 1
  Faults = {"model", "cache"}
INVARIANTS
  ReportsAreTrue
  SpendIsExplained
PROPERTIES
  FanOutWindsUp
CHECK_DEADLOCK FALSE
