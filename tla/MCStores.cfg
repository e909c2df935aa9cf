SPECIFICATION StoresSpec
CONSTANTS
  r1 = r1
  r2 = r2
  r3 = r3
  Runs = {r1, r2, r3}
  Key <- MCKey
  Workers = 2
  MaxAttempts = 2
  Limit = 2
  Estimate = 1
  MaxCost = 1
  Days = 2
  Faults = {"budget", "cache"}
  Results <- MCResults
  Readers = {1, 2}
  Budget = 4
  HardLimit = 5
  Changes = 2
  Snapshots <- MCSnapshots
  Commits <- MCCommits
  Sinces = {{}, {1, 2}}
  Overlap = 2
  MaxSnapshots = 2
  Traced = {1, 2}
  Stages <- MCStages
  Usages <- MCUsages
  Calls = 1
  Pricing <- MCPricing
  MaxReports = 1
  Ticks = 1
  Jobs = {1}
  Requests = {1}
  Links = 2
  Deliveries = 2
SYMMETRY Alike
INVARIANTS
  SpendIsAccounted
  StoresAreHonest
CHECK_DEADLOCK FALSE
