SPECIFICATION ServicesSpec
CONSTANTS
  Messages = 4
  Attempts = 2
  Faults = TRUE
  Targets <- MCTargets
  PageRequests = 2
  Questions = 1
  EventSources = {TRUE, FALSE}
  WakeAttempts = 6
  Arrivals = 3
  Window = 2
  Allowed = 1
  Horizon = 4
  Callers = {c1, c2}
  Registrations = 2
  Files = 5
  ParseConcurrency = 2
  Unreadable = TRUE
  Jobs = {1, 2}
  Remotes <- MCRemotes
  Asked = {9}
  Kills = 1
  MaxStalled = 1
INVARIANTS
  RaceInv
  DashboardIsHonest
  BoundsAreKept
PROPERTIES
  DashboardSettles
  ServicesEnd
CHECK_DEADLOCK FALSE
