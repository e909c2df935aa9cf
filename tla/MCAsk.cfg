SPECIFICATION Spec
CONSTANTS
  a1 = a1
  a2 = a2
  Asks = {a1, a2}
  Requests <- MCRequests
  Sessions = {"s"}
  Analyses = {"x", "y", "flat", "bare"}
  NoIndex = {"bare"}
  NoGraph = {"flat"}
  MaxTurns = 2
  MaxToolCalls = 1
  MaxParseRetries = 1
  MaxSessionTurns = 2
  MaxSessionEntities = 2
  Limit = 2
  Faults = {"model", "session", "budget", "cache"}
  Outages = 2
INVARIANTS
  AnswersAreGrounded
  AgentIsBounded
  SessionIsSound
PROPERTIES
  AsksEnd
CHECK_DEADLOCK FALSE
