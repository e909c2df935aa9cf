SPECIFICATION FairSpec
CONSTANTS
  N = 8
  Ingest = 1
  AI = {7, 8}
  Slice <- MCSlice
  Optional = {"aiDomains"}
  Owns <- MCOwns
  Reads <- MCReads
  Sources = {8}
  Embedding = {8}
  Lookup = TRUE
  Evidence = "inventory"
  Corrected = "orientation"
INVARIANTS
  InputsAreFinal
  ScheduleInv
  RunsAreHonest
  WorkIsWarranted
PROPERTIES
  NothingStartsAfterStop
  RunReturns
  ImplementsContract
CHECK_DEADLOCK FALSE
