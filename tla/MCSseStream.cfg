SPECIFICATION FairSpec
CONSTANTS
  Messages = 3
  Attempts = 3
  Index <- MCIndex
INVARIANTS
  StreamIsClean
PROPERTIES
  StreamEnds
CHECK_DEADLOCK FALSE
