SPECIFICATION FairSpec
CONSTANTS
  Keys = {k1, k2, k3}
  Claims = {c1, c2}
  Slots = 1
INVARIANTS
  SpeculatorInv
PROPERTIES
  ClaimsAreHonoured
CHECK_DEADLOCK FALSE
