SPECIFICATION Spec
CONSTANTS
  k1 = k1
  k2 = k2
  Cards <- CardSet
  Floors = {1, 2}
  Permitted <- PermittedPairs
  Faults = {"refused", "reset", "spurious"}
INVARIANTS
  TypeOK
  GrantNeedsPermittedShowing
  NotBothAsleep
PROPERTIES
  ShowingAnswered
CHECK_DEADLOCK FALSE
