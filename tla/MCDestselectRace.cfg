SPECIFICATION SafeSpec
CONSTANTS
  k1 = k1
  k2 = k2
  Cards <- CardSet
  Floors = {1, 2}
  Permitted <- PermittedPairs
  Faults = {}
INVARIANTS
  GrantsPermitted
CHECK_DEADLOCK FALSE
