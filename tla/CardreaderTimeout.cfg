SPECIFICATION SafeSpec
CONSTANTS
  Cards = {k1, k2}
  FdLimit = 2
  Faults = {"timeout"}
  MaxSwipes = 2
INVARIANTS
  TimeoutRefuses
CHECK_DEADLOCK FALSE
