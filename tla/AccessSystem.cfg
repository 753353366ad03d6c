SPECIFICATION System
CONSTANTS
  Cards = {k1, k2}
  FdLimit = 3
  Faults = {"refused", "reset", "timeout", "spurious"}
  MaxSwipes = 2
  MaxSockets = 100
  Backlog = 0
  MaxFailures = 1
INVARIANTS
  SystemTypeOK
  GrantsOnlyAllowed
  NotBothAsleep
  PlacesUsedUp
  StubLetsNobodyIn
PROPERTIES
  ScanAnswered
  ImplementsAccessPoint
CHECK_DEADLOCK FALSE
