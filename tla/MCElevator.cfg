SPECIFICATION Spec
CONSTANTS
  Lowest = 1
  Highest = 3
  Asked <- Anything
  MaxFloors = 6
  MaxRequests = 3
INVARIANTS
  TypeOK
PROPERTIES
  PairKeepsOrder
  WaitsEnd
CHECK_DEADLOCK FALSE
