SPECIFICATION SafeSpec
CONSTANTS
  Lowest = 1
  Highest = 3
  Asked <- Passengers
  MaxFloors = 3
  MaxRequests = 3
INVARIANTS
  QueueInBounds
CHECK_DEADLOCK FALSE
