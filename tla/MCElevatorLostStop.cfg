SPECIFICATION SafeSpec
CONSTANTS
  Lowest = 1
  Highest = 3
  Asked <- Passengers
  MaxFloors = 6
  MaxRequests = 3
INVARIANTS
  StopsKept
CHECK_DEADLOCK FALSE
