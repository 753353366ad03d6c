SPECIFICATION Spec
CONSTANTS
  Doors = {d1}
  DoorCapacity = 1
  MinDetections = 0
  DetectionPeriod = 0
  Faults = {"connect", "socket", "overseer"}
  MaxTime = 1
  MaxReadings = 1
  DoorFds = 2
  DoorBacklog = 0
  DoorFaults = {"thread", "accept"}
  Sensors = {s1}
  Given <- Receivers
  MaxAddresses = 10
INVARIANTS
  TypeOK
  OneOwner
PROPERTIES
  SweepEnds
  FireReachesDoor
  ConnectionsClosed
  SensorServesAll
CHECK_DEADLOCK FALSE
