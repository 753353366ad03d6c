SPECIFICATION Spec
CONSTANTS
  Doors = {d1, d2}
  DoorCapacity = 2
  MinDetections = 2
  DetectionPeriod = 1
  Faults = {"connect", "socket", "overseer"}
  MaxTime = 4
  MaxReadings = 4
INVARIANTS
  TypeOK
  RegistryInBounds
  OpenedUnderAlarm
  ConfirmedOnce
  TempAlarmIffBurst
PROPERTIES
  SweepTriesAll
  FailedSweepLeavesAlarm
CHECK_DEADLOCK FALSE
