SPECIFICATION Spec
CONSTANTS
  Doors = {d1, d2}
  DoorCapacity = 2
  MinDetections = 0
  DetectionPeriod = 0
  Faults = {"connect"}
  MaxTime = 0
  MaxReadings = 1
  Callpoints = {c1}
INVARIANTS
  TypeOK
  FireHasSource
  PressNotLost
PROPERTIES
  KeepsSending
  ImplementsEmergencyRelease
  EveryDoorOpened
