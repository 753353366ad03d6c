SPECIFICATION SafeSpec
CONSTANTS
  Size <- RecordSizes
  Slots <- RecordSlots
  CameraBytes = 36480
  PageSize = 4096
  Known = {"overseer", "firealarm", "cardreader", "elevator", "callpoint", "tempsensor"}
  MaxLines = 3
INVARIANTS
  TypeOK
  RecordsDisjoint
  InitialisedFirst
  OneWorkerPerRecord
  AddressesMatch
  NobodyForgotten
PROPERTIES
  ImplementsLifecycle
CHECK_DEADLOCK FALSE
