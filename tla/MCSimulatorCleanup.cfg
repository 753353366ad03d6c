SPECIFICATION Spec
CONSTANTS
  Size <- RecordSizes
  Slots <- RecordSlots
  CameraBytes = 36480
  PageSize = 4096
  Known = {"cardreader"}
  MaxLines = 1
PROPERTIES
  CleanupEnds
CHECK_DEADLOCK FALSE
