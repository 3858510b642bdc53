SPECIFICATION Spec
CONSTANTS
  MaxTriggers = 1
  MaxPending = 0
  MaxAttempts = 1
  MaxCrashes = 1
  Hold = FALSE
  RfidEnabled = TRUE
  RequireRfid = TRUE
  QueueEnabled = FALSE
  MinInterval = FALSE
  CameraSearch = TRUE
  DbMayFail = TRUE
  PlcStops = TRUE
  Shutdowns = FALSE
INVARIANTS
  TerminalIsRecorded
  EarlyCloseIsComplete
PROPERTIES
  RecordsFinalOnce
CHECK_DEADLOCK FALSE
