SPECIFICATION Spec
CONSTANTS
  MaxTriggers = 3
  MaxPending = 1
  MaxAttempts = 0
  MaxCrashes = 0
  Hold = FALSE
  RfidEnabled = FALSE
  RequireRfid = FALSE
  QueueEnabled = TRUE
  MinInterval = FALSE
  CameraSearch = FALSE
  DbMayFail = FALSE
  PlcStops = FALSE
  Shutdowns = FALSE
INVARIANTS
  EveryTriggerAccounted
  QueueIsServed
CHECK_DEADLOCK FALSE
