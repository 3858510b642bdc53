SPECIFICATION Spec
CONSTANTS
  MaxTriggers = 2
  MaxPending = 0
  MaxAttempts = 2
  MaxCrashes = 0
  Hold = TRUE
  RfidEnabled = TRUE
  RequireRfid = TRUE
  QueueEnabled = FALSE
  MinInterval = TRUE
  CameraSearch = FALSE
  DbMayFail = FALSE
  PlcStops = FALSE
  Shutdowns = FALSE
INVARIANTS
  HoldUntilDeadline
  RecordIsFromItsCapture
  OwnersAreOpen
  CameraOffBetweenBodies
CHECK_DEADLOCK FALSE
