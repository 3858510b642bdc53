SPECIFICATION FairSpec
CONSTANTS
  MaxTriggers = 1
  MaxPending = 0
  MaxAttempts = 1
  MaxCrashes = 0
  Hold = TRUE
  RfidEnabled = TRUE
  RequireRfid = TRUE
  QueueEnabled = FALSE
  MinInterval = TRUE
  CameraSearch = FALSE
  DbMayFail = FALSE
  PlcStops = FALSE
  Shutdowns = TRUE
INVARIANTS
  RestartLeavesNoPending
PROPERTIES
  BodyCycleKept
  SessionCloses
  VerdictIsWritten
CHECK_DEADLOCK FALSE
