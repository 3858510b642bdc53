SPECIFICATION FairSpec
CONSTANTS
  Jobs = 3
  Bodies = 2
  QueueMax = 1
  MaxAttempts = 2
  Vins = {v1, v2}
  Profiles = {"assist"}
INVARIANTS
  OneVerdictPerJob
  SilentOnlyIfKnown
  MarkHasJob
  JobIsMarked
PROPERTIES
  RefusalIsFinal
  JobEnds
CHECK_DEADLOCK FALSE
