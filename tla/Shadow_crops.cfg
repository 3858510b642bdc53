SPECIFICATION FairSpec
CONSTANTS
  Inputs = 2
  Order <- TwoEngines
  QueueMax = 1
INVARIANTS
  EvidenceIsWhole
  CloseKeepsJobs
PROPERTIES
  CropEnds
CHECK_DEADLOCK FALSE
