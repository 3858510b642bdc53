SPECIFICATION FairSpec
CONSTANTS
  Workers = 2
  Tasks = 2
  MaxRestarts = 2
  MaxBatches = 2
INVARIANTS
  OwnResults
  NoStaleWork
PROPERTIES
  BatchEnds
  BatchKept
CHECK_DEADLOCK FALSE
