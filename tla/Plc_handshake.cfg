SPECIFICATION Spec
CONSTANTS
  MaxRises = 3
  Modes = {"pulse", "level"}
INVARIANTS
  StartsMatchEdges
  LevelOffCloses
CHECK_DEADLOCK FALSE
