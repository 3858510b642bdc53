SPECIFICATION FairSpec
CONSTANTS
  Sessions = 2
  Modes = {"r700", "simulator"}
INVARIANTS
  TagIsOfItsBody
  OnOnlyWhileReading
PROPERTIES
  ReadAnswers
CHECK_DEADLOCK FALSE
