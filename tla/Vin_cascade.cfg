SPECIFICATION CascadeSpec
CONSTANTS
  Texts <- SomeTexts
  Confs = {60, 90}
  Filters <- SomeFilters
  MaxTasks = 3
  Plates <- SomePlates
INVARIANTS
  Pos5IsSeen
  NoTrustedRival
  AcceptedIsValid
  EarlyIsIndependent
CHECK_DEADLOCK FALSE
