SPECIFICATION Spec
CONSTANTS
  Size = 4
  LevelRange = 512
  Files <- NestedFiles
CHECK_DEADLOCK FALSE
INVARIANTS WeightsExact
