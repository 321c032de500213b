SPECIFICATION FairSpec
CONSTANTS
  Size = 4
  LevelRange = 512
  Files <- AllFiles
CHECK_DEADLOCK FALSE
INVARIANTS Hierarchy LevelsExact BaseElementsExact
PROPERTIES Termination
