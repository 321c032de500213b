SPECIFICATION FairSpec
CONSTANTS
  NoElement = "none"
  StartBuckets = 4
  BucketNumbers = {1, 2, 4, 8, 16}
  Situations <- MCSituations
INVARIANTS LoadedToTheFault CellsAsInFile FreeBucket
PROPERTY Termination
CHECK_DEADLOCK FALSE
