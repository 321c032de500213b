SPECIFICATION MapSpec
CONSTANTS
  Bases <- MCBases
  Targets <- MCTargets
  WeightOf <- MCWeightOf
  NoIdentifier = 99
  MapItemSize = 8
  VectorItemSize = 4
INVARIANT IndexRight
CHECK_DEADLOCK FALSE
