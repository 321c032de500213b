SPECIFICATION FairSpec
CONSTANTS
  N = 3
  Elements <- MCElements
  Consolidated <- MCConsolidated
  BaseElements <- MCBaseElements
  Storages <- MCStorages
  Areas <- MCAreas
  NoIdentifier = 99
INVARIANTS TypeOK CacheFresh OdometerCoherent AnswerCorrect
PROPERTIES Refinement CombinationsOnce Termination
CHECK_DEADLOCK FALSE
