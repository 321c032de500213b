SPECIFICATION FairRequestSpec
CONSTANTS
  N = 3
  Known <- MCKnown
  Consolidated <- MCConsolidated
  Value <- MCValue
  Text = Text
  Malformed = Malformed
  CubeId = 4
  Inputs <- MCInputs
INVARIANT AnsweredAsAsked
PROPERTY Termination
CHECK_DEADLOCK FALSE
