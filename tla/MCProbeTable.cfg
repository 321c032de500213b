SPECIFICATION FairSpec
CONSTANTS
  k1 = k1
  k2 = k2
  k3 = k3
  k4 = k4
  Keys <- MCKeys
  Values = {1, 2}
  Hash <- MCHash
  InitialSize = 1
  NoElement = none
INVARIANTS TypeOK PlaceFree NoGap
PROPERTIES Refinement Termination
CHECK_DEADLOCK TRUE
