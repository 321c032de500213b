SPECIFICATION FairSpec
CONSTANTS
  Entries <- MCEntries
  Lists <- MCLists
INVARIANTS RangesInOrder ReadsSums
PROPERTIES Refinement Termination
CHECK_DEADLOCK FALSE
