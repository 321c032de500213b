SPECIFICATION SetSpec
CONSTANT MaxId = 6
INVARIANTS SetTypeOK Canonical LookupExact WalkComplete
PROPERTY SetRefinement
