SPECIFICATION Spec
CONSTANTS
  Cleaners = {k1}
  Save = 2
  Each = 2
  MaxId = 8
INVARIANTS DeletesCount
CHECK_DEADLOCK FALSE
