CONSTANTS
  MaxCycles = 2
  MaxMoves = 0
  MaxCrashes = 0
  Together = FALSE
SPECIFICATION Spec
CHECK_DEADLOCK FALSE
INVARIANTS
  NewestPendingOpensCase
