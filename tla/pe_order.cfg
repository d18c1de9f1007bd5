CONSTANTS
  MaxCycles = 2
  MaxMoves = 1
  MaxCrashes = 1
  Together = FALSE
SPECIFICATION FairSpec
CHECK_DEADLOCK FALSE
INVARIANTS
  TypeOK
  SuccessIsSettled
  OutcomeHasItsEvent
  StatusConverges
  FailedPaymentHasCase
  DroppedOnEvidence
PROPERTIES
  EventSettles
