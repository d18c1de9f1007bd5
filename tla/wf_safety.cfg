CONSTANTS
  p1 = p1
  p2 = p2
  None = None
  Requests = {p1, p2}
  Offered = {"WAIT", "CREATE_PAYMENT_LINK", "ESCALATE_TO_HUMAN"}
  MaxAttempts = 2
  ProviderRetries = FALSE
  RepeatClicks = FALSE
  MaxRuns = 2
  MaxCrashes = 1
SPECIFICATION Spec
CHECK_DEADLOCK FALSE
SYMMETRY Symmetry
INVARIANTS
  TypeOK
  RecoveredIffVerified
  RecoveredHasNothingPending
  AwaitingHasPending
  AtMostOneAnalysis
  NoPaymentLost
PROPERTIES
  LinksOpenAlone
  LifecycleImplemented
