CONSTANTS
  p1 = p1
  p2 = p2
  None = None
  Requests = {p1, p2}
  Offered = {"REQUEST_ALTERNATE_PAYMENT_METHOD", "ESCALATE_TO_HUMAN"}
  MaxAttempts = 2
  ProviderRetries = TRUE
  RepeatClicks = TRUE
  MaxRuns = 3
  MaxCrashes = 1
SPECIFICATION Spec
CHECK_DEADLOCK FALSE
SYMMETRY Symmetry
INVARIANTS
  ProviderCallsAuthorised
  RowAgreesWithProvider
PROPERTIES
  UnknownIsKept
