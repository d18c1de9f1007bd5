CONSTANTS
  p1 = p1
  p2 = p2
  None = None
  Requests = {p1, p2}
  Offered = {"WAIT", "CREATE_PAYMENT_LINK", "ESCALATE_TO_HUMAN"}
  MaxAttempts = 1
  ProviderRetries = TRUE
  RepeatClicks = TRUE
  MaxRuns = 2
  MaxCrashes = 0
SPECIFICATION FairSpec
CHECK_DEADLOCK FALSE
INVARIANTS
  AttemptCap
PROPERTIES
  ExecutionEnds
  PaymentSettled
