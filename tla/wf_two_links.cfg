CONSTANTS
  p1 = p1
  p2 = p2
  None = None
  Requests = {p1, p2}
  Offered = {"CREATE_PAYMENT_LINK"}
  MaxAttempts = 2
  ProviderRetries = FALSE
  RepeatClicks = TRUE
  MaxRuns = 2
  MaxCrashes = 0
SPECIFICATION Spec
CHECK_DEADLOCK FALSE
SYMMETRY Symmetry
INVARIANT LinksDoNotRunConcurrently
