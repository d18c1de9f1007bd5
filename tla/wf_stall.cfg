CONSTANTS
  p1 = p1
  p2 = p2
  None = None
  Requests = {p1, p2}
  Offered = {"CREATE_PAYMENT_LINK"}
  MaxAttempts = 1
  ProviderRetries = FALSE
  RepeatClicks = FALSE
  MaxRuns = 1
  MaxCrashes = 0
SPECIFICATION FairSpec
CHECK_DEADLOCK FALSE
PROPERTY PaymentAlwaysSettled
