CONSTANTS
  Reasons = {"none", "unmapped", "insufficient_funds", "payment_authentication_failure", "expired_payment_method", "payment_rail_unavailable", "technical_failure", "mandate_failure"}
  Statuses = {"pending", "halted", "active"}
  Amounts = {200, 500, 2000000}
  Probabilities = {60, 80}
  Backgrounds <- MCBackgrounds
  Policies <- MCPolicies
SPECIFICATION Spec
CHECK_DEADLOCK FALSE
INVARIANTS
  TypeOK
  ChoiceIsBest
  SummaryShowsSelected
  SimulatorAgrees
  RecommendationIsSelectable
  RefusalHasCause
