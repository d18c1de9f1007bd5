--------------------------- MODULE MCDecisionEngine ---------------------------
(***************************************************************************)
(* Model-checking instance of DecisionEngine: the policies of three        *)
(* merchants, every kind of evidence that leads to a scenario of its own,  *)
(* a customer RevLoop knows well and one it meets for the first time,      *)
(* amounts below and above the cost of an action and the approval limit.   *)
(***************************************************************************)
EXTENDS DecisionEngine

\* The policy of the demo merchant (demo/constants.py).
DefaultPolicy ==
  [limit |-> 1000000, maxAttempts |-> 3, minConfidence |-> 2800, automation |-> TRUE,
   allowed |-> ActionTypes, maxContacts |-> 2, cooldown |-> 30]

\* One attempt, everything gated by confidence, no contact, a cooldown above 999 minutes.
StrictPolicy ==
  [limit |-> 1000000, maxAttempts |-> 1, minConfidence |-> 4000, automation |-> TRUE,
   allowed |-> ActionTypes \ {"CREATE_PAYMENT_LINK"}, maxContacts |-> 0, cooldown |-> 1440]

ManualPolicy == [DefaultPolicy EXCEPT !.automation = FALSE]

Known ==
  [payments |-> {"later", "within90d", "older"}, otherCases |-> TRUE, method |-> "known",
   lookup |-> "answered", urgency |-> 10, worth |-> 60]

NewCustomer ==
  [payments |-> {"undated", "later"}, otherCases |-> FALSE, method |-> "unknown",
   lookup |-> "failed", urgency |-> 100, worth |-> 0]

MCBackgrounds == {Known, NewCustomer}

MCPolicies == {DefaultPolicy, StrictPolicy, ManualPolicy}

=============================================================================
