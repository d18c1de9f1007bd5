---------------------------- MODULE DecisionEngine ----------------------------
(***************************************************************************)
(* What an analysis decides for one case and what the executor makes of    *)
(* it: failure normalization, feature completeness, candidate actions,     *)
(* expected recovery value, confidence, merchant policy, ranking and       *)
(* selection, priority score and case summary (recovery/*,                 *)
(* policies/engine.py, compute_analysis of recovery/service.py), then the  *)
(* second policy question that create_case_action asks                     *)
(* (actions/policy_context.py).  Between the two questions links are in    *)
(* flight and settle, and every executed action is an attempt that the     *)
(* next analysis counts.                                                   *)
(*                                                                         *)
(* RecoveryWorkflow has the requests, the locks and the provider; there    *)
(* the analysis returns any member of Selectable.  Here it is computed.    *)
(*                                                                         *)
(* Money is in minor units, probabilities, strengths and shares in         *)
(* percent, confidence in 1/4000, priority and policy risk in basis        *)
(* points.  What the features hold reaches the model, whose answer is      *)
(* arbitrary here; which of them are missing reaches the confidence.       *)
(***************************************************************************)
EXTENDS Integers, FiniteSets

CONSTANTS
  Reasons,         \* error reasons a failure may carry
  Statuses,        \* provider statuses of a subscription
  Amounts,         \* amounts at risk
  Probabilities,   \* what the propensity model may answer
  Backgrounds,     \* what is known of the customer and the rail besides the failure
  Policies         \* merchant policies

Percent == 0..100

(***************************************************************************)
(* The seven action types, in the order of ACTION_PRIORITY; the burden of  *)
(* an action is its place in OPERATIONAL_BURDEN.                           *)
(***************************************************************************)
Priority ==
  [WAIT |-> 0, REQUEST_ALTERNATE_PAYMENT_METHOD |-> 1, CREATE_PAYMENT_LINK |-> 2,
   RETRY_SAME_METHOD |-> 3, SEND_RECOVERY_MESSAGE |-> 4, ESCALATE_TO_HUMAN |-> 5,
   STOP |-> 6]

Burden ==
  [WAIT |-> 0, REQUEST_ALTERNATE_PAYMENT_METHOD |-> 1, CREATE_PAYMENT_LINK |-> 2,
   RETRY_SAME_METHOD |-> 3, SEND_RECOVERY_MESSAGE |-> 4, ESCALATE_TO_HUMAN |-> 5,
   STOP |-> 6]

ActionTypes == DOMAIN Priority

LinkTypes == {"CREATE_PAYMENT_LINK", "REQUEST_ALTERNATE_PAYMENT_METHOD"}

Executable == LinkTypes \cup {"WAIT", "STOP", "ESCALATE_TO_HUMAN"}

PolicyRecords ==
  [limit : Nat, maxAttempts : Nat, minConfidence : 0..4000, automation : BOOLEAN,
   allowed : SUBSET ActionTypes, maxContacts : Nat, cooldown : Nat]

(***************************************************************************)
(* payments: when, relative to the failure, the customer's transactions    *)
(* were created ("later" includes the failed one); otherCases: the         *)
(* customer has another case; method: the failed payment names one;        *)
(* lookup: "failed" when the provider's downtimes could not be read.       *)
(* urgency and worth: hours since the failure and log lifetime value, as   *)
(* shares of their caps.                                                   *)
(***************************************************************************)
BackgroundRecords ==
  [payments : SUBSET {"undated", "later", "within90d", "older"}, otherCases : BOOLEAN,
   method : {"known", "unknown"}, lookup : {"answered", "failed"},
   urgency : Percent, worth : Percent]

ErrorReasonMap ==
  [payment_rail_unavailable |-> "PAYMENT_RAIL_DOWNTIME",
   insufficient_funds |-> "INSUFFICIENT_FUNDS",
   payment_authentication_failure |-> "AUTHENTICATION_FAILURE",
   bank_declined |-> "BANK_OR_ISSUER_DECLINE",
   expired_payment_method |-> "EXPIRED_OR_INVALID_METHOD",
   mandate_failure |-> "MANDATE_OR_RECURRING_FAILURE",
   technical_failure |-> "TECHNICAL_FAILURE"]

ASSUME DecisionAssumption ==
  /\ Reasons \subseteq DOMAIN ErrorReasonMap \cup {"none", "unmapped"}
  /\ Statuses \subseteq {"pending", "halted", "active"}
  /\ Amounts \subseteq Nat \ {0}
  /\ Probabilities \subseteq Percent
  /\ Backgrounds \subseteq BackgroundRecords
  /\ Policies \subseteq PolicyRecords

------------------------------------------------------------------------------
(* Failure normalization *)

(***************************************************************************)
(* Evidence of a failure.  code: "technical" is the one mapped triple of   *)
(* error code, step and source, "partial" another code with a step or a    *)
(* source.  A subscription is never given a downtime.                      *)
(***************************************************************************)
PaymentFacts ==
  [kind : {"PAYMENT_FAILURE"}, reason : Reasons, code : {"none", "partial", "technical"},
   degraded : BOOLEAN, status : {"none"}]

SubscriptionFacts ==
  [kind : {"SUBSCRIPTION_FAILURE"}, reason : Reasons, code : {"none"},
   degraded : {FALSE}, status : Statuses]

Facts == PaymentFacts \cup SubscriptionFacts

Mapped(f) == f.reason \in DOMAIN ErrorReasonMap

Category(f) ==
  IF f.degraded THEN "PAYMENT_RAIL_DOWNTIME"
  ELSE IF Mapped(f) THEN ErrorReasonMap[f.reason]
  ELSE IF f.code = "technical" THEN "TECHNICAL_FAILURE"
  ELSE IF f.status \in {"pending", "halted"} THEN "MANDATE_OR_RECURRING_FAILURE"
  ELSE "UNKNOWN"

EvidenceStrength(f) ==
  IF f.degraded /\ f.reason # "none" THEN 100
  ELSE IF Mapped(f) THEN 80
  ELSE IF f.code = "technical" \/ (f.degraded /\ f.code = "partial") THEN 65
  ELSE 40

------------------------------------------------------------------------------
(* Feature completeness (recovery/features.py) *)

ImportantFeatures == 24

CountIf(condition, n) == IF condition THEN n ELSE 0

\* Payments before the failure; an undated one is left out.
EligiblePayments(b) == b.payments \cap {"within90d", "older"}

\* Without eligible payments both counts and the success rate are missing.
MissingHistory(b) ==
  IF EligiblePayments(b) = {} THEN 3 ELSE CountIf("within90d" \notin EligiblePayments(b), 1)

(***************************************************************************)
(* A payment has no provider retry count, a subscription no method and no  *)
(* downtime.  Category UNKNOWN counts as present: only the lower-case      *)
(* "unknown" is taken for missing.                                         *)
(***************************************************************************)
MissingFeatures(f, b) ==
  MissingHistory(b)
    + CountIf(~b.otherCases, 1)
    + CountIf(f.kind = "PAYMENT_FAILURE", 1)
    + CountIf(f.kind = "SUBSCRIPTION_FAILURE" \/ b.method = "unknown", 1)
    + CountIf(f.kind = "PAYMENT_FAILURE" /\ b.lookup = "failed", 1)

Present(f, b) == ImportantFeatures - MissingFeatures(f, b)

------------------------------------------------------------------------------
(* Candidates and their probabilities *)

ProviderRetriesActive(f) == f.status = "pending"

\* CandidateGenerationContext of a case; the simulator builds one from a request.
CandidateContext(f) ==
  [category |-> Category(f), kind |-> f.kind, status |-> f.status,
   retries |-> ProviderRetriesActive(f), downtime |-> Category(f) = "PAYMENT_RAIL_DOWNTIME"]

ScenarioOf(ctx) ==
  IF ctx.downtime THEN "ACTIVE_DOWNTIME"
  ELSE IF ctx.kind = "SUBSCRIPTION_FAILURE"
       THEN IF ctx.status = "halted" THEN "SUBSCRIPTION_HALTED"
            ELSE IF ctx.status = "pending" /\ ctx.retries THEN "SUBSCRIPTION_PENDING_RETRIES"
            ELSE "SUBSCRIPTION_CONSERVATIVE"
  ELSE IF ctx.category = "MANDATE_OR_RECURRING_FAILURE" THEN "UNKNOWN"
  ELSE ctx.category

Scenario(f) == ScenarioOf(CandidateContext(f))

RecurringActions ==
  {"WAIT", "REQUEST_ALTERNATE_PAYMENT_METHOD", "SEND_RECOVERY_MESSAGE", "STOP"}

Matrix ==
  [ACTIVE_DOWNTIME |-> LinkTypes \cup {"WAIT", "STOP"},
   INSUFFICIENT_FUNDS |-> {"WAIT", "SEND_RECOVERY_MESSAGE", "CREATE_PAYMENT_LINK", "STOP"},
   AUTHENTICATION_FAILURE |-> LinkTypes \cup {"RETRY_SAME_METHOD", "STOP"},
   BANK_OR_ISSUER_DECLINE |-> LinkTypes \cup {"WAIT", "STOP"},
   EXPIRED_OR_INVALID_METHOD |-> LinkTypes \cup {"SEND_RECOVERY_MESSAGE", "STOP"},
   TECHNICAL_FAILURE |->
     {"WAIT", "RETRY_SAME_METHOD", "REQUEST_ALTERNATE_PAYMENT_METHOD", "STOP"},
   SUBSCRIPTION_PENDING_RETRIES |-> RecurringActions,
   SUBSCRIPTION_HALTED |-> LinkTypes \cup {"ESCALATE_TO_HUMAN", "STOP"},
   SUBSCRIPTION_CONSERVATIVE |-> RecurringActions,
   UNKNOWN |-> {"WAIT", "ESCALATE_TO_HUMAN", "CREATE_PAYMENT_LINK", "STOP"}]

RetryBlocked(ctx) ==
  \/ ctx.downtime \/ ctx.category = "PAYMENT_RAIL_DOWNTIME"
  \/ ctx.kind = "SUBSCRIPTION_FAILURE" /\ ctx.status = "pending" /\ ctx.retries

Generated(ctx) ==
  Matrix[ScenarioOf(ctx)] \ {a \in {"RETRY_SAME_METHOD"} : RetryBlocked(ctx)}

\* A rejected action is taken out, STOP is put back if that removed it.
Candidates(f, excluded) == (Generated(CandidateContext(f)) \ excluded) \cup {"STOP"}

FallbackTable ==
  [ACTIVE_DOWNTIME |->
     [WAIT |-> 60, REQUEST_ALTERNATE_PAYMENT_METHOD |-> 72, CREATE_PAYMENT_LINK |-> 65],
   INSUFFICIENT_FUNDS |->
     [WAIT |-> 55, SEND_RECOVERY_MESSAGE |-> 48, CREATE_PAYMENT_LINK |-> 62],
   AUTHENTICATION_FAILURE |->
     [RETRY_SAME_METHOD |-> 58, REQUEST_ALTERNATE_PAYMENT_METHOD |-> 66,
      CREATE_PAYMENT_LINK |-> 61],
   BANK_OR_ISSUER_DECLINE |->
     [WAIT |-> 52, REQUEST_ALTERNATE_PAYMENT_METHOD |-> 64, CREATE_PAYMENT_LINK |-> 59],
   EXPIRED_OR_INVALID_METHOD |->
     [REQUEST_ALTERNATE_PAYMENT_METHOD |-> 70, CREATE_PAYMENT_LINK |-> 68,
      SEND_RECOVERY_MESSAGE |-> 45],
   TECHNICAL_FAILURE |->
     [WAIT |-> 57, RETRY_SAME_METHOD |-> 50, REQUEST_ALTERNATE_PAYMENT_METHOD |-> 63],
   SUBSCRIPTION_PENDING_RETRIES |->
     [WAIT |-> 62, REQUEST_ALTERNATE_PAYMENT_METHOD |-> 67, SEND_RECOVERY_MESSAGE |-> 49],
   SUBSCRIPTION_HALTED |->
     [REQUEST_ALTERNATE_PAYMENT_METHOD |-> 55, CREATE_PAYMENT_LINK |-> 60,
      ESCALATE_TO_HUMAN |-> 44],
   SUBSCRIPTION_CONSERVATIVE |->
     [WAIT |-> 50, REQUEST_ALTERNATE_PAYMENT_METHOD |-> 58, SEND_RECOVERY_MESSAGE |-> 46],
   UNKNOWN |-> [WAIT |-> 35, ESCALATE_TO_HUMAN |-> 40, CREATE_PAYMENT_LINK |-> 42]]

------------------------------------------------------------------------------
(* Expected recovery value and confidence *)

RoundHalfUp(n, d) == (2 * n + d) \div (2 * d)

Cost ==
  [WAIT |-> 0, RETRY_SAME_METHOD |-> 100, REQUEST_ALTERNATE_PAYMENT_METHOD |-> 200,
   CREATE_PAYMENT_LINK |-> 300, SEND_RECOVERY_MESSAGE |-> 500, ESCALATE_TO_HUMAN |-> 800,
   STOP |-> 0]

RiskBps ==
  [WAIT |-> 5, RETRY_SAME_METHOD |-> 20, REQUEST_ALTERNATE_PAYMENT_METHOD |-> 15,
   CREATE_PAYMENT_LINK |-> 25, SEND_RECOVERY_MESSAGE |-> 30, ESCALATE_TO_HUMAN |-> 40,
   STOP |-> 0]

\* Four hours at two basis points an hour for WAIT; no other action waits.
DelayBps(a) == IF a = "WAIT" THEN 8 ELSE 0

\* BASE_CONTACT_PENALTY_MINOR with contacts_last_24h = 0, which is all the callers pass.
Fatigue(a) == IF a = "SEND_RECOVERY_MESSAGE" THEN 250 ELSE 0

Recovered(a, amount, p) == IF a = "STOP" THEN 0 ELSE RoundHalfUp(amount * p, 100)

ExpectedValue(a, amount, p) ==
  Recovered(a, amount, p) - Cost[a] - Fatigue(a)
    - RoundHalfUp(amount * RiskBps[a], 10000) - RoundHalfUp(amount * DelayBps(a), 10000)

\* Deviation: a high probability counts as a certain one.
ConfidenceOfSuccess(present, p, strength) ==
  75 * present + 28 * p + 8 * strength

\* Weights 0.45, 0.35 and 0.20; a feature present is worth 0.45 / 24.
Confidence(present, p, strength) ==
  75 * present + 28 * (IF p >= 50 THEN p - 50 ELSE 50 - p) + 8 * strength

------------------------------------------------------------------------------
(* Merchant policy *)

(***************************************************************************)
(* evaluate_policy is asked twice.  A context has the fields in which the  *)
(* two callers differ; both pass no contacts in the last day, 999 minutes  *)
(* since the last one, sufficient link data, and a case that is neither    *)
(* terminal nor paid.                                                      *)
(***************************************************************************)
AttemptCapApplies(a, ctx) == a # "STOP" /\ ~(a = "WAIT" /\ ctx.exempt)

\* Deviation: one attempt too many.
CapReachedLate(a, ctx, pol, tried) ==
  AttemptCapApplies(a, ctx) /\ tried > pol.maxAttempts

CapReached(a, ctx, pol, tried) ==
  AttemptCapApplies(a, ctx) /\ tried >= pol.maxAttempts

Eligible(a, ctx, pol, tried) ==
  \/ a = "STOP"
  \/ /\ a \in pol.allowed
     /\ ~CapReached(a, ctx, pol, tried)
     /\ ~(a = "SEND_RECOVERY_MESSAGE" /\ pol.maxContacts = 0)
     /\ ~(a = "RETRY_SAME_METHOD" /\ ctx.downtime)
     /\ a \notin ctx.inFlight
     /\ ctx.auto => pol.automation
     /\ ~(a \in {"RETRY_SAME_METHOD", "SEND_RECOVERY_MESSAGE"} /\ pol.cooldown > 999)

RequiresApproval(a, pol, atRisk, confidence) ==
  /\ a # "STOP"
  /\ \/ atRisk > pol.limit
     \/ confidence < pol.minConfidence
     \/ a = "ESCALATE_TO_HUMAN"

\* Deviation: WAIT is exempt from the attempt cap of every case.
AnalysisContextExempt(f) ==
  [exempt |-> TRUE, downtime |-> Category(f) = "PAYMENT_RAIL_DOWNTIME",
   inFlight |-> {}, auto |-> FALSE]

\* The question of compute_analysis: actions in flight are not looked at.
AnalysisContext(f) ==
  [exempt |-> ProviderRetriesActive(f), downtime |-> Category(f) = "PAYMENT_RAIL_DOWNTIME",
   inFlight |-> {}, auto |-> FALSE]

\* The question of the executor: the provider's retries and the rail are not looked at.
ExecutionContext(linkInFlight) ==
  [exempt |-> FALSE, downtime |-> FALSE,
   inFlight |-> IF linkInFlight THEN LinkTypes ELSE {}, auto |-> TRUE]

------------------------------------------------------------------------------
(* Ranking and selection *)

\* The candidates with their numbers; ctx is the policy context they are judged in.
Evaluated(ctx, strength, prob, present, pol, atRisk, tried) ==
  [a \in DOMAIN prob |->
     LET sure == Confidence(present, prob[a], strength)
     IN  [probability |-> prob[a],
          recovered |-> Recovered(a, atRisk, prob[a]),
          value |-> ExpectedValue(a, atRisk, prob[a]),
          confidence |-> sure,
          eligible |-> Eligible(a, ctx, pol, tried),
          approval |-> RequiresApproval(a, pol, atRisk, sure)]]

Rows(f, prob, present, pol, atRisk, tried) ==
  Evaluated(AnalysisContext(f), EvidenceStrength(f), prob, present, pol, atRisk, tried)

\* Deviation: the probability is compared before the value.
BeforeByProbability(rows, a, b) ==
  \/ rows[a].eligible /\ ~rows[b].eligible
  \/ /\ rows[a].eligible = rows[b].eligible
     /\ \/ rows[a].probability > rows[b].probability
        \/ /\ rows[a].probability = rows[b].probability
           /\ Priority[a] < Priority[b]

\* _rank_sort_key: candidate a sorts before candidate b.
Before(rows, a, b) ==
  \/ rows[a].eligible /\ ~rows[b].eligible
  \/ /\ rows[a].eligible = rows[b].eligible
     /\ \/ rows[a].value > rows[b].value
        \/ /\ rows[a].value = rows[b].value
           /\ \/ rows[a].probability > rows[b].probability
              \/ /\ rows[a].probability = rows[b].probability
                 /\ \/ Burden[a] < Burden[b]
                    \/ Burden[a] = Burden[b] /\ Priority[a] < Priority[b]

\* rank_candidates: the place of every candidate in the sorted list.
Ranking(rows) ==
  [a \in DOMAIN rows |-> 1 + Cardinality({b \in DOMAIN rows : Before(rows, b, a)})]

Viable(rows) ==
  {a \in DOMAIN rows : /\ rows[a].eligible
                       /\ a \in Executable \ {"STOP"}
                       /\ rows[a].value > 0}

\* select_recommendation on the candidates as rank_candidates has sorted them.
SelectInOrder(rows) ==
  IF Viable(rows) = {} THEN "STOP"
  ELSE CHOOSE a \in Viable(rows) : \A b \in Viable(rows) : b = a \/ Before(rows, a, b)

\* Deviation: the first rank is "the selected one", whether or not it can be executed.
SelectTopRanked(rows, rank) ==
  CHOOSE a \in DOMAIN rows : \A b \in DOMAIN rows : rank[a] <= rank[b]

\* select_candidate_row: select_recommendation on stored rows sorted by their rank.
SelectByRank(rows, rank) ==
  IF Viable(rows) = {} THEN "STOP"
  ELSE CHOOSE a \in Viable(rows) : \A b \in Viable(rows) : rank[a] <= rank[b]

------------------------------------------------------------------------------
(* One analysis *)

\* Scores of the model; STOP is never asked of it.
ModelScores(f, excluded) ==
  {prob \in [Candidates(f, excluded) -> Probabilities \cup {0}] :
     \A a \in DOMAIN prob : IF a = "STOP" THEN prob[a] = 0 ELSE prob[a] \in Probabilities}

\* Scores when the model cannot answer; a missing entry is an uncaught KeyError.
FallbackScores(f, excluded) ==
  LET table == FallbackTable[Scenario(f)]
      actions == Candidates(f, excluded)
  IN  {prob \in {[a \in actions |-> IF a \in DOMAIN table THEN table[a] ELSE 0]} :
         actions \ {"STOP"} \subseteq DOMAIN table}

Clamp(n, high) == IF n < 0 THEN 0 ELSE IF n > high THEN high ELSE n

(***************************************************************************)
(* calculate_priority_score: the value against the merchant's approval     *)
(* limit (in whole percents here), urgency, customer value and confidence, *)
(* weighted 50/20/15/15.                                                   *)
(***************************************************************************)
PriorityScore(row, b, pol) ==
  LET scale == IF pol.limit > 0 THEN pol.limit ELSE 1
  IN  50 * RoundHalfUp(100 * Clamp(row.value, scale), scale)
        + 20 * b.urgency + 15 * b.worth + RoundHalfUp(3 * row.confidence, 8)

\* The columns of recovery_cases that repeat a row of the current run.
SummaryOf(row, b, pol) ==
  [probability |-> row.probability, recovered |-> row.recovered,
   priority |-> PriorityScore(row, b, pol)]

\* compute_analysis: the rows and the summary that persist_analysis_run writes.
Analysis(f, b, prob, pol, atRisk, tried) ==
  LET rows == Rows(f, prob, Present(f, b), pol, atRisk, tried)
  IN  [facts |-> f,
       background |-> b,
       rows |-> rows,
       rank |-> Ranking(rows),
       summary |-> SummaryOf(rows[SelectInOrder(rows)], b, pol)]

NoRun == [rows |-> [a \in {} |-> 0]]

------------------------------------------------------------------------------
(* The simulator (services/simulator.py) *)

(***************************************************************************)
(* The request whose scenario is that of a case with these facts.  The     *)
(* failure's evidence is not part of a request, only its category is.      *)
(***************************************************************************)
EquivalentRequest(f, method) ==
  [category |-> Category(f), kind |-> f.kind, status |-> f.status,
   retries |-> ProviderRetriesActive(f), degraded |-> Category(f) = "PAYMENT_RAIL_DOWNTIME",
   method |-> method]

\* Deviation: the provider's retries are not carried over from the request.
SimulatedContextWithoutRetries(q) ==
  [category |-> q.category, kind |-> q.kind,
   status |-> IF q.kind = "SUBSCRIPTION_FAILURE" THEN q.status ELSE "none",
   retries |-> FALSE, downtime |-> q.degraded]

\* _candidate_context: subscription state is dropped for a payment.
SimulatedContext(q) ==
  [category |-> q.category, kind |-> q.kind,
   status |-> IF q.kind = "SUBSCRIPTION_FAILURE" THEN q.status ELSE "none",
   retries |-> q.kind = "SUBSCRIPTION_FAILURE" /\ q.retries, downtime |-> q.degraded]

\* Not the strengths of the live normalizer.
SimulatedStrength(q) ==
  IF q.category = "UNKNOWN" THEN 30 ELSE IF q.method = "unknown" THEN 60 ELSE 90

\* simulate: features counted complete, and no answer unless the model scores every candidate.
Simulated(q, prob, pol, atRisk, tried) ==
  LET ctx == SimulatedContext(q)
  IN  Evaluated([exempt |-> ctx.retries, downtime |-> q.degraded, inFlight |-> {}, auto |-> FALSE],
             SimulatedStrength(q), prob, ImportantFeatures, pol, atRisk, tried)

\* The amounts that a request may name.
SimulatedAmounts == 100..10000000

------------------------------------------------------------------------------
(* The case *)

VARIABLES
  policy,     \* merchant_policies: no request changes it
  amount,     \* recovery_cases.amount_at_risk_minor
  kind,       \* recovery_cases.case_type
  stage,      \* "open": an analysis may run; "recommended"; "approval"; "closed"
  run,        \* the rows of the current run, while anything still reads them
  attempts,   \* recovery_actions rows of the case
  inFlight    \* an unresolved payment link action exists

vars == <<policy, amount, kind, stage, run, attempts, inFlight>>

Init ==
  /\ policy \in Policies
  /\ amount \in Amounts
  /\ kind \in {"PAYMENT_FAILURE", "SUBSCRIPTION_FAILURE"}
  /\ stage = "open"
  /\ run = NoRun
  /\ attempts = 0
  /\ inFlight = FALSE

\* An analysis reads the evidence there is now, and commits its run.
Analyze(excluded) ==
  /\ \E f \in Facts, b \in Backgrounds :
       /\ f.kind = kind
       /\ f.degraded => b.lookup = "answered"
       /\ \E prob \in ModelScores(f, excluded) \cup FallbackScores(f, excluded) :
            run' = Analysis(f, b, prob, policy, amount, attempts)
  /\ stage' = "recommended"
  /\ UNCHANGED <<policy, amount, kind, attempts>>

RunAnalysis ==
  /\ stage = "open"
  /\ Analyze({})
  /\ UNCHANGED inFlight

\* select_candidate_row: what the executor and the case detail read back.
Selected == SelectByRank(run.rows, run.rank)

\* create_case_action gets past its checks; otherwise it answers an error and changes nothing.
Accepted(a) ==
  /\ stage = "recommended"
  /\ a = Selected
  /\ Eligible(a, ExecutionContext(inFlight), policy, attempts)

Gated(a) == RequiresApproval(a, policy, amount, run.rows[a].confidence)

ExecuteStop ==
  /\ Accepted("STOP")
  /\ stage' = "closed"
  /\ run' = NoRun
  /\ UNCHANGED <<policy, amount, kind, attempts, inFlight>>

\* The case is SCHEDULED; the next analysis is the re-evaluation.
ExecuteWait ==
  /\ Accepted("WAIT")
  /\ stage' = "open"
  /\ run' = NoRun
  /\ attempts' = attempts + 1
  /\ UNCHANGED <<policy, amount, kind, inFlight>>

\* A pending link action counts as in flight.
StageForApproval ==
  /\ \E a \in ActionTypes \ {"STOP", "WAIT"} :
       /\ Accepted(a)
       /\ Gated(a)
       /\ inFlight' = (inFlight \/ a \in LinkTypes)
  /\ stage' = "approval"
  /\ attempts' = attempts + 1
  /\ UNCHANGED <<policy, amount, kind, run>>

\* The call is answered (and the next analysis follows bad news) or stays unknown.
ExecuteLink ==
  /\ \E a \in LinkTypes : Accepted(a) /\ ~Gated(a)
  /\ stage' = "open"
  /\ run' = NoRun
  /\ attempts' = attempts + 1
  /\ inFlight' \in BOOLEAN
  /\ UNCHANGED <<policy, amount, kind>>

ApproveLink ==
  /\ stage = "approval"
  /\ Selected \in LinkTypes
  /\ stage' = "open"
  /\ run' = NoRun
  /\ inFlight' \in BOOLEAN
  /\ UNCHANGED <<policy, amount, kind, attempts>>

\* A link in flight blocks the approval of an escalation too.
ApproveEscalation ==
  /\ stage = "approval"
  /\ Selected = "ESCALATE_TO_HUMAN"
  /\ ~inFlight
  /\ stage' = "closed"
  /\ run' = NoRun
  /\ UNCHANGED <<policy, amount, kind, attempts, inFlight>>

RejectAndStop ==
  /\ stage = "approval"
  /\ stage' = "closed"
  /\ run' = NoRun
  /\ inFlight' = (inFlight /\ Selected \notin LinkTypes)
  /\ UNCHANGED <<policy, amount, kind, attempts>>

\* reject_action with reanalyze: the rejected type is left out of this run only.
RejectAndReanalyze ==
  /\ stage = "approval"
  /\ Analyze({Selected})
  /\ inFlight' = (inFlight /\ Selected \notin LinkTypes)

\* External: a webhook or a reconciliation resolves the link.
LinkSettles ==
  /\ inFlight
  /\ stage = "approval" => Selected \notin LinkTypes
  /\ inFlight' = FALSE
  /\ UNCHANGED <<policy, amount, kind, stage, run, attempts>>

Next ==
  \/ RunAnalysis
  \/ ExecuteStop
  \/ ExecuteWait
  \/ StageForApproval
  \/ ExecuteLink
  \/ ApproveLink
  \/ ApproveEscalation
  \/ RejectAndStop
  \/ RejectAndReanalyze
  \/ LinkSettles

Spec == Init /\ [][Next]_vars

------------------------------------------------------------------------------
(* Properties *)

Stages == {"open", "recommended", "approval", "closed"}

Decided == stage \in {"recommended", "approval"}

RowRecords ==
  [probability : Percent, recovered : Nat, value : Int, confidence : 0..4000,
   eligible : BOOLEAN, approval : BOOLEAN]

\* Every column has its type and its range: confidence and probability never leave [0, 1].
TypeOK ==
  /\ policy \in Policies
  /\ amount \in Amounts
  /\ kind \in {"PAYMENT_FAILURE", "SUBSCRIPTION_FAILURE"}
  /\ stage \in Stages
  /\ attempts \in Nat
  /\ inFlight \in BOOLEAN
  /\ Decided =>
       /\ run.facts \in Facts
       /\ run.background \in Backgrounds
       /\ "STOP" \in DOMAIN run.rows
       /\ DOMAIN run.rows \subseteq ActionTypes
       /\ \A a \in DOMAIN run.rows : run.rows[a] \in RowRecords
       /\ run.rank \in [DOMAIN run.rows -> Nat \ {0}]

\* What an operator may be offered: allowed, done by RevLoop itself, worth more than nothing.
Offerable(rows) ==
  {a \in Executable \cap DOMAIN rows : a # "STOP" /\ rows[a].eligible /\ rows[a].value > 0}

(***************************************************************************)
(* The offered action has the highest value of those RevLoop may and can   *)
(* execute, and the higher probability among equals; STOP is offered only  *)
(* when none of them is worth more than nothing (ranking.py,               *)
(* docs/RECOVERY_ENGINE.md section 11).  The statement does not use ranks. *)
(***************************************************************************)
ChoiceIsBest ==
  Decided =>
    LET rows == run.rows IN
      IF Selected = "STOP" THEN Offerable(rows) = {}
      ELSE /\ Selected \in Offerable(rows)
           /\ \A a \in Offerable(rows) :
                \/ rows[a].value < rows[Selected].value
                \/ /\ rows[a].value = rows[Selected].value
                   /\ rows[a].probability <= rows[Selected].probability

(***************************************************************************)
(* The case summary, written from the list the analysis sorted, shows the  *)
(* numbers and sorts by the value and the confidence of the row that the   *)
(* executor later selects by the rank column (selection.py: write and read *)
(* paths once came to disagree).                                           *)
(***************************************************************************)
SummaryShowsSelected ==
  Decided => run.summary = SummaryOf(run.rows[Selected], run.background, policy)

(***************************************************************************)
(* The fallback table has a probability for every candidate of every       *)
(* failure of this kind of case, also after a rejection: an analysis       *)
(* always ends with a recommendation when the model cannot score           *)
(* (ml/fallback.py get_fallback_probability raises KeyError otherwise).    *)
(***************************************************************************)
FallbackCoversCandidates ==
  \A f \in Facts : f.kind = kind =>
    \A excluded \in {{}} \cup {{a} : a \in LinkTypes \cup {"ESCALATE_TO_HUMAN"}} :
      FallbackScores(f, excluded) # {}

(***************************************************************************)
(* The simulator considers the actions that the analysis considers for the *)
(* same scenario and, given the same probabilities, values, blocks and     *)
(* selects them alike, although it derives context and evidence strength   *)
(* from other fields (simulator.py: "not a second engine").  Whether an    *)
(* approval is needed is left out: it rests on the strength.               *)
(***************************************************************************)
SimulatorAgrees ==
  (/\ stage = "recommended"
   /\ DOMAIN run.rows = Candidates(run.facts, {})
   /\ amount \in SimulatedAmounts) =>
     \A method \in {"known", "unknown"} :
       LET q == EquivalentRequest(run.facts, method)
           prob == [a \in DOMAIN run.rows |-> run.rows[a].probability]
           rows == Simulated(q, prob, policy, amount, attempts)
       IN  /\ Generated(SimulatedContext(q)) = DOMAIN run.rows
           /\ \A a \in DOMAIN rows : /\ rows[a].value = run.rows[a].value
                                    /\ rows[a].eligible = run.rows[a].eligible
           /\ SelectInOrder(rows) = Selected

(***************************************************************************)
(* The recommendation is one that RecoveryWorkflow's Selectable allows:    *)
(* executable, an escalation always gated, and at the attempt cap only     *)
(* STOP or the WAIT that the provider's own retries exempt.                *)
(***************************************************************************)
RecommendationIsSelectable ==
  stage = "recommended" =>
    /\ Selected \in Executable
    /\ Selected = "ESCALATE_TO_HUMAN" => Gated(Selected)
    /\ attempts >= policy.maxAttempts =>
         \/ Selected = "STOP"
         \/ Selected = "WAIT" /\ ProviderRetriesActive(run.facts)

(***************************************************************************)
(* The executor asks the policy again.  It refuses what the analysis has   *)
(* selected for three causes only: the merchant has automation off, a link *)
(* of the case is unresolved, or a WAIT exempt from the attempt cap at     *)
(* analysis is counted at execution (policy_context.py).                   *)
(***************************************************************************)
RefusalHasCause ==
  (stage = "recommended" /\ ~Accepted(Selected)) =>
    \/ ~policy.automation
    \/ inFlight /\ Selected \in LinkTypes
    \/ /\ Selected = "WAIT"
       /\ ProviderRetriesActive(run.facts)
       /\ attempts >= policy.maxAttempts

=============================================================================
