--------------------------- MODULE RecoveryWorkflow ---------------------------
(***************************************************************************)
(* One recovery case driven by concurrent API requests and by the payment  *)
(* webhooks: analysis (workflows/recovery.py), actions                     *)
(* (actions/service.py), resolution (services/provider_events.py), all on  *)
(* top of the optimistic state machine (workflows/state_machine.py).       *)
(*                                                                         *)
(* A step of a request is what it does between two points where another    *)
(* request can be seen to run: a commit, an unlocked read whose value is   *)
(* used later, a provider call.  A section that runs under SELECT ... FOR  *)
(* UPDATE up to its commit is one step; the row lock is a variable because *)
(* some requests keep it longer.  A read of the case followed by the       *)
(* version-checked UPDATE is one step too: when the check succeeds         *)
(* nothing moved in between, when it fails nothing is                      *)
(* written.  Where the version comes from an earlier step (approval,       *)
(* webhook) it is carried explicitly.                                      *)
(*                                                                         *)
(* A request that ends without a commit keeps its row lock until the event *)
(* loop closes its session, and the webhook handler is a coroutine that    *)
(* occupies that loop while it waits for the database.                     *)
(***************************************************************************)
EXTENDS Naturals, FiniteSets, StateMachine

CONSTANTS
  Requests,           \* request-handling threads of the API process
  None,               \* a value that is neither a request nor a payment
  Offered,            \* intervention types the analysis may select
  MaxAttempts,        \* merchant policy: max_recovery_attempts
  ProviderRetries,    \* the subscription is pending: Razorpay itself retries
  RepeatClicks,       \* an action may be requested again while its call runs
  MaxRuns,            \* bound: analysis runs per case
  MaxCrashes          \* bound: requests, webhooks or processes that die half way

InterventionTypes ==
  {"WAIT", "REQUEST_ALTERNATE_PAYMENT_METHOD", "CREATE_PAYMENT_LINK", "ESCALATE_TO_HUMAN"}

ASSUME ConstantsAssumption ==
  /\ None \notin Requests /\ None \notin Nat
  /\ Offered \subseteq InterventionTypes
  /\ MaxAttempts \in Nat
  /\ ProviderRetries \in BOOLEAN
  /\ RepeatClicks \in BOOLEAN
  /\ MaxRuns \in Nat
  /\ MaxCrashes \in Nat

(***************************************************************************)
(* Types the executor performs by creating a Razorpay Payment Link.        *)
(***************************************************************************)
LinkTypes == {"CREATE_PAYMENT_LINK", "REQUEST_ALTERNATE_PAYMENT_METHOD"}

ActionIds == 1..MaxAttempts        \* the attempt_number of a row
RunIds == 1..MaxRuns
Payments == 0..MaxAttempts         \* 0: the original payment, a: link of action a

ActionStatuses ==
  {"ABSENT", "PENDING_APPROVAL", "SCHEDULED", "EXECUTING", "SUCCEEDED",
   "FAILED", "UNKNOWN", "CANCELLED"}

Actions ==
  [type : InterventionTypes, status : ActionStatuses, run : 0..MaxRuns, approved : BOOLEAN]

AbsentAction ==
  [type |-> "WAIT", status |-> "ABSENT", run |-> 0, approved |-> FALSE]

Recommendations == [type : InterventionTypes \cup {"STOP"}, gated : BOOLEAN]

NoRecommendation == [type |-> "STOP", gated |-> FALSE]

Steps ==
  {"idle", "analyzing", "analyzed", "reconciling", "approving", "rejecting",
   "posting", "answered", "escalating", "settling", "returning"}

Jobs ==
  [at : Steps, act : 0..MaxAttempts, run : 0..MaxRuns, ver : Nat,
   excluded : InterventionTypes \cup {"NONE"},
   answer : {"NONE", "SUCCEEDED", "UNKNOWN", "FAILED"},
   event : {"NONE", "ACTION_ACCEPTED_OR_UNKNOWN", "ACTION_FAILED_REANALYZE",
            "TERMINAL_ACTION_FAILURE"}]

Idle ==
  [at |-> "idle", act |-> 0, run |-> 0, ver |-> 0, excluded |-> "NONE",
   answer |-> "NONE", event |-> "NONE"]

\* "sent": verified money waits for its webhook; "sent_mismatch": other money.
PaymentStates == {"unpaid", "sent", "sent_mismatch", "processed", "ignored", "flagged"}

Hooks ==
  [at : {"idle", "read", "resolved"}, pay : Payments, ver : Nat, seen : CaseStatuses]

IdleHook == [at |-> "idle", pay |-> 0, ver |-> 0, seen |-> "DETECTED"]

VARIABLES
  status,      \* recovery_cases.status
  version,     \* recovery_cases.version
  run,         \* recovery_cases.current_analysis_run_id, 0 when null
  outcome,     \* payment of the recovery_outcomes row, None when there is none
  recs,        \* selected candidate of each persisted analysis run
  runs,        \* analysis run ids drawn so far
  acts,        \* recovery_actions rows by attempt_number
  attempts,    \* number of recovery_actions rows
  posts,       \* create-link calls the provider received, per action
  links,       \* actions whose link exists at the provider
  money,       \* state of each payment and of its webhook event
  job,         \* what each request thread is doing
  lock,        \* request that keeps the case row locked between two steps
  hook,        \* the webhook the event loop is handling
  crashes      \* requests lost so far

caseRow == <<status, version>>
analysis == <<run, recs, runs>>
actionRows == <<acts, attempts>>
provider == <<posts, links>>
vars == <<status, version, run, outcome, recs, runs, acts, attempts, posts,
          links, money, job, lock, hook, crashes>>

Init ==
  /\ status = "DETECTED"
  /\ version = 1
  /\ run = 0
  /\ outcome = None
  /\ recs = [r \in RunIds |-> NoRecommendation]
  /\ runs = 0
  /\ acts = [a \in ActionIds |-> AbsentAction]
  /\ attempts = 0
  /\ posts = [a \in ActionIds |-> 0]
  /\ links = {}
  /\ money = [m \in Payments |-> "unpaid"]
  /\ job = [p \in Requests |-> Idle]
  /\ lock = None
  /\ hook = IdleHook
  /\ crashes = 0

------------------------------------------------------------------------------
(* The state machine *)

Allowed(event) == \E target \in CaseStatuses : <<status, event, target>> \in TransitionRegistry

\* Deviation: the UPDATE forgets the version.
TransitionCaseSameVersion(event, expected) ==
  /\ version = expected
  /\ \E target \in CaseStatuses :
       /\ <<status, event, target>> \in TransitionRegistry
       /\ status' = target
       /\ UNCHANGED version

(***************************************************************************)
(* transition_case: the registry entry, the version-checked UPDATE and the *)
(* commit.  RECOVERED needs the outcome row that the same transaction has  *)
(* inserted.                                                               *)
(***************************************************************************)
TransitionCase(event, expected) ==
  /\ version = expected
  /\ status \notin TerminalStatuses
  /\ \E target \in CaseStatuses :
       /\ <<status, event, target>> \in TransitionRegistry
       /\ target = "RECOVERED" => outcome' # None
       /\ status' = target
       /\ version' = version + 1

Begin(p, step) == job[p].at = "idle" /\ job' = [job EXCEPT ![p] = step]
Finish(p) == job' = [job EXCEPT ![p] = Idle]

\* The handler has returned; the session is still open and holds the row lock.
Returning == [Idle EXCEPT !.at = "returning"]

\* Nobody keeps the case row locked: an UPDATE or FOR UPDATE of it can proceed.
RowFree == lock = None

Blocking ==
  {a \in ActionIds : /\ acts[a].type \in LinkTypes
                     /\ acts[a].status \in {"PENDING_APPROVAL", "EXECUTING", "UNKNOWN"}}

Executing == {a \in ActionIds : acts[a].status = "EXECUTING"}

------------------------------------------------------------------------------
(* Analysis *)

\* map_analysis_reason_to_event: the only statuses an analysis can start from.
AnalysisEntry == {<<"DETECTED", "ANALYSIS_REQUESTED">>,
                  <<"SCHEDULED", "REEVALUATION_DUE">>,
                  <<"WAITING_FOR_OUTCOME", "NEGATIVE_OUTCOME_OR_TIMEOUT">>}

(***************************************************************************)
(* What select_recommendation can return: attempt-capped interventions are *)
(* not eligible (WAIT is exempt while the provider retries), ESCALATE      *)
(* always needs approval, and STOP is the fallback.  Amount and confidence *)
(* decide "gated" for the others.  Actions in flight are not looked at.    *)
(***************************************************************************)
Selectable(excluded) ==
  {r \in Recommendations :
     /\ r.type \in (Offered \cup {"STOP"}) \ {excluded}
     /\ r.type = "ESCALATE_TO_HUMAN" => r.gated
     /\ r.type \in {"STOP", "WAIT"} => ~r.gated
     /\ attempts >= MaxAttempts =>
          r.type = "STOP" \/ (r.type = "WAIT" /\ ProviderRetries)}

\* Deviation: the analysis starts from any status, without the entry transition.
AnalyzeStartUnguarded(p) ==
  /\ RowFree
  /\ runs < MaxRuns
  /\ runs' = runs + 1
  /\ Begin(p, [Idle EXCEPT !.at = "analyzing", !.run = runs + 1])
  /\ UNCHANGED <<caseRow, run, recs, outcome, actionRows, provider, money, lock, hook, crashes>>

\* analyze_recovery_case up to the commit of the entry transition.
AnalyzeStart(p) ==
  /\ RowFree
  /\ runs < MaxRuns
  /\ \E entry \in AnalysisEntry : entry[1] = status /\ TransitionCase(entry[2], version)
  /\ runs' = runs + 1
  /\ Begin(p, [Idle EXCEPT !.at = "analyzing", !.run = runs + 1])
  /\ UNCHANGED <<run, recs, outcome, actionRows, provider, money, lock, hook, crashes>>

\* compute_analysis and persist_analysis: the case row is updated unconditionally.
AnalyzePersist(p) ==
  /\ job[p].at = "analyzing"
  /\ RowFree
  /\ \E r \in Selectable(job[p].excluded) : recs' = [recs EXCEPT ![job[p].run] = r]
  /\ run' = job[p].run
  /\ job' = [job EXCEPT ![p].at = "analyzed"]
  /\ UNCHANGED <<caseRow, runs, outcome, actionRows, provider, money, lock, hook, crashes>>

\* A payment may have resolved the case meanwhile: then the transition raises.
AnalyzeComplete(p) ==
  /\ job[p].at = "analyzed"
  /\ RowFree
  /\ \/ TransitionCase("ANALYSIS_COMPLETED", version)
     \/ ~Allowed("ANALYSIS_COMPLETED") /\ UNCHANGED caseRow
  /\ Finish(p)
  /\ UNCHANGED <<analysis, outcome, actionRows, provider, money, lock, hook, crashes>>

\* finalize_terminal_analysis_failure: insufficient data or no model.
AnalyzeFail(p) ==
  /\ job[p].at = "analyzing"
  /\ RowFree
  /\ \/ TransitionCase("ANALYSIS_TERMINAL_FAILURE", version)
     \/ ~Allowed("ANALYSIS_TERMINAL_FAILURE") /\ UNCHANGED caseRow
  /\ Finish(p)
  /\ UNCHANGED <<analysis, outcome, actionRows, provider, money, lock, hook, crashes>>

------------------------------------------------------------------------------
(* Creating an action *)

\* The row with the idempotency key of the current recommendation, if any.
ExistingFor(r) == {a \in ActionIds : acts[a].status # "ABSENT" /\ acts[a].run = r}

\* Deviation: the limit itself is still allowed.
PolicyEligibleOneMore(type) ==
  \/ type = "STOP"
  \/ attempts <= MaxAttempts /\ (type \in LinkTypes => Blocking = {})

\* Deviation: links in flight are not looked at.
PolicyEligibleInFlight(type) == type = "STOP" \/ attempts < MaxAttempts

(***************************************************************************)
(* evaluate_policy as the executor asks it.  Unlike the analysis it counts *)
(* a WAIT against the cap even while the provider retries, and blocks link *)
(* types while one is in flight.                                           *)
(***************************************************************************)
PolicyEligible(type) ==
  \/ type = "STOP"
  \/ /\ attempts < MaxAttempts
     /\ type \in LinkTypes => Blocking = {}

(***************************************************************************)
(* create_case_action up to its branch: the current recommendation has no  *)
(* action yet, the case is RECOMMENDED and the policy agrees.  Looking up  *)
(* the blocking action raises when there is more than one.                 *)
(***************************************************************************)
Creatable(p, type) ==
  /\ job[p].at = "idle"
  /\ RowFree
  /\ run # 0
  /\ recs[run].type = type
  /\ ExistingFor(run) = {}
  /\ status = "RECOMMENDED"
  /\ Cardinality(Blocking) <= 1
  /\ PolicyEligible(type)

\* _create_action_row with attempt_number = next_attempt_number.
InsertAction(type, state) ==
  /\ attempts' = attempts + 1
  /\ acts' = [acts EXCEPT ![attempts + 1] =
                [type |-> type, status |-> state, run |-> run, approved |-> FALSE]]

\* _execute_stop: no action row is written.
CreateStop(p) ==
  /\ Creatable(p, "STOP")
  /\ TransitionCase("STOP_SELECTED", version)
  /\ UNCHANGED <<analysis, outcome, actionRows, provider, money, job, lock, hook, crashes>>

CreateWait(p) ==
  /\ Creatable(p, "WAIT")
  /\ InsertAction("WAIT", "SCHEDULED")
  /\ TransitionCase("ACTION_SCHEDULED", version)
  /\ UNCHANGED <<analysis, outcome, provider, money, job, lock, hook, crashes>>

\* Deviation: the row is given the name of the case's status.
StageForApprovalCaseName(p) ==
  /\ \E type \in InterventionTypes \ {"WAIT"} :
       /\ Creatable(p, type)
       /\ recs[run].gated
       /\ InsertAction(type, "AWAITING_APPROVAL")
  /\ TransitionCase("APPROVAL_REQUIRED", version)
  /\ UNCHANGED <<analysis, outcome, provider, money, job, lock, hook, crashes>>

StageForApproval(p) ==
  /\ \E type \in InterventionTypes \ {"WAIT"} :
       /\ Creatable(p, type)
       /\ recs[run].gated
       /\ InsertAction(type, "PENDING_APPROVAL")
  /\ TransitionCase("APPROVAL_REQUIRED", version)
  /\ UNCHANGED <<analysis, outcome, provider, money, job, lock, hook, crashes>>

\* The intent is committed before the provider is called.
ExecuteNow(p) ==
  /\ \E type \in LinkTypes :
       /\ Creatable(p, type)
       /\ ~recs[run].gated
       /\ Executing = {}                  \* uq_recovery_actions_one_executing
       /\ InsertAction(type, "EXECUTING")
  /\ TransitionCase("AUTO_EXECUTE", version)
  /\ Begin(p, [Idle EXCEPT !.at = "posting", !.act = attempts + 1])
  /\ UNCHANGED <<analysis, outcome, provider, money, lock, hook, crashes>>

------------------------------------------------------------------------------
(* The provider call and what is made of its answer *)

\* The request reached Razorpay and its answer reached the client.
PostAccepted(p) ==
  /\ job[p].at = "posting"
  /\ posts' = [posts EXCEPT ![job[p].act] = @ + 1]
  /\ links' = links \cup {job[p].act}
  /\ job' = [job EXCEPT ![p].at = "answered", ![p].answer = "SUCCEEDED"]
  /\ UNCHANGED <<caseRow, analysis, outcome, actionRows, money, lock, hook, crashes>>

\* Deviation: a timeout is taken for a failure.
PostUnknownAsFailed(p) ==
  /\ job[p].at = "posting"
  /\ posts' = [posts EXCEPT ![job[p].act] = @ + 1]
  /\ links' \in {links, links \cup {job[p].act}}
  /\ job' = [job EXCEPT ![p].at = "answered", ![p].answer = "FAILED"]
  /\ UNCHANGED <<caseRow, analysis, outcome, actionRows, money, lock, hook, crashes>>

\* Timeout, 5xx, rate limit or malformed answer: the link may exist or not.
\* Without configured credentials the call is not even sent.
PostUnknown(p) ==
  /\ job[p].at = "posting"
  /\ \/ UNCHANGED provider
     \/ /\ posts' = [posts EXCEPT ![job[p].act] = @ + 1]
        /\ links' \in {links, links \cup {job[p].act}}
  /\ job' = [job EXCEPT ![p].at = "answered", ![p].answer = "UNKNOWN"]
  /\ UNCHANGED <<caseRow, analysis, outcome, actionRows, money, lock, hook, crashes>>

\* Authentication and validation errors are definitive: no link was created.
PostRefused(p) ==
  /\ job[p].at = "posting"
  /\ posts' = [posts EXCEPT ![job[p].act] = @ + 1]
  /\ job' = [job EXCEPT ![p].at = "answered", ![p].answer = "FAILED"]
  /\ UNCHANGED <<caseRow, analysis, outcome, actionRows, links, money, lock, hook, crashes>>

(***************************************************************************)
(* _persist_provider_success, _mark_provider_unknown, _mark_provider_failed*)
(* up to their first commit: the row takes the answer whatever its status  *)
(* has become, and the transition to attempt next is chosen.  A validation *)
(* error is reanalysed only below the attempt cap, an authentication error *)
(* always.                                                                 *)
(***************************************************************************)
FollowUps(answer) ==
  IF answer # "FAILED" THEN {"ACTION_ACCEPTED_OR_UNKNOWN"}
  ELSE {"ACTION_FAILED_REANALYZE"} \cup
       (IF attempts < MaxAttempts THEN {} ELSE {"TERMINAL_ACTION_FAILURE"})

RecordAnswer(p) ==
  /\ job[p].at = "answered"
  /\ acts' = [acts EXCEPT ![job[p].act].status = job[p].answer]
  /\ \E event \in FollowUps(job[p].answer) :
       job' = [job EXCEPT ![p].at = "settling", ![p].event = event]
  /\ UNCHANGED <<caseRow, analysis, outcome, attempts, provider, money, lock, hook, crashes>>

\* Deviation: after an ambiguous answer the case is left where it was.
SettleKnownOnly(p) ==
  /\ job[p].at = "settling"
  /\ RowFree
  /\ \/ /\ status = "EXECUTING" /\ job[p].answer # "UNKNOWN"
        /\ TransitionCase(job[p].event, version)
     \/ (status # "EXECUTING" \/ job[p].answer = "UNKNOWN") /\ UNCHANGED caseRow
  /\ Finish(p)
  /\ UNCHANGED <<analysis, outcome, actionRows, provider, money, lock, hook, crashes>>

\* The second transaction: the case moves if it is still (or again) EXECUTING.
Settle(p) ==
  /\ job[p].at = "settling"
  /\ RowFree
  /\ \/ status = "EXECUTING" /\ TransitionCase(job[p].event, version)
     \/ status # "EXECUTING" /\ UNCHANGED caseRow
  /\ Finish(p)
  /\ UNCHANGED <<analysis, outcome, actionRows, provider, money, lock, hook, crashes>>

------------------------------------------------------------------------------
(* Reconciliation: a repeated click on the current recommendation *)

AtWorkOn(a) ==
  \E p \in Requests : job[p].act = a /\ job[p].at \in {"posting", "answered", "settling"}

\* create_case_action on an existing unresolved link action: keeps the row lock.
ReconcileStart(p) ==
  /\ RowFree
  /\ run # 0
  /\ \E a \in ExistingFor(run) :
       /\ acts[a].type \in LinkTypes
       /\ acts[a].status \in {"EXECUTING", "UNKNOWN"}
       /\ AtWorkOn(a) => RepeatClicks
       /\ Begin(p, [Idle EXCEPT !.at = "reconciling", !.act = a])
  /\ lock' = p
  /\ UNCHANGED <<caseRow, analysis, outcome, actionRows, provider, money, hook, crashes>>

\* _apply_reconciled_payment_link: the provider knows the reference.
ReconcileFound(p) ==
  /\ job[p].at = "reconciling"
  /\ job[p].act \in links
  /\ acts' = [acts EXCEPT ![job[p].act].status = "SUCCEEDED"]
  /\ job' = [job EXCEPT ![p].at = "settling", ![p].event = "ACTION_ACCEPTED_OR_UNKNOWN"]
  /\ lock' = None
  /\ UNCHANGED <<caseRow, analysis, outcome, attempts, provider, money, hook, crashes>>

\* Deviation: a link that is not found is given up.
ReconcileNothingFails(p) ==
  /\ job[p].at = "reconciling"
  /\ acts' = [acts EXCEPT ![job[p].act].status = "FAILED"]
  /\ job' = [job EXCEPT ![p] = Returning]
  /\ UNCHANGED <<caseRow, analysis, outcome, attempts, provider, money, lock, hook, crashes>>

\* Deviation: a link that is not found is requested again.
ReconcileNothingReposts(p) ==
  /\ job[p].at = "reconciling"
  /\ posts' = [posts EXCEPT ![job[p].act] = @ + 1]
  /\ job' = [job EXCEPT ![p] = Returning]
  /\ UNCHANGED <<caseRow, analysis, outcome, actionRows, links, money, lock, hook, crashes>>

\* Not found, or the query failed: nothing changes and nothing is committed.
ReconcileNothing(p) ==
  /\ job[p].at = "reconciling"
  /\ job' = [job EXCEPT ![p] = Returning]
  /\ UNCHANGED <<caseRow, analysis, outcome, actionRows, provider, money, lock, hook, crashes>>

------------------------------------------------------------------------------
(* Approval *)

(***************************************************************************)
(* approve_action and reject_action read the row before they lock the      *)
(* case.  The approver also sends the case version shown to them; an older *)
(* one than at this read can only be refused.                              *)
(***************************************************************************)
ApproveStart(p) ==
  /\ \E a \in ActionIds :
       /\ acts[a].status = "PENDING_APPROVAL"
       /\ Begin(p, [Idle EXCEPT !.at = "approving", !.act = a, !.ver = version])
  /\ UNCHANGED <<caseRow, analysis, outcome, actionRows, provider, money, lock, hook, crashes>>

Approvable(p) ==
  /\ status = "AWAITING_APPROVAL"
  /\ version = job[p].ver
  /\ acts[job[p].act].run = run
  /\ Blocking \subseteq {job[p].act}
  /\ Executing = {}

ApproveCommit(p) ==
  /\ job[p].at = "approving"
  /\ RowFree
  /\ Approvable(p)
  /\ acts' = [acts EXCEPT ![job[p].act].status = "EXECUTING",
                          ![job[p].act].approved = TRUE]
  /\ TransitionCase("APPROVED_NOW", job[p].ver)
  /\ job' = [job EXCEPT ![p].at =
               IF acts[job[p].act].type \in LinkTypes THEN "posting" ELSE "escalating"]
  /\ UNCHANGED <<analysis, outcome, attempts, provider, money, lock, hook, crashes>>

ApproveRefused(p) ==
  /\ job[p].at = "approving"
  /\ RowFree
  /\ ~Approvable(p)
  /\ job' = [job EXCEPT ![p] = Returning]
  /\ lock' = p
  /\ UNCHANGED <<caseRow, analysis, outcome, actionRows, provider, money, hook, crashes>>

\* _resolve_escalation up to its first commit.
Escalate(p) ==
  /\ job[p].at = "escalating"
  /\ acts' = [acts EXCEPT ![job[p].act].status = "SUCCEEDED"]
  /\ job' = [job EXCEPT ![p].at = "settling", ![p].event = "ACTION_ACCEPTED_OR_UNKNOWN"]
  /\ UNCHANGED <<caseRow, analysis, outcome, attempts, provider, money, lock, hook, crashes>>

RejectStart(p) ==
  /\ \E a \in ActionIds :
       /\ acts[a].status = "PENDING_APPROVAL"
       /\ Begin(p, [Idle EXCEPT !.at = "rejecting", !.act = a])
  /\ UNCHANGED <<caseRow, analysis, outcome, actionRows, provider, money, lock, hook, crashes>>

\* Deviation: the cancellation is committed and the transition is lost.
RejectStopHalf(p) ==
  /\ job[p].at = "rejecting"
  /\ RowFree
  /\ acts' = [acts EXCEPT ![job[p].act].status = "CANCELLED"]
  /\ Finish(p)
  /\ UNCHANGED <<caseRow, analysis, outcome, attempts, provider, money, lock, hook, crashes>>

\* The status read before the lock is not read again, and no version is asked for.
RejectStop(p) ==
  /\ job[p].at = "rejecting"
  /\ RowFree
  /\ TransitionCase("APPROVAL_REJECTED_STOP", version)
  /\ acts' = [acts EXCEPT ![job[p].act].status = "CANCELLED"]
  /\ Finish(p)
  /\ UNCHANGED <<analysis, outcome, attempts, provider, money, lock, hook, crashes>>

\* complete_immediate_reanalysis follows in the same request.
RejectReanalyze(p) ==
  /\ job[p].at = "rejecting"
  /\ RowFree
  /\ runs < MaxRuns
  /\ TransitionCase("APPROVAL_REJECTED_REANALYZE", version)
  /\ acts' = [acts EXCEPT ![job[p].act].status = "CANCELLED"]
  /\ runs' = runs + 1
  /\ job' = [job EXCEPT ![p] = [Idle EXCEPT !.at = "analyzing", !.run = runs + 1,
                                            !.excluded = acts[job[p].act].type]]
  /\ UNCHANGED <<run, recs, outcome, attempts, provider, money, lock, hook, crashes>>

RejectRefused(p) ==
  /\ job[p].at = "rejecting"
  /\ RowFree
  /\ ~Allowed("APPROVAL_REJECTED_STOP")
  /\ job' = [job EXCEPT ![p] = Returning]
  /\ lock' = p
  /\ UNCHANGED <<caseRow, analysis, outcome, actionRows, provider, money, hook, crashes>>

------------------------------------------------------------------------------
(* The end of a request *)

(***************************************************************************)
(* A create, approve or reject call that is refused after lock_case, or a  *)
(* create call that finds its action already there with nothing to         *)
(* reconcile.  Neither commits.                                            *)
(***************************************************************************)
RequestWithoutEffect(p) ==
  /\ RowFree
  /\ Begin(p, Returning)
  /\ lock' = p
  /\ UNCHANGED <<caseRow, analysis, outcome, actionRows, provider, money, hook, crashes>>

\* get_db closes the session: the event loop has to schedule it.
SessionClosed(p) ==
  /\ job[p].at = "returning"
  /\ hook.at = "idle"
  /\ Finish(p)
  /\ lock' = None
  /\ UNCHANGED <<caseRow, analysis, outcome, actionRows, provider, money, hook, crashes>>

------------------------------------------------------------------------------
(* Payments and their webhooks *)

(***************************************************************************)
(* The customer pays the original payment or a live link; Razorpay keeps   *)
(* delivering the event until it is acknowledged.  A link carries the      *)
(* amount at risk, the original payment may be captured for another one.   *)
(***************************************************************************)
CustomerPays ==
  /\ \E m \in {0} \cup links :
       /\ money[m] = "unpaid"
       /\ \E s \in {"sent"} \cup (IF m = 0 THEN {"sent_mismatch"} ELSE {}) :
            money' = [money EXCEPT ![m] = s]
  /\ UNCHANGED <<caseRow, analysis, outcome, actionRows, provider, job, lock, hook, crashes>>

\* claim_event and the read of the case; a settled event is not claimed again.
WebhookRead ==
  /\ hook.at = "idle"
  /\ \E m \in Payments :
       /\ money[m] \in {"sent", "sent_mismatch"}
       /\ hook' = [at |-> "read", pay |-> m, ver |-> version, seen |-> status]
  /\ UNCHANGED <<caseRow, analysis, outcome, actionRows, provider, money, job, lock, crashes>>

\* Deviation: a payment for a closed case is left for the next delivery.
WebhookDismissLater ==
  /\ hook.at = "read"
  /\ hook.seen \in TerminalStatuses \/ money[hook.pay] = "sent_mismatch"
  /\ hook' = IdleHook
  /\ UNCHANGED <<caseRow, analysis, outcome, actionRows, provider, money, job, lock, crashes>>

\* The case was resolved, closed or the money does not match: the case does not change.
WebhookDismiss ==
  /\ hook.at = "read"
  /\ LET m == hook.pay
         verdict == IF hook.seen = "RECOVERED" THEN "processed"
                    ELSE IF money[m] = "sent_mismatch" THEN "ignored"
                    ELSE "flagged"            \* TERMINAL_STATE_RECONCILIATION_REQUIRED
     IN /\ hook.seen \in TerminalStatuses \/ money[m] = "sent_mismatch"
        /\ verdict = "flagged" => RowFree      \* its audit row refers to the case row
        /\ money' = [money EXCEPT ![m] = verdict]
  /\ hook' = IdleHook
  /\ UNCHANGED <<caseRow, analysis, outcome, actionRows, provider, job, lock, crashes>>

\* Deviation: scheduled actions survive.
CancelledPendingOnly(act) ==
  IF act.status = "PENDING_APPROVAL" THEN [act EXCEPT !.status = "CANCELLED"] ELSE act

Cancelled(act) ==
  IF act.status \in {"PENDING_APPROVAL", "SCHEDULED"}
  THEN [act EXCEPT !.status = "CANCELLED"] ELSE act

\* Deviation: the amount is not compared with the amount at risk.
WebhookResolveAnyAmount ==
  /\ hook.at = "read"
  /\ RowFree
  /\ hook.seen \notin TerminalStatuses
  /\ outcome' = hook.pay
  /\ acts' = [a \in ActionIds |-> Cancelled(acts[a])]
  /\ TransitionCase("PAYMENT_VERIFIED", hook.ver)
  /\ hook' = [hook EXCEPT !.at = "resolved"]
  /\ UNCHANGED <<analysis, attempts, provider, money, job, lock, crashes>>

\* Outcome row, cancellations and PAYMENT_VERIFIED in one commit.
WebhookResolve ==
  /\ hook.at = "read"
  /\ RowFree
  /\ hook.seen \notin TerminalStatuses
  /\ money[hook.pay] = "sent"
  /\ outcome' = IF outcome = None THEN hook.pay ELSE outcome
  /\ acts' = [a \in ActionIds |-> Cancelled(acts[a])]
  /\ TransitionCase("PAYMENT_VERIFIED", hook.ver)
  /\ hook' = [hook EXCEPT !.at = "resolved"]
  /\ UNCHANGED <<analysis, attempts, provider, money, job, lock, crashes>>

\* Deviation: the conflict is swallowed and the event acknowledged.
WebhookStaleSwallowed ==
  /\ hook.at = "read"
  /\ RowFree
  /\ hook.seen \notin TerminalStatuses
  /\ version # hook.ver
  /\ money' = [money EXCEPT ![hook.pay] = "processed"]
  /\ hook' = IdleHook
  /\ UNCHANGED <<caseRow, analysis, outcome, actionRows, provider, job, lock, crashes>>

\* The version moved: everything is rolled back and the event is redelivered.
WebhookStale ==
  /\ hook.at = "read"
  /\ RowFree
  /\ hook.seen \notin TerminalStatuses
  /\ version # hook.ver
  /\ money[hook.pay] = "sent"
  /\ hook' = IdleHook
  /\ UNCHANGED <<caseRow, analysis, outcome, actionRows, provider, money, job, lock, crashes>>

\* mark_processed in a second transaction.
WebhookAcknowledge ==
  /\ hook.at = "resolved"
  /\ money' = [money EXCEPT ![hook.pay] = "processed"]
  /\ hook' = IdleHook
  /\ UNCHANGED <<caseRow, analysis, outcome, actionRows, provider, job, lock, crashes>>

------------------------------------------------------------------------------
(* Failures *)

\* An unexpected error ends the request: what it committed stays.
RequestDies(p) ==
  /\ job[p].at \notin {"idle", "returning"}
  /\ crashes < MaxCrashes
  /\ crashes' = crashes + 1
  /\ job' = [job EXCEPT ![p] = IF lock = p THEN Returning ELSE Idle]
  /\ UNCHANGED <<caseRow, analysis, outcome, actionRows, provider, money, lock, hook>>

\* The event is not acknowledged, so Razorpay delivers it again.
WebhookDies ==
  /\ hook.at # "idle"
  /\ crashes < MaxCrashes
  /\ crashes' = crashes + 1
  /\ hook' = IdleHook
  /\ UNCHANGED <<caseRow, analysis, outcome, actionRows, provider, money, job, lock>>

\* The only worker process is killed and restarted.
ProcessDies ==
  /\ crashes < MaxCrashes
  /\ crashes' = crashes + 1
  /\ job' = [p \in Requests |-> Idle]
  /\ lock' = None
  /\ hook' = IdleHook
  /\ UNCHANGED <<caseRow, analysis, outcome, actionRows, provider, money>>

------------------------------------------------------------------------------

\* Requests that someone has to send: the routes that create, approve, reject and analyze.
Arrival(p) ==
  \/ AnalyzeStart(p)
  \/ CreateStop(p)
  \/ CreateWait(p)
  \/ StageForApproval(p)
  \/ ExecuteNow(p)
  \/ ReconcileStart(p)
  \/ ApproveStart(p)
  \/ RejectStart(p)
  \/ RequestWithoutEffect(p)

\* What a request that is running does next.
Continue(p) ==
  \/ AnalyzePersist(p)
  \/ AnalyzeComplete(p)
  \/ AnalyzeFail(p)
  \/ PostAccepted(p)
  \/ PostUnknown(p)
  \/ PostRefused(p)
  \/ RecordAnswer(p)
  \/ Settle(p)
  \/ ReconcileFound(p)
  \/ ReconcileNothing(p)
  \/ ApproveCommit(p)
  \/ ApproveRefused(p)
  \/ Escalate(p)
  \/ RejectStop(p)
  \/ RejectReanalyze(p)
  \/ RejectRefused(p)
  \/ SessionClosed(p)

Webhook ==
  \/ WebhookRead
  \/ WebhookDismiss
  \/ WebhookResolve
  \/ WebhookStale
  \/ WebhookAcknowledge

Next ==
  \/ \E p \in Requests : Arrival(p) \/ Continue(p) \/ RequestDies(p)
  \/ CustomerPays
  \/ Webhook
  \/ WebhookDies
  \/ ProcessDies

Spec == Init /\ [][Next]_vars

(***************************************************************************)
(* A thread that runs keeps running; waiters for the row lock are served   *)
(* in turn, so a thread that can proceed again and again does.  Razorpay   *)
(* keeps redelivering.  Nobody is obliged to send a request, to pay or to  *)
(* crash.                                                                  *)
(***************************************************************************)
FairSpec ==
  /\ Spec
  /\ \A p \in Requests : SF_vars(Continue(p))
  /\ SF_vars(Webhook)

------------------------------------------------------------------------------
(* Properties *)

\* Every variable keeps the type its column or its thread gives it.
TypeOK ==
  /\ status \in CaseStatuses
  /\ version \in Nat \ {0}
  /\ run \in 0..MaxRuns
  /\ outcome \in Payments \cup {None}
  /\ recs \in [RunIds -> Recommendations]
  /\ runs \in 0..MaxRuns
  /\ acts \in [ActionIds -> Actions]
  /\ attempts \in 0..MaxAttempts
  /\ posts \in [ActionIds -> Nat]
  /\ links \subseteq ActionIds
  /\ money \in [Payments -> PaymentStates]
  /\ job \in [Requests -> Jobs]
  /\ lock \in Requests \cup {None}
  /\ hook \in Hooks
  /\ crashes \in 0..MaxCrashes

(***************************************************************************)
(* A case reads RECOVERED exactly when an outcome row exists, and that row *)
(* names a payment of the right amount that was really made; whatever      *)
(* requests race with the webhook.                                         *)
(***************************************************************************)
RecoveredIffVerified ==
  /\ (status = "RECOVERED") <=> (outcome # None)
  /\ outcome # None =>
       /\ money[outcome] \in {"sent", "processed"}
       /\ outcome # 0 => outcome \in links

(***************************************************************************)
(* Once a case is RECOVERED no action waits for approval or for its time:  *)
(* a create call cannot slip in behind the webhook's cancellation.         *)
(***************************************************************************)
RecoveredHasNothingPending ==
  status = "RECOVERED" =>
    \A a \in ActionIds : acts[a].status \notin {"PENDING_APPROVAL", "SCHEDULED"}

(***************************************************************************)
(* A case that awaits approval has a pending action of its current run to  *)
(* approve: analyses, rejections and webhooks never pull it away.          *)
(***************************************************************************)
AwaitingHasPending ==
  status = "AWAITING_APPROVAL" =>
    \E a \in ExistingFor(run) : /\ acts[a].status = "PENDING_APPROVAL"
                                /\ acts[a].type = recs[run].type

(***************************************************************************)
(* The provider is called at most once for an action, only for an action   *)
(* of a link type whose row was committed first, and only after approval   *)
(* when approval was required.                                             *)
(***************************************************************************)
ProviderCallsAuthorised ==
  \A a \in ActionIds :
    /\ posts[a] <= 1
    /\ posts[a] = 1 => /\ acts[a].type \in LinkTypes
                       /\ acts[a].status \notin {"ABSENT", "PENDING_APPROVAL", "SCHEDULED"}
                       /\ recs[acts[a].run].gated => acts[a].approved
    /\ a \in links => posts[a] = 1

(***************************************************************************)
(* The row never contradicts the provider: SUCCEEDED means the link        *)
(* exists, FAILED or still pending that it does not.  Timeouts, late       *)
(* answers and reconciliation all write the row.                           *)
(***************************************************************************)
RowAgreesWithProvider ==
  \A a \in ActionIds : acts[a].type \in LinkTypes =>
    /\ acts[a].status = "SUCCEEDED" => a \in links
    /\ acts[a].status \in {"PENDING_APPROVAL", "FAILED"} => a \notin links

(***************************************************************************)
(* The merchant's attempt limit bounds the actions of a case, whatever mix *)
(* of waits, links and escalations concurrent requests create, and though  *)
(* the analysis may still select a wait at the limit.                      *)
(***************************************************************************)
AttemptCap ==
  /\ attempts <= MaxAttempts
  /\ attempts = Cardinality({a \in ActionIds : acts[a].status # "ABSENT"})

(***************************************************************************)
(* At most one analysis runs at a time, and the case is ANALYZING under it *)
(* unless a payment has resolved it: persist_analysis, which does not      *)
(* check the case again, can therefore not replace the result of another   *)
(* analysis that overtook it.                                              *)
(***************************************************************************)
AtMostOneAnalysis ==
  LET analyzing == {p \in Requests : job[p].at \in {"analyzing", "analyzed"}}
  IN /\ Cardinality(analyzing) <= 1
     /\ analyzing # {} => status \in {"ANALYZING", "RECOVERED"}

(***************************************************************************)
(* No verified payment disappears: an event that is done with has resolved *)
(* the case, or was flagged because the case had been closed before, or    *)
(* was the original payment with another amount.                           *)
(***************************************************************************)
NoPaymentLost ==
  \A m \in Payments :
    /\ money[m] = "processed" => outcome # None
    /\ money[m] = "flagged" => status \in {"FAILED", "STOPPED"}
    /\ money[m] = "ignored" => m = 0

(***************************************************************************)
(* A second unresolved link beside another (repository.py:63-65 wants one  *)
(* at a time) comes only from an ambiguous answer to a call whose row was  *)
(* settled while it ran: cancelled by a rejection that read the row before *)
(* its approval, or reconciled by a repeated click.  No create call and no *)
(* approval opens one.                                                     *)
(***************************************************************************)
LinksOpenAlone ==
  [][\A a \in Blocking' \ Blocking :
       \/ Blocking = {}
       \/ /\ acts'[a].status = "UNKNOWN"
          /\ acts[a].status = "CANCELLED" \/ (RepeatClicks /\ acts[a].status = "SUCCEEDED")]_vars

(***************************************************************************)
(* An ambiguous provider answer stays blocking until the provider is known *)
(* to have the link, or an operator's rejection cancels the row: nothing   *)
(* else clears UNKNOWN.                                                    *)
(***************************************************************************)
UnknownIsKept ==
  [][\A a \in ActionIds :
       acts[a].status = "UNKNOWN" /\ acts'[a].status # "UNKNOWN" =>
         \/ acts'[a].status = "SUCCEEDED" /\ a \in links
         \/ acts'[a].status = "CANCELLED" /\ status = "AWAITING_APPROVAL"]_vars

\* The workflow implements the lifecycle of one case.
Lifecycle == INSTANCE CaseLifecycle WITH recovered <- (outcome # None)
LifecycleImplemented == Lifecycle!LifecycleSpec

(***************************************************************************)
(* The case as webhooks see it, in ProviderEvents: the workflow opens no   *)
(* second one, closes and recovers it at most once, and names a payment.   *)
(***************************************************************************)
CaseSeen == IF status = "RECOVERED" THEN "RECOVERED"
            ELSE IF status \in TerminalStatuses THEN "closed" ELSE "open"
BasisSeen == IF outcome = None THEN "none" ELSE IF outcome = 0 THEN "event" ELSE "link"

Seen == INSTANCE Episode WITH case <- CaseSeen, basis <- BasisSeen
EpisodeImplemented == Seen!EpisodeSpec

(***************************************************************************)
(* The event loop waits for a row lock that only the event loop can        *)
(* release: the webhook coroutine blocks on the case row while the session *)
(* of a request that returned without a commit still holds it.             *)
(***************************************************************************)
Stalled ==
  /\ hook.at = "read"
  /\ lock # None
  /\ job[lock].at = "returning"

\* A case does not stay EXECUTING while its request lives, short of that stall.
ExecutionEnds == (status = "EXECUTING") ~> (status # "EXECUTING" \/ Stalled)

\* A payment that was made is eventually settled, short of that stall.
PaymentSettled ==
  \A m \in Payments :
    (money[m] \in {"sent", "sent_mismatch"}) ~>
      (money[m] \notin {"sent", "sent_mismatch"} \/ Stalled)

=============================================================================
