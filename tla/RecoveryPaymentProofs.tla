------------------------- MODULE RecoveryPaymentProofs -------------------------
(***************************************************************************)
(* What payments do to a recovery case, for every set of requests and      *)
(* every value of the constants: the workflow implements CaseLifecycle, a  *)
(* case is RECOVERED exactly when a verified payment has resolved it, no   *)
(* payment is lost and nothing is left pending behind a payment.           *)
(***************************************************************************)
EXTENDS RecoveryWorkflowProofs

------------------------------------------------------------------------------
(* How the case row moves *)

Ordinary(event) == event # "PAYMENT_VERIFIED" /\ TransitionCase(event, version)

\* Every step leaves the case and its outcome alone, commits one ordinary
\* transition, or is the webhook that resolves the case.
CaseMoves ==
  \/ UNCHANGED <<status, version, outcome>>
  \/ (\E event : Ordinary(event)) /\ UNCHANGED outcome
  \/ WebhookResolve

\* The registry: only PAYMENT_VERIFIED leads to RECOVERED, and from every open status.
LEMMA RegistryEntry ==
  ASSUME NEW s, NEW event, NEW target, <<s, event, target>> \in TransitionRegistry
  PROVE  event \in Events /\ (target = "RECOVERED" => event = "PAYMENT_VERIFIED")
  <1>1. event \in Events
    <2>1. <<s, event, target>>[2] = event
      OBVIOUS
    <2> QED BY <2>1 DEF Events
  <1>2. CASE <<s, event, target>> \in OrdinaryTransitions
    <2>1. target # "RECOVERED"
      BY <1>2 DEF OrdinaryTransitions
    <2> QED BY <1>1, <2>1
  <1>3. CASE <<s, event, target>> \in PaymentTransitions
    BY <1>1, <1>3 DEF PaymentTransitions
  <1> QED BY <1>2, <1>3 DEF TransitionRegistry

LEMMA RegistryPayment ==
  ASSUME NEW s, NEW target, <<s, "PAYMENT_VERIFIED", target>> \in TransitionRegistry
  PROVE  target = "RECOVERED"
  <1>1. <<s, "PAYMENT_VERIFIED", target>> \notin OrdinaryTransitions
    BY DEF OrdinaryTransitions
  <1> QED BY <1>1 DEF TransitionRegistry, PaymentTransitions

\* An ordinary transition never leaves a terminal status nor enters RECOVERED.
LEMMA OrdinaryStep ==
  ASSUME NEW event, Ordinary(event)
  PROVE  /\ status \notin TerminalStatuses
         /\ status' # "RECOVERED"
         /\ status' \in CaseStatuses
         /\ version' = version + 1
         /\ event \in Events
         /\ <<status, event, status'>> \in TransitionRegistry
  BY RegistryEntry DEF Ordinary, TransitionCase

LEMMA ResolveStep ==
  ASSUME WebhookResolve
  PROVE  /\ status \notin TerminalStatuses
         /\ status' = "RECOVERED"
         /\ version' = version + 1
         /\ outcome' # None
         /\ "PAYMENT_VERIFIED" \in Events
         /\ <<status, "PAYMENT_VERIFIED", status'>> \in TransitionRegistry
  BY RegistryEntry, RegistryPayment DEF WebhookResolve, TransitionCase

LEMMA EveryStepMoves == ASSUME TypeOK, [Next]_vars PROVE CaseMoves
  <1>1. ASSUME NEW p \in Requests, Arrival(p) PROVE CaseMoves
    <2>1. CASE AnalyzeStart(p)
      BY <2>1 DEF AnalyzeStart, AnalysisEntry, CaseMoves, Ordinary
    <2>2. CASE CreateStop(p)
      BY <2>2 DEF CreateStop, CaseMoves, Ordinary
    <2>3. CASE CreateWait(p)
      BY <2>3 DEF CreateWait, CaseMoves, Ordinary
    <2>4. CASE StageForApproval(p)
      BY <2>4 DEF StageForApproval, CaseMoves, Ordinary
    <2>5. CASE ExecuteNow(p)
      BY <2>5 DEF ExecuteNow, CaseMoves, Ordinary
    <2>6. CASE ReconcileStart(p) \/ ApproveStart(p) \/ RejectStart(p) \/ RequestWithoutEffect(p)
      BY <2>6 DEF ReconcileStart, ApproveStart, RejectStart, RequestWithoutEffect, caseRow,
                  CaseMoves
    <2> QED BY <1>1, <2>1, <2>2, <2>3, <2>4, <2>5, <2>6 DEF Arrival
  <1>2. ASSUME NEW p \in Requests, Continue(p) PROVE CaseMoves
    <2>1. CASE AnalyzeComplete(p) \/ AnalyzeFail(p)
      BY <2>1 DEF AnalyzeComplete, AnalyzeFail, caseRow, CaseMoves, Ordinary
    <2>2. CASE Settle(p)
      <3>1. job[p].event # "PAYMENT_VERIFIED"
        BY DEF TypeOK, Jobs
      <3> QED BY <2>2, <3>1 DEF Settle, caseRow, CaseMoves, Ordinary
    <2>3. CASE ApproveCommit(p)
      BY <2>3 DEF ApproveCommit, Approvable, CaseMoves, Ordinary
    <2>4. CASE RejectStop(p) \/ RejectReanalyze(p)
      BY <2>4 DEF RejectStop, RejectReanalyze, CaseMoves, Ordinary
    <2>5. CASE AnalyzePersist(p) \/ PostAccepted(p) \/ PostUnknown(p) \/ PostRefused(p)
               \/ RecordAnswer(p) \/ ReconcileFound(p) \/ ReconcileNothing(p)
               \/ ApproveRefused(p) \/ Escalate(p) \/ RejectRefused(p) \/ SessionClosed(p)
      BY <2>5 DEF AnalyzePersist, PostAccepted, PostUnknown, PostRefused, RecordAnswer,
                  ReconcileFound, ReconcileNothing, ApproveRefused, Escalate, RejectRefused,
                  SessionClosed, caseRow, CaseMoves
    <2> QED BY <1>2, <2>1, <2>2, <2>3, <2>4, <2>5 DEF Continue
  <1>3. ASSUME NEW p \in Requests, RequestDies(p) PROVE CaseMoves
    BY <1>3 DEF RequestDies, caseRow, CaseMoves
  <1>4. CASE Webhook
    BY <1>4 DEF Webhook, WebhookRead, WebhookDismiss, WebhookStale, WebhookAcknowledge,
                caseRow, CaseMoves
  <1>5. CASE CustomerPays \/ WebhookDies \/ ProcessDies \/ UNCHANGED vars
    BY <1>5 DEF CustomerPays, WebhookDies, ProcessDies, caseRow, vars, CaseMoves
  <1> QED BY <1>1, <1>2, <1>3, <1>4, <1>5 DEF Next

------------------------------------------------------------------------------
(* The lifecycle *)

RecoveredIffOutcome == (status = "RECOVERED") <=> (outcome # None)

LEMMA OutcomeStep ==
  ASSUME TypeOK, RecoveredIffOutcome, [Next]_vars
  PROVE  RecoveredIffOutcome'
  <1>1. CASE UNCHANGED <<status, version, outcome>>
    BY <1>1 DEF RecoveredIffOutcome
  <1>2. CASE (\E event : Ordinary(event)) /\ UNCHANGED outcome
    BY <1>2, OrdinaryStep DEF RecoveredIffOutcome, TerminalStatuses
  <1>3. CASE WebhookResolve
    BY <1>3, ResolveStep DEF RecoveredIffOutcome
  <1> QED BY <1>1, <1>2, <1>3, EveryStepMoves DEF CaseMoves

\* The instance reads the same registry.
LEMMA SameRegistry ==
  /\ Lifecycle!CaseStatuses = CaseStatuses
  /\ Lifecycle!TransitionRegistry = TransitionRegistry
  /\ Lifecycle!Events = Events
  <1>1. /\ Lifecycle!CaseStatuses = CaseStatuses
        /\ Lifecycle!TerminalStatuses = TerminalStatuses
        /\ Lifecycle!OrdinaryTransitions = OrdinaryTransitions
    BY DEF Lifecycle!CaseStatuses, CaseStatuses, Lifecycle!TerminalStatuses, TerminalStatuses,
           Lifecycle!OrdinaryTransitions, OrdinaryTransitions
  <1>2. Lifecycle!TransitionRegistry = TransitionRegistry
    BY <1>1 DEF Lifecycle!TransitionRegistry, TransitionRegistry,
                Lifecycle!PaymentTransitions, PaymentTransitions
  <1> QED BY <1>1, <1>2 DEF Lifecycle!Events, Events

LEMMA StepImplementsLifecycle ==
  ASSUME TypeOK, RecoveredIffOutcome, RecoveredIffOutcome', [Next]_vars
  PROVE  [Lifecycle!LifecycleNext]_(Lifecycle!lifecycleVars)
  <1>1. CASE UNCHANGED <<status, version, outcome>>
    BY <1>1 DEF Lifecycle!lifecycleVars
  <1>2. CASE (\E event : Ordinary(event)) /\ UNCHANGED outcome
    <2>1. PICK event : Ordinary(event)
      BY <1>2
    <2>2. Lifecycle!Transition(event)
      BY <1>2, <2>1, OrdinaryStep, SameRegistry
         DEF Lifecycle!Transition, RecoveredIffOutcome, TerminalStatuses
    <2> QED BY <2>1, <2>2, OrdinaryStep, SameRegistry DEF Lifecycle!LifecycleNext
  <1>3. CASE WebhookResolve
    <2>1. Lifecycle!Transition("PAYMENT_VERIFIED")
      BY <1>3, ResolveStep, SameRegistry DEF Lifecycle!Transition, CaseStatuses
    <2> QED BY <1>3, <2>1, ResolveStep, SameRegistry DEF Lifecycle!LifecycleNext
  <1> QED BY <1>1, <1>2, <1>3, EveryStepMoves DEF CaseMoves

(***************************************************************************)
(* The workflow implements the lifecycle of a case: the status moves only  *)
(* along the registry, each move increments the version by one, and the    *)
(* outcome row appears in the step that makes the case RECOVERED.          *)
(***************************************************************************)
THEOREM LifecycleRefined == Spec => LifecycleImplemented
  <1>1. Init => RecoveredIffOutcome /\ Lifecycle!LifecycleInit
    BY DEF Init, RecoveredIffOutcome, Lifecycle!LifecycleInit
  <1>2. TypeOK /\ RecoveredIffOutcome /\ [Next]_vars => RecoveredIffOutcome'
    BY OutcomeStep
  <1>3. TypeOK /\ RecoveredIffOutcome /\ RecoveredIffOutcome' /\ [Next]_vars
          => [Lifecycle!LifecycleNext]_(Lifecycle!lifecycleVars)
    BY StepImplementsLifecycle
  <1> QED
    BY <1>1, <1>2, <1>3, TypeCorrect, PTL
      DEF Spec, LifecycleImplemented, Lifecycle!LifecycleSpec

------------------------------------------------------------------------------
(* Payments *)

(***************************************************************************)
(* What makes the two payment properties inductive: the outcome names a    *)
(* payment that was made, only live links and the original payment can be  *)
(* paid, and the webhook being handled still has what it read: its event   *)
(* is unsettled, and a terminal status it has seen is still there.         *)
(***************************************************************************)
PaidWhatExists ==
  \A m \in Payments :
    /\ money[m] # "unpaid" /\ m # 0 => m \in links
    /\ money[m] \in {"sent_mismatch", "ignored"} => m = 0

HookIsCurrent ==
  /\ hook.at = "read" => /\ money[hook.pay] \in {"sent", "sent_mismatch"}
                         /\ hook.seen \in TerminalStatuses => status = hook.seen
  /\ hook.at = "resolved" => outcome # None /\ money[hook.pay] = "sent"

PaymentInv == RecoveredIffVerified /\ NoPaymentLost /\ PaidWhatExists /\ HookIsCurrent

\* Terminal statuses and recorded outcomes stay.
LEMMA CaseIsMonotone ==
  ASSUME TypeOK, RecoveredIffOutcome, [Next]_vars
  PROVE  /\ status \in TerminalStatuses => UNCHANGED <<status, outcome>>
         /\ outcome # None => UNCHANGED <<status, outcome>>
         /\ ~WebhookResolve => UNCHANGED outcome
  <1>1. CASE UNCHANGED <<status, version, outcome>>
    BY <1>1
  <1>2. CASE (\E event : Ordinary(event)) /\ UNCHANGED outcome
    BY <1>2, OrdinaryStep DEF RecoveredIffOutcome, TerminalStatuses
  <1>3. CASE WebhookResolve
    BY <1>3, ResolveStep DEF RecoveredIffOutcome, TerminalStatuses
  <1> QED BY <1>1, <1>2, <1>3, EveryStepMoves DEF CaseMoves

\* Steps of requests and failures leave money alone, and links only grow.
LEMMA MoneyMoves ==
  ASSUME TypeOK, [Next]_vars
  PROVE  /\ links \subseteq links'
         /\ \/ CustomerPays \/ WebhookDismiss \/ WebhookAcknowledge
            \/ UNCHANGED money
         /\ WebhookRead \/ hook' = hook \/ hook' = IdleHook \/ WebhookResolve
  <1>1. ASSUME NEW p \in Requests, Arrival(p) PROVE UNCHANGED <<links, money, hook>>
    BY <1>1 DEF Arrival, AnalyzeStart, CreateStop, CreateWait, StageForApproval, ExecuteNow,
       ReconcileStart, ApproveStart, RejectStart, RequestWithoutEffect, provider
  <1>2. ASSUME NEW p \in Requests, Continue(p)
        PROVE  links \subseteq links' /\ UNCHANGED <<money, hook>>
    <2>1. CASE PostAccepted(p) \/ PostUnknown(p) \/ PostRefused(p)
      BY <2>1 DEF PostAccepted, PostUnknown, PostRefused, provider
    <2>2. CASE ~(PostAccepted(p) \/ PostUnknown(p) \/ PostRefused(p))
      BY <1>2, <2>2 DEF Continue, AnalyzePersist, AnalyzeComplete, AnalyzeFail, RecordAnswer,
         Settle, ReconcileFound, ReconcileNothing, ApproveCommit, ApproveRefused, Escalate,
         RejectStop, RejectReanalyze, RejectRefused, SessionClosed, provider
    <2> QED BY <2>1, <2>2
  <1>3. ASSUME NEW p \in Requests, RequestDies(p) PROVE UNCHANGED <<links, money, hook>>
    BY <1>3 DEF RequestDies, provider
  <1>4. CASE Webhook
    BY <1>4 DEF Webhook, WebhookRead, WebhookDismiss, WebhookResolve, WebhookStale,
                WebhookAcknowledge, provider
  <1>5. CASE CustomerPays \/ WebhookDies \/ ProcessDies \/ UNCHANGED vars
    BY <1>5 DEF CustomerPays, WebhookDies, ProcessDies, provider, vars
  <1> QED BY <1>1, <1>2, <1>3, <1>4, <1>5 DEF Next

LEMMA PaymentStep ==
  ASSUME ConstantsAssumption, TypeOK, PaymentInv, [Next]_vars
  PROVE  PaymentInv'
  <1>1. RecoveredIffOutcome /\ RecoveredIffOutcome'
    BY OutcomeStep DEF PaymentInv, RecoveredIffVerified, RecoveredIffOutcome
  <1>2. CASE CustomerPays
    <2>1. PICK m \in {0} \cup links, s \in {"sent", "sent_mismatch"} :
            /\ money[m] = "unpaid" /\ money' = [money EXCEPT ![m] = s]
            /\ s = "sent_mismatch" => m = 0
      BY <1>2 DEF CustomerPays
    <2>2. UNCHANGED <<status, outcome, links, hook>>
      BY <1>2 DEF CustomerPays, caseRow, provider
    <2>3. money \in [Payments -> PaymentStates] /\ m \in Payments
          /\ outcome \in Payments \cup {None} /\ hook.pay \in Payments
      BY DEF TypeOK, Payments, ActionIds, Hooks, ConstantsAssumption
    <2>4. RecoveredIffVerified'
      BY <2>1, <2>2, <2>3 DEF PaymentInv, RecoveredIffVerified
    <2>5. NoPaymentLost' /\ PaidWhatExists'
      BY <2>1, <2>2, <2>3 DEF PaymentInv, NoPaymentLost, PaidWhatExists
    <2>6. HookIsCurrent'
      BY <2>1, <2>2, <2>3 DEF PaymentInv, HookIsCurrent
    <2> QED BY <2>4, <2>5, <2>6 DEF PaymentInv
  <1>3. CASE WebhookDismiss
    <2>1. UNCHANGED <<status, outcome, links>> /\ hook' = IdleHook
      BY <1>3 DEF WebhookDismiss, caseRow, provider
    <2>2. PICK verdict : /\ money' = [money EXCEPT ![hook.pay] = verdict]
                         /\ verdict = "processed" => hook.seen = "RECOVERED"
                         /\ verdict = "ignored" => money[hook.pay] = "sent_mismatch"
                         /\ verdict = "flagged" => /\ hook.seen \in {"FAILED", "STOPPED"}
                                                   /\ money[hook.pay] # "sent_mismatch"
                         /\ verdict \in {"processed", "ignored", "flagged"}
      BY <1>3 DEF WebhookDismiss, TerminalStatuses
    <2>3. /\ money \in [Payments -> PaymentStates] /\ hook.pay \in Payments
          /\ outcome \in Payments \cup {None}
          /\ money[hook.pay] \in {"sent", "sent_mismatch"}
          /\ hook.seen \in TerminalStatuses => status = hook.seen
      BY <1>3 DEF TypeOK, Hooks, PaymentInv, HookIsCurrent, WebhookDismiss
    <2>4. RecoveredIffVerified'
      BY <2>1, <2>2, <2>3 DEF PaymentInv, RecoveredIffVerified, TerminalStatuses, PaidWhatExists
    <2>5. NoPaymentLost'
      BY <2>1, <2>2, <2>3 DEF PaymentInv, NoPaymentLost, TerminalStatuses, RecoveredIffVerified,
         PaidWhatExists
    <2>6. PaidWhatExists' /\ HookIsCurrent'
      BY <2>1, <2>2, <2>3 DEF PaymentInv, PaidWhatExists, HookIsCurrent, IdleHook
    <2> QED BY <2>4, <2>5, <2>6 DEF PaymentInv
  <1>4. CASE WebhookAcknowledge
    <2>1. /\ UNCHANGED <<status, outcome, links>> /\ hook' = IdleHook
          /\ money' = [money EXCEPT ![hook.pay] = "processed"]
          /\ outcome # None /\ money[hook.pay] = "sent"
      BY <1>4 DEF WebhookAcknowledge, caseRow, provider, PaymentInv, HookIsCurrent
    <2>2. /\ money \in [Payments -> PaymentStates] /\ hook.pay \in Payments
          /\ outcome \in Payments \cup {None}
      BY DEF TypeOK, Hooks
    <2>3. RecoveredIffVerified' /\ NoPaymentLost'
      BY <2>1, <2>2 DEF PaymentInv, RecoveredIffVerified, NoPaymentLost
    <2>4. PaidWhatExists' /\ HookIsCurrent'
      BY <2>1, <2>2 DEF PaymentInv, PaidWhatExists, HookIsCurrent, IdleHook
    <2> QED BY <2>3, <2>4 DEF PaymentInv
  <1>5. CASE WebhookResolve
    <2>1. /\ UNCHANGED <<money, links>> /\ status' = "RECOVERED"
          /\ outcome = None /\ outcome' = hook.pay /\ money[hook.pay] = "sent"
          /\ hook' = [hook EXCEPT !.at = "resolved"]
      BY <1>1, <1>5, ResolveStep DEF WebhookResolve, provider, RecoveredIffOutcome, TerminalStatuses
    <2>2. hook \in Hooks /\ hook.pay \in Payments /\ None \notin Payments
      BY DEF TypeOK, Hooks, Payments, ConstantsAssumption
    <2>3. RecoveredIffVerified'
      BY <2>1, <2>2 DEF PaymentInv, RecoveredIffVerified, PaidWhatExists
    <2>4. status \notin TerminalStatuses
      BY <1>5, ResolveStep
    <2>5. NoPaymentLost'
      BY <2>1, <2>2, <2>4 DEF PaymentInv, NoPaymentLost, TerminalStatuses
    <2>6. PaidWhatExists' /\ HookIsCurrent'
      BY <2>1, <2>2 DEF PaymentInv, PaidWhatExists, HookIsCurrent, Hooks
    <2> QED BY <2>3, <2>5, <2>6 DEF PaymentInv
  <1>6. CASE ~(CustomerPays \/ WebhookDismiss \/ WebhookAcknowledge \/ WebhookResolve)
    <2>1. UNCHANGED <<money, outcome>> /\ links \subseteq links'
      BY <1>1, <1>6, MoneyMoves, CaseIsMonotone
    <2>2. status \in TerminalStatuses => status' = status
      BY <1>1, CaseIsMonotone
    <2>3. RecoveredIffVerified'
      BY <1>1, <2>1 DEF PaymentInv, RecoveredIffVerified, RecoveredIffOutcome
    <2>4. NoPaymentLost'
      BY <2>1, <2>2 DEF PaymentInv, NoPaymentLost, TerminalStatuses
    <2>5. PaidWhatExists'
      BY <2>1 DEF PaymentInv, PaidWhatExists
    <2>6. HookIsCurrent'
      <3>1. CASE WebhookRead
        BY <3>1, <2>1 DEF WebhookRead, HookIsCurrent, caseRow
      <3>2. CASE hook' = hook
        BY <3>2, <2>1, <2>2 DEF PaymentInv, HookIsCurrent
      <3>3. CASE hook' = IdleHook
        BY <3>3 DEF HookIsCurrent, IdleHook
      <3> QED BY <1>6, <3>1, <3>2, <3>3, MoneyMoves
    <2> QED BY <2>3, <2>4, <2>5, <2>6 DEF PaymentInv
  <1> QED BY <1>2, <1>3, <1>4, <1>5, <1>6

LEMMA PaymentInit == Init => PaymentInv
  BY DEF Init, PaymentInv, RecoveredIffVerified, NoPaymentLost, PaidWhatExists, HookIsCurrent,
         IdleHook

LEMMA PaymentsInvariant == Spec => []PaymentInv
  <1>1. TypeOK /\ PaymentInv /\ [Next]_vars => PaymentInv'
    BY PaymentStep, ConstantsAssumption
  <1> QED BY <1>1, PaymentInit, TypeCorrect, PTL DEF Spec

(***************************************************************************)
(* A case reads RECOVERED exactly when an outcome row names a payment of   *)
(* the right amount that was made, whatever requests race with the webhook.*)
(***************************************************************************)
THEOREM RecoveredIsVerified == Spec => []RecoveredIffVerified
  <1>1. PaymentInv => RecoveredIffVerified
    BY DEF PaymentInv
  <1> QED BY <1>1, PaymentsInvariant, PTL

(***************************************************************************)
(* An event that is done with has resolved the case, was flagged because   *)
(* the case was closed, or was the original payment with another amount.   *)
(***************************************************************************)
THEOREM PaymentsAreKept == Spec => []NoPaymentLost
  <1>1. PaymentInv => NoPaymentLost
    BY DEF PaymentInv
  <1> QED BY <1>1, PaymentsInvariant, PTL

------------------------------------------------------------------------------
(* Nothing is left pending *)

Waiting == {"PENDING_APPROVAL", "SCHEDULED"}

\* A row starts to wait only in a step that moves an open case.
LEMMA WaitingStarts ==
  ASSUME TypeOK, WorksOnAction, NEW p \in Requests, Arrival(p) \/ Continue(p),
         status \in TerminalStatuses, NEW a \in ActionIds, acts[a].status \notin Waiting
  PROVE  acts'[a].status \notin Waiting
  <1>1. acts \in [ActionIds -> Actions]
    BY DEF TypeOK
  <1>2. CASE AnalyzeStart(p) \/ CreateStop(p) \/ CreateWait(p) \/ StageForApproval(p)
             \/ ExecuteNow(p) \/ ApproveCommit(p) \/ RejectStop(p) \/ RejectReanalyze(p)
    BY <1>2 DEF AnalyzeStart, CreateStop, CreateWait, StageForApproval, ExecuteNow,
                ApproveCommit, RejectStop, RejectReanalyze, TransitionCase
  <1>3. CASE RecordAnswer(p)
    <2>1. job[p].answer \in {"SUCCEEDED", "UNKNOWN", "FAILED"}
      BY <1>3 DEF RecordAnswer, TypeOK, WorksOnAction, Jobs
    <2> QED BY <1>1, <1>3, <2>1 DEF RecordAnswer, Waiting, Actions
  <1>4. CASE ReconcileFound(p)
    BY <1>1, <1>4 DEF ReconcileFound, Waiting, Actions
  <1>5. CASE Escalate(p)
    BY <1>1, <1>5 DEF Escalate, Waiting, Actions
  <1>6. CASE UNCHANGED acts
    BY <1>6
  <1>7. ReconcileStart(p) \/ ApproveStart(p) \/ RejectStart(p) \/ RequestWithoutEffect(p)
        => UNCHANGED acts
    BY DEF ReconcileStart, ApproveStart, RejectStart, RequestWithoutEffect, actionRows
  <1>8. AnalyzePersist(p) \/ AnalyzeComplete(p) \/ AnalyzeFail(p) \/ PostAccepted(p)
        \/ PostUnknown(p) \/ PostRefused(p) \/ Settle(p) \/ ReconcileNothing(p)
        \/ ApproveRefused(p) \/ RejectRefused(p) \/ SessionClosed(p) => UNCHANGED acts
    BY DEF AnalyzePersist, AnalyzeComplete, AnalyzeFail, PostAccepted, PostUnknown, PostRefused,
           Settle, ReconcileNothing, ApproveRefused, RejectRefused, SessionClosed, actionRows
  <1> QED BY <1>2, <1>3, <1>4, <1>5, <1>6, <1>7, <1>8 DEF Arrival, Continue

LEMMA NothingPendingStep ==
  ASSUME TypeOK, WorksOnAction, RecoveredIffOutcome, RecoveredHasNothingPending, [Next]_vars
  PROVE  RecoveredHasNothingPending'
  <1> SUFFICES ASSUME status' = "RECOVERED", NEW a \in ActionIds
               PROVE  acts'[a].status \notin Waiting
    BY DEF RecoveredHasNothingPending, Waiting
  <1>1. CASE WebhookResolve
    BY <1>1 DEF WebhookResolve, Cancelled, Waiting, TypeOK, Actions
  <1>2. CASE ~WebhookResolve
    <2>1. status = "RECOVERED"
      BY <1>2, EveryStepMoves, OrdinaryStep DEF CaseMoves
    <2>2. acts[a].status \notin Waiting /\ status \in TerminalStatuses
      BY <2>1 DEF RecoveredHasNothingPending, Waiting, TerminalStatuses
    <2>3. ASSUME NEW p \in Requests, Arrival(p) \/ Continue(p)
          PROVE  acts'[a].status \notin Waiting
      BY <2>2, <2>3, WaitingStarts
    <2>4. ASSUME NEW p \in Requests, RequestDies(p) PROVE UNCHANGED acts
      BY <2>4 DEF RequestDies, actionRows
    <2>5. Webhook => UNCHANGED acts
      BY <1>2 DEF Webhook, WebhookRead, WebhookDismiss, WebhookStale, WebhookAcknowledge, actionRows
    <2>6. CustomerPays \/ WebhookDies \/ ProcessDies \/ UNCHANGED vars => UNCHANGED acts
      BY DEF CustomerPays, WebhookDies, ProcessDies, actionRows, vars
    <2> QED BY <2>2, <2>3, <2>4, <2>5, <2>6 DEF Next
  <1> QED BY <1>1, <1>2

(***************************************************************************)
(* Once a case is RECOVERED no action waits for approval or for its time,  *)
(* whatever creates, approvals and rejections race with the webhook.       *)
(***************************************************************************)
THEOREM NothingPendingAfterRecovery == Spec => []RecoveredHasNothingPending
  <1>1. Init => RecoveredHasNothingPending
    BY DEF Init, RecoveredHasNothingPending
  <1>2. TypeInv /\ PaymentInv /\ RecoveredHasNothingPending /\ [Next]_vars
          => RecoveredHasNothingPending'
    BY NothingPendingStep
      DEF TypeInv, PaymentInv, RecoveredIffVerified, RecoveredIffOutcome
  <1> QED BY <1>1, <1>2, TypeInvariant, PaymentsInvariant, PTL DEF Spec

------------------------------------------------------------------------------
(* One episode of what ProviderEvents sees *)

LEMMA StepImplementsEpisode ==
  ASSUME TypeOK, RecoveredIffVerified, RecoveredIffVerified', [Next]_vars
  PROVE  [Seen!EpisodeNext]_(Seen!episodeVars)
  <1>1. CASE UNCHANGED <<status, version, outcome>>
    BY <1>1 DEF Seen!episodeVars, CaseSeen, BasisSeen
  <1>2. CASE (\E event : Ordinary(event)) /\ UNCHANGED outcome
    <2>1. CaseSeen = "open" /\ CaseSeen' \in {"open", "closed"}
      BY <1>2, OrdinaryStep DEF CaseSeen, TerminalStatuses
    <2>2. UNCHANGED BasisSeen
      BY <1>2 DEF BasisSeen
    <2> QED BY <2>1, <2>2 DEF Seen!EpisodeNext, Seen!Close, Seen!episodeVars
  <1>3. CASE WebhookResolve
    <2>1. CaseSeen = "open" /\ CaseSeen' = "RECOVERED"
      BY <1>3, ResolveStep DEF CaseSeen, TerminalStatuses
    <2>2. BasisSeen = "none"
      BY <1>3, ResolveStep DEF BasisSeen, RecoveredIffVerified, TerminalStatuses
    <2>3. BasisSeen' \in {"event", "link"}
      BY <1>3, ResolveStep DEF BasisSeen
    <2> QED BY <2>1, <2>2, <2>3 DEF Seen!EpisodeNext, Seen!Recover
  <1> QED BY <1>1, <1>2, <1>3, EveryStepMoves DEF CaseMoves

(***************************************************************************)
(* What ProviderEvents takes for granted of the request threads is true:   *)
(* its view of the case is opened once, closed or recovered at most once,  *)
(* and recovered in the step that records the payment.                     *)
(***************************************************************************)
THEOREM EpisodeRefined == Spec => EpisodeImplemented
  <1>1. Init => Seen!EpisodeInit
    BY DEF Init, Seen!EpisodeInit, CaseSeen, BasisSeen, TerminalStatuses
  <1>2. TypeOK /\ RecoveredIffVerified /\ RecoveredIffVerified' /\ [Next]_vars
          => [Seen!EpisodeNext]_(Seen!episodeVars)
    BY StepImplementsEpisode
  <1> QED
    BY <1>1, <1>2, TypeCorrect, RecoveredIsVerified, PTL
      DEF Spec, EpisodeImplemented, Seen!EpisodeSpec

=============================================================================
