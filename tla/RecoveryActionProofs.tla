------------------------- MODULE RecoveryActionProofs -------------------------
(***************************************************************************)
(* What concurrent requests do to the actions of a recovery case, for      *)
(* every set of requests and every value of the constants: one analysis at *)
(* a time, an attempt cap that holds, an approval that always has its      *)
(* action, provider calls that are authorised and made once, rows that     *)
(* agree with the provider, links that open one by one, and runs that are  *)
(* replaced in order.                                                      *)
(***************************************************************************)
EXTENDS RecoveryPaymentProofs, FiniteSetTheorems

------------------------------------------------------------------------------
(* Who moves the case, and how *)

\* Each step that changes the case row, with the statuses it leads between.
RequestMovesCase(p) ==
  \/ AnalyzeStart(p) /\ status' = "ANALYZING"
     /\ status \in {"DETECTED", "SCHEDULED", "WAITING_FOR_OUTCOME"}
  \/ AnalyzeComplete(p) /\ status = "ANALYZING" /\ status' = "RECOMMENDED"
  \/ AnalyzeFail(p) /\ status = "ANALYZING" /\ status' = "FAILED"
  \/ CreateStop(p) /\ status = "RECOMMENDED" /\ status' = "STOPPED"
  \/ CreateWait(p) /\ status = "RECOMMENDED" /\ status' = "SCHEDULED"
  \/ StageForApproval(p) /\ status = "RECOMMENDED" /\ status' = "AWAITING_APPROVAL"
  \/ ExecuteNow(p) /\ status = "RECOMMENDED" /\ status' = "EXECUTING"
  \/ Settle(p) /\ status = "EXECUTING"
     /\ status' \in {"WAITING_FOR_OUTCOME", "ANALYZING", "FAILED"}
  \/ ApproveCommit(p) /\ status = "AWAITING_APPROVAL" /\ status' = "EXECUTING"
  \/ RejectStop(p) /\ status = "AWAITING_APPROVAL" /\ status' = "STOPPED"
  \/ RejectReanalyze(p) /\ status = "AWAITING_APPROVAL" /\ status' = "ANALYZING"

CaseTable ==
  \/ UNCHANGED <<status, version>>
  \/ version' = version + 1 /\ \E p \in Requests : RequestMovesCase(p)
  \/ version' = version + 1 /\ WebhookResolve /\ status' = "RECOVERED"

\* An ordinary event moves the case along one of the ordinary transitions.
LEMMA TransitionEntry ==
  ASSUME NEW event, NEW expected, TransitionCase(event, expected), event # "PAYMENT_VERIFIED"
  PROVE  <<status, event, status'>> \in OrdinaryTransitions /\ version' = version + 1
  <1>1. <<status, event, status'>> \in TransitionRegistry
    BY DEF TransitionCase
  <1>2. <<status, event, status'>> \notin PaymentTransitions
    BY DEF PaymentTransitions
  <1> QED BY <1>1, <1>2 DEF TransitionRegistry, TransitionCase

LEMMA CaseStep == ASSUME TypeOK, [Next]_vars PROVE CaseTable
  <1>1. ASSUME NEW p \in Requests, Arrival(p) PROVE CaseTable
    <2>1. CASE AnalyzeStart(p)
      <3>1. PICK entry \in AnalysisEntry : entry[1] = status /\ TransitionCase(entry[2], version)
        BY <2>1 DEF AnalyzeStart
      <3>2. /\ entry[2] # "PAYMENT_VERIFIED"
            /\ entry[1] \in {"DETECTED", "SCHEDULED", "WAITING_FOR_OUTCOME"}
            /\ entry[2] \in {"ANALYSIS_REQUESTED", "REEVALUATION_DUE",
                             "NEGATIVE_OUTCOME_OR_TIMEOUT"}
        BY DEF AnalysisEntry
      <3>3. <<status, entry[2], status'>> \in OrdinaryTransitions /\ version' = version + 1
        BY <3>1, <3>2, TransitionEntry
      <3>4. status' = "ANALYZING"
        BY <3>2, <3>3 DEF OrdinaryTransitions
      <3> QED BY <2>1, <3>1, <3>2, <3>3, <3>4 DEF CaseTable, RequestMovesCase
    <2>2. CASE CreateStop(p)
      <3>1. <<status, "STOP_SELECTED", status'>> \in OrdinaryTransitions
            /\ version' = version + 1
        BY <2>2, TransitionEntry DEF CreateStop
      <3> QED BY <2>2, <3>1 DEF OrdinaryTransitions, CaseTable, RequestMovesCase
    <2>3. CASE CreateWait(p)
      <3>1. <<status, "ACTION_SCHEDULED", status'>> \in OrdinaryTransitions
            /\ version' = version + 1
        BY <2>3, TransitionEntry DEF CreateWait
      <3> QED BY <2>3, <3>1 DEF OrdinaryTransitions, CaseTable, RequestMovesCase
    <2>4. CASE StageForApproval(p)
      <3>1. <<status, "APPROVAL_REQUIRED", status'>> \in OrdinaryTransitions
            /\ version' = version + 1
        BY <2>4, TransitionEntry DEF StageForApproval
      <3> QED BY <2>4, <3>1 DEF OrdinaryTransitions, CaseTable, RequestMovesCase
    <2>5. CASE ExecuteNow(p)
      <3>1. <<status, "AUTO_EXECUTE", status'>> \in OrdinaryTransitions
            /\ version' = version + 1
        BY <2>5, TransitionEntry DEF ExecuteNow
      <3> QED BY <2>5, <3>1 DEF OrdinaryTransitions, CaseTable, RequestMovesCase
    <2>6. CASE ReconcileStart(p) \/ ApproveStart(p) \/ RejectStart(p) \/ RequestWithoutEffect(p)
      BY <2>6 DEF ReconcileStart, ApproveStart, RejectStart, RequestWithoutEffect, caseRow,
                  CaseTable
    <2> QED BY <1>1, <2>1, <2>2, <2>3, <2>4, <2>5, <2>6 DEF Arrival
  <1>2. ASSUME NEW p \in Requests, Continue(p) PROVE CaseTable
    <2>1. CASE AnalyzeComplete(p)
      <3>1. \/ UNCHANGED <<status, version>>
            \/ <<status, "ANALYSIS_COMPLETED", status'>> \in OrdinaryTransitions
               /\ version' = version + 1
        BY <2>1, TransitionEntry DEF AnalyzeComplete, caseRow
      <3> QED BY <2>1, <3>1 DEF OrdinaryTransitions, CaseTable, RequestMovesCase
    <2>2. CASE AnalyzeFail(p)
      <3>1. \/ UNCHANGED <<status, version>>
            \/ <<status, "ANALYSIS_TERMINAL_FAILURE", status'>> \in OrdinaryTransitions
               /\ version' = version + 1
        BY <2>2, TransitionEntry DEF AnalyzeFail, caseRow
      <3> QED BY <2>2, <3>1 DEF OrdinaryTransitions, CaseTable, RequestMovesCase
    <2>3. CASE Settle(p)
      <3>1. job[p].event # "PAYMENT_VERIFIED"
        BY DEF TypeOK, Jobs
      <3>2. \/ UNCHANGED <<status, version>>
            \/ /\ <<status, job[p].event, status'>> \in OrdinaryTransitions
               /\ status = "EXECUTING" /\ version' = version + 1
        BY <2>3, <3>1, TransitionEntry DEF Settle, caseRow
      <3> QED BY <2>3, <3>2 DEF OrdinaryTransitions, CaseTable, RequestMovesCase
    <2>4. CASE ApproveCommit(p)
      <3>1. <<status, "APPROVED_NOW", status'>> \in OrdinaryTransitions
            /\ version' = version + 1
        BY <2>4, TransitionEntry DEF ApproveCommit
      <3> QED BY <2>4, <3>1 DEF OrdinaryTransitions, CaseTable, RequestMovesCase
    <2>5. CASE RejectStop(p)
      <3>1. <<status, "APPROVAL_REJECTED_STOP", status'>> \in OrdinaryTransitions
            /\ version' = version + 1
        BY <2>5, TransitionEntry DEF RejectStop
      <3> QED BY <2>5, <3>1 DEF OrdinaryTransitions, CaseTable, RequestMovesCase
    <2>6. CASE RejectReanalyze(p)
      <3>1. <<status, "APPROVAL_REJECTED_REANALYZE", status'>> \in OrdinaryTransitions
            /\ version' = version + 1
        BY <2>6, TransitionEntry DEF RejectReanalyze
      <3> QED BY <2>6, <3>1 DEF OrdinaryTransitions, CaseTable, RequestMovesCase
    <2>7. CASE AnalyzePersist(p) \/ PostAccepted(p) \/ PostUnknown(p) \/ PostRefused(p)
               \/ RecordAnswer(p) \/ ReconcileFound(p) \/ ReconcileNothing(p)
               \/ ApproveRefused(p) \/ Escalate(p) \/ RejectRefused(p) \/ SessionClosed(p)
      BY <2>7 DEF AnalyzePersist, PostAccepted, PostUnknown, PostRefused, RecordAnswer,
                  ReconcileFound, ReconcileNothing, ApproveRefused, Escalate, RejectRefused,
                  SessionClosed, caseRow, CaseTable
    <2> QED BY <1>2, <2>1, <2>2, <2>3, <2>4, <2>5, <2>6, <2>7 DEF Continue
  <1>3. CASE WebhookResolve
    BY <1>3, ResolveStep DEF CaseTable
  <1>4. ASSUME NEW p \in Requests, RequestDies(p) PROVE CaseTable
    BY <1>4 DEF RequestDies, caseRow, CaseTable
  <1>5. CASE WebhookRead \/ WebhookDismiss \/ WebhookStale \/ WebhookAcknowledge
    BY <1>5 DEF WebhookRead, WebhookDismiss, WebhookStale, WebhookAcknowledge, caseRow, CaseTable
  <1>6. CASE CustomerPays \/ WebhookDies \/ ProcessDies \/ UNCHANGED vars
    BY <1>6 DEF CustomerPays, WebhookDies, ProcessDies, caseRow, vars, CaseTable
  <1> QED BY <1>1, <1>2, <1>3, <1>4, <1>5, <1>6 DEF Next, Webhook

------------------------------------------------------------------------------
(* What a step does to a row and to a request *)

\* A create call inserts row a: the policy agreed, and a call to the provider
\* starts only for an ungated link.
Inserted(a) ==
  /\ a = attempts + 1 /\ attempts' = a
  /\ \E p \in Requests, type \in InterventionTypes,
        state \in {"SCHEDULED", "PENDING_APPROVAL", "EXECUTING"} :
       /\ Creatable(p, type)
       /\ acts'[a] = [type |-> type, status |-> state, run |-> run, approved |-> FALSE]
       /\ state = "SCHEDULED" => type = "WAIT"
       /\ state = "EXECUTING" => type \in LinkTypes /\ ~recs[run].gated

Rewrites(p, a) ==
  \/ RecordAnswer(p) /\ acts'[a] = [acts[a] EXCEPT !.status = job[p].answer]
  \/ ReconcileFound(p) /\ acts'[a] = [acts[a] EXCEPT !.status = "SUCCEEDED"]
  \/ Escalate(p) /\ acts'[a] = [acts[a] EXCEPT !.status = "SUCCEEDED"]
  \/ /\ ApproveCommit(p)
     /\ acts'[a] = [acts[a] EXCEPT !.status = "EXECUTING", !.approved = TRUE]
  \/ /\ RejectStop(p) \/ RejectReanalyze(p)
     /\ acts'[a] = [acts[a] EXCEPT !.status = "CANCELLED"]

Rewritten(a) ==
  \/ \E p \in Requests : a = job[p].act /\ Rewrites(p, a)
  \/ WebhookResolve /\ acts'[a] = Cancelled(acts[a])

RowMoves(a) ==
  \/ acts'[a] = acts[a]
  \/ Inserted(a)
  \/ Rewritten(a) /\ attempts' = attempts

\* What inserting a row does to every row of the case.
LEMMA InsertMoves ==
  ASSUME ConstantsAssumption, TypeOK, NEW p \in Requests, NEW type \in InterventionTypes,
         NEW state \in {"SCHEDULED", "PENDING_APPROVAL", "EXECUTING"},
         Creatable(p, type), InsertAction(type, state),
         state = "SCHEDULED" => type = "WAIT",
         state = "EXECUTING" => type \in LinkTypes /\ ~recs[run].gated
  PROVE  /\ \A a \in ActionIds : RowMoves(a)
         /\ attempts + 1 \in ActionIds /\ Inserted(attempts + 1)
  <1>1. type # "STOP"
    BY DEF InterventionTypes
  <1>2. attempts + 1 \in ActionIds
    BY <1>1 DEF Creatable, PolicyEligible, ConstantsAssumption, TypeOK, ActionIds
  <1>3. acts \in [ActionIds -> Actions]
    BY DEF TypeOK
  <1>4. Inserted(attempts + 1)
    BY <1>2, <1>3 DEF Inserted, InsertAction
  <1>5. \A a \in ActionIds : a # attempts + 1 => acts'[a] = acts[a]
    BY <1>2, <1>3 DEF InsertAction
  <1> QED BY <1>2, <1>4, <1>5 DEF RowMoves

LEMMA RowStep ==
  ASSUME ConstantsAssumption, TypeOK, WorksOnAction, [Next]_vars
  PROVE  /\ \A a \in ActionIds : RowMoves(a)
         /\ attempts' = attempts \/ \E a \in ActionIds : Inserted(a)
  <1> DEFINE Goal == /\ \A a \in ActionIds : RowMoves(a)
                     /\ attempts' = attempts \/ \E a \in ActionIds : Inserted(a)
  <1> SUFFICES Goal
    OBVIOUS
  <1>0. acts \in [ActionIds -> Actions]
    BY DEF TypeOK
  <1>1. CASE UNCHANGED actionRows
    BY <1>1 DEF RowMoves, actionRows
  <1>2. ASSUME NEW p \in Requests, Arrival(p) PROVE Goal
    <2>1. CASE CreateWait(p)
      BY <2>1, InsertMoves, ConstantsAssumption DEF CreateWait, InterventionTypes
    <2>2. CASE StageForApproval(p)
      BY <2>2, InsertMoves, ConstantsAssumption DEF StageForApproval
    <2>3. CASE ExecuteNow(p)
      BY <2>3, InsertMoves, ConstantsAssumption DEF ExecuteNow, LinkTypes, InterventionTypes
    <2>4. CASE AnalyzeStart(p) \/ CreateStop(p) \/ ReconcileStart(p) \/ ApproveStart(p)
               \/ RejectStart(p) \/ RequestWithoutEffect(p)
      BY <1>1, <2>4 DEF AnalyzeStart, CreateStop, ReconcileStart, ApproveStart, RejectStart,
                        RequestWithoutEffect
    <2> QED BY <1>2, <2>1, <2>2, <2>3, <2>4 DEF Arrival
  <1>3. ASSUME NEW p \in Requests, Continue(p) PROVE Goal
    <2>1. CASE RecordAnswer(p)
      <3>1. attempts' = attempts /\ acts' = [acts EXCEPT ![job[p].act].status = job[p].answer]
        BY <2>1 DEF RecordAnswer
      <3>2. \A a \in ActionIds : a # job[p].act => acts'[a] = acts[a]
        BY <1>0, <3>1
      <3>3. \A a \in ActionIds : a = job[p].act =>
              acts'[a] = [acts[a] EXCEPT !.status = job[p].answer]
        BY <1>0, <3>1
      <3> QED BY <2>1, <3>1, <3>2, <3>3 DEF RowMoves, Rewritten, Rewrites
    <2>2. CASE ReconcileFound(p)
      <3>1. attempts' = attempts /\ acts' = [acts EXCEPT ![job[p].act].status = "SUCCEEDED"]
        BY <2>2 DEF ReconcileFound
      <3>2. \A a \in ActionIds : a # job[p].act => acts'[a] = acts[a]
        BY <1>0, <3>1
      <3>3. \A a \in ActionIds : a = job[p].act =>
              acts'[a] = [acts[a] EXCEPT !.status = "SUCCEEDED"]
        BY <1>0, <3>1
      <3> QED BY <2>2, <3>1, <3>2, <3>3 DEF RowMoves, Rewritten, Rewrites
    <2>3. CASE Escalate(p)
      <3>1. attempts' = attempts /\ acts' = [acts EXCEPT ![job[p].act].status = "SUCCEEDED"]
        BY <2>3 DEF Escalate
      <3>2. \A a \in ActionIds : a # job[p].act => acts'[a] = acts[a]
        BY <1>0, <3>1
      <3>3. \A a \in ActionIds : a = job[p].act =>
              acts'[a] = [acts[a] EXCEPT !.status = "SUCCEEDED"]
        BY <1>0, <3>1
      <3> QED BY <2>3, <3>1, <3>2, <3>3 DEF RowMoves, Rewritten, Rewrites
    <2>4. CASE ApproveCommit(p)
      <3>1. /\ attempts' = attempts
            /\ acts' = [acts EXCEPT ![job[p].act].status = "EXECUTING",
                                    ![job[p].act].approved = TRUE]
        BY <2>4 DEF ApproveCommit
      <3>2. \A a \in ActionIds : a # job[p].act => acts'[a] = acts[a]
        BY <1>0, <3>1
      <3>3. \A a \in ActionIds : a = job[p].act =>
              acts'[a] = [acts[a] EXCEPT !.status = "EXECUTING", !.approved = TRUE]
        BY <1>0, <3>1
      <3> QED BY <2>4, <3>1, <3>2, <3>3 DEF RowMoves, Rewritten, Rewrites
    <2>5. CASE RejectStop(p) \/ RejectReanalyze(p)
      <3>1. attempts' = attempts /\ acts' = [acts EXCEPT ![job[p].act].status = "CANCELLED"]
        BY <2>5 DEF RejectStop, RejectReanalyze
      <3>2. \A a \in ActionIds : a # job[p].act => acts'[a] = acts[a]
        BY <1>0, <3>1
      <3>3. \A a \in ActionIds : a = job[p].act =>
              acts'[a] = [acts[a] EXCEPT !.status = "CANCELLED"]
        BY <1>0, <3>1
      <3> QED BY <2>5, <3>1, <3>2, <3>3 DEF RowMoves, Rewritten, Rewrites
    <2>6. CASE AnalyzePersist(p) \/ AnalyzeComplete(p) \/ AnalyzeFail(p) \/ PostAccepted(p)
               \/ PostUnknown(p) \/ PostRefused(p) \/ Settle(p) \/ ReconcileNothing(p)
               \/ ApproveRefused(p) \/ RejectRefused(p) \/ SessionClosed(p)
      BY <1>1, <2>6 DEF AnalyzePersist, AnalyzeComplete, AnalyzeFail, PostAccepted,
                        PostUnknown, PostRefused, Settle, ReconcileNothing, ApproveRefused,
                        RejectRefused, SessionClosed
    <2> QED BY <1>3, <2>1, <2>2, <2>3, <2>4, <2>5, <2>6 DEF Continue
  <1>4. CASE WebhookResolve
    BY <1>4 DEF WebhookResolve, RowMoves, Rewritten
  <1>5. CASE WebhookRead \/ WebhookDismiss \/ WebhookStale \/ WebhookAcknowledge
    BY <1>1, <1>5 DEF WebhookRead, WebhookDismiss, WebhookStale, WebhookAcknowledge
  <1>6. ASSUME NEW p \in Requests, RequestDies(p) PROVE Goal
    BY <1>1, <1>6 DEF RequestDies
  <1>7. CASE CustomerPays \/ WebhookDies \/ ProcessDies \/ UNCHANGED vars
    BY <1>1, <1>7 DEF CustomerPays, WebhookDies, ProcessDies, vars, actionRows
  <1> QED BY <1>2, <1>3, <1>4, <1>5, <1>6, <1>7 DEF Next, Webhook

\* What a request does next: it starts or goes on, or it is as good as over.
JobMoves(p) ==
  \/ job'[p] = job[p]
  \/ job'[p].at \in {"idle", "returning", "settling"}
  \/ AnalyzeStart(p) \/ AnalyzePersist(p) \/ RejectReanalyze(p)
  \/ ExecuteNow(p) \/ ApproveCommit(p)
  \/ PostAccepted(p) \/ PostUnknown(p) \/ PostRefused(p)
  \/ ReconcileStart(p) \/ ApproveStart(p) \/ RejectStart(p)

\* The request that takes a step, and the ones that do not notice it.
LEMMA ArrivalJob ==
  ASSUME TypeOK, NEW p \in Requests, Arrival(p), NEW q \in Requests
  PROVE  q # p => job'[q] = job[q]
  <1>0. job \in [Requests -> Jobs]
    BY DEF TypeOK
  <1>1. CASE AnalyzeStart(p) \/ ExecuteNow(p) \/ RequestWithoutEffect(p)
    BY <1>0, <1>1 DEF AnalyzeStart, ExecuteNow, RequestWithoutEffect, Begin
  <1>2. CASE ReconcileStart(p) \/ ApproveStart(p) \/ RejectStart(p)
    BY <1>0, <1>2 DEF ReconcileStart, ApproveStart, RejectStart, Begin
  <1>3. CASE CreateStop(p) \/ CreateWait(p) \/ StageForApproval(p)
    BY <1>3 DEF CreateStop, CreateWait, StageForApproval
  <1> QED BY <1>1, <1>2, <1>3 DEF Arrival

LEMMA ContinueJob ==
  ASSUME TypeOK, NEW p \in Requests, Continue(p), NEW q \in Requests
  PROVE  q # p => job'[q] = job[q]
  <1>0. job \in [Requests -> Jobs]
    BY DEF TypeOK
  <1>1. CASE AnalyzePersist(p) \/ AnalyzeComplete(p) \/ AnalyzeFail(p) \/ Settle(p)
    BY <1>0, <1>1 DEF AnalyzePersist, AnalyzeComplete, AnalyzeFail, Settle, Finish
  <1>2. CASE PostAccepted(p) \/ PostUnknown(p) \/ PostRefused(p)
    BY <1>0, <1>2 DEF PostAccepted, PostUnknown, PostRefused
  <1>3. CASE RecordAnswer(p)
    BY <1>0, <1>3 DEF RecordAnswer
  <1>4. CASE ReconcileFound(p) \/ ReconcileNothing(p) \/ Escalate(p)
    BY <1>0, <1>4 DEF ReconcileFound, ReconcileNothing, Escalate
  <1>5. CASE ApproveCommit(p) \/ ApproveRefused(p)
    BY <1>0, <1>5 DEF ApproveCommit, ApproveRefused
  <1>6. CASE RejectStop(p) \/ RejectReanalyze(p) \/ RejectRefused(p)
    BY <1>0, <1>6 DEF RejectStop, RejectReanalyze, RejectRefused, Finish
  <1>7. CASE SessionClosed(p)
    BY <1>0, <1>7 DEF SessionClosed, Finish
  <1> QED BY <1>1, <1>2, <1>3, <1>4, <1>5, <1>6, <1>7 DEF Continue

\* Everything else leaves the requests alone or ends them.
LEMMA OthersJob ==
  ASSUME TypeOK, NEW q \in Requests,
         \/ \E p \in Requests : RequestDies(p)
         \/ CustomerPays \/ Webhook \/ WebhookDies \/ ProcessDies \/ UNCHANGED vars
  PROVE  job'[q] = job[q] \/ job'[q].at \in {"idle", "returning"}
  <1>0. job \in [Requests -> Jobs]
    BY DEF TypeOK
  <1>1. ASSUME NEW p \in Requests, RequestDies(p)
        PROVE  job'[q] = job[q] \/ job'[q].at \in {"idle", "returning"}
    BY <1>0, <1>1 DEF RequestDies, Returning, Idle
  <1>2. CASE ProcessDies
    BY <1>2 DEF ProcessDies, Idle
  <1>3. CASE CustomerPays \/ Webhook \/ WebhookDies \/ UNCHANGED vars
    BY <1>3 DEF CustomerPays, Webhook, WebhookRead, WebhookDismiss, WebhookResolve, WebhookStale,
                WebhookAcknowledge, WebhookDies, vars
  <1> QED BY <1>1, <1>2, <1>3

LEMMA JobStep ==
  ASSUME TypeOK, [Next]_vars, NEW p \in Requests
  PROVE  JobMoves(p)
  <1>0. job \in [Requests -> Jobs]
    BY DEF TypeOK
  <1>1. CASE Arrival(p)
    <2>1. CASE RequestWithoutEffect(p)
      BY <1>0, <2>1 DEF RequestWithoutEffect, Begin, Returning, Idle, JobMoves
    <2>2. CASE CreateStop(p) \/ CreateWait(p) \/ StageForApproval(p)
      BY <2>2 DEF CreateStop, CreateWait, StageForApproval, JobMoves
    <2> QED BY <1>1, <2>1, <2>2 DEF Arrival, JobMoves
  <1>2. CASE Continue(p)
    <2>1. CASE AnalyzeComplete(p) \/ AnalyzeFail(p) \/ Settle(p) \/ RejectStop(p)
               \/ SessionClosed(p)
      BY <1>0, <2>1 DEF AnalyzeComplete, AnalyzeFail, Settle, RejectStop, SessionClosed, Finish,
                        Idle, JobMoves
    <2>2. CASE ReconcileNothing(p) \/ ApproveRefused(p) \/ RejectRefused(p)
      BY <1>0, <2>2 DEF ReconcileNothing, ApproveRefused, RejectRefused, Returning, Idle, JobMoves
    <2>3. CASE RecordAnswer(p)
      BY <1>0, <2>3 DEF RecordAnswer, JobMoves, Jobs
    <2>4. CASE ReconcileFound(p) \/ Escalate(p)
      BY <1>0, <2>4 DEF ReconcileFound, Escalate, JobMoves, Jobs
    <2> QED BY <1>2, <2>1, <2>2, <2>3, <2>4 DEF Continue, JobMoves
  <1>3. ASSUME NEW q \in Requests, Arrival(q) \/ Continue(q), q # p PROVE job'[p] = job[p]
    BY <1>3, ArrivalJob, ContinueJob
  <1>4. CASE \/ \E q \in Requests : RequestDies(q)
             \/ CustomerPays \/ Webhook \/ WebhookDies \/ ProcessDies \/ UNCHANGED vars
    BY <1>4, OthersJob DEF JobMoves
  <1> QED BY <1>1, <1>2, <1>3, <1>4 DEF Next, JobMoves

\* What each step of a request leaves in its record.
LEMMA NextJob ==
  ASSUME TypeOK, NEW p \in Requests
  PROVE  /\ AnalyzeStart(p) \/ RejectReanalyze(p) =>
              job'[p].at = "analyzing" /\ job'[p].run = runs + 1
         /\ AnalyzePersist(p) => job[p].at = "analyzing" /\ job'[p].at = "analyzed"
         /\ ExecuteNow(p) => job'[p].at = "posting" /\ job'[p].act = attempts + 1
         /\ ApproveCommit(p) =>
              /\ job[p].at = "approving" /\ job'[p].act = job[p].act
              /\ job'[p].at = IF acts[job[p].act].type \in LinkTypes THEN "posting"
                              ELSE "escalating"
         /\ PostAccepted(p) \/ PostUnknown(p) \/ PostRefused(p) =>
              job[p].at = "posting" /\ job'[p].at = "answered" /\ job'[p].act = job[p].act
         /\ PostAccepted(p) => job'[p].answer = "SUCCEEDED"
         /\ PostUnknown(p) => job'[p].answer = "UNKNOWN"
         /\ PostRefused(p) => job'[p].answer = "FAILED"
         /\ ReconcileStart(p) =>
              /\ job'[p].at = "reconciling" /\ job'[p].act \in ActionIds
              /\ acts[job'[p].act].status \in {"EXECUTING", "UNKNOWN"}
              /\ AtWorkOn(job'[p].act) => RepeatClicks
         /\ ApproveStart(p) =>
              /\ job'[p].at = "approving" /\ job'[p].act \in ActionIds /\ job'[p].ver = version
              /\ acts[job'[p].act].status = "PENDING_APPROVAL"
         /\ RejectStart(p) =>
              /\ job'[p].at = "rejecting" /\ job'[p].act \in ActionIds
              /\ acts[job'[p].act].status = "PENDING_APPROVAL"
  <1>0. job \in [Requests -> Jobs]
    BY DEF TypeOK
  <1>1. AnalyzeStart(p) => job'[p].at = "analyzing" /\ job'[p].run = runs + 1
    BY <1>0 DEF AnalyzeStart, Begin, Idle
  <1>2. RejectReanalyze(p) => job'[p].at = "analyzing" /\ job'[p].run = runs + 1
    BY <1>0 DEF RejectReanalyze, Idle
  <1>3. AnalyzePersist(p) => job[p].at = "analyzing" /\ job'[p].at = "analyzed"
    BY <1>0 DEF AnalyzePersist, Jobs
  <1>4. ExecuteNow(p) => job'[p].at = "posting" /\ job'[p].act = attempts + 1
    BY <1>0 DEF ExecuteNow, Begin, Idle
  <1>5. ApproveCommit(p) =>
          /\ job[p].at = "approving" /\ job'[p].act = job[p].act
          /\ job'[p].at = IF acts[job[p].act].type \in LinkTypes THEN "posting" ELSE "escalating"
    BY <1>0 DEF ApproveCommit, Jobs
  <1>6. PostAccepted(p) =>
          /\ job[p].at = "posting" /\ job'[p].at = "answered" /\ job'[p].act = job[p].act
          /\ job'[p].answer = "SUCCEEDED"
    BY <1>0 DEF PostAccepted, Jobs
  <1>7. PostUnknown(p) =>
          /\ job[p].at = "posting" /\ job'[p].at = "answered" /\ job'[p].act = job[p].act
          /\ job'[p].answer = "UNKNOWN"
    BY <1>0 DEF PostUnknown, Jobs
  <1>8. PostRefused(p) =>
          /\ job[p].at = "posting" /\ job'[p].at = "answered" /\ job'[p].act = job[p].act
          /\ job'[p].answer = "FAILED"
    BY <1>0 DEF PostRefused, Jobs
  <1>9. ReconcileStart(p) =>
          /\ job'[p].at = "reconciling" /\ job'[p].act \in ActionIds
          /\ acts[job'[p].act].status \in {"EXECUTING", "UNKNOWN"}
          /\ AtWorkOn(job'[p].act) => RepeatClicks
    <2> SUFFICES ASSUME ReconcileStart(p)
                 PROVE  /\ job'[p].at = "reconciling" /\ job'[p].act \in ActionIds
                        /\ acts[job'[p].act].status \in {"EXECUTING", "UNKNOWN"}
                        /\ AtWorkOn(job'[p].act) => RepeatClicks
      OBVIOUS
    <2>1. PICK a \in ExistingFor(run) :
            /\ acts[a].status \in {"EXECUTING", "UNKNOWN"}
            /\ AtWorkOn(a) => RepeatClicks
            /\ Begin(p, [Idle EXCEPT !.at = "reconciling", !.act = a])
      BY DEF ReconcileStart
    <2>2. job'[p].at = "reconciling" /\ job'[p].act = a
      BY <1>0, <2>1 DEF Begin, Idle
    <2> QED BY <2>1, <2>2 DEF ExistingFor
  <1>10. ApproveStart(p) =>
           /\ job'[p].at = "approving" /\ job'[p].act \in ActionIds /\ job'[p].ver = version
           /\ acts[job'[p].act].status = "PENDING_APPROVAL"
    BY <1>0 DEF ApproveStart, Begin, Idle
  <1>11. RejectStart(p) =>
           /\ job'[p].at = "rejecting" /\ job'[p].act \in ActionIds
           /\ acts[job'[p].act].status = "PENDING_APPROVAL"
    BY <1>0 DEF RejectStart, Begin, Idle
  <1> QED BY <1>1, <1>2, <1>3, <1>4, <1>5, <1>6, <1>7, <1>8, <1>9, <1>10, <1>11

------------------------------------------------------------------------------
(* The attempt cap *)

\* The rows of a case are numbered from one without gaps.
RowsNumbered == \A a \in ActionIds : acts[a].status = "ABSENT" <=> a > attempts

\* A request that works on an action works on a row that is there.
Working == {"posting", "answered", "escalating", "reconciling", "approving", "rejecting"}

WorkedRowsExist ==
  \A p \in Requests : job[p].at \in Working => acts[job[p].act].status # "ABSENT"

RowsInv == RowsNumbered /\ WorkedRowsExist

\* A step rewrites only rows that are there, and leaves them there.
LEMMA RewrittenStays ==
  ASSUME TypeOK, WorksOnAction, RowsInv, NEW a \in ActionIds, Rewritten(a)
  PROVE  acts'[a].status = "ABSENT" <=> acts[a].status = "ABSENT"
  <1>0. acts[a] \in Actions
    BY DEF TypeOK
  <1>1. CASE WebhookResolve /\ acts'[a] = Cancelled(acts[a])
    BY <1>0, <1>1 DEF Cancelled, Actions
  <1>2. ASSUME NEW p \in Requests, a = job[p].act, Rewrites(p, a)
        PROVE  acts[a].status # "ABSENT" /\ acts'[a].status # "ABSENT"
    <2>1. job[p].at \in Working
      BY <1>2 DEF Rewrites, RecordAnswer, ReconcileFound, Escalate, ApproveCommit, RejectStop,
                  RejectReanalyze, Working
    <2>2. acts[a].status # "ABSENT"
      BY <1>2, <2>1 DEF RowsInv, WorkedRowsExist
    <2>3. RecordAnswer(p) => job[p].answer # "ABSENT"
      BY DEF TypeOK, Jobs
    <2>4. acts'[a].status # "ABSENT"
      BY <1>0, <1>2, <2>3 DEF Rewrites, Actions
    <2> QED BY <2>2, <2>4
  <1> QED BY <1>1, <1>2 DEF Rewritten

LEMMA NumberedStep ==
  ASSUME ConstantsAssumption, TypeOK, WorksOnAction, RowsInv, [Next]_vars
  PROVE  RowsNumbered' /\ attempts <= attempts'
  <1>1. attempts \in Nat /\ \A a \in ActionIds : a \in Nat
    BY DEF TypeOK, ActionIds, ConstantsAssumption
  <1>2. CASE attempts' = attempts
    <2>1. ASSUME NEW a \in ActionIds PROVE acts'[a].status = "ABSENT" <=> a > attempts'
      <3>1. ~Inserted(a)
        BY <1>1, <1>2 DEF Inserted
      <3>2. acts'[a].status = "ABSENT" <=> acts[a].status = "ABSENT"
        BY <3>1, RowStep, RewrittenStays DEF RowMoves
      <3> QED BY <1>2, <3>2 DEF RowsInv, RowsNumbered
    <2> QED BY <1>1, <1>2, <2>1 DEF RowsNumbered
  <1>3. ASSUME NEW b \in ActionIds, Inserted(b) PROVE RowsNumbered' /\ attempts <= attempts'
    <2>1. b = attempts + 1 /\ attempts' = attempts + 1
      BY <1>3 DEF Inserted
    <2>2. acts'[b].status # "ABSENT" /\ acts[b].status = "ABSENT"
      BY <1>1, <1>3, <2>1 DEF Inserted, RowsInv, RowsNumbered
    <2>3. ASSUME NEW a \in ActionIds, a # b PROVE acts'[a] = acts[a]
      BY <1>1, <2>1, <2>3, RowStep DEF RowMoves, Inserted
    <2>4. ASSUME NEW a \in ActionIds PROVE acts'[a].status = "ABSENT" <=> a > attempts'
      BY <1>1, <2>1, <2>2, <2>3 DEF RowsInv, RowsNumbered
    <2> QED BY <1>1, <2>1, <2>4 DEF RowsNumbered
  <1> QED BY <1>2, <1>3, RowStep

\* A row that is there stays there.
LEMMA RowsStay ==
  ASSUME ConstantsAssumption, TypeOK, WorksOnAction, RowsInv, [Next]_vars,
         NEW a \in ActionIds, acts[a].status # "ABSENT"
  PROVE  acts'[a].status # "ABSENT"
  <1>1. attempts \in Nat /\ attempts' \in Int /\ a \in Nat
    <2>1. attempts' = attempts \/ attempts' = attempts + 1
      BY RowStep DEF Inserted
    <2> QED BY <2>1 DEF TypeOK, ActionIds, ConstantsAssumption
  <1>2. ~(a > attempts)
    BY DEF RowsInv, RowsNumbered
  <1>3. ~(a > attempts')
    BY <1>1, <1>2, NumberedStep
  <1> QED BY <1>3, NumberedStep DEF RowsNumbered

LEMMA RowsStep ==
  ASSUME ConstantsAssumption, TypeOK, WorksOnAction, RowsInv, [Next]_vars
  PROVE  RowsInv'
  <1> SUFFICES ASSUME NEW p \in Requests, job'[p].at \in Working
               PROVE  acts'[job'[p].act].status # "ABSENT"
    BY NumberedStep DEF RowsInv, WorkedRowsExist
  <1>1. CASE job'[p] = job[p]
    <2>1. job[p].act \in ActionIds
      BY <1>1 DEF WorksOnAction, Working
    <2> QED BY <1>1, <2>1, RowsStay DEF RowsInv, WorkedRowsExist
  <1>2. CASE job'[p].at \in {"idle", "returning", "settling", "analyzing", "analyzed"}
    BY <1>2 DEF Working
  <1>3. CASE ExecuteNow(p)
    <2>1. PICK type \in LinkTypes : Creatable(p, type) /\ InsertAction(type, "EXECUTING")
                                    /\ ~recs[run].gated
      BY <1>3 DEF ExecuteNow
    <2>2. attempts + 1 \in ActionIds /\ Inserted(attempts + 1)
      BY <2>1, InsertMoves DEF LinkTypes, InterventionTypes
    <2> QED BY <1>3, <2>2, NextJob DEF Inserted
  <1>4. CASE ApproveCommit(p) \/ PostAccepted(p) \/ PostUnknown(p) \/ PostRefused(p)
    <2>1. job[p].at \in Working /\ job'[p].act = job[p].act
      BY <1>4, NextJob DEF Working
    <2>2. job[p].act \in ActionIds
      BY <2>1 DEF WorksOnAction, Working
    <2> QED BY <2>1, <2>2, RowsStay DEF RowsInv, WorkedRowsExist
  <1>5. CASE ReconcileStart(p) \/ ApproveStart(p) \/ RejectStart(p)
    <2>1. job'[p].act \in ActionIds /\ acts[job'[p].act].status # "ABSENT"
      BY <1>5, NextJob
    <2> QED BY <2>1, RowsStay
  <1>6. CASE AnalyzeStart(p) \/ AnalyzePersist(p) \/ RejectReanalyze(p)
    BY <1>2, <1>6, NextJob
  <1> QED BY <1>1, <1>2, <1>3, <1>4, <1>5, <1>6, JobStep DEF JobMoves

LEMMA RowsInit == ASSUME ConstantsAssumption PROVE Init => RowsInv
  BY DEF Init, RowsInv, RowsNumbered, WorkedRowsExist, AbsentAction, Idle, Working, ActionIds,
         ConstantsAssumption

LEMMA RowsInvariant == Spec => []RowsInv
  <1>1. Init => RowsInv
    BY RowsInit, ConstantsAssumption
  <1>2. TypeInv /\ RowsInv /\ [Next]_vars => RowsInv'
    BY RowsStep, ConstantsAssumption DEF TypeInv
  <1> QED BY <1>1, <1>2, TypeInvariant, PTL DEF Spec

(***************************************************************************)
(* The attempt limit bounds the actions of a case: the number of rows is   *)
(* the attempt counter, and neither exceeds the limit, whatever mix of     *)
(* waits, links and escalations concurrent requests create.                *)
(***************************************************************************)
THEOREM AttemptsAreCapped == Spec => []AttemptCap
  <1>1. TypeOK /\ RowsInv => AttemptCap
    <2> SUFFICES ASSUME TypeOK, RowsInv PROVE AttemptCap
      OBVIOUS
    <2>1. attempts \in Nat /\ attempts <= MaxAttempts /\ MaxAttempts \in Nat
      BY ConstantsAssumption DEF TypeOK, ConstantsAssumption
    <2>2. {a \in ActionIds : acts[a].status # "ABSENT"} = 1..attempts
      BY <2>1 DEF RowsInv, RowsNumbered, ActionIds
    <2>3. Cardinality(1..attempts) = attempts
      BY <2>1, FS_Interval
    <2> QED BY <2>1, <2>2, <2>3 DEF AttemptCap
  <1> QED BY <1>1, TypeCorrect, RowsInvariant, PTL

------------------------------------------------------------------------------
(* One analysis at a time *)

Analyzing(p) == job[p].at \in {"analyzing", "analyzed"}

OneAnalysis ==
  /\ \A p, q \in Requests : Analyzing(p) /\ Analyzing(q) => p = q
  /\ \A p \in Requests : Analyzing(p) => status \in {"ANALYZING", "RECOVERED"}

\* An analysis starts with a transition into ANALYZING from another status.
LEMMA AnalysisStarts ==
  ASSUME TypeOK, [Next]_vars, NEW p \in Requests, Analyzing(p)', ~Analyzing(p)
  PROVE  /\ status \notin {"ANALYZING", "RECOVERED"} /\ status' = "ANALYZING"
         /\ \A q \in Requests : q # p => job'[q] = job[q]
  <1>1. AnalyzeStart(p) \/ RejectReanalyze(p)
    BY JobStep, NextJob DEF JobMoves, Analyzing
  <1>2. \A q \in Requests : q # p => job'[q] = job[q]
    BY <1>1, ArrivalJob, ContinueJob DEF Arrival, Continue
  <1>3. CASE AnalyzeStart(p)
    <2>1. PICK entry \in AnalysisEntry : entry[1] = status /\ TransitionCase(entry[2], version)
      BY <1>3 DEF AnalyzeStart
    <2>2. /\ entry[2] # "PAYMENT_VERIFIED"
          /\ entry[1] \in {"DETECTED", "SCHEDULED", "WAITING_FOR_OUTCOME"}
          /\ entry[2] \in {"ANALYSIS_REQUESTED", "REEVALUATION_DUE",
                           "NEGATIVE_OUTCOME_OR_TIMEOUT"}
      BY DEF AnalysisEntry
    <2>3. <<status, entry[2], status'>> \in OrdinaryTransitions
      BY <2>1, <2>2, TransitionEntry
    <2> QED BY <1>2, <2>1, <2>2, <2>3 DEF OrdinaryTransitions
  <1>4. CASE RejectReanalyze(p)
    <2>1. <<status, "APPROVAL_REJECTED_REANALYZE", status'>> \in OrdinaryTransitions
      BY <1>4, TransitionEntry DEF RejectReanalyze
    <2> QED BY <1>2, <2>1 DEF OrdinaryTransitions
  <1> QED BY <1>1, <1>3, <1>4

\* Only the analysis itself, or a payment, takes the case out of ANALYZING.
LEMMA AnalysisEnds ==
  ASSUME TypeOK, [Next]_vars, status \in {"ANALYZING", "RECOVERED"},
         status' \notin {"ANALYZING", "RECOVERED"}
  PROVE  \E q \in Requests : Analyzing(q) /\ ~Analyzing(q)'
  <1>1. PICK q \in Requests : RequestMovesCase(q)
    BY CaseStep DEF CaseTable
  <1>2. AnalyzeComplete(q) \/ AnalyzeFail(q)
    BY <1>1 DEF RequestMovesCase
  <1>3. Analyzing(q)
    BY <1>2 DEF AnalyzeComplete, AnalyzeFail, Analyzing
  <1>4. job'[q].at = "idle"
    BY <1>2 DEF AnalyzeComplete, AnalyzeFail, Finish, Idle, TypeOK
  <1> QED BY <1>3, <1>4 DEF Analyzing

LEMMA OneAnalysisStep ==
  ASSUME TypeOK, OneAnalysis, [Next]_vars
  PROVE  OneAnalysis'
  <1>1. ASSUME NEW p \in Requests, NEW q \in Requests, Analyzing(p)', Analyzing(q)', p # q
        PROVE  FALSE
    <2>1. Analyzing(p) \/ Analyzing(q)
      <3>1. CASE ~Analyzing(p)
        BY <1>1, <3>1, AnalysisStarts DEF Analyzing
      <3> QED BY <3>1
    <2>2. CASE Analyzing(p) /\ ~Analyzing(q)
      BY <1>1, <2>2, AnalysisStarts DEF OneAnalysis
    <2>3. CASE Analyzing(q) /\ ~Analyzing(p)
      BY <1>1, <2>3, AnalysisStarts DEF OneAnalysis
    <2>4. CASE Analyzing(p) /\ Analyzing(q)
      BY <1>1, <2>4 DEF OneAnalysis
    <2> QED BY <2>1, <2>2, <2>3, <2>4
  <1>2. ASSUME NEW p \in Requests, Analyzing(p)'
        PROVE  status' \in {"ANALYZING", "RECOVERED"}
    <2>1. CASE ~Analyzing(p)
      BY <1>2, <2>1, AnalysisStarts
    <2>2. CASE Analyzing(p)
      <3>1. status \in {"ANALYZING", "RECOVERED"}
        BY <2>2 DEF OneAnalysis
      <3>2. ASSUME NEW q \in Requests, Analyzing(q), ~Analyzing(q)' PROVE FALSE
        <4>1. p = q
          BY <2>2, <3>2 DEF OneAnalysis
        <4> QED BY <1>2, <3>2, <4>1 DEF Analyzing
      <3> QED BY <3>1, <3>2, AnalysisEnds
    <2> QED BY <2>1, <2>2
  <1> QED BY <1>1, <1>2 DEF OneAnalysis, Analyzing

LEMMA OneAnalysisInvariant == Spec => []OneAnalysis
  <1>1. Init => OneAnalysis
    BY DEF Init, OneAnalysis, Analyzing, Idle
  <1>2. TypeInv /\ OneAnalysis /\ [Next]_vars => OneAnalysis'
    BY OneAnalysisStep DEF TypeInv
  <1> QED BY <1>1, <1>2, TypeInvariant, PTL DEF Spec

(***************************************************************************)
(* At most one analysis runs at a time, and the case is ANALYZING under it *)
(* unless a payment has resolved it, however many requests analyze, reject *)
(* and record answers of the provider at once.                             *)
(***************************************************************************)
THEOREM AnalysesAreExclusive == Spec => []AtMostOneAnalysis
  <1>1. OneAnalysis => AtMostOneAnalysis
    <2> SUFFICES ASSUME OneAnalysis PROVE AtMostOneAnalysis
      OBVIOUS
    <2> DEFINE analyzing == {p \in Requests : job[p].at \in {"analyzing", "analyzed"}}
    <2>1. analyzing = {} \/ \E p \in analyzing : analyzing = {p}
      BY DEF OneAnalysis, Analyzing
    <2>2. Cardinality(analyzing) <= 1
      <3>1. CASE analyzing = {}
        BY <3>1, FS_EmptySet
      <3>2. ASSUME NEW p \in analyzing, analyzing = {p} PROVE Cardinality(analyzing) = 1
        BY <3>2, FS_Singleton
      <3> HIDE DEF analyzing
      <3> QED BY <2>1, <3>1, <3>2
    <2>3. analyzing # {} => status \in {"ANALYZING", "RECOVERED"}
      BY DEF OneAnalysis, Analyzing
    <2> QED BY <2>2, <2>3 DEF AtMostOneAnalysis
  <1> QED BY <1>1, OneAnalysisInvariant, PTL

------------------------------------------------------------------------------
(* Analysis runs are drawn once *)

(***************************************************************************)
(* The current run and the runs of the rows have been drawn, and the run   *)
(* of an analysis that has not persisted yet is newer than the current one *)
(* and used by nobody else: what a persist writes is read by no row that   *)
(* exists.                                                                 *)
(***************************************************************************)
Unpersisted(p) == job[p].at = "analyzing"

RunsDrawn ==
  /\ run \in 0..runs
  /\ \A a \in ActionIds : acts[a].status # "ABSENT" => acts[a].run \in 1..runs
  /\ \A p \in Requests : Unpersisted(p) =>
       /\ job[p].run \in 1..runs /\ job[p].run > run
       /\ \A a \in ActionIds : acts[a].status # "ABSENT" => acts[a].run # job[p].run

DrawsRun(p) ==
  /\ AnalyzeStart(p) \/ RejectReanalyze(p)
  /\ runs' = runs + 1
  /\ UNCHANGED <<run, recs>>

PersistsRun(p) ==
  /\ AnalyzePersist(p)
  /\ run' = job[p].run
  /\ UNCHANGED <<runs, acts, attempts, status>>
  /\ \A r \in RunIds : r # job[p].run => recs'[r] = recs[r]

LEMMA AnalysisMoves ==
  ASSUME TypeOK, [Next]_vars
  PROVE  UNCHANGED analysis \/ \E p \in Requests : DrawsRun(p) \/ PersistsRun(p)
  <1> DEFINE Goal == UNCHANGED analysis \/ \E p \in Requests : DrawsRun(p) \/ PersistsRun(p)
  <1> SUFFICES Goal
    OBVIOUS
  <1>1. ASSUME NEW p \in Requests, Arrival(p) PROVE Goal
    <2>1. CASE AnalyzeStart(p)
      BY <2>1 DEF AnalyzeStart, DrawsRun
    <2>2. CASE ~AnalyzeStart(p)
      BY <1>1, <2>2 DEF Arrival, CreateStop, CreateWait, StageForApproval, ExecuteNow,
                        ReconcileStart, ApproveStart, RejectStart, RequestWithoutEffect
    <2> QED BY <2>1, <2>2
  <1>2. ASSUME NEW p \in Requests, Continue(p) PROVE Goal
    <2>1. CASE RejectReanalyze(p)
      BY <2>1 DEF RejectReanalyze, DrawsRun
    <2>2. CASE AnalyzePersist(p)
      <3>1. PICK r \in Selectable(job[p].excluded) : recs' = [recs EXCEPT ![job[p].run] = r]
        BY <2>2 DEF AnalyzePersist
      <3>2. \A s \in RunIds : s # job[p].run => recs'[s] = recs[s]
        BY <3>1 DEF TypeOK
      <3> QED BY <2>2, <3>2 DEF AnalyzePersist, PersistsRun, caseRow, actionRows
    <2>3. CASE AnalyzeComplete(p) \/ AnalyzeFail(p) \/ PostAccepted(p) \/ PostUnknown(p)
               \/ PostRefused(p) \/ RecordAnswer(p) \/ Settle(p) \/ ReconcileFound(p)
               \/ ReconcileNothing(p)
      BY <2>3 DEF AnalyzeComplete, AnalyzeFail, PostAccepted, PostUnknown, PostRefused,
                  RecordAnswer, Settle, ReconcileFound, ReconcileNothing
    <2>4. CASE ApproveCommit(p) \/ ApproveRefused(p) \/ Escalate(p) \/ RejectStop(p)
               \/ RejectRefused(p) \/ SessionClosed(p)
      BY <2>4 DEF ApproveCommit, ApproveRefused, Escalate, RejectStop, RejectRefused,
                  SessionClosed, analysis
    <2> QED BY <1>2, <2>1, <2>2, <2>3, <2>4 DEF Continue
  <1>3. ASSUME NEW p \in Requests, RequestDies(p) PROVE Goal
    BY <1>3 DEF RequestDies
  <1>4. CASE Webhook
    BY <1>4 DEF Webhook, WebhookRead, WebhookDismiss, WebhookResolve, WebhookStale,
                WebhookAcknowledge
  <1>5. CASE CustomerPays \/ WebhookDies \/ ProcessDies \/ UNCHANGED vars
    BY <1>5 DEF CustomerPays, WebhookDies, ProcessDies, vars, analysis
  <1> QED BY <1>1, <1>2, <1>3, <1>4, <1>5 DEF Next

\* A row keeps its type and run; a new one takes the current run.
LEMMA RowKeeps ==
  ASSUME ConstantsAssumption, TypeOK, WorksOnAction, RowsInv, [Next]_vars, NEW a \in ActionIds
  PROVE  /\ acts[a].status # "ABSENT" =>
              /\ acts'[a].type = acts[a].type /\ acts'[a].run = acts[a].run
              /\ acts[a].approved => acts'[a].approved
         /\ acts[a].status = "ABSENT" /\ acts'[a].status # "ABSENT" => Inserted(a)
  <1>0. acts[a] \in Actions
    BY DEF TypeOK
  <1>1. CASE acts'[a] = acts[a]
    BY <1>1
  <1>2. CASE Inserted(a)
    <2>1. acts[a].status = "ABSENT"
      BY <1>2 DEF Inserted, RowsInv, RowsNumbered, TypeOK
    <2> QED BY <1>2, <2>1
  <1>3. CASE Rewritten(a)
    <2>1. acts'[a].type = acts[a].type /\ acts'[a].run = acts[a].run
          /\ (acts[a].approved => acts'[a].approved)
      BY <1>0, <1>3 DEF Rewritten, Rewrites, Cancelled, Actions
    <2> QED BY <1>3, <2>1, RewrittenStays
  <1> QED BY <1>1, <1>2, <1>3, RowStep DEF RowMoves

LEMMA RunsDrawnStep ==
  ASSUME ConstantsAssumption, TypeOK, WorksOnAction, RowsInv, OneAnalysis, RunsDrawn, [Next]_vars
  PROVE  RunsDrawn'
  <1>0. runs \in Nat /\ runs' \in Nat /\ runs <= runs'
    BY AnalysisMoves DEF TypeOK, ConstantsAssumption, analysis, DrawsRun, PersistsRun
  <1>1. run' \in 0..runs'
    <2>1. CASE \E p \in Requests : PersistsRun(p)
      BY <1>0, <2>1 DEF PersistsRun, AnalyzePersist, RunsDrawn, Unpersisted
    <2>2. CASE UNCHANGED run
      BY <1>0, <2>2 DEF RunsDrawn
    <2> QED BY <2>1, <2>2, AnalysisMoves DEF analysis, DrawsRun
  <1>2. ASSUME NEW a \in ActionIds, acts'[a].status # "ABSENT"
        PROVE  /\ acts'[a].run \in 1..runs'
               /\ \/ acts'[a].run = run
                  \/ acts[a].status # "ABSENT" /\ acts'[a].run = acts[a].run
    <2>1. CASE acts[a].status # "ABSENT"
      BY <1>0, <2>1, RowKeeps DEF RunsDrawn
    <2>2. CASE acts[a].status = "ABSENT"
      <3>1. Inserted(a)
        BY <1>2, <2>2, RowKeeps
      <3>2. acts'[a].run = run /\ run # 0
        BY <3>1 DEF Inserted, Creatable
      <3> QED BY <1>0, <3>2 DEF RunsDrawn
    <2> QED BY <2>1, <2>2
  <1>3. ASSUME NEW p \in Requests, Unpersisted(p)'
        PROVE  /\ job'[p].run \in 1..runs' /\ job'[p].run > run'
               /\ \A a \in ActionIds : acts'[a].status # "ABSENT" => acts'[a].run # job'[p].run
    <2>1. CASE job'[p] = job[p]
      <3>1. /\ Unpersisted(p) /\ job'[p].run = job[p].run
            /\ job[p].run \in 1..runs /\ job[p].run > run
        BY <1>3, <2>1 DEF Unpersisted, RunsDrawn
      <3>2. \A a \in ActionIds : acts'[a].status # "ABSENT" => acts'[a].run # job[p].run
        BY <1>2, <3>1 DEF RunsDrawn
      <3>3. job[p].run > run'
        <4>1. ASSUME NEW q \in Requests, PersistsRun(q) PROVE FALSE
          <5>1. q = p
            BY <3>1, <4>1 DEF OneAnalysis, Analyzing, Unpersisted, PersistsRun, AnalyzePersist
          <5> QED BY <1>3, <4>1, <5>1, NextJob DEF PersistsRun, Unpersisted
        <4>2. run' = run
          BY <4>1, AnalysisMoves DEF analysis, DrawsRun
        <4> QED BY <3>1, <4>2
      <3> QED BY <1>0, <3>1, <3>2, <3>3
    <2>2. CASE AnalyzeStart(p) \/ RejectReanalyze(p)
      <3>1. job'[p].run = runs + 1 /\ runs' = runs + 1 /\ run' = run
        BY <2>2, NextJob DEF AnalyzeStart, RejectReanalyze
      <3>2. run \in 0..runs
        BY DEF RunsDrawn
      <3>3. ASSUME NEW a \in ActionIds, acts'[a].status # "ABSENT" PROVE acts'[a].run # runs + 1
        <4>1. acts'[a].run \in 0..runs
          BY <1>0, <1>2, <3>2, <3>3 DEF RunsDrawn
        <4> QED BY <1>0, <4>1
      <3> QED BY <1>0, <3>1, <3>2, <3>3
    <2>3. ~(AnalyzePersist(p) \/ ExecuteNow(p) \/ ApproveCommit(p) \/ PostAccepted(p)
            \/ PostUnknown(p) \/ PostRefused(p) \/ ReconcileStart(p) \/ ApproveStart(p)
            \/ RejectStart(p))
      BY <1>3, NextJob DEF Unpersisted
    <2> QED BY <1>3, <2>1, <2>2, <2>3, JobStep DEF JobMoves, Unpersisted
  <1> QED BY <1>1, <1>2, <1>3 DEF RunsDrawn, Unpersisted

LEMMA RunsInvariant == Spec => []RunsDrawn
  <1>1. Init => RunsDrawn
    BY DEF Init, RunsDrawn, Unpersisted, AbsentAction, Idle
  <1>2. TypeInv /\ RowsInv /\ OneAnalysis /\ RunsDrawn /\ [Next]_vars => RunsDrawn'
    BY RunsDrawnStep, ConstantsAssumption DEF TypeInv
  <1> QED BY <1>1, <1>2, TypeInvariant, RowsInvariant, OneAnalysisInvariant, PTL DEF Spec

------------------------------------------------------------------------------
(* Requests and the rows they work on *)

Uncommitted == {"ABSENT", "PENDING_APPROVAL", "SCHEDULED"}
InFlight == {"posting", "answered"}
Committed == InFlight \cup {"escalating", "reconciling"}

(***************************************************************************)
(* A request that calls the provider, escalates or reconciles has a row    *)
(* that was committed to execution before; a call in progress belongs to a *)
(* link and its row takes no answer of another call, nor of a              *)
(* reconciliation unless clicks are repeated while it runs; an approval    *)
(* whose version is still the case's finds its row pending.                *)
(***************************************************************************)
CalledRow == {"EXECUTING", "CANCELLED"} \cup (IF RepeatClicks THEN {"SUCCEEDED"} ELSE {})

RequestOnRow(p) ==
  /\ job[p].at \in Committed => acts[job[p].act].status \notin Uncommitted
  /\ job[p].at \in InFlight =>
       /\ acts[job[p].act].type \in LinkTypes
       /\ acts[job[p].act].status \in CalledRow
  /\ job[p].at = "escalating" => acts[job[p].act].type \notin LinkTypes
  /\ job[p].at = "approving" =>
       /\ job[p].ver <= version
       /\ job[p].ver = version => acts[job[p].act].status = "PENDING_APPROVAL"

OneCall ==
  \A p, q \in Requests :
    /\ job[p].at \in InFlight /\ job[q].at \in InFlight
    /\ job[p].act = job[q].act
    => p = q

UnknownIsLink == \A a \in ActionIds : acts[a].status = "UNKNOWN" => acts[a].type \in LinkTypes

\* Without repeated clicks nobody reconciles a row whose call is in progress.
NoReconciliationInFlight ==
  \A p, q \in Requests :
    /\ job[p].at \in InFlight /\ job[q].at = "reconciling"
    /\ job[p].act = job[q].act
    => RepeatClicks

CallsInv ==
  /\ \A p \in Requests : RequestOnRow(p)
  /\ OneCall
  /\ NoReconciliationInFlight
  /\ UnknownIsLink

\* What each rewriting step finds in the row, and what it writes.
RewriteEffect(p, a) ==
  \/ /\ RecordAnswer(p) /\ acts[a].type \in LinkTypes
     /\ acts[a].status \in CalledRow
     /\ acts'[a].status = job[p].answer /\ version' = version
     /\ job[p].answer \in {"SUCCEEDED", "UNKNOWN", "FAILED"}
  \/ /\ ReconcileFound(p) /\ a \in links /\ acts[a].status \notin Uncommitted
     /\ acts'[a].status = "SUCCEEDED" /\ version' = version
  \/ /\ Escalate(p) /\ acts[a].type \notin LinkTypes /\ acts[a].status \notin Uncommitted
     /\ acts'[a].status = "SUCCEEDED" /\ version' = version
  \/ /\ ApproveCommit(p) /\ acts[a].status = "PENDING_APPROVAL"
     /\ acts'[a].status = "EXECUTING" /\ acts'[a].approved
     /\ status = "AWAITING_APPROVAL" /\ version' = version + 1
  \/ /\ RejectStop(p) \/ RejectReanalyze(p)
     /\ acts[a].status # "ABSENT" /\ acts'[a].status = "CANCELLED"
     /\ status = "AWAITING_APPROVAL" /\ version' = version + 1

LEMMA RewriteFacts ==
  ASSUME ConstantsAssumption, TypeOK, WorksOnAction, RowsInv, CallsInv, [Next]_vars,
         NEW p \in Requests, NEW a \in ActionIds, a = job[p].act, Rewrites(p, a)
  PROVE  RewriteEffect(p, a)
  <1>0. acts[a] \in Actions /\ RequestOnRow(p)
    BY DEF TypeOK, CallsInv
  <1>1. CASE RecordAnswer(p) /\ acts'[a] = [acts[a] EXCEPT !.status = job[p].answer]
    <2>1. job[p].at = "answered" /\ version' = version
      BY <1>1 DEF RecordAnswer, caseRow
    <2>2. job[p].answer \in {"SUCCEEDED", "UNKNOWN", "FAILED"}
      BY <2>1 DEF TypeOK, WorksOnAction, Jobs
    <2>3. acts[a].type \in LinkTypes /\ acts[a].status \in CalledRow
      BY <1>0, <2>1 DEF RequestOnRow, InFlight
    <2>4. acts'[a].status = job[p].answer
      BY <1>0, <1>1 DEF Actions
    <2> QED BY <1>1, <2>1, <2>2, <2>3, <2>4 DEF RewriteEffect
  <1>2. CASE ReconcileFound(p) /\ acts'[a] = [acts[a] EXCEPT !.status = "SUCCEEDED"]
    <2>1. job[p].at = "reconciling" /\ version' = version /\ a \in links
      BY <1>2 DEF ReconcileFound, caseRow
    <2>2. acts[a].status \notin Uncommitted
      BY <1>0, <2>1 DEF RequestOnRow, Committed
    <2>3. acts'[a].status = "SUCCEEDED"
      BY <1>0, <1>2 DEF Actions
    <2> QED BY <1>2, <2>1, <2>2, <2>3 DEF RewriteEffect
  <1>3. CASE Escalate(p) /\ acts'[a] = [acts[a] EXCEPT !.status = "SUCCEEDED"]
    <2>1. job[p].at = "escalating" /\ version' = version
      BY <1>3 DEF Escalate, caseRow
    <2>2. acts[a].status \notin Uncommitted /\ acts[a].type \notin LinkTypes
      BY <1>0, <2>1 DEF RequestOnRow, Committed
    <2>3. acts'[a].status = "SUCCEEDED"
      BY <1>0, <1>3 DEF Actions
    <2> QED BY <1>3, <2>1, <2>2, <2>3 DEF RewriteEffect
  <1>4. CASE /\ ApproveCommit(p)
             /\ acts'[a] = [acts[a] EXCEPT !.status = "EXECUTING", !.approved = TRUE]
    <2>1. job[p].at = "approving" /\ version = job[p].ver /\ status = "AWAITING_APPROVAL"
          /\ TransitionCase("APPROVED_NOW", job[p].ver)
      BY <1>4 DEF ApproveCommit, Approvable
    <2>2. acts[a].status = "PENDING_APPROVAL"
      BY <1>0, <2>1 DEF RequestOnRow
    <2>3. acts'[a].status = "EXECUTING" /\ acts'[a].approved
      BY <1>0, <1>4 DEF Actions
    <2>4. version' = version + 1
      BY <2>1, TransitionEntry
    <2> QED BY <1>4, <2>1, <2>2, <2>3, <2>4 DEF RewriteEffect
  <1>5. CASE /\ RejectStop(p) \/ RejectReanalyze(p)
             /\ acts'[a] = [acts[a] EXCEPT !.status = "CANCELLED"]
    <2>1. job[p].at = "rejecting"
      BY <1>5 DEF RejectStop, RejectReanalyze
    <2>2. acts[a].status # "ABSENT"
      BY <2>1 DEF RowsInv, WorkedRowsExist, Working
    <2>3. acts'[a].status = "CANCELLED"
      BY <1>0, <1>5 DEF Actions
    <2>4. CASE RejectStop(p)
      <3>1. <<status, "APPROVAL_REJECTED_STOP", status'>> \in OrdinaryTransitions
            /\ version' = version + 1
        BY <2>4, TransitionEntry DEF RejectStop
      <3>2. status = "AWAITING_APPROVAL"
        BY <3>1 DEF OrdinaryTransitions
      <3> QED BY <1>5, <2>2, <2>3, <3>1, <3>2 DEF RewriteEffect
    <2>5. CASE RejectReanalyze(p)
      <3>1. <<status, "APPROVAL_REJECTED_REANALYZE", status'>> \in OrdinaryTransitions
            /\ version' = version + 1
        BY <2>5, TransitionEntry DEF RejectReanalyze
      <3>2. status = "AWAITING_APPROVAL"
        BY <3>1 DEF OrdinaryTransitions
      <3> QED BY <1>5, <2>2, <2>3, <3>1, <3>2 DEF RewriteEffect
    <2> QED BY <1>5, <2>4, <2>5
  <1> QED BY <1>1, <1>2, <1>3, <1>4, <1>5 DEF Rewrites

\* The webhook cancels rows that wait, and moves the case.
LEMMA CancelFacts ==
  ASSUME TypeOK, NEW a \in ActionIds, WebhookResolve, acts'[a] = Cancelled(acts[a])
  PROVE  /\ acts'[a] = acts[a] \/ /\ acts[a].status \in {"PENDING_APPROVAL", "SCHEDULED"}
                                  /\ acts'[a].status = "CANCELLED"
         /\ version' = version + 1 /\ status' = "RECOVERED"
  <1>1. acts[a] \in Actions
    BY DEF TypeOK
  <1> QED BY <1>1, ResolveStep DEF Cancelled, Actions

\* The version of a case only grows.
LEMMA VersionGrows ==
  ASSUME TypeOK, [Next]_vars
  PROVE  version \in Nat /\ (version' = version \/ version' = version + 1)
  BY CaseStep DEF CaseTable, TypeOK

\* An answer is recorded by the request that got it, which then settles.
LEMMA RecorderLeaves ==
  ASSUME TypeOK, NEW p \in Requests, RecordAnswer(p)
  PROVE  job[p].at = "answered" /\ job'[p] # job[p]
  BY DEF RecordAnswer, TypeOK, Jobs

\* A request that rests keeps its row in order while others move.
LEMMA RestingOnRow ==
  ASSUME ConstantsAssumption, TypeOK, WorksOnAction, RowsInv, CallsInv, [Next]_vars,
         NEW p \in Requests, job'[p] = job[p]
  PROVE  RequestOnRow(p)'
  <1> SUFFICES ASSUME job[p].at \in Working PROVE RequestOnRow(p)'
    BY DEF RequestOnRow, Committed, InFlight, Working
  <1> DEFINE a == job[p].act
  <1>0. a \in ActionIds /\ acts[a].status # "ABSENT" /\ RequestOnRow(p) /\ job[p].ver \in Nat
    BY DEF WorksOnAction, Working, RowsInv, WorkedRowsExist, CallsInv, TypeOK, Jobs
  <1>1. acts'[a].type = acts[a].type
    BY <1>0, RowKeeps
  <1>2. version \in Nat /\ version <= version' /\ (version' = version \/ version' = version + 1)
    BY VersionGrows
  <1>3. CASE acts'[a] = acts[a]
    <2>1. job[p].ver <= version /\ job[p].ver = version' => job[p].ver = version
      BY <1>0, <1>2
    <2> QED BY <1>0, <1>2, <1>3, <2>1 DEF RequestOnRow
  <1>4. ~Inserted(a)
    BY <1>0 DEF Inserted, RowsInv, RowsNumbered, TypeOK
  <1>5. CASE WebhookResolve /\ acts'[a] = Cancelled(acts[a]) /\ acts'[a] # acts[a]
    <2>1. /\ acts[a].status \in {"PENDING_APPROVAL", "SCHEDULED"}
          /\ acts'[a].status = "CANCELLED" /\ version' = version + 1
      BY <1>0, <1>5, CancelFacts
    <2> HIDE DEF a
    <2>2. a = job[p].act
      BY DEF a
    <2> QED BY <1>0, <1>1, <1>2, <2>1, <2>2 
          DEF RequestOnRow, Uncommitted, Committed, InFlight, CalledRow
  <1>6. ASSUME NEW q \in Requests, a = job[q].act, RewriteEffect(q, a) PROVE RequestOnRow(p)'
    <2>1. acts'[a].status \notin Uncommitted
      BY <1>6 DEF RewriteEffect, Uncommitted
    <2>2. job[p].at \in InFlight => acts'[a].status \in CalledRow
      <3> SUFFICES ASSUME job[p].at \in InFlight PROVE acts'[a].status \in CalledRow
        OBVIOUS
      <3>1. ASSUME RecordAnswer(q) PROVE FALSE
        <4>1. p = q
          BY <1>6, <3>1, RecorderLeaves DEF CallsInv, OneCall, InFlight
        <4> QED BY <3>1, <4>1, RecorderLeaves
      <3>2. ReconcileFound(q) => RepeatClicks
        BY <1>6 DEF CallsInv, NoReconciliationInFlight, ReconcileFound
      <3>3. ~Escalate(q)
        BY <1>0, <1>6 DEF RequestOnRow, RewriteEffect, Escalate, CallsInv
      <3> QED BY <1>6, <3>1, <3>2, <3>3 DEF RewriteEffect, CalledRow
    <2>3. job[p].at = "approving" => job[p].ver <= version' /\ job[p].ver # version'
      <3> SUFFICES ASSUME job[p].at = "approving"
                   PROVE  job[p].ver <= version' /\ job[p].ver # version'
        OBVIOUS
      <3>1. job[p].ver <= version /\ (job[p].ver = version => acts[a].status = "PENDING_APPROVAL")
        BY <1>0 DEF RequestOnRow
      <3>2. CASE version' = version + 1
        BY <1>0, <1>2, <3>1, <3>2
      <3>3. CASE version' = version
        <4>1. acts[a].status # "PENDING_APPROVAL"
          BY <1>2, <1>6, <3>3 DEF RewriteEffect, Uncommitted, CalledRow
        <4> QED BY <1>0, <3>1, <3>3, <4>1
      <3> QED BY <1>2, <3>2, <3>3
    <2> HIDE DEF a
    <2>4. a = job[p].act
      BY DEF a
    <2> QED BY <1>0, <1>1, <2>1, <2>2, <2>3, <2>4 DEF RequestOnRow
  <1>7. Rewritten(a) => \/ WebhookResolve /\ acts'[a] = Cancelled(acts[a])
                        \/ \E q \in Requests : a = job[q].act /\ RewriteEffect(q, a)
    BY <1>0, RewriteFacts DEF Rewritten
  <1> QED BY <1>0, <1>3, <1>4, <1>5, <1>6, <1>7, RowStep DEF RowMoves

\* An execution starts on the row that it inserts.
LEMMA ExecuteNowFacts ==
  ASSUME ConstantsAssumption, TypeOK, NEW p \in Requests, ExecuteNow(p)
  PROVE  /\ attempts + 1 \in ActionIds /\ attempts' = attempts + 1
         /\ acts'[attempts + 1].type \in LinkTypes
         /\ acts'[attempts + 1].status = "EXECUTING"
         /\ acts'[attempts + 1].run = run /\ ~recs[run].gated
         /\ job'[p].at = "posting" /\ job'[p].act = attempts + 1
  <1>1. PICK type \in LinkTypes : Creatable(p, type) /\ InsertAction(type, "EXECUTING")
                                  /\ ~recs[run].gated
    BY DEF ExecuteNow
  <1>2. attempts + 1 \in ActionIds
    BY <1>1, InsertMoves DEF LinkTypes, InterventionTypes
  <1>3. acts'[attempts + 1] =
          [type |-> type, status |-> "EXECUTING", run |-> run, approved |-> FALSE]
        /\ attempts' = attempts + 1
    BY <1>1, <1>2 DEF InsertAction, TypeOK
  <1> QED BY <1>1, <1>2, <1>3, NextJob

\* A request that moves takes its row along.
LEMMA MovingOnRow ==
  ASSUME ConstantsAssumption, TypeOK, WorksOnAction, RowsInv, CallsInv, [Next]_vars,
         NEW p \in Requests, job'[p] # job[p]
  PROVE  RequestOnRow(p)'
  <1>1. CASE job'[p].at \in {"idle", "returning", "settling", "analyzing", "analyzed"}
    BY <1>1 DEF RequestOnRow, Committed, InFlight
  <1>2. CASE ExecuteNow(p)
    BY <1>2, ExecuteNowFacts DEF RequestOnRow, Uncommitted, CalledRow
  <1>3. CASE ApproveCommit(p)
    <2> DEFINE a == job[p].act
    <2>1. job[p].at = "approving" /\ job'[p].act = a
          /\ job'[p].at = IF acts[a].type \in LinkTypes THEN "posting" ELSE "escalating"
      BY <1>3, NextJob
    <2>2. a \in ActionIds /\ acts[a].status # "ABSENT"
      BY <2>1 DEF WorksOnAction, RowsInv, WorkedRowsExist, Working
    <2>3. acts'[a].type = acts[a].type
      BY <2>2, RowKeeps
    <2>4. acts'[a].status = "EXECUTING"
      BY <1>3, <2>2 DEF ApproveCommit, TypeOK, Actions
    <2> HIDE DEF a
    <2> QED BY <2>1, <2>3, <2>4
        DEF RequestOnRow, Uncommitted, InFlight, Committed, CalledRow
  <1>4. CASE PostAccepted(p) \/ PostUnknown(p) \/ PostRefused(p)
    <2>1. job[p].at = "posting" /\ job'[p].at = "answered" /\ job'[p].act = job[p].act
      BY <1>4, NextJob
    <2>2. acts' = acts
      BY <1>4 DEF PostAccepted, PostUnknown, PostRefused, actionRows
    <2>3. RequestOnRow(p)
      BY DEF CallsInv
    <2> QED BY <2>1, <2>2, <2>3 DEF RequestOnRow, InFlight, Committed
  <1>5. CASE ReconcileStart(p)
    <2>1. acts' = acts
      BY <1>5 DEF ReconcileStart, actionRows
    <2> QED BY <1>5, <2>1, NextJob DEF RequestOnRow, InFlight, Committed, Uncommitted
  <1>6. CASE ApproveStart(p)
    <2>1. acts' = acts /\ version' = version /\ version \in Nat
      BY <1>6 DEF ApproveStart, actionRows, caseRow, TypeOK
    <2> QED BY <1>6, <2>1, NextJob DEF RequestOnRow, InFlight, Committed
  <1>7. CASE RejectStart(p)
    BY <1>7, NextJob DEF RequestOnRow, InFlight, Committed
  <1>8. AnalyzeStart(p) \/ AnalyzePersist(p) \/ RejectReanalyze(p)
        => job'[p].at \in {"analyzing", "analyzed"}
    BY NextJob
  <1> QED BY <1>1, <1>2, <1>3, <1>4, <1>5, <1>6, <1>7, <1>8, JobStep DEF JobMoves

\* A reconciliation starts on a row that nobody is at work on, or clicks are repeated;
\* a call starts on a row that was not committed yet.
LEMMA NoReconciliationStep ==
  ASSUME ConstantsAssumption, TypeOK, WorksOnAction, RowsInv, CallsInv, [Next]_vars
  PROVE  NoReconciliationInFlight'
  <1> SUFFICES ASSUME NEW p \in Requests, NEW q \in Requests, ~RepeatClicks,
                      job'[p].at \in InFlight, job'[q].at = "reconciling",
                      job'[p].act = job'[q].act
               PROVE  FALSE
    BY DEF NoReconciliationInFlight
  <1>0. p # q
    BY DEF InFlight
  <1>1. CASE job'[p] = job[p] /\ job'[q] = job[q]
    BY <1>1 DEF CallsInv, NoReconciliationInFlight
  <1>2. CASE job'[q] # job[q]
    <2>1. ReconcileStart(q)
      BY <1>2, JobStep, NextJob DEF JobMoves
    <2>2. job'[p] = job[p]
      BY <1>0, <2>1, ArrivalJob DEF Arrival
    <2>3. ~AtWorkOn(job'[q].act)
      BY <2>1, NextJob
    <2> QED BY <2>2, <2>3 DEF AtWorkOn, InFlight
  <1>3. CASE job'[p] # job[p]
    <2>1. \/ ExecuteNow(p) \/ ApproveCommit(p)
          \/ PostAccepted(p) \/ PostUnknown(p) \/ PostRefused(p)
      BY <1>3, JobStep, NextJob DEF JobMoves, InFlight
    <2>2. job'[q] = job[q]
      BY <1>0, <2>1, ArrivalJob, ContinueJob DEF Arrival, Continue
    <2>3. acts[job[q].act].status \notin Uncommitted
      BY <2>2 DEF CallsInv, RequestOnRow, Committed
    <2>4. CASE ExecuteNow(p)
      <3>1. acts[attempts + 1].status = "ABSENT"
        BY <2>4, ExecuteNowFacts DEF RowsInv, RowsNumbered, TypeOK
      <3> QED BY <2>2, <2>3, <2>4, <3>1, ExecuteNowFacts DEF Uncommitted
    <2>5. CASE ApproveCommit(p)
      <3>1. job[p].at = "approving" /\ job[p].ver = version /\ job'[p].act = job[p].act
        BY <2>5, NextJob DEF ApproveCommit, Approvable
      <3>2. acts[job[p].act].status = "PENDING_APPROVAL"
        BY <3>1 DEF CallsInv, RequestOnRow
      <3> QED BY <2>2, <2>3, <3>1, <3>2 DEF Uncommitted
    <2>6. CASE PostAccepted(p) \/ PostUnknown(p) \/ PostRefused(p)
      <3>1. job[p].at \in InFlight /\ job'[p].act = job[p].act
        BY <2>6, NextJob DEF InFlight
      <3> QED BY <2>2, <3>1 DEF CallsInv, NoReconciliationInFlight
    <2> QED BY <2>1, <2>4, <2>5, <2>6
  <1> QED BY <1>1, <1>2, <1>3

LEMMA OneCallStep ==
  ASSUME ConstantsAssumption, TypeOK, WorksOnAction, RowsInv, CallsInv, [Next]_vars
  PROVE  OneCall'
  <1>1. ASSUME NEW p \in Requests, NEW q \in Requests, p # q, job'[p] # job[p],
               job'[p].at \in InFlight, job'[q].at \in InFlight, job'[p].act = job'[q].act
        PROVE  FALSE
    <2>1. \/ ExecuteNow(p) \/ ApproveCommit(p)
          \/ PostAccepted(p) \/ PostUnknown(p) \/ PostRefused(p)
      BY <1>1, JobStep, NextJob DEF JobMoves, InFlight
    <2>2. job'[q] = job[q]
      BY <1>1, <2>1, ArrivalJob, ContinueJob DEF Arrival, Continue
    <2>3. RequestOnRow(q) /\ job[q].at \in InFlight /\ acts[job[q].act].status # "ABSENT"
      BY <1>1, <2>2 DEF CallsInv, RowsInv, WorkedRowsExist, Working, InFlight
    <2>4. CASE ExecuteNow(p)
      <3>1. acts[attempts + 1].status = "ABSENT"
        BY <2>4, ExecuteNowFacts DEF RowsInv, RowsNumbered, TypeOK
      <3> QED BY <1>1, <2>2, <2>3, <2>4, <3>1, ExecuteNowFacts
    <2>5. CASE ApproveCommit(p)
      <3>1. job[p].at = "approving" /\ job[p].ver = version /\ job'[p].act = job[p].act
        BY <2>5, NextJob DEF ApproveCommit, Approvable
      <3>2. acts[job[p].act].status = "PENDING_APPROVAL"
        BY <3>1 DEF CallsInv, RequestOnRow
      <3> QED BY <1>1, <2>2, <2>3, <3>1, <3>2 DEF RequestOnRow, CalledRow
    <2>6. CASE PostAccepted(p) \/ PostUnknown(p) \/ PostRefused(p)
      <3>1. job[p].at \in InFlight /\ job'[p].act = job[p].act
        BY <2>6, NextJob DEF InFlight
      <3> QED BY <1>1, <2>2, <2>3, <3>1 DEF CallsInv, OneCall
    <2> QED BY <2>1, <2>4, <2>5, <2>6
  <1>2. ASSUME NEW p \in Requests, NEW q \in Requests, job'[p] = job[p], job'[q] = job[q],
               job'[p].at \in InFlight, job'[q].at \in InFlight, job'[p].act = job'[q].act
        PROVE  p = q
    BY <1>2 DEF CallsInv, OneCall
  <1> QED BY <1>1, <1>2 DEF OneCall

\* An inserted row was free, and starts with what the create call decided.
LEMMA InsertedRow ==
  ASSUME TypeOK, RowsInv, NEW a \in ActionIds, Inserted(a)
  PROVE  /\ acts[a].status = "ABSENT"
         /\ acts'[a].status \in {"SCHEDULED", "PENDING_APPROVAL", "EXECUTING"}
         /\ acts'[a].run = run /\ recs[run].type = acts'[a].type
         /\ run # 0 /\ status = "RECOMMENDED" /\ PolicyEligible(acts'[a].type)
         /\ acts'[a].type \in InterventionTypes
         /\ acts'[a].status = "SCHEDULED" => acts'[a].type = "WAIT"
         /\ acts'[a].status = "EXECUTING" => ~recs[run].gated
  <1>1. PICK p \in Requests, type \in InterventionTypes,
             state \in {"SCHEDULED", "PENDING_APPROVAL", "EXECUTING"} :
          /\ Creatable(p, type)
          /\ acts'[a] = [type |-> type, status |-> state, run |-> run, approved |-> FALSE]
          /\ state = "SCHEDULED" => type = "WAIT"
          /\ state = "EXECUTING" => type \in LinkTypes /\ ~recs[run].gated
    BY DEF Inserted
  <1>2. acts'[a].status = state /\ acts'[a].type = type /\ acts'[a].run = run
    BY <1>1
  <1>3. acts[a].status = "ABSENT"
    BY DEF Inserted, RowsInv, RowsNumbered, TypeOK
  <1> QED BY <1>1, <1>2, <1>3 DEF Creatable

LEMMA UnknownLinkStep ==
  ASSUME ConstantsAssumption, TypeOK, WorksOnAction, RowsInv, CallsInv, [Next]_vars
  PROVE  UnknownIsLink'
  <1> SUFFICES ASSUME NEW a \in ActionIds, acts'[a].status = "UNKNOWN"
               PROVE  acts'[a].type \in LinkTypes
    BY DEF UnknownIsLink
  <1>1. CASE acts'[a] = acts[a]
    BY <1>1 DEF CallsInv, UnknownIsLink
  <1>2. ~Inserted(a)
    BY InsertedRow
  <1>3. CASE Rewritten(a) /\ acts'[a] # acts[a]
    <2>1. \A p \in Requests : a = job[p].act /\ Rewrites(p, a) => RewriteEffect(p, a)
      BY RewriteFacts
    <2>2. acts[a].type \in LinkTypes /\ acts[a].status # "ABSENT"
      BY <1>3, <2>1, CancelFacts DEF Rewritten, RewriteEffect, CalledRow
    <2> QED BY <2>2, RowKeeps
  <1> QED BY <1>1, <1>2, <1>3, RowStep DEF RowMoves

LEMMA CallsInvariant == Spec => []CallsInv
  <1>1. Init => CallsInv
    BY DEF Init, CallsInv, RequestOnRow, OneCall, NoReconciliationInFlight, UnknownIsLink, Idle,
           AbsentAction, Committed, InFlight
  <1>2. TypeInv /\ RowsInv /\ CallsInv /\ [Next]_vars => CallsInv'
    <2> SUFFICES ASSUME TypeOK, WorksOnAction, RowsInv, CallsInv, [Next]_vars PROVE CallsInv'
      BY DEF TypeInv
    <2>1. ASSUME NEW p \in Requests PROVE RequestOnRow(p)'
      BY RestingOnRow, MovingOnRow, ConstantsAssumption
    <2>2. OneCall' /\ NoReconciliationInFlight' /\ UnknownIsLink'
      BY OneCallStep, NoReconciliationStep, UnknownLinkStep, ConstantsAssumption
    <2> QED BY <2>1, <2>2 DEF CallsInv
  <1> QED BY <1>1, <1>2, TypeInvariant, RowsInvariant, PTL DEF Spec

------------------------------------------------------------------------------
(* An approval always has its action *)

LEMMA AwaitingStays ==
  ASSUME ConstantsAssumption, TypeOK, WorksOnAction, RowsInv, OneAnalysis, CallsInv,
         AwaitingHasPending, [Next]_vars,
         status = "AWAITING_APPROVAL", status' = "AWAITING_APPROVAL"
  PROVE  AwaitingHasPending'
  <1>1. PICK a \in ActionIds :
          /\ acts[a].status = "PENDING_APPROVAL" /\ acts[a].run = run
          /\ acts[a].type = recs[run].type
    BY DEF AwaitingHasPending, ExistingFor
  <1>2. version' = version /\ version \in Nat
    BY CaseStep, VersionGrows DEF CaseTable, RequestMovesCase
  <1>3. UNCHANGED <<run, recs>>
    <2>1. ASSUME NEW p \in Requests, PersistsRun(p) PROVE FALSE
      BY <2>1 DEF PersistsRun, AnalyzePersist, OneAnalysis, Analyzing
    <2> QED BY <2>1, AnalysisMoves DEF analysis, DrawsRun
  <1>4. acts'[a] = acts[a]
    <2>1. ~Inserted(a)
      BY <1>1, InsertedRow
    <2>2. ~(WebhookResolve /\ acts'[a] = Cancelled(acts[a]))
      BY CancelFacts
    <2>3. ASSUME NEW p \in Requests, a = job[p].act, RewriteEffect(p, a) PROVE FALSE
      BY <1>1, <1>2, <2>3 DEF RewriteEffect, Uncommitted, CalledRow
    <2>4. ~Rewritten(a)
      BY <2>2, <2>3, RewriteFacts DEF Rewritten
    <2> QED BY <2>1, <2>4, RowStep DEF RowMoves
  <1> QED BY <1>1, <1>3, <1>4 DEF AwaitingHasPending, ExistingFor

LEMMA AwaitingStarts ==
  ASSUME ConstantsAssumption, TypeOK, WorksOnAction, [Next]_vars,
         status # "AWAITING_APPROVAL", status' = "AWAITING_APPROVAL"
  PROVE  AwaitingHasPending'
  <1>1. PICK p \in Requests : StageForApproval(p)
    BY CaseStep DEF CaseTable, RequestMovesCase
  <1>2. PICK type \in InterventionTypes :
          Creatable(p, type) /\ InsertAction(type, "PENDING_APPROVAL")
    BY <1>1 DEF StageForApproval
  <1>3. attempts + 1 \in ActionIds
    BY <1>2, InsertMoves
  <1>4. acts'[attempts + 1] =
          [type |-> type, status |-> "PENDING_APPROVAL", run |-> run, approved |-> FALSE]
    BY <1>2, <1>3 DEF InsertAction, TypeOK
  <1>5. UNCHANGED <<run, recs>> /\ recs[run].type = type
    BY <1>1, <1>2 DEF StageForApproval, Creatable, analysis
  <1> QED BY <1>3, <1>4, <1>5 DEF AwaitingHasPending, ExistingFor

(***************************************************************************)
(* A case that awaits approval has a pending action of its current run to  *)
(* approve: analyses, answers of the provider, stale rejections and        *)
(* webhooks never pull it away.                                            *)
(***************************************************************************)
THEOREM ApprovalHasItsAction == Spec => []AwaitingHasPending
  <1>1. Init => AwaitingHasPending
    BY DEF Init, AwaitingHasPending
  <1>2. TypeInv /\ RowsInv /\ OneAnalysis /\ CallsInv /\ AwaitingHasPending /\ [Next]_vars
          => AwaitingHasPending'
    <2> SUFFICES ASSUME TypeOK, WorksOnAction, RowsInv, OneAnalysis, CallsInv,
                        AwaitingHasPending, [Next]_vars, status' = "AWAITING_APPROVAL"
                 PROVE  AwaitingHasPending'
      BY DEF TypeInv, AwaitingHasPending
    <2>1. CASE status = "AWAITING_APPROVAL"
      BY <2>1, AwaitingStays, ConstantsAssumption
    <2>2. CASE status # "AWAITING_APPROVAL"
      BY <2>2, AwaitingStarts, ConstantsAssumption
    <2> QED BY <2>1, <2>2
  <1> QED
    BY <1>1, <1>2, TypeInvariant, RowsInvariant, OneAnalysisInvariant, CallsInvariant, PTL
      DEF Spec

------------------------------------------------------------------------------
(* The provider *)

(***************************************************************************)
(* What makes the two provider properties inductive: a call about to be    *)
(* made is the first for its action and is authorised, and an answer that  *)
(* is not recorded yet is what happened at the provider.                   *)
(***************************************************************************)
CallIsFirst(p) ==
  job[p].at = "posting" =>
    /\ posts[job[p].act] = 0
    /\ recs[acts[job[p].act].run].gated => acts[job[p].act].approved

AnswerIsTrue(p) ==
  job[p].at = "answered" =>
    /\ job[p].answer = "SUCCEEDED" => job[p].act \in links
    /\ job[p].answer = "FAILED" => job[p].act \notin links

ProviderInv ==
  /\ ProviderCallsAuthorised
  /\ RowAgreesWithProvider
  /\ \A p \in Requests : CallIsFirst(p) /\ AnswerIsTrue(p)

\* Everything proved so far that the steps below build on.
Context ==
  /\ TypeOK /\ WorksOnAction /\ RowsInv
  /\ OneAnalysis /\ RunsDrawn /\ CallsInv

Posts(p) == PostAccepted(p) \/ PostUnknown(p) \/ PostRefused(p)

LEMMA ProviderMoves ==
  ASSUME TypeOK, [Next]_vars
  PROVE  UNCHANGED provider \/ \E p \in Requests : Posts(p)
  <1>1. ASSUME NEW p \in Requests, Arrival(p) PROVE UNCHANGED provider
    BY <1>1 DEF Arrival, AnalyzeStart, CreateStop, CreateWait, StageForApproval, ExecuteNow,
                ReconcileStart, ApproveStart, RejectStart, RequestWithoutEffect
  <1>2. ASSUME NEW p \in Requests, Continue(p), ~Posts(p) PROVE UNCHANGED provider
    BY <1>2 DEF Continue, Posts, AnalyzePersist, AnalyzeComplete, AnalyzeFail, RecordAnswer,
                Settle, ReconcileFound, ReconcileNothing, ApproveCommit, ApproveRefused, Escalate,
                RejectStop, RejectReanalyze, RejectRefused, SessionClosed
  <1>3. ASSUME NEW p \in Requests, RequestDies(p) PROVE UNCHANGED provider
    BY <1>3 DEF RequestDies
  <1>4. CASE Webhook
    BY <1>4 DEF Webhook, WebhookRead, WebhookDismiss, WebhookResolve, WebhookStale,
                WebhookAcknowledge
  <1>5. CASE CustomerPays \/ WebhookDies \/ ProcessDies \/ UNCHANGED vars
    BY <1>5 DEF CustomerPays, WebhookDies, ProcessDies, vars, provider
  <1> QED BY <1>1, <1>2, <1>3, <1>4, <1>5 DEF Next

\* A call touches the entries of its own action only, and the link last.
LEMMA PostFacts ==
  ASSUME TypeOK, WorksOnAction, NEW p \in Requests, Posts(p)
  PROVE  /\ job[p].at = "posting" /\ job'[p].at = "answered" /\ job[p].act \in ActionIds
         /\ UNCHANGED <<acts, attempts, recs, run>>
         /\ \A a \in ActionIds : a # job[p].act =>
              posts'[a] = posts[a] /\ (a \in links' <=> a \in links)
         /\ posts'[job[p].act] \in {posts[job[p].act], posts[job[p].act] + 1}
         /\ job[p].act \in links' =>
              job[p].act \in links \/ posts'[job[p].act] = posts[job[p].act] + 1
         /\ links \subseteq links'
  <1>0. job[p].at = "posting" /\ job'[p].at = "answered" /\ job[p].act \in ActionIds
    <2>1. job[p].at = "posting" /\ job'[p].at = "answered"
      BY NextJob DEF Posts
    <2> QED BY <2>1 DEF WorksOnAction
  <1>1. UNCHANGED <<acts, attempts, recs, run>>
    BY DEF Posts, PostAccepted, PostUnknown, PostRefused, analysis, actionRows
  <1>2. \/ posts' = posts /\ links' = links
        \/ /\ posts' = [posts EXCEPT ![job[p].act] = @ + 1]
           /\ links' \in {links, links \cup {job[p].act}}
    BY DEF Posts, PostAccepted, PostUnknown, PostRefused, provider
  <1>3. posts \in [ActionIds -> Nat]
    BY DEF TypeOK
  <1> QED BY <1>0, <1>1, <1>2, <1>3

\* A row that is there keeps the recommendation it was created for.
LEMMA GatedStays ==
  ASSUME ConstantsAssumption, Context, [Next]_vars, NEW a \in ActionIds, acts[a].status # "ABSENT"
  PROVE  acts'[a].run = acts[a].run /\ recs'[acts[a].run] = recs[acts[a].run]
  <1>1. acts'[a].run = acts[a].run
    BY RowKeeps DEF Context
  <1>2. acts[a].run \in RunIds
    BY DEF Context, RunsDrawn, TypeOK, RunIds, ConstantsAssumption
  <1>3. ASSUME NEW p \in Requests, PersistsRun(p) PROVE recs'[acts[a].run] = recs[acts[a].run]
    <2>1. acts[a].run # job[p].run
      BY <1>3 DEF Context, RunsDrawn, Unpersisted, PersistsRun, AnalyzePersist
    <2> QED BY <1>2, <1>3, <2>1 DEF PersistsRun
  <1> QED BY <1>1, <1>3, AnalysisMoves DEF Context, analysis, DrawsRun

\* A row that was committed to execution stays so.
LEMMA CommittedStays ==
  ASSUME ConstantsAssumption, Context, [Next]_vars, NEW a \in ActionIds,
         acts[a].status \notin Uncommitted
  PROVE  acts'[a].status \notin Uncommitted
  <1>1. CASE acts'[a] = acts[a]
    BY <1>1
  <1>2. ~Inserted(a)
    BY InsertedRow DEF Context, Uncommitted
  <1>3. CASE WebhookResolve /\ acts'[a] = Cancelled(acts[a])
    BY <1>3, CancelFacts DEF Context, Uncommitted
  <1>4. ASSUME NEW p \in Requests, a = job[p].act, RewriteEffect(p, a)
        PROVE  acts'[a].status \notin Uncommitted
    BY <1>4 DEF RewriteEffect, Uncommitted
  <1> QED BY <1>1, <1>2, <1>3, <1>4, RowStep, RewriteFacts DEF RowMoves, Rewritten, Context

\* The provider has an action's link or call only once the row was committed.
LEMMA UntouchedRow ==
  ASSUME Context, ProviderInv, NEW a \in ActionIds, acts[a].status \in Uncommitted
  PROVE  posts[a] = 0 /\ a \notin links
  <1>1. posts[a] \in Nat
    BY DEF Context, TypeOK
  <1>2. posts[a] # 1 /\ posts[a] <= 1
    BY DEF ProviderInv, ProviderCallsAuthorised, Uncommitted
  <1> QED BY <1>1, <1>2 DEF ProviderInv, ProviderCallsAuthorised

LEMMA AuthorisedStep ==
  ASSUME ConstantsAssumption, Context, ProviderInv, [Next]_vars
  PROVE  ProviderCallsAuthorised'
  <1> DEFINE Good(a) ==
        /\ posts[a] <= 1
        /\ posts[a] = 1 =>
             /\ acts[a].type \in LinkTypes
             /\ acts[a].status \notin {"ABSENT", "PENDING_APPROVAL", "SCHEDULED"}
             /\ recs[acts[a].run].gated => acts[a].approved
        /\ a \in links => posts[a] = 1
  <1> SUFFICES ASSUME NEW a \in ActionIds PROVE Good(a)'
    BY DEF ProviderCallsAuthorised
  <1>0. Good(a) /\ posts[a] \in Nat
    BY DEF ProviderInv, ProviderCallsAuthorised, Context, TypeOK
  <1>1. CASE posts'[a] = posts[a] /\ (a \in links' <=> a \in links)
    <2>1. CASE posts[a] = 1
      <3>1. acts[a].status # "ABSENT" /\ acts[a].status \notin Uncommitted
        BY <1>0, <2>1 DEF Uncommitted
      <3>2. /\ acts'[a].type = acts[a].type /\ acts'[a].run = acts[a].run
            /\ acts[a].approved => acts'[a].approved
            /\ recs'[acts[a].run] = recs[acts[a].run]
        BY <3>1, RowKeeps, GatedStays DEF Context
      <3>3. acts'[a].status \notin Uncommitted
        BY <3>1, CommittedStays
      <3> QED BY <1>0, <1>1, <2>1, <3>2, <3>3 DEF Uncommitted
    <2>2. CASE posts[a] # 1
      BY <1>0, <1>1, <2>2
    <2> QED BY <2>1, <2>2
  <1>2. ASSUME NEW p \in Requests, Posts(p), a = job[p].act PROVE Good(a)'
    <2>1. /\ UNCHANGED <<acts, recs>> /\ job[p].at = "posting"
          /\ posts'[a] \in {posts[a], posts[a] + 1}
          /\ a \in links' => a \in links \/ posts'[a] = posts[a] + 1
      BY <1>2, PostFacts DEF Context
    <2>2. posts[a] = 0 /\ (recs[acts[a].run].gated => acts[a].approved)
      BY <1>2, <2>1 DEF ProviderInv, CallIsFirst
    <2>3. acts[a].type \in LinkTypes /\ acts[a].status \notin Uncommitted
      BY <1>2, <2>1 DEF Context, CallsInv, RequestOnRow, InFlight, Committed
    <2> QED BY <1>0, <2>1, <2>2, <2>3 DEF Uncommitted
  <1>3. UNCHANGED provider => posts'[a] = posts[a] /\ (a \in links' <=> a \in links)
    BY DEF provider
  <1> QED BY <1>1, <1>2, <1>3, ProviderMoves, PostFacts DEF Context

\* What happens at the provider for an action happens in the call of one request.
LEMMA ProviderStays ==
  ASSUME Context, [Next]_vars, NEW a \in ActionIds,
         \A q \in Requests : Posts(q) => job[q].act # a
  PROVE  posts'[a] = posts[a] /\ (a \in links' <=> a \in links)
  <1>1. UNCHANGED provider => posts'[a] = posts[a] /\ (a \in links' <=> a \in links)
    BY DEF provider
  <1> QED BY <1>1, ProviderMoves, PostFacts DEF Context

LEMMA AgreesStep ==
  ASSUME ConstantsAssumption, Context, ProviderInv, [Next]_vars
  PROVE  RowAgreesWithProvider'
  <1> SUFFICES ASSUME NEW a \in ActionIds, acts'[a].type \in LinkTypes
               PROVE  /\ acts'[a].status = "SUCCEEDED" => a \in links'
                      /\ acts'[a].status \in {"PENDING_APPROVAL", "FAILED"} => a \notin links'
    BY DEF RowAgreesWithProvider
  <1>1. links \subseteq links'
    BY MoneyMoves DEF Context
  <1>2. acts'[a].status = "PENDING_APPROVAL" => a \notin links'
    BY AuthorisedStep DEF ProviderCallsAuthorised
  <1>3. CASE acts'[a] = acts[a]
    <2>1. acts'[a].status = "SUCCEEDED" => a \in links'
      BY <1>1, <1>3 DEF ProviderInv, RowAgreesWithProvider
    <2>2. ASSUME acts'[a].status = "FAILED" PROVE a \notin links'
      <3>1. a \notin links
        BY <1>3, <2>2 DEF ProviderInv, RowAgreesWithProvider
      <3>2. ASSUME NEW q \in Requests, Posts(q), job[q].act = a PROVE FALSE
        <4>1. job[q].at = "posting"
          BY <3>2, PostFacts DEF Context
        <4> QED BY <1>3, <2>2, <3>2, <4>1 DEF Context, CallsInv, RequestOnRow, InFlight,
                                          CalledRow
      <3> QED BY <3>1, <3>2, ProviderStays
    <2> QED BY <1>2, <2>1, <2>2
  <1>4. CASE Inserted(a)
    <2>1. acts'[a].status \in {"SCHEDULED", "PENDING_APPROVAL", "EXECUTING"}
      BY <1>4, InsertedRow DEF Context
    <2> QED BY <1>2, <2>1
  <1>5. CASE WebhookResolve /\ acts'[a] = Cancelled(acts[a])
    <2>1. CASE acts'[a].status = "CANCELLED"
      BY <2>1
    <2> QED BY <1>3, <1>5, <2>1, CancelFacts DEF Context
  <1>6. ASSUME NEW p \in Requests, a = job[p].act, RewriteEffect(p, a)
        PROVE  /\ acts'[a].status = "SUCCEEDED" => a \in links'
               /\ acts'[a].status \in {"PENDING_APPROVAL", "FAILED"} => a \notin links'
    <2>1. CASE RecordAnswer(p) /\ acts'[a].status = job[p].answer
      <3>1. job[p].at = "answered" /\ links' = links
        BY <2>1 DEF RecordAnswer, provider
      <3>2. AnswerIsTrue(p)
        BY DEF ProviderInv
      <3> QED BY <1>2, <1>6, <2>1, <3>1, <3>2 DEF AnswerIsTrue
    <2>2. CASE ReconcileFound(p) /\ a \in links /\ acts'[a].status = "SUCCEEDED"
      BY <1>1, <2>2
    <2>3. CASE Escalate(p) /\ acts[a].type \notin LinkTypes /\ acts[a].status \notin Uncommitted
      <3>1. acts'[a].type = acts[a].type
        BY <2>3, RowKeeps DEF Context, Uncommitted
      <3> QED BY <2>3, <3>1
    <2>4. CASE acts'[a].status \in {"EXECUTING", "CANCELLED"}
      BY <2>4
    <2> QED BY <1>6, <2>1, <2>2, <2>3, <2>4 DEF RewriteEffect
  <1>7. RowMoves(a)
    BY RowStep DEF Context
  <1> QED BY <1>3, <1>4, <1>5, <1>6, <1>7, RewriteFacts DEF RowMoves, Rewritten, Context

LEMMA FirstStep ==
  ASSUME ConstantsAssumption, Context, ProviderInv, [Next]_vars, NEW p \in Requests
  PROVE  CallIsFirst(p)'
  <1> SUFFICES ASSUME job'[p].at = "posting"
               PROVE  /\ posts'[job'[p].act] = 0
                      /\ recs'[acts'[job'[p].act].run].gated => acts'[job'[p].act].approved
    BY DEF CallIsFirst
  <1>1. CASE job'[p] = job[p]
    <2> DEFINE a == job[p].act
    <2>1. a \in ActionIds /\ acts[a].status # "ABSENT" /\ job[p].at = "posting"
      BY <1>1 DEF Context, WorksOnAction, RowsInv, WorkedRowsExist, Working
    <2>2. posts[a] = 0 /\ (recs[acts[a].run].gated => acts[a].approved)
      BY <2>1 DEF ProviderInv, CallIsFirst
    <2>3. ASSUME NEW q \in Requests, Posts(q), job[q].act = a PROVE FALSE
      <3>1. job[q].at = "posting" /\ job'[q].at = "answered"
        BY <2>3, PostFacts DEF Context
      <3>2. p = q
        BY <2>1, <2>3, <3>1 DEF Context, CallsInv, OneCall, InFlight
      <3> QED BY <1>1, <3>1, <3>2
    <2>4. posts'[a] = posts[a]
      BY <2>1, <2>3, ProviderStays
    <2>5. /\ acts'[a].run = acts[a].run /\ recs'[acts[a].run] = recs[acts[a].run]
          /\ acts[a].approved => acts'[a].approved
      BY <2>1, GatedStays, RowKeeps DEF Context
    <2> QED BY <1>1, <2>2, <2>4, <2>5
  <1>2. CASE ExecuteNow(p)
    <2> DEFINE a == attempts + 1
    <2>1. /\ a \in ActionIds /\ acts'[a].run = run /\ ~recs[run].gated /\ job'[p].act = a
      BY <1>2, ExecuteNowFacts DEF Context
    <2>2. acts[a].status = "ABSENT"
      BY <2>1 DEF Context, RowsInv, RowsNumbered, TypeOK
    <2>3. posts' = posts /\ recs' = recs
      BY <1>2 DEF ExecuteNow, provider, analysis
    <2>4. posts[a] = 0
      BY <2>1, <2>2, UntouchedRow DEF Uncommitted
    <2> QED BY <2>1, <2>3, <2>4
  <1>3. CASE ApproveCommit(p)
    <2> DEFINE a == job[p].act
    <2>1. /\ job[p].at = "approving" /\ job'[p].act = a /\ job[p].ver = version
          /\ posts' = posts
      BY <1>3, NextJob DEF ApproveCommit, Approvable, Context, provider
    <2>2. a \in ActionIds /\ acts[a].status = "PENDING_APPROVAL"
      BY <2>1 DEF Context, WorksOnAction, CallsInv, RequestOnRow
    <2>3. posts[a] = 0
      BY <2>2, UntouchedRow DEF Uncommitted
    <2>4. acts'[a].approved
      BY <1>3, <2>2 DEF ApproveCommit, Context, TypeOK, Actions
    <2> QED BY <2>1, <2>3, <2>4
  <1>4. ~(AnalyzeStart(p) \/ AnalyzePersist(p) \/ RejectReanalyze(p) \/ PostAccepted(p)
          \/ PostUnknown(p) \/ PostRefused(p) \/ ReconcileStart(p) \/ ApproveStart(p)
          \/ RejectStart(p))
    BY NextJob DEF Context
  <1> QED BY <1>1, <1>2, <1>3, <1>4, JobStep DEF JobMoves, Context

LEMMA TrueStep ==
  ASSUME ConstantsAssumption, Context, ProviderInv, [Next]_vars, NEW p \in Requests
  PROVE  AnswerIsTrue(p)'
  <1> SUFFICES ASSUME job'[p].at = "answered"
               PROVE  /\ job'[p].answer = "SUCCEEDED" => job'[p].act \in links'
                      /\ job'[p].answer = "FAILED" => job'[p].act \notin links'
    BY DEF AnswerIsTrue
  <1>1. CASE job'[p] = job[p]
    <2> DEFINE a == job[p].act
    <2>1. a \in ActionIds /\ job[p].at = "answered"
      BY <1>1 DEF Context, WorksOnAction
    <2>2. /\ job[p].answer = "SUCCEEDED" => a \in links
          /\ job[p].answer = "FAILED" => a \notin links
      BY <2>1 DEF ProviderInv, AnswerIsTrue
    <2>3. ASSUME NEW q \in Requests, Posts(q), job[q].act = a PROVE FALSE
      <3>1. job[q].at = "posting" /\ p = q
        BY <2>1, <2>3, PostFacts DEF Context, CallsInv, OneCall, InFlight
      <3> QED BY <2>1, <3>1
    <2>4. a \in links' <=> a \in links
      BY <2>1, <2>3, ProviderStays
    <2> QED BY <1>1, <2>2, <2>4
  <1>2. CASE PostAccepted(p)
    <2>1. job'[p].answer = "SUCCEEDED" /\ job'[p].act = job[p].act
      BY <1>2, NextJob DEF Context
    <2>2. job[p].act \in links'
      BY <1>2 DEF PostAccepted
    <2> QED BY <2>1, <2>2
  <1>3. CASE PostUnknown(p)
    BY <1>3, NextJob DEF Context
  <1>4. CASE PostRefused(p)
    <2>1. /\ job[p].at = "posting" /\ job'[p].act = job[p].act /\ links' = links
          /\ job[p].act \in ActionIds /\ job'[p].answer = "FAILED"
      BY <1>4, NextJob DEF PostRefused, Context, WorksOnAction
    <2>2. posts[job[p].act] = 0
      BY <2>1 DEF ProviderInv, CallIsFirst
    <2>3. job[p].act \notin links
      BY <2>1, <2>2 DEF ProviderInv, ProviderCallsAuthorised
    <2> QED BY <2>1, <2>3
  <1>5. ~(AnalyzeStart(p) \/ AnalyzePersist(p) \/ RejectReanalyze(p) \/ ExecuteNow(p)
          \/ ApproveCommit(p) \/ ReconcileStart(p) \/ ApproveStart(p) \/ RejectStart(p))
    BY NextJob DEF Context
  <1> QED BY <1>1, <1>2, <1>3, <1>4, <1>5, JobStep DEF JobMoves, Context

LEMMA ContextInvariant == Spec => []Context
  <1>1. TypeInv /\ RowsInv /\ OneAnalysis /\ RunsDrawn /\ CallsInv => Context
    BY DEF TypeInv, Context
  <1> QED
    BY <1>1, TypeInvariant, RowsInvariant, OneAnalysisInvariant, RunsInvariant, CallsInvariant, PTL

LEMMA ProviderInvariant == Spec => []ProviderInv
  <1>1. Init => ProviderInv
    BY DEF Init, ProviderInv, ProviderCallsAuthorised, RowAgreesWithProvider, CallIsFirst,
           AnswerIsTrue, Idle, AbsentAction
  <1>2. Context /\ ProviderInv /\ [Next]_vars => ProviderInv'
    <2> SUFFICES ASSUME Context, ProviderInv, [Next]_vars PROVE ProviderInv'
      OBVIOUS
    <2>1. ProviderCallsAuthorised' /\ RowAgreesWithProvider'
      BY AuthorisedStep, AgreesStep, ConstantsAssumption
    <2>2. \A p \in Requests : CallIsFirst(p)' /\ AnswerIsTrue(p)'
      BY FirstStep, TrueStep, ConstantsAssumption
    <2> QED BY <2>1, <2>2 DEF ProviderInv
  <1> QED BY <1>1, <1>2, ContextInvariant, PTL DEF Spec

(***************************************************************************)
(* The provider is called at most once for an action, only for a link      *)
(* whose row was committed first, and only after approval when approval    *)
(* was required, whatever clicks, approvals and crashes surround the call. *)
(***************************************************************************)
THEOREM CallsAreAuthorised == Spec => []ProviderCallsAuthorised
  <1>1. ProviderInv => ProviderCallsAuthorised
    BY DEF ProviderInv
  <1> QED BY <1>1, ProviderInvariant, PTL

(***************************************************************************)
(* A link action reads SUCCEEDED only if its link exists, and FAILED or    *)
(* pending only if it does not: late answers, reconciliations, stale       *)
(* rejections and webhooks keep the row in agreement with the provider.    *)
(***************************************************************************)
THEOREM RowsAgree == Spec => []RowAgreesWithProvider
  <1>1. ProviderInv => RowAgreesWithProvider
    BY DEF ProviderInv
  <1> QED BY <1>1, ProviderInvariant, PTL

Kept(a) ==
  acts[a].status = "UNKNOWN" /\ acts'[a].status # "UNKNOWN" =>
    \/ acts'[a].status = "SUCCEEDED" /\ a \in links
    \/ acts'[a].status = "CANCELLED" /\ status = "AWAITING_APPROVAL"

LEMMA UnknownStep ==
  ASSUME ConstantsAssumption, Context, [Next]_vars, NEW a \in ActionIds
  PROVE  Kept(a)
  <1> SUFFICES ASSUME acts[a].status = "UNKNOWN", acts'[a].status # "UNKNOWN"
               PROVE  Kept(a)
    BY DEF Kept
  <1>1. ~Inserted(a)
    BY InsertedRow DEF Context
  <1>2. ~(WebhookResolve /\ acts'[a] = Cancelled(acts[a]))
    BY CancelFacts DEF Context
  <1>3. acts[a].type \in LinkTypes
    BY DEF Context, CallsInv, UnknownIsLink
  <1>4. PICK p \in Requests : a = job[p].act /\ Rewrites(p, a)
    BY <1>1, <1>2, RowStep DEF RowMoves, Rewritten, Context
  <1>5. RewriteEffect(p, a)
    BY <1>4, RewriteFacts DEF Context
  <1> QED BY <1>3, <1>5 DEF RewriteEffect, CalledRow, Kept

(***************************************************************************)
(* An ambiguous answer stays blocking until the provider is known to have  *)
(* the link or an operator's rejection cancels the row.                    *)
(***************************************************************************)
THEOREM UnknownStays == Spec => UnknownIsKept
  <1>1. Context /\ [Next]_vars => [\A a \in ActionIds : Kept(a)]_vars
    BY UnknownStep, ConstantsAssumption
  <1>2. [][\A a \in ActionIds : Kept(a)]_vars => UnknownIsKept
    BY DEF UnknownIsKept, Kept
  <1> QED BY <1>1, <1>2, ContextInvariant, PTL DEF Spec

------------------------------------------------------------------------------
(* Unresolved links *)

\* How a row that did not block starts to.
LEMMA BlockingStarts ==
  ASSUME ConstantsAssumption, Context, [Next]_vars, NEW a \in ActionIds,
         a \notin Blocking, a \in Blocking'
  PROVE  \/ acts[a].status = "ABSENT" /\ Inserted(a) /\ Blocking = {}
         \/ /\ acts'[a].status = "UNKNOWN"
            /\ acts[a].status = "CANCELLED" \/ (RepeatClicks /\ acts[a].status = "SUCCEEDED")
  <1>0. /\ acts'[a].type \in LinkTypes
        /\ acts'[a].status \in {"PENDING_APPROVAL", "EXECUTING", "UNKNOWN"}
        /\ acts'[a] # acts[a]
    BY DEF Blocking
  <1>1. CASE Inserted(a)
    <2>1. acts[a].status = "ABSENT" /\ PolicyEligible(acts'[a].type)
      BY <1>1, InsertedRow DEF Context
    <2>2. acts'[a].type # "STOP"
      BY <1>0 DEF LinkTypes
    <2> QED BY <1>0, <1>1, <2>1, <2>2 DEF PolicyEligible
  <1>2. CASE Rewritten(a)
    <2>1. ~(WebhookResolve /\ acts'[a] = Cancelled(acts[a]))
      BY <1>0, CancelFacts DEF Context
    <2>2. PICK p \in Requests : a = job[p].act /\ RewriteEffect(p, a)
      BY <1>2, <2>1, RewriteFacts DEF Rewritten, Context
    <2>3. acts[a].status # "ABSENT"
      BY <2>2 DEF RewriteEffect, Uncommitted, CalledRow
    <2>4. acts[a].type \in LinkTypes
      BY <1>0, <2>3, RowKeeps DEF Context
    <2>5. acts[a].status \notin {"PENDING_APPROVAL", "EXECUTING", "UNKNOWN"}
      BY <2>4 DEF Blocking
    <2> QED BY <1>0, <2>2, <2>5 DEF RewriteEffect, CalledRow
  <1> QED BY <1>0, <1>1, <1>2, RowStep DEF RowMoves, Context

OpensAlone(a) ==
  \/ Blocking = {}
  \/ /\ acts'[a].status = "UNKNOWN"
     /\ acts[a].status = "CANCELLED" \/ (RepeatClicks /\ acts[a].status = "SUCCEEDED")

(***************************************************************************)
(* No create call and no approval opens a link beside an unresolved one:   *)
(* a second one comes only from an ambiguous answer written over a row     *)
(* that was cancelled, or reconciled, while the call was running.          *)
(***************************************************************************)
THEOREM LinksOpenOneByOne == Spec => LinksOpenAlone
  <1>1. Context /\ [Next]_vars => [\A a \in Blocking' \ Blocking : OpensAlone(a)]_vars
    <2> SUFFICES ASSUME Context, [Next]_vars, NEW a \in Blocking' \ Blocking
                 PROVE  OpensAlone(a)
      OBVIOUS
    <2>1. a \in ActionIds
      BY DEF Blocking
    <2> QED BY <2>1, BlockingStarts, ConstantsAssumption DEF OpensAlone
  <1>2. [][\A a \in Blocking' \ Blocking : OpensAlone(a)]_vars => LinksOpenAlone
    BY DEF LinksOpenAlone, OpensAlone
  <1> QED BY <1>1, <1>2, ContextInvariant, PTL DEF Spec

InProgress(a) ==
  acts[a].type \in LinkTypes /\ acts[a].status \in {"PENDING_APPROVAL", "EXECUTING"}

\* Of the links of a case at most one waits for approval or is being created.
OneLinkInProgress ==
  \A a, b \in ActionIds : InProgress(a) /\ InProgress(b) => a = b

LEMMA ProgressStarts ==
  ASSUME ConstantsAssumption, Context, [Next]_vars, NEW a \in ActionIds,
         ~InProgress(a), InProgress(a)'
  PROVE  Inserted(a) /\ \A b \in ActionIds : ~InProgress(b)
  <1>1. acts'[a].status # "UNKNOWN" /\ a \in Blocking'
    BY DEF InProgress, Blocking
  <1>2. CASE a \notin Blocking
    BY <1>1, <1>2, BlockingStarts, ConstantsAssumption DEF InProgress, Blocking
  <1>3. CASE a \in Blocking
    <2>1. acts[a].status = "UNKNOWN" /\ acts'[a].status \in {"PENDING_APPROVAL", "EXECUTING"}
      BY <1>3 DEF InProgress, Blocking
    <2> QED BY <2>1, UnknownStep, ConstantsAssumption DEF Kept
  <1> QED BY <1>2, <1>3

LEMMA OneInProgressStep ==
  ASSUME ConstantsAssumption, Context, OneLinkInProgress, [Next]_vars
  PROVE  OneLinkInProgress'
  <1> SUFFICES ASSUME NEW a \in ActionIds, NEW b \in ActionIds,
                      InProgress(a)', InProgress(b)'
               PROVE  a = b
    BY DEF OneLinkInProgress
  <1>1. CASE InProgress(a) /\ InProgress(b)
    BY <1>1 DEF OneLinkInProgress
  <1>2. CASE ~InProgress(a) /\ ~InProgress(b)
    BY <1>2, ProgressStarts, ConstantsAssumption DEF Inserted
  <1>3. ~(InProgress(a) /\ ~InProgress(b)) /\ ~(~InProgress(a) /\ InProgress(b))
    BY ProgressStarts, ConstantsAssumption
  <1> QED BY <1>1, <1>2, <1>3

(***************************************************************************)
(* Whatever is clicked, approved or rejected at the same time, at most one *)
(* link of a case waits for approval or for the provider's answer.         *)
(***************************************************************************)
THEOREM LinksInProgress == Spec => []OneLinkInProgress
  <1>1. Init => OneLinkInProgress
    BY DEF Init, OneLinkInProgress, InProgress, AbsentAction
  <1>2. Context /\ OneLinkInProgress /\ [Next]_vars => OneLinkInProgress'
    BY OneInProgressStep, ConstantsAssumption
  <1> QED BY <1>1, <1>2, ContextInvariant, PTL DEF Spec

------------------------------------------------------------------------------
(* Runs and the actions that stand for them *)

\* Persisting a run that is newer than the current one, while the case is being analysed.
NewRun ==
  run' # run => /\ run' > run /\ status \in {"ANALYZING", "RECOVERED"} /\ UNCHANGED status
                /\ \A a \in ActionIds : acts[a].status # "ABSENT" => acts[a].run # run'

RunsInOrder == [][NewRun]_vars

\* The selection that the current run and the rows of actions rest on.
SelectionKept ==
  /\ run # 0 => recs'[run] = recs[run]
  /\ \A a \in ActionIds : acts[a].status # "ABSENT" =>
       acts'[a].run = acts[a].run /\ recs'[acts[a].run] = recs[acts[a].run]

SelectionsStay == [][SelectionKept]_vars

\* What persist_analysis replaces.
LEMMA PersistFacts ==
  ASSUME ConstantsAssumption, Context, NEW p \in Requests, PersistsRun(p)
  PROVE  /\ run' > run /\ run' = job[p].run
         /\ status \in {"ANALYZING", "RECOVERED"} /\ UNCHANGED status
         /\ \A a \in ActionIds : acts[a].status # "ABSENT" => acts[a].run # run'
         /\ run # 0 => recs'[run] = recs[run]
  <1>1. Unpersisted(p) /\ Analyzing(p)
    BY DEF PersistsRun, AnalyzePersist, Unpersisted, Analyzing
  <1>2. job[p].run > run /\ status \in {"ANALYZING", "RECOVERED"}
    BY <1>1 DEF Context, RunsDrawn, OneAnalysis
  <1>3. \A a \in ActionIds : acts[a].status # "ABSENT" => acts[a].run # job[p].run
    BY <1>1 DEF Context, RunsDrawn
  <1>4. run \in 0..MaxRuns /\ job[p].run # run
    BY <1>2 DEF Context, TypeOK, Jobs, ConstantsAssumption
  <1>5. run # 0 => run \in RunIds
    BY <1>4 DEF RunIds, ConstantsAssumption
  <1> QED BY <1>2, <1>3, <1>4, <1>5 DEF PersistsRun

(***************************************************************************)
(* persist_analysis, which writes the case without looking at it again,    *)
(* only ever puts a newer run in the place of an older one, while the case *)
(* is being analysed or after a payment resolved it, and never a run that  *)
(* an action was created for.                                              *)
(***************************************************************************)
THEOREM RunsReplacedInOrder == Spec => RunsInOrder
  <1>1. Context /\ [Next]_vars => [NewRun]_vars
    <2> SUFFICES ASSUME Context, [Next]_vars PROVE NewRun
      OBVIOUS
    <2>1. CASE run' = run
      BY <2>1 DEF NewRun
    <2>2. ASSUME NEW p \in Requests, PersistsRun(p) PROVE NewRun
      BY <2>2, PersistFacts, ConstantsAssumption DEF NewRun
    <2> QED BY <2>1, <2>2, AnalysisMoves DEF Context, analysis, DrawsRun
  <1>2. [][NewRun]_vars => RunsInOrder
    BY DEF RunsInOrder
  <1> QED BY <1>1, <1>2, ContextInvariant, PTL DEF Spec

(***************************************************************************)
(* An action stands for the recommendation it was created from for good:   *)
(* no analysis, however late, rewrites the selection of the current run or *)
(* of a run that has an action, so that what was approved is what was      *)
(* shown.                                                                  *)
(***************************************************************************)
THEOREM SelectionsAreKept == Spec => SelectionsStay
  <1>1. Context /\ [Next]_vars => [SelectionKept]_vars
    <2> SUFFICES ASSUME Context, [Next]_vars PROVE SelectionKept
      OBVIOUS
    <2>1. run # 0 => recs'[run] = recs[run]
      <3>1. ASSUME NEW p \in Requests, PersistsRun(p) PROVE run # 0 => recs'[run] = recs[run]
        BY <3>1, PersistFacts, ConstantsAssumption
      <3> QED BY <3>1, AnalysisMoves DEF Context, analysis, DrawsRun
    <2> QED BY <2>1, GatedStays, ConstantsAssumption DEF SelectionKept
  <1>2. [][SelectionKept]_vars => SelectionsStay
    BY DEF SelectionsStay
  <1> QED BY <1>1, <1>2, ContextInvariant, PTL DEF Spec

=============================================================================
