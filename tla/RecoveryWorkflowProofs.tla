------------------------ MODULE RecoveryWorkflowProofs ------------------------
(***************************************************************************)
(* Theorems about RecoveryWorkflow for every set of requests and every     *)
(* value of its constants.                                                 *)
(***************************************************************************)
EXTENDS RecoveryWorkflow, TLAPS

------------------------------------------------------------------------------
(* Type correctness *)

(***************************************************************************)
(* A request that works on an action names one, and one that got an answer *)
(* holds it: the strengthening that the types of links and acts need.      *)
(***************************************************************************)
WorksOnAction ==
  \A p \in Requests :
    /\ job[p].at \in {"posting", "answered", "approving", "rejecting", "escalating",
                      "reconciling"} =>
         job[p].act \in ActionIds
    /\ job[p].at = "answered" => job[p].answer # "NONE"

TypeInv == TypeOK /\ WorksOnAction

\* A transition that commits leads to a status of the registry.
LEMMA TransitionTyped ==
  ASSUME NEW event, NEW expected, version \in Nat \ {0},
         TransitionCase(event, expected)
  PROVE  status' \in CaseStatuses /\ version' \in Nat \ {0}
  BY DEF TransitionCase

\* The jobs that a request starts with, and the changes a step makes to one.
LEMMA IdleTyped == ASSUME ConstantsAssumption PROVE Idle \in Jobs
  BY DEF Idle, Jobs, Steps, ConstantsAssumption

LEMMA ActionRange == ASSUME ConstantsAssumption PROVE ActionIds \subseteq 0..MaxAttempts
  BY DEF ActionIds, ConstantsAssumption

LEMMA JobTyped ==
  ASSUME ConstantsAssumption, NEW j \in Jobs, NEW s \in Steps
  PROVE  /\ [j EXCEPT !.at = s] \in Jobs
         /\ \A a \in 0..MaxAttempts : [j EXCEPT !.at = s, !.act = a] \in Jobs
         /\ \A a \in 0..MaxAttempts, v \in Nat : [j EXCEPT !.at = s, !.act = a, !.ver =
               v] \in Jobs
         /\ \A r \in 0..MaxRuns : [j EXCEPT !.at = s, !.run = r] \in Jobs
         /\ \A r \in 0..MaxRuns, t \in InterventionTypes :
              [j EXCEPT !.at = s, !.run = r, !.excluded = t] \in Jobs
         /\ \A x \in {"NONE", "SUCCEEDED", "UNKNOWN", "FAILED"} :
              [j EXCEPT !.at = s, !.answer = x] \in Jobs
         /\ \A e \in {"NONE", "ACTION_ACCEPTED_OR_UNKNOWN", "ACTION_FAILED_REANALYZE",
                      "TERMINAL_ACTION_FAILURE"} :
              [j EXCEPT !.at = s, !.event = e] \in Jobs
  BY DEF Jobs

\* The row a create call inserts, and the changes a step makes to a row.
LEMMA InsertTyped ==
  ASSUME ConstantsAssumption, TypeOK, NEW type \in InterventionTypes,
         NEW state \in ActionStatuses, PolicyEligible(type), type # "STOP",
         InsertAction(type, state)
  PROVE  /\ attempts + 1 \in ActionIds
         /\ attempts' \in 0..MaxAttempts
         /\ acts' \in [ActionIds -> Actions]
  <1>1. attempts + 1 \in ActionIds /\ attempts + 1 \in 0..MaxAttempts
    BY DEF ConstantsAssumption, TypeOK, PolicyEligible, ActionIds
  <1>2. [type |-> type, status |-> state, run |-> run, approved |-> FALSE] \in Actions
    BY DEF TypeOK, Actions
  <1> QED
    BY <1>1, <1>2 DEF InsertAction, TypeOK

LEMMA RowTyped ==
  ASSUME NEW act \in Actions, NEW s \in ActionStatuses
  PROVE  /\ [act EXCEPT !.status = s] \in Actions
         /\ [act EXCEPT !.status = s, !.approved = TRUE] \in Actions
  BY DEF Actions

LEMMA TypeInit == ASSUME ConstantsAssumption PROVE Init => TypeInv
  <1> SUFFICES ASSUME Init PROVE TypeInv
    OBVIOUS
  <1>1. job \in [Requests -> Jobs] /\ hook \in Hooks
    BY IdleTyped DEF Init, Hooks, IdleHook, Payments, CaseStatuses, ConstantsAssumption
  <1>2. acts \in [ActionIds -> Actions] /\ recs \in [RunIds -> Recommendations]
    BY
      DEF Init, Actions, AbsentAction, ActionStatuses, InterventionTypes,
          Recommendations,
           NoRecommendation, ConstantsAssumption
  <1>3. TypeOK
    BY <1>1, <1>2, ConstantsAssumption
      DEF Init, TypeOK, CaseStatuses, Payments, PaymentStates,
       ConstantsAssumption
  <1>4. WorksOnAction
    BY DEF Init, WorksOnAction, Idle
  <1> QED BY <1>3, <1>4 DEF TypeInv

LEMMA TypeStep == ASSUME ConstantsAssumption, TypeInv, Next PROVE TypeInv'
  <1>0. TypeOK /\ WorksOnAction
    BY DEF TypeInv
  <1> SUFFICES TypeOK' /\ WorksOnAction'
    BY DEF TypeInv
  <1> USE <1>0
  <1>1. ASSUME NEW p \in Requests, Arrival(p) PROVE TypeOK' /\ WorksOnAction'
    <2>1. CASE AnalyzeStart(p)
      <3>1. runs + 1 \in 0..MaxRuns
        BY <2>1 DEF AnalyzeStart, TypeOK, ConstantsAssumption
      <3>2. [Idle EXCEPT !.at = "analyzing", !.run = runs + 1] \in Jobs
        BY <3>1, IdleTyped, JobTyped DEF Steps
      <3>3. job' \in [Requests -> Jobs]
        BY <2>1, <3>2 DEF AnalyzeStart, Begin, TypeOK
      <3>4. status' \in CaseStatuses /\ version' \in Nat \ {0}
        BY <2>1, TransitionTyped DEF AnalyzeStart, TypeOK
      <3>5. TypeOK'
        BY <2>1, <3>1, <3>2, <3>3, <3>4
          DEF TypeOK, AnalyzeStart, caseRow, analysis, actionRows, provider
      <3>6. WorksOnAction'
        BY <2>1, <3>1, <3>2, <3>3, <3>4
          DEF WorksOnAction, TypeOK, AnalyzeStart, Begin, Idle
      <3> QED BY <3>5, <3>6
    <2>2. CASE CreateStop(p)
      <3>1. status' \in CaseStatuses /\ version' \in Nat \ {0}
        BY <2>2, TransitionTyped DEF CreateStop, TypeOK
      <3>2. TypeOK'
        BY <2>2, <3>1 DEF TypeOK, CreateStop, caseRow, analysis, actionRows, provider
      <3>3. WorksOnAction'
        BY <2>2, <3>1 DEF WorksOnAction, TypeOK, CreateStop
      <3> QED BY <3>2, <3>3
    <2>3. CASE CreateWait(p)
      <3>1. status' \in CaseStatuses /\ version' \in Nat \ {0}
        BY <2>3, TransitionTyped DEF CreateWait, TypeOK
      <3>2. attempts' \in 0..MaxAttempts /\ acts' \in [ActionIds -> Actions]
        BY <2>3, InsertTyped
          DEF CreateWait, Creatable, InterventionTypes, ActionStatuses
      <3>3. TypeOK'
        BY <2>3, <3>1, <3>2
          DEF TypeOK, CreateWait, caseRow, analysis, actionRows, provider
      <3>4. WorksOnAction'
        BY <2>3, <3>1, <3>2 DEF WorksOnAction, TypeOK, CreateWait
      <3> QED BY <3>3, <3>4
    <2>4. CASE StageForApproval(p)
      <3>1. status' \in CaseStatuses /\ version' \in Nat \ {0}
        BY <2>4, TransitionTyped DEF StageForApproval, TypeOK
      <3>2. attempts' \in 0..MaxAttempts /\ acts' \in [ActionIds -> Actions]
        BY <2>4, InsertTyped
          DEF StageForApproval, Creatable, InterventionTypes, ActionStatuses
      <3>3. TypeOK'
        BY <2>4, <3>1, <3>2
          DEF TypeOK, StageForApproval, caseRow, analysis, actionRows,
              provider
      <3>4. WorksOnAction'
        BY <2>4, <3>1, <3>2 DEF WorksOnAction, TypeOK, StageForApproval
      <3> QED BY <3>3, <3>4
    <2>5. CASE ExecuteNow(p)
      <3>1. status' \in CaseStatuses /\ version' \in Nat \ {0}
        BY <2>5, TransitionTyped DEF ExecuteNow, TypeOK
      <3>2. attempts' \in 0..MaxAttempts /\ acts' \in [ActionIds -> Actions] /\ attempts
            + 1 \in ActionIds
        BY <2>5, InsertTyped
          DEF ExecuteNow, Creatable, InterventionTypes, LinkTypes,
              ActionStatuses
      <3>3. [Idle EXCEPT !.at = "posting", !.act = attempts + 1] \in Jobs
        BY <3>2, ActionRange, IdleTyped, JobTyped DEF Steps
      <3>4. job' \in [Requests -> Jobs]
        BY <2>5, <3>3 DEF ExecuteNow, Begin, TypeOK
      <3>5. TypeOK'
        BY <2>5, <3>1, <3>2, <3>3, <3>4
          DEF TypeOK, ExecuteNow, caseRow, analysis, actionRows, provider
      <3>6. WorksOnAction'
        BY <2>5, <3>1, <3>2, <3>3, <3>4
          DEF WorksOnAction, TypeOK, ExecuteNow, Begin, Idle
      <3> QED BY <3>5, <3>6
    <2>6. CASE ReconcileStart(p)
      <3>1. \A a \in ActionIds : [Idle EXCEPT !.at = "reconciling", !.act = a] \in Jobs
        BY ActionRange, IdleTyped, JobTyped DEF Steps
      <3>2. PICK a \in ActionIds : job' = [job EXCEPT ![p] = [Idle EXCEPT !.at =
            "reconciling", !.act = a]]
        BY <2>6 DEF ReconcileStart, Begin, ExistingFor
      <3>3. job' \in [Requests -> Jobs]
        BY <3>1, <3>2 DEF TypeOK
      <3>4. TypeOK'
        BY <2>6, <3>1, <3>2, <3>3
          DEF TypeOK, ReconcileStart, caseRow, analysis, actionRows, provider
      <3>5. WorksOnAction'
        BY <2>6, <3>1, <3>2, <3>3 DEF WorksOnAction, TypeOK, ReconcileStart, Idle
      <3> QED BY <3>4, <3>5
    <2>7. CASE ApproveStart(p)
      <3>1. \A a \in ActionIds : [Idle EXCEPT !.at = "approving", !.act = a, !.ver =
            version] \in Jobs
        BY ActionRange, IdleTyped, JobTyped DEF Steps, TypeOK
      <3>2. PICK a \in ActionIds : job' = [job EXCEPT ![p] = [Idle EXCEPT !.at =
            "approving", !.act = a, !.ver = version]]
        BY <2>7 DEF ApproveStart, Begin
      <3>3. job' \in [Requests -> Jobs]
        BY <3>1, <3>2 DEF TypeOK
      <3>4. TypeOK'
        BY <2>7, <3>1, <3>2, <3>3
          DEF TypeOK, ApproveStart, caseRow, analysis, actionRows, provider
      <3>5. WorksOnAction'
        BY <2>7, <3>1, <3>2, <3>3 DEF WorksOnAction, TypeOK, ApproveStart, Idle
      <3> QED BY <3>4, <3>5
    <2>8. CASE RejectStart(p)
      <3>1. \A a \in ActionIds : [Idle EXCEPT !.at = "rejecting", !.act = a] \in Jobs
        BY ActionRange, IdleTyped, JobTyped DEF Steps
      <3>2. PICK a \in ActionIds : job' = [job EXCEPT ![p] = [Idle EXCEPT !.at =
            "rejecting", !.act = a]]
        BY <2>8 DEF RejectStart, Begin
      <3>3. job' \in [Requests -> Jobs]
        BY <3>1, <3>2 DEF TypeOK
      <3>4. TypeOK'
        BY <2>8, <3>1, <3>2, <3>3
          DEF TypeOK, RejectStart, caseRow, analysis, actionRows, provider
      <3>5. WorksOnAction'
        BY <2>8, <3>1, <3>2, <3>3 DEF WorksOnAction, TypeOK, RejectStart, Idle
      <3> QED BY <3>4, <3>5
    <2>9. CASE RequestWithoutEffect(p)
      <3>1. Returning \in Jobs
        BY IdleTyped, JobTyped DEF Steps, Returning
      <3>2. job' \in [Requests -> Jobs]
        BY <2>9, <3>1 DEF RequestWithoutEffect, Begin, TypeOK
      <3>3. TypeOK'
        BY <2>9, <3>1, <3>2
          DEF TypeOK, RequestWithoutEffect, caseRow, analysis, actionRows,
              provider
      <3>4. WorksOnAction'
        BY <2>9, <3>1, <3>2
          DEF WorksOnAction, TypeOK, RequestWithoutEffect, Begin, Idle,
              Returning
      <3> QED BY <3>3, <3>4
    <2> QED
      BY <1>1, <2>1, <2>2, <2>3, <2>4, <2>5, <2>6, <2>7, <2>8, <2>9 DEF Arrival
  <1>2. ASSUME NEW p \in Requests, Continue(p) PROVE TypeOK' /\ WorksOnAction'
    <2>1. CASE AnalyzePersist(p)
      <3>1. [job[p] EXCEPT !.at = "analyzed"] \in Jobs
        BY JobTyped DEF Steps, TypeOK
      <3>2. job' \in [Requests -> Jobs]
        BY <2>1, <3>1 DEF AnalyzePersist, TypeOK
      <3>3. job[p].run \in 0..MaxRuns
        BY DEF TypeOK, Jobs
      <3>4. recs' \in [RunIds -> Recommendations]
        BY <2>1 DEF AnalyzePersist, Selectable, TypeOK
      <3>5. TypeOK'
        BY <2>1, <3>1, <3>2, <3>3, <3>4
          DEF TypeOK, AnalyzePersist, caseRow, analysis, actionRows, provider
      <3>6. WorksOnAction'
        BY <2>1, <3>1, <3>2, <3>3, <3>4 DEF WorksOnAction, TypeOK, AnalyzePersist, Jobs
      <3> QED BY <3>5, <3>6
    <2>2. CASE AnalyzeComplete(p)
      <3>1. status' \in CaseStatuses /\ version' \in Nat \ {0}
        BY <2>2, TransitionTyped DEF AnalyzeComplete, TypeOK, caseRow
      <3>2. job' \in [Requests -> Jobs]
        BY <2>2, IdleTyped DEF AnalyzeComplete, Finish, TypeOK
      <3>3. TypeOK'
        BY <2>2, <3>1, <3>2
          DEF TypeOK, AnalyzeComplete, caseRow, analysis, actionRows,
              provider
      <3>4. WorksOnAction'
        BY <2>2, <3>1, <3>2 DEF WorksOnAction, TypeOK, AnalyzeComplete, Finish, Idle
      <3> QED BY <3>3, <3>4
    <2>3. CASE AnalyzeFail(p)
      <3>1. status' \in CaseStatuses /\ version' \in Nat \ {0}
        BY <2>3, TransitionTyped DEF AnalyzeFail, TypeOK, caseRow
      <3>2. job' \in [Requests -> Jobs]
        BY <2>3, IdleTyped DEF AnalyzeFail, Finish, TypeOK
      <3>3. TypeOK'
        BY <2>3, <3>1, <3>2
          DEF TypeOK, AnalyzeFail, caseRow, analysis, actionRows, provider
      <3>4. WorksOnAction'
        BY <2>3, <3>1, <3>2 DEF WorksOnAction, TypeOK, AnalyzeFail, Finish, Idle
      <3> QED BY <3>3, <3>4
    <2>4. CASE PostAccepted(p)
      <3>1. [job[p] EXCEPT !.at = "answered", !.answer = "SUCCEEDED"] \in Jobs
        BY JobTyped DEF Steps, TypeOK
      <3>2. job' \in [Requests -> Jobs]
        BY <2>4, <3>1 DEF PostAccepted, TypeOK
      <3>3. TypeOK'
        BY <2>4, <3>1, <3>2
          DEF TypeOK, PostAccepted, caseRow, analysis, actionRows, provider,
              WorksOnAction
      <3>4. WorksOnAction'
        BY <2>4, <3>1, <3>2 DEF WorksOnAction, TypeOK, PostAccepted, Jobs
      <3> QED BY <3>3, <3>4
    <2>5. CASE PostUnknown(p)
      <3>1. [job[p] EXCEPT !.at = "answered", !.answer = "UNKNOWN"] \in Jobs
        BY JobTyped DEF Steps, TypeOK
      <3>2. job' \in [Requests -> Jobs]
        BY <2>5, <3>1 DEF PostUnknown, TypeOK
      <3>3. TypeOK'
        BY <2>5, <3>1, <3>2
          DEF TypeOK, PostUnknown, caseRow, analysis, actionRows, provider,
              WorksOnAction
      <3>4. WorksOnAction'
        BY <2>5, <3>1, <3>2 DEF WorksOnAction, TypeOK, PostUnknown, Jobs
      <3> QED BY <3>3, <3>4
    <2>6. CASE PostRefused(p)
      <3>1. [job[p] EXCEPT !.at = "answered", !.answer = "FAILED"] \in Jobs
        BY JobTyped DEF Steps, TypeOK
      <3>2. job' \in [Requests -> Jobs]
        BY <2>6, <3>1 DEF PostRefused, TypeOK
      <3>3. TypeOK'
        BY <2>6, <3>1, <3>2
          DEF TypeOK, PostRefused, caseRow, analysis, actionRows, provider,
              WorksOnAction
      <3>4. WorksOnAction'
        BY <2>6, <3>1, <3>2 DEF WorksOnAction, TypeOK, PostRefused, Jobs
      <3> QED BY <3>3, <3>4
    <2>7. CASE RecordAnswer(p)
      <3>1. \A e \in FollowUps(job[p].answer) : [job[p] EXCEPT !.at = "settling",
            !.event = e] \in Jobs
        BY JobTyped DEF Steps, TypeOK, FollowUps
      <3>2. PICK e \in FollowUps(job[p].answer) : job' = [job EXCEPT ![p] = [job[p]
            EXCEPT !.at = "settling", !.event = e]]
        BY <2>7 DEF RecordAnswer, TypeOK
      <3>3. job[p].answer \in ActionStatuses
        BY <2>7 DEF RecordAnswer, TypeOK, WorksOnAction, Jobs, ActionStatuses
      <3>4. job' \in [Requests -> Jobs]
        BY <3>1, <3>2 DEF TypeOK
      <3>5. acts' \in [ActionIds -> Actions]
        BY <2>7, <3>3, RowTyped DEF RecordAnswer, TypeOK, WorksOnAction
      <3>6. TypeOK'
        BY <2>7, <3>1, <3>2, <3>3, <3>4, <3>5
          DEF TypeOK, RecordAnswer, caseRow, analysis, actionRows, provider
      <3>7. WorksOnAction'
        BY <2>7, <3>2 DEF WorksOnAction, TypeOK, Jobs
      <3> QED BY <3>6, <3>7
    <2>8. CASE Settle(p)
      <3>1. status' \in CaseStatuses /\ version' \in Nat \ {0}
        BY <2>8, TransitionTyped DEF Settle, TypeOK, caseRow
      <3>2. job' \in [Requests -> Jobs]
        BY <2>8, IdleTyped DEF Settle, Finish, TypeOK
      <3>3. TypeOK'
        BY <2>8, <3>1, <3>2 DEF TypeOK, Settle, caseRow, analysis, actionRows, provider
      <3>4. WorksOnAction'
        BY <2>8, <3>1, <3>2 DEF WorksOnAction, TypeOK, Settle, Finish, Idle
      <3> QED BY <3>3, <3>4
    <2>9. CASE ReconcileFound(p)
      <3>1. [job[p] EXCEPT !.at = "settling", !.event = "ACTION_ACCEPTED_OR_UNKNOWN"]
            \in Jobs
        BY JobTyped DEF Steps, TypeOK
      <3>2. job' \in [Requests -> Jobs]
        BY <2>9, <3>1 DEF ReconcileFound, TypeOK
      <3>3. acts' \in [ActionIds -> Actions]
        BY <2>9, RowTyped DEF ReconcileFound, TypeOK, ActionStatuses, WorksOnAction
      <3>4. TypeOK'
        BY <2>9, <3>1, <3>2, <3>3
          DEF TypeOK, ReconcileFound, caseRow, analysis, actionRows, provider
      <3>5. WorksOnAction'
        BY <2>9, <3>1, <3>2, <3>3 DEF WorksOnAction, TypeOK, ReconcileFound, Jobs
      <3> QED BY <3>4, <3>5
    <2>10. CASE ReconcileNothing(p)
      <3>1. Returning \in Jobs
        BY IdleTyped, JobTyped DEF Steps, Returning
      <3>2. job' \in [Requests -> Jobs]
        BY <2>10, <3>1 DEF ReconcileNothing, TypeOK
      <3>3. TypeOK'
        BY <2>10, <3>1, <3>2
          DEF TypeOK, ReconcileNothing, caseRow, analysis, actionRows,
              provider
      <3>4. WorksOnAction'
        BY <2>10, <3>1, <3>2
          DEF WorksOnAction, TypeOK, ReconcileNothing, Returning, Idle
      <3> QED BY <3>3, <3>4
    <2>11. CASE ApproveCommit(p)
      <3>1. status' \in CaseStatuses /\ version' \in Nat \ {0}
        BY <2>11, TransitionTyped DEF ApproveCommit, TypeOK
      <3>2. [job[p] EXCEPT !.at = "posting"] \in Jobs /\ [job[p] EXCEPT !.at =
            "escalating"] \in Jobs
        BY JobTyped DEF Steps, TypeOK
      <3>3. job' \in [Requests -> Jobs]
        BY <2>11, <3>2 DEF ApproveCommit, TypeOK
      <3>4. acts' \in [ActionIds -> Actions]
        BY <2>11, RowTyped DEF ApproveCommit, TypeOK, ActionStatuses, WorksOnAction
      <3>5. TypeOK'
        BY <2>11, <3>1, <3>2, <3>3, <3>4
          DEF TypeOK, ApproveCommit, caseRow, analysis, actionRows, provider
      <3>6. WorksOnAction'
        BY <2>11, <3>1, <3>2, <3>3, <3>4 DEF WorksOnAction, TypeOK, ApproveCommit, Jobs
      <3> QED BY <3>5, <3>6
    <2>12. CASE ApproveRefused(p)
      <3>1. Returning \in Jobs
        BY IdleTyped, JobTyped DEF Steps, Returning
      <3>2. job' \in [Requests -> Jobs]
        BY <2>12, <3>1 DEF ApproveRefused, TypeOK
      <3>3. TypeOK'
        BY <2>12, <3>1, <3>2
          DEF TypeOK, ApproveRefused, caseRow, analysis, actionRows, provider
      <3>4. WorksOnAction'
        BY <2>12, <3>1, <3>2 DEF WorksOnAction, TypeOK, ApproveRefused, Returning, Idle
      <3> QED BY <3>3, <3>4
    <2>13. CASE Escalate(p)
      <3>1. [job[p] EXCEPT !.at = "settling", !.event = "ACTION_ACCEPTED_OR_UNKNOWN"]
            \in Jobs
        BY JobTyped DEF Steps, TypeOK
      <3>2. job' \in [Requests -> Jobs]
        BY <2>13, <3>1 DEF Escalate, TypeOK
      <3>3. acts' \in [ActionIds -> Actions]
        BY <2>13, RowTyped DEF Escalate, TypeOK, ActionStatuses, WorksOnAction
      <3>4. TypeOK'
        BY <2>13, <3>1, <3>2, <3>3
          DEF TypeOK, Escalate, caseRow, analysis, actionRows, provider
      <3>5. WorksOnAction'
        BY <2>13, <3>1, <3>2, <3>3 DEF WorksOnAction, TypeOK, Escalate, Jobs
      <3> QED BY <3>4, <3>5
    <2>14. CASE RejectStop(p)
      <3>1. status' \in CaseStatuses /\ version' \in Nat \ {0}
        BY <2>14, TransitionTyped DEF RejectStop, TypeOK
      <3>2. job' \in [Requests -> Jobs]
        BY <2>14, IdleTyped DEF RejectStop, Finish, TypeOK
      <3>3. acts' \in [ActionIds -> Actions]
        BY <2>14, RowTyped DEF RejectStop, TypeOK, ActionStatuses, WorksOnAction
      <3>4. TypeOK'
        BY <2>14, <3>1, <3>2, <3>3
          DEF TypeOK, RejectStop, caseRow, analysis, actionRows, provider
      <3>5. WorksOnAction'
        BY <2>14, <3>1, <3>2, <3>3 DEF WorksOnAction, TypeOK, RejectStop, Finish, Idle
      <3> QED BY <3>4, <3>5
    <2>15. CASE RejectReanalyze(p)
      <3>1. status' \in CaseStatuses /\ version' \in Nat \ {0}
        BY <2>15, TransitionTyped DEF RejectReanalyze, TypeOK
      <3>2. runs + 1 \in 0..MaxRuns
        BY <2>15 DEF RejectReanalyze, TypeOK, ConstantsAssumption
      <3>3. acts[job[p].act].type \in InterventionTypes
        BY <2>15 DEF RejectReanalyze, TypeOK, WorksOnAction, Actions
      <3>4. [Idle EXCEPT !.at = "analyzing", !.run = runs + 1, !.excluded =
            acts[job[p].act].type] \in Jobs
        BY <3>2, <3>3, IdleTyped, JobTyped DEF Steps
      <3>5. job' \in [Requests -> Jobs]
        BY <2>15, <3>4 DEF RejectReanalyze, TypeOK
      <3>6. acts' \in [ActionIds -> Actions]
        BY <2>15, RowTyped DEF RejectReanalyze, TypeOK, ActionStatuses, WorksOnAction
      <3>7. TypeOK'
        BY <2>15, <3>1, <3>2, <3>3, <3>4, <3>5, <3>6
          DEF TypeOK, RejectReanalyze, caseRow, analysis, actionRows,
              provider
      <3>8. WorksOnAction'
        BY <2>15, <3>1, <3>2, <3>3, <3>4, <3>5, <3>6
          DEF WorksOnAction, TypeOK, RejectReanalyze, Idle
      <3> QED BY <3>7, <3>8
    <2>16. CASE RejectRefused(p)
      <3>1. Returning \in Jobs
        BY IdleTyped, JobTyped DEF Steps, Returning
      <3>2. job' \in [Requests -> Jobs]
        BY <2>16, <3>1 DEF RejectRefused, TypeOK
      <3>3. TypeOK'
        BY <2>16, <3>1, <3>2
          DEF TypeOK, RejectRefused, caseRow, analysis, actionRows, provider
      <3>4. WorksOnAction'
        BY <2>16, <3>1, <3>2 DEF WorksOnAction, TypeOK, RejectRefused, Returning, Idle
      <3> QED BY <3>3, <3>4
    <2>17. CASE SessionClosed(p)
      <3>1. job' \in [Requests -> Jobs]
        BY <2>17, IdleTyped DEF SessionClosed, Finish, TypeOK
      <3>2. TypeOK'
        BY <2>17, <3>1
          DEF TypeOK, SessionClosed, caseRow, analysis, actionRows, provider
      <3>3. WorksOnAction'
        BY <2>17, <3>1 DEF WorksOnAction, TypeOK, SessionClosed, Finish, Idle
      <3> QED BY <3>2, <3>3
    <2> QED
      BY <1>2, <2>1, <2>2, <2>3, <2>4, <2>5, <2>6, <2>7, <2>8, <2>9, <2>10, <2>11,
         <2>12, <2>13, <2>14, <2>15, <2>16, <2>17
        DEF Continue
  <1>3. ASSUME NEW p \in Requests, RequestDies(p) PROVE TypeOK' /\ WorksOnAction'
    <2>1. Returning \in Jobs /\ Idle \in Jobs
      BY IdleTyped, JobTyped DEF Steps, Returning
    <2>2. job' \in [Requests -> Jobs]
      BY <1>3, <2>1 DEF RequestDies, TypeOK
    <2>3. TypeOK'
      BY <1>3, <2>2
        DEF RequestDies, TypeOK, ConstantsAssumption, caseRow, analysis,
            actionRows, provider
    <2>4. WorksOnAction'
      BY <1>3 DEF RequestDies, TypeOK, WorksOnAction, Returning, Idle
    <2> QED BY <2>3, <2>4
  <1>4. ASSUME CustomerPays PROVE TypeOK' /\ WorksOnAction'
    <2>1. money' \in [Payments -> PaymentStates]
      BY <1>4 DEF CustomerPays, TypeOK, PaymentStates
    <2> QED BY <1>4, <2>1 DEF CustomerPays, TypeOK, WorksOnAction, caseRow, analysis,
       actionRows, provider
  <1>5. ASSUME Webhook PROVE TypeOK' /\ WorksOnAction'
    <2>1. CASE WebhookRead
      <3>1. hook' \in Hooks
        BY <2>1
          DEF WebhookRead, TypeOK, Hooks, IdleHook, Payments, CaseStatuses,
              ConstantsAssumption
      <3>2. TypeOK'
        BY <2>1, <3>1 DEF TypeOK, WebhookRead, caseRow, analysis, actionRows, provider
      <3>3. WorksOnAction'
        BY <2>1, <3>1 DEF WorksOnAction, TypeOK, WebhookRead
      <3> QED BY <3>2, <3>3
    <2>2. CASE WebhookDismiss
      <3>1. hook' \in Hooks
        BY <2>2
          DEF WebhookDismiss, TypeOK, Hooks, IdleHook, Payments,
              CaseStatuses, ConstantsAssumption
      <3>2. money' \in [Payments -> PaymentStates]
        BY <2>2 DEF WebhookDismiss, TypeOK, PaymentStates
      <3>3. TypeOK'
        BY <2>2, <3>1, <3>2
          DEF TypeOK, WebhookDismiss, caseRow, analysis, actionRows, provider
      <3>4. WorksOnAction'
        BY <2>2, <3>1, <3>2 DEF WorksOnAction, TypeOK, WebhookDismiss
      <3> QED BY <3>3, <3>4
    <2>3. CASE WebhookResolve
      <3>1. status' \in CaseStatuses /\ version' \in Nat \ {0}
        BY <2>3, TransitionTyped DEF WebhookResolve, TypeOK
      <3>2. hook' \in Hooks /\ hook.pay \in Payments
        BY <2>3 DEF WebhookResolve, TypeOK, Hooks
      <3>3. acts' \in [ActionIds -> Actions]
        BY <2>3, RowTyped DEF WebhookResolve, TypeOK, Cancelled, ActionStatuses
      <3>4. TypeOK'
        BY <2>3, <3>1, <3>2, <3>3
          DEF TypeOK, WebhookResolve, caseRow, analysis, actionRows, provider
      <3>5. WorksOnAction'
        BY <2>3, <3>1, <3>2, <3>3 DEF WorksOnAction, TypeOK, WebhookResolve
      <3> QED BY <3>4, <3>5
    <2>4. CASE WebhookStale
      <3>1. hook' \in Hooks
        BY <2>4
          DEF WebhookStale, TypeOK, Hooks, IdleHook, Payments, CaseStatuses,
              ConstantsAssumption
      <3>2. TypeOK'
        BY <2>4, <3>1 DEF TypeOK, WebhookStale, caseRow, analysis, actionRows, provider
      <3>3. WorksOnAction'
        BY <2>4, <3>1 DEF WorksOnAction, TypeOK, WebhookStale
      <3> QED BY <3>2, <3>3
    <2>5. CASE WebhookAcknowledge
      <3>1. hook' \in Hooks
        BY <2>5
          DEF WebhookAcknowledge, TypeOK, Hooks, IdleHook, Payments,
              CaseStatuses, ConstantsAssumption
      <3>2. money' \in [Payments -> PaymentStates]
        BY <2>5 DEF WebhookAcknowledge, TypeOK, PaymentStates
      <3>3. TypeOK'
        BY <2>5, <3>1, <3>2
          DEF TypeOK, WebhookAcknowledge, caseRow, analysis, actionRows,
              provider
      <3>4. WorksOnAction'
        BY <2>5, <3>1, <3>2 DEF WorksOnAction, TypeOK, WebhookAcknowledge
      <3> QED BY <3>3, <3>4
    <2> QED
      BY <1>5, <2>1, <2>2, <2>3, <2>4, <2>5 DEF Webhook
  <1>6. ASSUME WebhookDies PROVE TypeOK' /\ WorksOnAction'
    <2>1. hook' \in Hooks
      BY <1>6
        DEF WebhookDies, Hooks, IdleHook, Payments, CaseStatuses,
            ConstantsAssumption
    <2> QED BY <1>6, <2>1 DEF WebhookDies, TypeOK, WorksOnAction, ConstantsAssumption,
       caseRow, analysis, actionRows, provider
  <1>7. ASSUME ProcessDies PROVE TypeOK' /\ WorksOnAction'
    <2>1. hook' \in Hooks
      BY <1>7
        DEF ProcessDies, Hooks, IdleHook, Payments, CaseStatuses,
            ConstantsAssumption
    <2>2. job' \in [Requests -> Jobs]
      BY <1>7, IdleTyped DEF ProcessDies
    <2> QED BY <1>7, <2>1, <2>2 DEF ProcessDies, TypeOK, WorksOnAction, Idle,
       ConstantsAssumption, caseRow, analysis, actionRows, provider
  <1> QED
    BY <1>1, <1>2, <1>3, <1>4, <1>5, <1>6, <1>7 DEF Next

LEMMA TypeUnchanged == TypeInv /\ UNCHANGED vars => TypeInv'
  BY DEF TypeInv, TypeOK, WorksOnAction, vars

LEMMA TypeInvariant == Spec => []TypeInv
  <1>1. Init => TypeInv
    BY TypeInit, ConstantsAssumption
  <1>2. TypeInv /\ [Next]_vars => TypeInv'
    BY TypeStep, TypeUnchanged, ConstantsAssumption
  <1> QED BY <1>1, <1>2, PTL DEF Spec

(***************************************************************************)
(* Every variable keeps the type its column or its thread gives it.        *)
(***************************************************************************)
THEOREM TypeCorrect == Spec => []TypeOK
  <1>1. TypeInv => TypeOK
    BY DEF TypeInv
  <1> QED BY <1>1, TypeInvariant, PTL

=============================================================================
