------------------------------ MODULE ReadModels ------------------------------
(***************************************************************************)
(* What the console is shown while the workflow writes: the dashboard      *)
(* summary (repositories/analytics_repo.py), the case detail and the case  *)
(* list (services/recovery_case_service.py, recovery_case_repo.py).        *)
(*                                                                         *)
(* A report is a sequence of SQL statements at READ COMMITTED: every       *)
(* statement sees the commits made before it, so the parts of one report   *)
(* are of different moments.  Readers write nothing, so one report at a    *)
(* time is enough.  The writers are the commits of RecoveryWorkflow that   *)
(* the reports can tell apart; amounts are left out: a sum is the set of   *)
(* cases it runs over.                                                     *)
(***************************************************************************)
EXTENDS Naturals, Sequences, FiniteSets, StateMachine

CONSTANTS
  Cases,       \* recovery cases of the organization
  Analyses,    \* what an analysis may persist: sets of candidate rows
  MaxRuns,     \* bound: analysis runs per case
  PageSize     \* limit of a list request

MaxRank == 7

\* "viable": eligible, executable, not STOP and of positive value.
Rows == [rank : 1..MaxRank, kind : {"viable", "advisory", "stop"}]

ASSUME ReadAssumption ==
  /\ \A rows \in Analyses :
       /\ rows \subseteq Rows /\ rows # {}
       /\ \A r, s \in rows : r.rank = s.rank => r = s
       /\ \E r \in rows : r.rank = 1
       /\ \E r \in rows : r.kind = "stop"
       /\ \A r, s \in rows : r.kind = "stop" /\ s.kind = "stop" => r = s
  /\ MaxRuns \in Nat \ {0}
  /\ PageSize \in Nat

RunIds == 1..MaxRuns

VARIABLES
  status,      \* recovery_cases.status, "none" before the case is opened
  run,         \* recovery_cases.current_analysis_run_id, 0 when null
  rows,        \* recovery_recommendations by case and run
  outcome,     \* cases with a recovery_outcomes row
  acted,       \* cases with a recovery_actions row
  at,          \* the report under way and its next statement
  opened,      \* the cases that were open when the report began
  seen         \* what each statement of the report has returned

database == <<status, run, rows, outcome, acted>>
report == <<at, opened, seen>>
vars == <<status, run, rows, outcome, acted, at, opened, seen>>

NoReport == [name |-> "none", case |-> "none", step |-> 1]

\* No statement has answered yet.
Nothing == <<>>

Init ==
  /\ status = [c \in Cases |-> "none"]
  /\ run = [c \in Cases |-> 0]
  /\ rows = [c \in Cases |-> [r \in RunIds |-> {}]]
  /\ outcome = {}
  /\ acted = {}
  /\ at = NoReport
  /\ opened = {}
  /\ seen = Nothing

------------------------------------------------------------------------------
(* The writers: one action per commit *)

Open(c) ==
  /\ status[c] = "none"
  /\ status' = [status EXCEPT ![c] = "DETECTED"]
  /\ UNCHANGED <<run, rows, outcome, acted, report>>

\* The events whose handler inserts the action row in the same commit.
InsertingEvents == {"APPROVAL_REQUIRED", "ACTION_SCHEDULED", "AUTO_EXECUTE"}

(***************************************************************************)
(* transition_case for everything but a payment.  An analysis has          *)
(* persisted its run before it completes.                                  *)
(***************************************************************************)
Move(c) ==
  \E t \in OrdinaryTransitions :
    /\ t[1] = status[c]
    /\ t[2] = "ANALYSIS_COMPLETED" => run[c] # 0
    /\ status' = [status EXCEPT ![c] = t[3]]
    /\ acted' = IF t[2] \in InsertingEvents THEN acted \cup {c} ELSE acted
    /\ UNCHANGED <<run, rows, outcome, report>>

\* Deviation: the run is made current before its rows are written.
PersistRunFirst(c) ==
  /\ status[c] \in {"ANALYZING", "RECOVERED"}
  /\ run[c] < MaxRuns
  /\ run' = [run EXCEPT ![c] = @ + 1]
  /\ UNCHANGED <<status, rows, outcome, acted, report>>

(***************************************************************************)
(* persist_analysis_run: the rows and the pointer to them in one commit.   *)
(* A payment may have resolved the case since the analysis began.          *)
(***************************************************************************)
Persist(c) ==
  /\ status[c] \in {"ANALYZING", "RECOVERED"}
  /\ run[c] < MaxRuns
  /\ run' = [run EXCEPT ![c] = @ + 1]
  /\ \E candidates \in Analyses : rows' = [rows EXCEPT ![c][run[c] + 1] = candidates]
  /\ UNCHANGED <<status, outcome, acted, report>>

\* The outcome row and RECOVERED in one commit.
Recover(c) ==
  /\ \E t \in PaymentTransitions : t[1] = status[c] /\ status' = [status EXCEPT ![c] = t[3]]
  /\ outcome' = outcome \cup {c}
  /\ UNCHANGED <<run, rows, acted, report>>

------------------------------------------------------------------------------
(* Dashboard summary *)

Opened == {c \in Cases : status[c] # "none"}
Active == {c \in Opened : status[c] \notin TerminalStatuses}
Recovered == {c \in Opened : status[c] = "RECOVERED"}

(***************************************************************************)
(* _compute_baseline_recovered joins an outcome with the first rank of     *)
(* every run of its case, so it is a bag of cases.                         *)
(***************************************************************************)
Baseline ==
  [c \in outcome |-> Cardinality({r \in RunIds : \E row \in rows[c][r] : row.rank = 1})]

\* The cases of get_dashboard_aggregates' statements.
Headline(statement) ==
  CASE statement \in {"revenue_at_risk", "active_cases"} -> Active
    [] statement = "recovered_cases" -> Recovered
    [] statement \in {"revenue_recovered", "average_seconds"} -> outcome
    [] statement = "baseline" -> Baseline
    [] statement = "total_cases" -> Opened

\* get_recovery_trend: at risk are all cases of the period, whatever became of them.
Trend(statement) == IF statement = "trend_at_risk" THEN Opened ELSE outcome

\* get_action_effectiveness: every action of a recovered case is credited with its outcome.
ActionEffectiveness ==
  [attempted |-> acted, recovered |-> acted \cap Recovered,
   credited |-> acted \cap Recovered \cap outcome]

\* get_failure_breakdown counts open and closed cases alike.
FailureBreakdown == Opened

\* The cases a statement of the summary runs over.
Aggregate(statement) ==
  CASE statement \in {"trend_at_risk", "trend_recovered"} -> Trend(statement)
    [] statement = "action_effectiveness" -> ActionEffectiveness
    [] statement = "failure_breakdown" -> FailureBreakdown
    [] OTHER -> Headline(statement)

\* Deviation: the money recovered is summed before the money at risk.
SummaryStatementsRecoveredFirst ==
  <<"revenue_recovered", "revenue_at_risk", "active_cases", "recovered_cases",
    "average_seconds", "baseline", "total_cases", "trend_at_risk", "trend_recovered",
    "action_effectiveness", "failure_breakdown">>

\* get_dashboard_summary asks in this order.
SummaryStatements ==
  <<"revenue_at_risk", "revenue_recovered", "active_cases", "recovered_cases",
    "average_seconds", "baseline", "total_cases", "trend_at_risk", "trend_recovered",
    "action_effectiveness", "failure_breakdown">>

------------------------------------------------------------------------------
(* Selection, as the readers apply it to persisted rows *)

First(candidates) == CHOOSE r \in candidates : \A s \in candidates : r.rank <= s.rank

\* Deviation: the first rank, executable or not.
SelectCandidateRowFirst(candidates) ==
  IF candidates = {} THEN {} ELSE {First(candidates)}

\* select_candidate_row: at most one row; STOP when nothing is viable.
SelectCandidateRow(candidates) ==
  LET viable == {r \in candidates : r.kind = "viable"}
  IN IF viable # {} THEN {First(viable)} ELSE {r \in candidates : r.kind = "stop"}

FirstRank(candidates) == {r \in candidates : r.rank = 1}

Shown(candidates) ==
  IF SelectCandidateRow(candidates) # {} THEN SelectCandidateRow(candidates)
  ELSE FirstRank(candidates)

------------------------------------------------------------------------------
(* Case detail *)

\* Deviation: the outcome is loaded before the case.
DetailStatementsOutcomeFirst == <<"outcome", "case", "analysis", "latest_action">>

\* get_case_detail asks in this order.
DetailStatements == <<"case", "analysis", "latest_action", "outcome">>

DetailOf(c, statement) ==
  CASE statement = "case" -> [status |-> status[c], run |-> run[c]]
    [] statement = "analysis" ->
         IF seen["case"].run = 0 THEN {} ELSE Shown(rows[c][seen["case"].run])
    [] statement = "latest_action" -> c \in acted
    [] statement = "outcome" -> c \in outcome

------------------------------------------------------------------------------
(* Case list *)

\* list_cases asks in this order.
ListStatements == <<"total", "page", "selected">>

\* The join with the first rank of the current run.
Joined(c) ==
  [case |-> c, run |-> run[c],
   first |-> IF run[c] = 0 THEN {} ELSE FirstRank(rows[c][run[c]])]

\* Any full page of the open cases: the sort keys are left out.
Pages ==
  {page \in SUBSET Opened :
     \/ Cardinality(page) = PageSize
     \/ Cardinality(page) < PageSize /\ page = Opened}

ListOf(statement) ==
  CASE statement = "total" -> {Cardinality(Opened)}
    [] statement = "page" -> {{Joined(c) : c \in page} : page \in Pages}
    [] statement = "selected" ->
         {[item \in seen["page"] |->
            LET selected == IF item.run = 0 THEN {}
                            ELSE SelectCandidateRow(rows[item.case][item.run])
            IN IF selected # {} THEN selected ELSE item.first]}

------------------------------------------------------------------------------
(* Reports *)

StatementsOf(name) ==
  CASE name = "summary" -> SummaryStatements
    [] name = "detail" -> DetailStatements
    [] name = "list" -> ListStatements
    [] OTHER -> <<>>

Begin(name, c) ==
  /\ at.name = "none"
  /\ at' = [name |-> name, case |-> c, step |-> 1]
  /\ opened' = Opened
  /\ UNCHANGED <<database, seen>>

\* A detail of a case that does not exist is answered 404 without a statement.
Request ==
  \/ Begin("summary", "none")
  \/ Begin("list", "none")
  \/ \E c \in Opened : Begin("detail", c)

\* The report has been sent.
Complete == at.name # "none" /\ at.step > Len(StatementsOf(at.name))

\* One statement of the report.
Query ==
  /\ at.name # "none"
  /\ ~Complete
  /\ LET statement == StatementsOf(at.name)[at.step]
         Answered(answer) ==
           seen' = [s \in DOMAIN seen \cup {statement} |->
                      IF s = statement THEN answer ELSE seen[s]]
     IN \/ at.name = "summary" /\ Answered(Aggregate(statement))
        \/ at.name = "detail" /\ Answered(DetailOf(at.case, statement))
        \/ at.name = "list" /\ \E answer \in ListOf(statement) : Answered(answer)
  /\ at' = [at EXCEPT !.step = @ + 1]
  /\ UNCHANGED <<database, opened>>

Done ==
  /\ Complete
  /\ at' = NoReport
  /\ opened' = {}
  /\ seen' = Nothing
  /\ UNCHANGED database

Write(c) == Open(c) \/ Move(c) \/ Persist(c) \/ Recover(c)

Next ==
  \/ \E c \in Cases : Write(c)
  \/ Request
  \/ Query
  \/ Done

Spec == Init /\ [][Next]_vars

------------------------------------------------------------------------------
(* Properties *)

\* The rows keep their columns' types, and a report is one of the three.
TypeOK ==
  /\ status \in [Cases -> CaseStatuses \cup {"none"}]
  /\ run \in [Cases -> 0..MaxRuns]
  /\ \A c \in Cases : \A r \in RunIds : rows[c][r] \in Analyses \cup {{}}
  /\ \A c \in Cases : \A r \in RunIds : r <= run[c] <=> rows[c][r] # {}
  /\ outcome \subseteq Cases
  /\ acted \subseteq Cases
  /\ at.name \in {"none", "summary", "detail", "list"}
  /\ at.step \in 1..(Len(StatementsOf(at.name)) + 1)
  /\ opened \subseteq Opened
  /\ DOMAIN seen = {StatementsOf(at.name)[i] : i \in 1..(at.step - 1)}

(***************************************************************************)
(* A payment that arrives while the summary is computed moves a case from  *)
(* one figure to another, never out of all of them: a case open at the     *)
(* beginning is at risk, recovered, or was given up; and the figures about *)
(* recovered cases only grow from one statement to the next.               *)
(***************************************************************************)
SummaryLosesNoCase ==
  (at.name = "summary" /\ Complete) =>
    /\ \A c \in opened : status[c] \notin {"FAILED", "STOPPED"} =>
         /\ c \in seen["revenue_at_risk"] \cup seen["revenue_recovered"]
         /\ c \in seen["active_cases"] \cup seen["recovered_cases"]
    /\ seen["revenue_recovered"] \subseteq seen["recovered_cases"]
    /\ seen["recovered_cases"] \subseteq seen["average_seconds"]
    /\ seen["average_seconds"] \subseteq DOMAIN seen["baseline"]
    /\ DOMAIN seen["baseline"] \subseteq seen["trend_recovered"]
    /\ seen["trend_recovered"] \subseteq seen["failure_breakdown"]
    /\ seen["trend_recovered"] \cap seen["action_effectiveness"].attempted
         \subseteq seen["action_effectiveness"].credited
    /\ seen["active_cases"] \cup seen["recovered_cases"] \subseteq seen["total_cases"]

(***************************************************************************)
(* A detail is never ahead of its parts: a case shown recovered comes with *)
(* its outcome, one shown in the hands of an action with an action, and    *)
(* one shown recommended with a recommendation.                            *)
(***************************************************************************)
DetailIsCoherent ==
  (at.name = "detail" /\ Complete) =>
    LET shown == seen["case"].status
    IN /\ shown = "RECOVERED" => seen["outcome"]
       /\ shown \in {"AWAITING_APPROVAL", "SCHEDULED", "EXECUTING", "WAITING_FOR_OUTCOME"} =>
            seen["latest_action"] /\ seen["analysis"] # {}
       /\ shown = "RECOMMENDED" => seen["analysis"] # {}

(***************************************************************************)
(* The row an execution of these candidates would target, stated apart     *)
(* from the readers: the viable row with no viable row before it, or STOP. *)
(***************************************************************************)
Executable(r, candidates) ==
  /\ r \in candidates
  /\ \/ r.kind = "viable" /\ \A s \in candidates : s.kind = "viable" => r.rank <= s.rank
     \/ r.kind = "stop" /\ \A s \in candidates : s.kind # "viable"

(***************************************************************************)
(* List and detail name the action that an execution would target, of the  *)
(* run that the same report shows, however many runs are written meanwhile.*)
(***************************************************************************)
ReadersShowSelected ==
  Complete =>
    /\ at.name = "detail" /\ seen["case"].run # 0 =>
         \E r \in seen["analysis"] :
           seen["analysis"] = {r} /\ Executable(r, rows[at.case][seen["case"].run])
    /\ at.name = "list" =>
         \A item \in seen["page"] : item.run # 0 =>
           \E r \in seen["selected"][item] :
             seen["selected"][item] = {r} /\ Executable(r, rows[item.case][item.run])

=============================================================================
