--------------------------- MODULE ReadModelsProofs ---------------------------
(***************************************************************************)
(* Proofs about ReadModels for any number of cases, any candidate lists    *)
(* and any number of analysis runs.  The argument: the database only gains *)
(* (runs, outcomes, actions, opened cases; rows never change), so what one *)
(* statement has seen still holds when the next one is answered.           *)
(***************************************************************************)
EXTENDS ReadModels, WellFoundedInduction, TLAPS

------------------------------------------------------------------------------
(* The inductive invariant *)

ActedStatuses == {"AWAITING_APPROVAL", "SCHEDULED", "EXECUTING", "WAITING_FOR_OUTCOME"}

\* What stays true of a case that was once in status s with run r current.
Explained(c, s, r) ==
  /\ r \in 0..run[c]
  /\ s = "RECOVERED" => c \in outcome
  /\ s \in ActedStatuses => c \in acted
  /\ s \in ActedStatuses \cup {"RECOMMENDED"} => r # 0

DatabaseInv ==
  /\ status \in [Cases -> CaseStatuses \cup {"none"}]
  /\ run \in [Cases -> 0..MaxRuns]
  /\ rows \in [Cases -> [RunIds -> Analyses \cup {{}}]]
  /\ outcome \subseteq Cases
  /\ acted \subseteq Cases
  /\ \A c \in Cases : \A r \in RunIds : r <= run[c] <=> rows[c][r] # {}
  /\ \A c \in Cases : Explained(c, status[c], run[c])
  /\ \A c \in outcome : status[c] = "RECOVERED"

ReportInv ==
  /\ at \in [name : {"none", "summary", "detail", "list"}, case : Cases \cup {"none"}, step : Nat]
  /\ at.step \in 1..(Len(StatementsOf(at.name)) + 1)
  /\ opened \subseteq Opened
  /\ DOMAIN seen = {StatementsOf(at.name)[i] : i \in 1..(at.step - 1)}

GivenUp(c) == status[c] \in {"FAILED", "STOPPED"}

\* What the statements of a summary have established, from each to the next.
SummaryInv ==
  at.name = "summary" =>
    /\ at.step > 1 => \A c \in opened : c \in seen["revenue_at_risk"] \cup outcome \/ GivenUp(c)
    /\ at.step > 2 => /\ seen["revenue_recovered"] \subseteq outcome
                      /\ \A c \in opened :
                           \/ c \in seen["revenue_at_risk"] \cup seen["revenue_recovered"]
                           \/ GivenUp(c)
    /\ at.step > 3 => /\ seen["active_cases"] \subseteq Opened
                      /\ \A c \in opened : c \in seen["active_cases"] \cup outcome \/ GivenUp(c)
    /\ at.step > 4 => /\ seen["revenue_recovered"] \subseteq seen["recovered_cases"]
                      /\ seen["recovered_cases"] \subseteq outcome
                      /\ \A c \in opened :
                           c \in seen["active_cases"] \cup seen["recovered_cases"] \/ GivenUp(c)
    /\ at.step > 5 => /\ seen["recovered_cases"] \subseteq seen["average_seconds"]
                      /\ seen["average_seconds"] \subseteq outcome
    /\ at.step > 6 => /\ seen["average_seconds"] \subseteq DOMAIN seen["baseline"]
                      /\ DOMAIN seen["baseline"] \subseteq outcome
    /\ at.step > 7 =>
         seen["active_cases"] \cup seen["recovered_cases"] \subseteq seen["total_cases"]
    /\ at.step > 9 => /\ DOMAIN seen["baseline"] \subseteq seen["trend_recovered"]
                      /\ seen["trend_recovered"] \subseteq outcome
    /\ at.step > 10 => seen["trend_recovered"] \cap seen["action_effectiveness"].attempted
                         \subseteq seen["action_effectiveness"].credited
    /\ at.step > 11 => seen["trend_recovered"] \subseteq seen["failure_breakdown"]

\* The rows of a run that was current once.
ShownOf(c, r) == IF r = 0 THEN {} ELSE Shown(rows[c][r])

DetailInv ==
  at.name = "detail" =>
    /\ at.case \in Cases
    /\ at.step > 1 => Explained(at.case, seen["case"].status, seen["case"].run)
    /\ at.step > 2 => seen["analysis"] = ShownOf(at.case, seen["case"].run)
    /\ at.step > 3 => (seen["case"].status \in ActedStatuses => seen["latest_action"])
    /\ at.step > 4 => (seen["case"].status = "RECOVERED" => seen["outcome"])

SelectedOf(item) ==
  LET selected == IF item.run = 0 THEN {} ELSE SelectCandidateRow(rows[item.case][item.run])
  IN IF selected # {} THEN selected ELSE item.first

ListInv ==
  at.name = "list" =>
    /\ at.step > 2 => \A item \in seen["page"] :
                        item.case \in Cases /\ item.run \in 0..run[item.case]
    /\ at.step > 3 => \A item \in seen["page"] : seen["selected"][item] = SelectedOf(item)

IInv == DatabaseInv /\ ReportInv /\ SummaryInv /\ DetailInv /\ ListInv

------------------------------------------------------------------------------
(* The statements of the reports *)

SummaryPlace ==
  [revenue_at_risk |-> 1, revenue_recovered |-> 2, active_cases |-> 3, recovered_cases |-> 4,
   average_seconds |-> 5, baseline |-> 6, total_cases |-> 7, trend_at_risk |-> 8,
   trend_recovered |-> 9, action_effectiveness |-> 10, failure_breakdown |-> 11]

\* A statement has one place in its report.
LEMMA SummaryPlaces ==
  /\ StatementsOf("summary") = SummaryStatements /\ Len(SummaryStatements) = 11
  /\ \A i \in 1..11 : SummaryPlace[SummaryStatements[i]] = i
BY DEF StatementsOf, SummaryStatements, SummaryPlace

DetailPlace == [case |-> 1, analysis |-> 2, latest_action |-> 3, outcome |-> 4]

LEMMA DetailPlaces ==
  /\ StatementsOf("detail") = DetailStatements /\ Len(DetailStatements) = 4
  /\ \A i \in 1..4 : DetailPlace[DetailStatements[i]] = i
BY DEF StatementsOf, DetailStatements, DetailPlace

ListPlace == [total |-> 1, page |-> 2, selected |-> 3]

LEMMA ListPlaces ==
  /\ StatementsOf("list") = ListStatements /\ Len(ListStatements) = 3
  /\ \A i \in 1..3 : ListPlace[ListStatements[i]] = i
BY DEF StatementsOf, ListStatements, ListPlace

LEMMA NoStatements == StatementsOf("none") = <<>> /\ Len(StatementsOf("none")) = 0
BY DEF StatementsOf

LEMMA StatementsDistinct ==
  ASSUME NEW name \in {"none", "summary", "detail", "list"},
         NEW i \in 1..Len(StatementsOf(name)), NEW j \in 1..Len(StatementsOf(name)),
         StatementsOf(name)[i] = StatementsOf(name)[j]
  PROVE  i = j
<1>1. CASE name = "summary"
  BY <1>1, SummaryPlaces
<1>2. CASE name = "detail"
  BY <1>2, DetailPlaces
<1>3. CASE name = "list"
  BY <1>3, ListPlaces
<1>4. CASE name = "none"
  BY <1>4, NoStatements
<1> QED BY <1>1, <1>2, <1>3, <1>4

\* A query adds the answer to its statement and keeps the earlier ones.
LEMMA QueryAdds ==
  ASSUME ReportInv, Query
  PROVE  LET statement == StatementsOf(at.name)[at.step]
         IN /\ at.step \in 1..Len(StatementsOf(at.name))
            /\ at' = [at EXCEPT !.step = @ + 1]
            /\ at'.name = at.name /\ at'.case = at.case /\ at'.step = at.step + 1
            /\ opened' = opened
            /\ UNCHANGED database
            /\ DOMAIN seen' = DOMAIN seen \cup {statement}
            /\ \A i \in 1..(at.step - 1) :
                 seen'[StatementsOf(at.name)[i]] = seen[StatementsOf(at.name)[i]]
            /\ at.name = "summary" => seen'[statement] = Aggregate(statement)
            /\ at.name = "detail" => seen'[statement] = DetailOf(at.case, statement)
            /\ at.name = "list" => seen'[statement] \in ListOf(statement)
<1> DEFINE S == StatementsOf(at.name)
           statement == S[at.step]
           Adds(answer) == seen' = [s \in DOMAIN seen \cup {statement} |->
                                      IF s = statement THEN answer ELSE seen[s]]
<1>1. /\ at.step \in 1..Len(S)
      /\ at' = [at EXCEPT !.step = @ + 1]
      /\ at'.name = at.name /\ at'.case = at.case /\ at'.step = at.step + 1
      /\ opened' = opened /\ UNCHANGED database
  BY DEF Query, Complete, ReportInv
<1>2. PICK answer : /\ Adds(answer)
                    /\ at.name = "summary" => answer = Aggregate(statement)
                    /\ at.name = "detail" => answer = DetailOf(at.case, statement)
                    /\ at.name = "list" => answer \in ListOf(statement)
  <2>1. CASE at.name = "summary"
    BY <2>1 DEF Query
  <2>2. CASE at.name = "detail"
    BY <2>2 DEF Query
  <2>3. CASE at.name = "list"
    BY <2>3 DEF Query
  <2> QED BY <2>1, <2>2, <2>3 DEF Query
<1>3. ASSUME NEW i \in 1..(at.step - 1)
      PROVE  seen'[S[i]] = seen[S[i]]
  <2>1. S[i] \in DOMAIN seen
    BY DEF ReportInv
  <2>2. i \in 1..Len(S) /\ i # at.step
    BY <1>1
  <2>3. at.name \in {"none", "summary", "detail", "list"}
    BY DEF ReportInv
  <2>4. S[i] # statement
    BY <1>1, <2>2, <2>3, StatementsDistinct
  <2> HIDE DEF S, statement
  <2> QED BY <1>2, <2>1, <2>4
<1> HIDE DEF S, statement
<1>4. /\ DOMAIN seen' = DOMAIN seen \cup {statement}
      /\ seen'[statement] = answer
  BY <1>2
<1> USE DEF S, statement
<1> QED BY <1>1, <1>2, <1>3, <1>4

------------------------------------------------------------------------------
(* The writers *)

\* What a commit takes away from no reader.
Gains ==
  /\ UNCHANGED report
  /\ outcome \subseteq outcome'
  /\ Opened \subseteq Opened'
  /\ \A c \in Cases : GivenUp(c) => GivenUp(c)'
  /\ \A c \in Cases : run[c] <= run'[c]
  /\ acted \subseteq acted'
  /\ \A c \in Cases : \A r \in 1..run[c] : rows'[c][r] = rows[c][r]

LEMMA OpenWrites ==
  ASSUME DatabaseInv, NEW c \in Cases, Open(c)
  PROVE  DatabaseInv' /\ Gains
<1>1. /\ status[c] = "none" /\ status' = [status EXCEPT ![c] = "DETECTED"]
      /\ UNCHANGED <<run, rows, outcome, acted, report>>
  BY DEF Open
<1>2. c \notin outcome
  BY <1>1 DEF DatabaseInv
<1>3. status' \in [Cases -> CaseStatuses \cup {"none"}]
  BY <1>1 DEF DatabaseInv, CaseStatuses
<1>4. \A d \in Cases : Explained(d, status[d], run[d])'
  BY <1>1 DEF DatabaseInv, Explained, ActedStatuses
<1>5. DatabaseInv'
  BY <1>1, <1>2, <1>3, <1>4 DEF DatabaseInv
<1>6. Gains
  BY <1>1 DEF Gains, Opened, GivenUp, DatabaseInv
<1> QED BY <1>5, <1>6

LEMMA MoveWrites ==
  ASSUME DatabaseInv, NEW c \in Cases, Move(c)
  PROVE  DatabaseInv' /\ Gains
<1>1. PICK t \in OrdinaryTransitions :
        /\ t[1] = status[c]
        /\ t[2] = "ANALYSIS_COMPLETED" => run[c] # 0
        /\ status' = [status EXCEPT ![c] = t[3]]
        /\ acted' = IF t[2] \in InsertingEvents THEN acted \cup {c} ELSE acted
        /\ UNCHANGED <<run, rows, outcome, report>>
  BY DEF Move
<1>2. /\ t[1] \in CaseStatuses \ TerminalStatuses
      /\ t[3] \in CaseStatuses \ {"RECOVERED"}
      /\ t[3] = "RECOMMENDED" => t[2] = "ANALYSIS_COMPLETED"
      /\ t[3] \in ActedStatuses => t[2] \in InsertingEvents \/ t[1] \in ActedStatuses
      /\ t[3] \in ActedStatuses => t[1] \in ActedStatuses \cup {"RECOMMENDED"}
  BY DEF OrdinaryTransitions, CaseStatuses, TerminalStatuses, ActedStatuses, InsertingEvents
<1>3. c \notin outcome
  BY <1>1, <1>2 DEF DatabaseInv, TerminalStatuses
<1>4. /\ status' \in [Cases -> CaseStatuses \cup {"none"}]
      /\ acted' \subseteq Cases /\ acted \subseteq acted'
  BY <1>1, <1>2 DEF DatabaseInv
<1>5. ASSUME NEW d \in Cases PROVE Explained(d, status[d], run[d])'
  <2>1. Explained(d, status[d], run[d]) /\ status \in [Cases -> CaseStatuses \cup {"none"}]
    BY DEF DatabaseInv
  <2>2. CASE d # c
    BY <1>1, <1>4, <2>1, <2>2 DEF Explained
  <2>3. CASE d = c
    <3>1. status'[c] = t[3]
      BY <1>1, <2>1
    <3>2. t[3] \in ActedStatuses => c \in acted'
      BY <1>1, <1>2, <2>1, <2>3 DEF Explained
    <3> QED BY <1>1, <1>2, <2>1, <2>3, <3>1, <3>2 DEF Explained
  <2> QED BY <2>2, <2>3
<1>6. DatabaseInv'
  BY <1>1, <1>3, <1>4, <1>5 DEF DatabaseInv
<1>7. Gains
  BY <1>1, <1>2, <1>4 DEF Gains, Opened, GivenUp, DatabaseInv, TerminalStatuses, CaseStatuses
<1> QED BY <1>6, <1>7

LEMMA PersistWrites ==
  ASSUME DatabaseInv, NEW c \in Cases, Persist(c)
  PROVE  DatabaseInv' /\ Gains
<1>1. PICK candidates \in Analyses : rows' = [rows EXCEPT ![c][run[c] + 1] = candidates]
  BY DEF Persist
<1>2. /\ run[c] < MaxRuns /\ run' = [run EXCEPT ![c] = @ + 1]
      /\ UNCHANGED <<status, outcome, acted, report>>
  BY DEF Persist
<1>3. /\ candidates # {} /\ MaxRuns \in Nat /\ run[c] + 1 \in RunIds
  BY <1>2, ReadAssumption DEF DatabaseInv, RunIds
<1>4. /\ run' \in [Cases -> 0..MaxRuns]
      /\ \A d \in Cases : run'[d] = IF d = c THEN run[c] + 1 ELSE run[d]
  BY <1>2, <1>3 DEF DatabaseInv, RunIds
<1>5. /\ rows' \in [Cases -> [RunIds -> Analyses \cup {{}}]]
      /\ \A d \in Cases : \A r \in RunIds :
           rows'[d][r] = IF d = c /\ r = run[c] + 1 THEN candidates ELSE rows[d][r]
  BY <1>1, <1>3 DEF DatabaseInv
<1>6. \A d \in Cases : \A r \in RunIds : r <= run'[d] <=> rows'[d][r] # {}
  <2> SUFFICES ASSUME NEW d \in Cases, NEW r \in RunIds
               PROVE  r <= run'[d] <=> rows'[d][r] # {}
    OBVIOUS
  <2>1. r \in Nat /\ run[d] \in Nat /\ (r <= run[d] <=> rows[d][r] # {})
    BY <1>3 DEF DatabaseInv, RunIds
  <2>2. CASE d = c
    <3>1. run'[d] = run[c] + 1
      BY <1>4, <2>2
    <3>2. r <= run[c] + 1 <=> (r <= run[c] \/ r = run[c] + 1)
      BY <2>1, <2>2
    <3>3. CASE r = run[c] + 1
      BY <1>3, <1>5, <2>2, <3>1, <3>2, <3>3
    <3>4. CASE r # run[c] + 1
      BY <1>5, <2>1, <2>2, <3>1, <3>2, <3>4
    <3> QED BY <3>3, <3>4
  <2>3. CASE d # c
    BY <1>4, <1>5, <2>1, <2>3
  <2> QED BY <2>2, <2>3
<1>7. \A d \in Cases : Explained(d, status[d], run[d])'
  BY <1>2, <1>4 DEF DatabaseInv, Explained
<1>8. DatabaseInv'
  BY <1>2, <1>4, <1>5, <1>6, <1>7 DEF DatabaseInv
<1>9. Gains
  <2>1. \A d \in Cases : \A r \in 1..run[d] : rows'[d][r] = rows[d][r]
    BY <1>3, <1>5 DEF DatabaseInv, RunIds
  <2>2. \A d \in Cases : run[d] <= run'[d]
    BY <1>4 DEF DatabaseInv
  <2> QED BY <1>2, <2>1, <2>2 DEF Gains, Opened, GivenUp
<1> QED BY <1>8, <1>9

LEMMA RecoverWrites ==
  ASSUME DatabaseInv, NEW c \in Cases, Recover(c)
  PROVE  DatabaseInv' /\ Gains
<1>1. /\ status[c] \in CaseStatuses \ TerminalStatuses
      /\ status' = [status EXCEPT ![c] = "RECOVERED"]
      /\ outcome' = outcome \cup {c}
      /\ UNCHANGED <<run, rows, acted, report>>
  <2>1. PICK t \in PaymentTransitions : t[1] = status[c] /\ status' = [status EXCEPT ![c] = t[3]]
    BY DEF Recover
  <2>2. t[1] \in CaseStatuses \ TerminalStatuses /\ t[3] = "RECOVERED"
    BY DEF PaymentTransitions
  <2> QED BY <2>1, <2>2 DEF Recover
<1>2. status' \in [Cases -> CaseStatuses \cup {"none"}]
  BY <1>1 DEF DatabaseInv, CaseStatuses
<1>3. \A d \in Cases : Explained(d, status[d], run[d])'
  BY <1>1 DEF DatabaseInv, Explained, ActedStatuses
<1>4. DatabaseInv'
  BY <1>1, <1>2, <1>3 DEF DatabaseInv
<1>5. Gains
  BY <1>1 DEF Gains, Opened, GivenUp, DatabaseInv, TerminalStatuses, CaseStatuses
<1> QED BY <1>4, <1>5

\* What an earlier statement saw of a case stays explained.
LEMMA StaysExplained ==
  ASSUME DatabaseInv, DatabaseInv', Gains, NEW c \in Cases, NEW s, NEW r, Explained(c, s, r)
  PROVE  Explained(c, s, r)'
<1>1. run[c] \in Nat /\ run'[c] \in Nat /\ run[c] <= run'[c]
  BY DEF Gains, DatabaseInv
<1> QED BY <1>1 DEF Explained, Gains

LEMMA SummaryUnshaken ==
  ASSUME DatabaseInv, ReportInv, SummaryInv, Gains
  PROVE  SummaryInv'
<1>1. /\ at' = at /\ opened' = opened /\ seen' = seen
      /\ outcome \subseteq outcome' /\ Opened \subseteq Opened'
  BY DEF Gains, report
<1>2. \A c \in opened : GivenUp(c) => GivenUp(c)'
  BY DEF Gains, ReportInv, Opened
<1>3. SUFFICES ASSUME at.name = "summary" PROVE SummaryInv'
  BY <1>1 DEF SummaryInv
<1>4. at.step \in Nat
  BY DEF ReportInv
<1> HIDE DEF GivenUp, Opened
<1> QED BY <1>1, <1>2, <1>3, <1>4 DEF SummaryInv

LEMMA DetailUnshaken ==
  ASSUME DatabaseInv, DatabaseInv', ReportInv, DetailInv, Gains
  PROVE  DetailInv'
<1>1. at' = at /\ seen' = seen
  BY DEF Gains, report
<1>2. SUFFICES ASSUME at.name = "detail" PROVE DetailInv'
  BY <1>1 DEF DetailInv
<1> DEFINE s == seen["case"].status
           r == seen["case"].run
<1>3. at.case \in Cases /\ at.step \in Nat
  BY <1>2 DEF DetailInv, ReportInv
<1>4. ASSUME at.step > 1 PROVE Explained(at.case, s, r)'
  <2>1. Explained(at.case, s, r)
    BY <1>2, <1>4 DEF DetailInv
  <2> HIDE DEF s, r
  <2>2. \A p, q : Explained(at.case, p, q) => Explained(at.case, p, q)'
    BY <1>1, <1>3, StaysExplained
  <2> USE DEF s, r
  <2> QED BY <1>1, <2>1, StaysExplained, <1>3
<1>5. ASSUME at.step > 2 PROVE ShownOf(at.case, r)' = ShownOf(at.case, r)
  <2>1. r \in 0..run[at.case]
    BY <1>2, <1>3, <1>5 DEF DetailInv, Explained
  <2>2. r # 0 => rows'[at.case][r] = rows[at.case][r]
    <3>1. run[at.case] \in Nat
      BY <1>3, ReadAssumption DEF DatabaseInv
    <3> HIDE DEF r
    <3>2. r # 0 => r \in 1..run[at.case]
      BY <2>1, <3>1
    <3>3. \A i \in 1..run[at.case] : rows'[at.case][i] = rows[at.case][i]
      BY <1>3 DEF Gains
    <3> QED BY <3>2, <3>3
  <2> QED BY <1>1, <2>2 DEF ShownOf, Shown, SelectCandidateRow, FirstRank, First
<1> QED BY <1>1, <1>2, <1>3, <1>4, <1>5 DEF DetailInv

LEMMA ListUnshaken ==
  ASSUME DatabaseInv, DatabaseInv', ReportInv, ListInv, Gains
  PROVE  ListInv'
<1>1. at' = at /\ seen' = seen
  BY DEF Gains, report
<1>2. SUFFICES ASSUME at.name = "list" PROVE ListInv'
  BY <1>1 DEF ListInv
<1>3. at.step \in Nat
  BY DEF ReportInv
<1>4. ASSUME at.step > 2, NEW item \in seen["page"]
      PROVE  /\ item.case \in Cases /\ item.run \in 0..run'[item.case]
             /\ SelectedOf(item)' = SelectedOf(item)
  <2>1. item.case \in Cases /\ item.run \in 0..run[item.case]
    BY <1>2, <1>4 DEF ListInv
  <2>2. run[item.case] \in Nat /\ run'[item.case] \in Nat /\ run[item.case] <= run'[item.case]
    BY <2>1 DEF Gains, DatabaseInv
  <2>3. item.run # 0 => rows'[item.case][item.run] = rows[item.case][item.run]
    BY <2>1, <2>2 DEF Gains
  <2> QED BY <2>1, <2>2, <2>3 DEF SelectedOf
<1> QED BY <1>1, <1>2, <1>3, <1>4 DEF ListInv

LEMMA WriteKeeps == ASSUME IInv, NEW c \in Cases, Write(c) PROVE IInv'
<1>1. DatabaseInv' /\ Gains
  BY OpenWrites, MoveWrites, PersistWrites, RecoverWrites DEF Write, IInv
<1>2. ReportInv'
  BY <1>1 DEF Gains, report, ReportInv, IInv
<1> QED BY <1>1, <1>2, SummaryUnshaken, DetailUnshaken, ListUnshaken DEF IInv

------------------------------------------------------------------------------
(* The readers *)

\* A recovered case is a case with an outcome.
LEMMA RecoveredHaveOutcomes ==
  ASSUME DatabaseInv
  PROVE  Recovered = outcome /\ outcome \subseteq Opened
BY DEF DatabaseInv, Explained, Recovered, Opened

\* What each statement of the summary adds to the earlier ones.
LEMMA SummaryAnswered ==
  ASSUME IInv, Query, at.name = "summary"
  PROVE  SummaryInv'
<1> DEFINE n == at.step
<1>1. /\ n \in 1..11 /\ at'.step = n + 1 /\ at'.name = "summary"
      /\ opened' = opened /\ outcome' = outcome /\ Opened' = Opened
      /\ \A c \in opened : GivenUp(c)' <=> GivenUp(c)
  BY QueryAdds, SummaryPlaces DEF IInv, database, Opened, GivenUp
<1>2. \A i \in 1..11 :
        /\ i < n => seen'[SummaryStatements[i]] = seen[SummaryStatements[i]]
        /\ i = n => seen'[SummaryStatements[i]] = Aggregate(SummaryStatements[i])
  <2>1. ReportInv /\ StatementsOf(at.name) = SummaryStatements
    BY SummaryPlaces DEF IInv
  <2>2. \A i \in 1..(n - 1) : seen'[SummaryStatements[i]] = seen[SummaryStatements[i]]
    BY <2>1, QueryAdds
  <2>3. seen'[SummaryStatements[n]] = Aggregate(SummaryStatements[n])
    BY <2>1, QueryAdds
  <2> HIDE DEF n
  <2>4. n \in 1..11
    BY <1>1
  <2> QED BY <2>2, <2>3, <2>4
<1>3. /\ 1 < n => seen'["revenue_at_risk"] = seen["revenue_at_risk"]
      /\ 1 = n => seen'["revenue_at_risk"] = Active
  BY <1>2 DEF SummaryStatements, Aggregate, Headline
<1>4. /\ 2 < n => seen'["revenue_recovered"] = seen["revenue_recovered"]
      /\ 2 = n => seen'["revenue_recovered"] = outcome
  BY <1>2 DEF SummaryStatements, Aggregate, Headline
<1>5. /\ 3 < n => seen'["active_cases"] = seen["active_cases"]
      /\ 3 = n => seen'["active_cases"] = Active
  BY <1>2 DEF SummaryStatements, Aggregate, Headline
<1>6. /\ 4 < n => seen'["recovered_cases"] = seen["recovered_cases"]
      /\ 4 = n => seen'["recovered_cases"] = Recovered
  BY <1>2 DEF SummaryStatements, Aggregate, Headline
<1>7. /\ 5 < n => seen'["average_seconds"] = seen["average_seconds"]
      /\ 5 = n => seen'["average_seconds"] = outcome
  BY <1>2 DEF SummaryStatements, Aggregate, Headline
<1>8. /\ 6 < n => seen'["baseline"] = seen["baseline"]
      /\ 6 = n => seen'["baseline"] = Baseline
  BY <1>2 DEF SummaryStatements, Aggregate, Headline
<1>9. 7 < n => seen'["total_cases"] = seen["total_cases"]
  BY <1>2 DEF SummaryStatements
<1>10. 7 = n => seen'["total_cases"] = Opened
  BY <1>2 DEF SummaryStatements, Aggregate, Headline
<1>11. /\ 9 < n => seen'["trend_recovered"] = seen["trend_recovered"]
       /\ 9 = n => seen'["trend_recovered"] = outcome
  BY <1>2 DEF SummaryStatements, Aggregate, Trend
<1>12. /\ 10 < n => seen'["action_effectiveness"] = seen["action_effectiveness"]
       /\ 10 = n => seen'["action_effectiveness"] = ActionEffectiveness
  BY <1>2 DEF SummaryStatements, Aggregate
<1>13. 11 = n => seen'["failure_breakdown"] = Opened
  BY <1>2 DEF SummaryStatements, Aggregate, FailureBreakdown
<1>14. /\ Recovered = outcome /\ outcome \subseteq Opened /\ opened \subseteq Opened
       /\ \A c \in Opened : c \in Active \cup outcome \/ GivenUp(c)
       /\ Active \subseteq Opened
  BY RecoveredHaveOutcomes
     DEF IInv, ReportInv, Active, Opened, Recovered, GivenUp, TerminalStatuses
<1>15. DOMAIN Baseline = outcome
  BY DEF Baseline
<1>16. ActionEffectiveness.attempted = acted
       /\ ActionEffectiveness.credited = acted \cap Recovered \cap outcome
  BY DEF ActionEffectiveness
<1>17. SummaryInv
  BY DEF IInv
<1> HIDE DEF n
<1>18. n + 1 > 1 => \A c \in opened : c \in seen'["revenue_at_risk"] \cup outcome \/ GivenUp(c)
  BY <1>1, <1>3, <1>14, <1>17 DEF SummaryInv, n
<1>19. n + 1 > 2 => /\ seen'["revenue_recovered"] \subseteq outcome
                    /\ \A c \in opened :
                         \/ c \in seen'["revenue_at_risk"] \cup seen'["revenue_recovered"]
                         \/ GivenUp(c)
  BY <1>1, <1>3, <1>4, <1>14, <1>17 DEF SummaryInv, n
<1>20. n + 1 > 3 => /\ seen'["active_cases"] \subseteq Opened
                    /\ \A c \in opened : c \in seen'["active_cases"] \cup outcome \/ GivenUp(c)
  BY <1>1, <1>5, <1>14, <1>17 DEF SummaryInv, n
<1>21. n + 1 > 4 => /\ seen'["revenue_recovered"] \subseteq seen'["recovered_cases"]
                    /\ seen'["recovered_cases"] \subseteq outcome
                    /\ \A c \in opened :
                         c \in seen'["active_cases"] \cup seen'["recovered_cases"] \/ GivenUp(c)
  BY <1>1, <1>4, <1>5, <1>6, <1>14, <1>17 DEF SummaryInv, n
<1>22. n + 1 > 5 => /\ seen'["recovered_cases"] \subseteq seen'["average_seconds"]
                    /\ seen'["average_seconds"] \subseteq outcome
  BY <1>1, <1>6, <1>7, <1>14, <1>17 DEF SummaryInv, n
<1>23. n + 1 > 6 => /\ seen'["average_seconds"] \subseteq DOMAIN seen'["baseline"]
                    /\ DOMAIN seen'["baseline"] \subseteq outcome
  BY <1>1, <1>7, <1>8, <1>15, <1>17 DEF SummaryInv, n
<1>24. n + 1 > 7 =>
         seen'["active_cases"] \cup seen'["recovered_cases"] \subseteq seen'["total_cases"]
  BY <1>1, <1>5, <1>6, <1>9, <1>10, <1>14, <1>17 DEF SummaryInv, n
<1>25. n + 1 > 9 => /\ DOMAIN seen'["baseline"] \subseteq seen'["trend_recovered"]
                    /\ seen'["trend_recovered"] \subseteq outcome
  BY <1>1, <1>8, <1>11, <1>17 DEF SummaryInv, n
<1>26. n + 1 > 10 => seen'["trend_recovered"] \cap seen'["action_effectiveness"].attempted
                       \subseteq seen'["action_effectiveness"].credited
  BY <1>1, <1>11, <1>12, <1>14, <1>16, <1>17 DEF SummaryInv, n
<1>27. n + 1 > 11 => seen'["trend_recovered"] \subseteq seen'["failure_breakdown"]
  BY <1>1, <1>11, <1>13, <1>14, <1>17 DEF SummaryInv, n
<1> QED
  BY <1>1, <1>18, <1>19, <1>20, <1>21, <1>22, <1>23, <1>24, <1>25, <1>26, <1>27
     DEF SummaryInv, n

\* What each statement of a detail adds.
LEMMA DetailAnswered ==
  ASSUME IInv, Query, at.name = "detail"
  PROVE  DetailInv'
<1> DEFINE n == at.step
<1>1. /\ n \in 1..4 /\ at'.step = n + 1 /\ at'.name = "detail" /\ at'.case = at.case
      /\ UNCHANGED database /\ at.case \in Cases
  BY QueryAdds, DetailPlaces DEF IInv, DetailInv
<1>2. \A i \in 1..4 :
        /\ i < n => seen'[DetailStatements[i]] = seen[DetailStatements[i]]
        /\ i = n => seen'[DetailStatements[i]] = DetailOf(at.case, DetailStatements[i])
  BY QueryAdds, DetailPlaces DEF IInv
<1>3. /\ 1 < n => seen'["case"] = seen["case"]
      /\ 1 = n => seen'["case"] = [status |-> status[at.case], run |-> run[at.case]]
  BY <1>2 DEF DetailStatements, DetailOf
<1>4. /\ 2 < n => seen'["analysis"] = seen["analysis"]
      /\ 2 = n => seen'["analysis"] = ShownOf(at.case, seen["case"].run)
  BY <1>2 DEF DetailStatements, DetailOf, ShownOf
<1>5. /\ 3 < n /\ seen["latest_action"] => seen'["latest_action"]
      /\ 3 = n /\ at.case \in acted => seen'["latest_action"]
  <2>1. 3 < n => seen'["latest_action"] = seen["latest_action"]
    BY <1>2 DEF DetailStatements
  <2>2. 3 = n => seen'["latest_action"] = DetailOf(at.case, "latest_action")
    BY <1>2 DEF DetailStatements
  <2>3. DetailOf(at.case, "latest_action") = (at.case \in acted)
    BY DEF DetailOf
  <2> QED BY <2>1, <2>2, <2>3, Zenon
<1>6. 4 = n /\ at.case \in outcome => seen'["outcome"]
  <2>1. 4 = n => seen'["outcome"] = DetailOf(at.case, "outcome")
    BY <1>2 DEF DetailStatements
  <2>2. DetailOf(at.case, "outcome") = (at.case \in outcome)
    BY DEF DetailOf
  <2> QED BY <2>1, <2>2, Zenon
<1>7. DetailInv
  BY DEF IInv
<1> HIDE DEF n
<1>9. Explained(at.case, seen'["case"].status, seen'["case"].run)
  <2>1. CASE 1 = n
    BY <1>1, <1>3, <2>1 DEF IInv, DatabaseInv
  <2>2. CASE 1 < n
    BY <1>1, <1>3, <1>7, <2>2 DEF DetailInv, n
  <2> QED BY <1>1, <2>1, <2>2
<1>10. n + 1 > 2 => seen'["analysis"] = ShownOf(at.case, seen'["case"].run)
  BY <1>1, <1>3, <1>4, <1>7 DEF DetailInv, n
<1>11. n + 1 > 3 => (seen'["case"].status \in ActedStatuses => seen'["latest_action"])
  BY <1>1, <1>3, <1>5, <1>7, <1>9 DEF DetailInv, Explained, n
<1>12. n + 1 > 4 => (seen'["case"].status = "RECOVERED" => seen'["outcome"])
  BY <1>1, <1>6, <1>9 DEF Explained
<1>13. Explained(at.case, seen["case"].status, seen["case"].run)'
  BY <1>1, <1>9 DEF Explained, database
<1>14. n + 1 > 2 => (seen["analysis"] = ShownOf(at.case, seen["case"].run))'
  BY <1>1, <1>10 DEF ShownOf, database
<1> QED BY <1>1, <1>11, <1>12, <1>13, <1>14 DEF DetailInv, n

\* What each statement of a list adds.
LEMMA ListAnswered ==
  ASSUME IInv, Query, at.name = "list"
  PROVE  ListInv'
<1> DEFINE n == at.step
<1>1. n \in 1..3 /\ at'.step = n + 1 /\ at'.name = "list" /\ UNCHANGED database
  BY QueryAdds, ListPlaces DEF IInv
<1>2. \A i \in 1..3 :
        /\ i < n => seen'[ListStatements[i]] = seen[ListStatements[i]]
        /\ i = n => seen'[ListStatements[i]] \in ListOf(ListStatements[i])
  BY QueryAdds, ListPlaces DEF IInv
<1>3. /\ 2 < n => seen'["page"] = seen["page"]
      /\ 2 = n => seen'["page"] \in {{Joined(c) : c \in page} : page \in Pages}
  BY <1>2 DEF ListStatements, ListOf
<1>4. 3 = n => seen'["selected"] = [item \in seen["page"] |-> SelectedOf(item)]
  <2>1. 3 = n => seen'["selected"] \in ListOf("selected")
    <3>1. ListStatements[3] = "selected"
      BY DEF ListStatements
    <3> HIDE DEF n
    <3> QED BY <1>2, <3>1
  <2>2. ListOf("selected") = {[item \in seen["page"] |-> SelectedOf(item)]}
    BY DEF ListOf, SelectedOf
  <2> QED BY <2>1, <2>2
<1>5. ListInv /\ DatabaseInv
  BY DEF IInv
<1> HIDE DEF n
<1>6. ASSUME n + 1 > 2, NEW item \in seen'["page"]
      PROVE  item.case \in Cases /\ item.run \in 0..run[item.case]
  <2>1. CASE 2 < n
    BY <1>1, <1>3, <1>5, <1>6, <2>1 DEF ListInv, n
  <2>2. CASE 2 = n
    <3>1. PICK page \in Pages : seen'["page"] = {Joined(c) : c \in page}
      BY <1>3, <2>2
    <3>2. PICK c \in page : item = Joined(c)
      BY <1>6, <3>1
    <3>3. c \in Cases
      BY DEF Pages, Opened
    <3>4. item.case = c /\ item.run = run[c]
      BY <3>2 DEF Joined
    <3> QED BY <1>5, <3>3, <3>4 DEF DatabaseInv
  <2> QED BY <1>1, <1>6, <2>1, <2>2
<1>7. ASSUME n + 1 > 3, NEW item \in seen'["page"]
      PROVE  seen'["selected"][item] = SelectedOf(item)
  BY <1>1, <1>3, <1>4, <1>7
<1>8. /\ n + 1 > 2 => (\A item \in seen["page"] :
                         item.case \in Cases /\ item.run \in 0..run[item.case])'
      /\ n + 1 > 3 => (\A item \in seen["page"] : seen["selected"][item] = SelectedOf(item))'
  BY <1>1, <1>6, <1>7 DEF SelectedOf, database
<1> QED BY <1>1, <1>8 DEF ListInv, n

LEMMA QueryKeeps == ASSUME IInv, Query PROVE IInv'
<1>1. /\ DatabaseInv /\ ReportInv /\ UNCHANGED database /\ at'.name = at.name
      /\ at.name \in {"summary", "detail", "list"}
  BY QueryAdds DEF IInv, Query, ReportInv
<1>2. DatabaseInv'
  BY <1>1 DEF DatabaseInv, database, Explained
<1>3. ReportInv'
  <2> DEFINE S == StatementsOf(at.name)
  <2>1. /\ at.step \in 1..Len(S) /\ at' = [at EXCEPT !.step = @ + 1]
        /\ at'.step = at.step + 1 /\ opened' = opened
        /\ DOMAIN seen' = DOMAIN seen \cup {S[at.step]}
    BY <1>1, QueryAdds
  <2>2. DOMAIN seen = {S[i] : i \in 1..(at.step - 1)} /\ at.step \in Nat
    BY <1>1 DEF ReportInv
  <2>3. StatementsOf(at.name)' = S
    BY <1>1 DEF StatementsOf
  <2>4. Opened' = Opened
    BY <1>1 DEF Opened, database
  <2>5. Len(S) \in Nat
    BY <1>1, SummaryPlaces, DetailPlaces, ListPlaces
  <2> HIDE DEF S
  <2>6. DOMAIN seen' = {S[i] : i \in 1..(at'.step - 1)}
    <3>1. 1..(at'.step - 1) = 1..(at.step - 1) \cup {at.step}
      BY <2>1, <2>2
    <3> QED BY <2>1, <2>2, <3>1
  <2>7. at' \in [name : {"none", "summary", "detail", "list"}, case : Cases \cup {"none"},
                 step : Nat]
    <3> DEFINE Reports == [name : {"none", "summary", "detail", "list"},
                           case : Cases \cup {"none"}, step : Nat]
    <3>1. at \in Reports /\ at.step + 1 \in Nat
      BY <1>1, <2>2 DEF ReportInv
    <3>2. ASSUME NEW r \in Reports, NEW k \in Nat PROVE [r EXCEPT !.step = k] \in Reports
      OBVIOUS
    <3> QED BY <2>1, <3>1, <3>2
  <2>8. at'.step \in 1..(Len(S) + 1)
    BY <2>1, <2>2, <2>5
  <2> QED BY <1>1, <2>1, <2>3, <2>4, <2>6, <2>7, <2>8 DEF ReportInv
<1>4. SummaryInv' /\ DetailInv' /\ ListInv'
  <2>1. CASE at.name = "summary"
    BY <1>1, <2>1, SummaryAnswered DEF DetailInv, ListInv
  <2>2. CASE at.name = "detail"
    BY <1>1, <2>2, DetailAnswered DEF SummaryInv, ListInv
  <2>3. CASE at.name = "list"
    BY <1>1, <2>3, ListAnswered DEF SummaryInv, DetailInv
  <2> QED BY <1>1, <2>1, <2>2, <2>3
<1> QED BY <1>2, <1>3, <1>4 DEF IInv

LEMMA BeginKeeps ==
  ASSUME IInv, NEW name \in {"summary", "detail", "list"}, NEW c \in Cases \cup {"none"},
         name = "detail" => c \in Cases, Begin(name, c)
  PROVE  IInv'
<1>1. /\ at.name = "none" /\ at' = [name |-> name, case |-> c, step |-> 1]
      /\ opened' = Opened /\ UNCHANGED <<database, seen>>
  BY DEF Begin
<1>2. DatabaseInv'
  BY <1>1 DEF IInv, DatabaseInv, database, Explained
<1>3. DOMAIN seen = {}
  <2>1. at.step = 1
    BY <1>1, NoStatements DEF IInv, ReportInv
  <2> QED BY <2>1 DEF IInv, ReportInv
<1>4. at'.name = name /\ at'.case = c /\ at'.step = 1
  BY <1>1
<1>5. ReportInv'
  <2>1. Opened' = Opened
    BY <1>1 DEF Opened, database
  <2>2. at'.step \in 1..(Len(StatementsOf(name)) + 1)
    BY <1>4, SummaryPlaces, DetailPlaces, ListPlaces
  <2>3. {StatementsOf(name)[i] : i \in 1..(1 - 1)} = {}
    OBVIOUS
  <2>4. /\ at' \in [name : {"none", "summary", "detail", "list"}, case : Cases \cup {"none"},
                    step : Nat]
        /\ opened' \subseteq Opened' /\ DOMAIN seen' = {}
    BY <1>1, <1>3, <2>1
  <2>5. StatementsOf(at.name)' = StatementsOf(name)
    BY <1>4 DEF StatementsOf
  <2> QED BY <1>4, <2>2, <2>3, <2>4, <2>5 DEF ReportInv
<1>6. SummaryInv' /\ DetailInv' /\ ListInv'
  BY <1>4 DEF SummaryInv, DetailInv, ListInv
<1> QED BY <1>2, <1>5, <1>6 DEF IInv

LEMMA DoneKeeps == ASSUME IInv, Done PROVE IInv'
<1>1. at' = NoReport /\ opened' = {} /\ seen' = <<>> /\ UNCHANGED database
  BY DEF Done, Nothing
<1>2. DatabaseInv'
  BY <1>1 DEF IInv, DatabaseInv, database, Explained
<1>3. at'.name = "none" /\ at'.case = "none" /\ at'.step = 1
  BY <1>1 DEF NoReport
<1>4. ReportInv'
  <2>1. DOMAIN seen' = {}
    BY <1>1
  <2>2. StatementsOf(at.name)' = <<>>
    BY <1>3 DEF StatementsOf
  <2> QED BY <1>1, <1>3, <2>1, <2>2 DEF ReportInv, NoReport
<1> QED BY <1>2, <1>3, <1>4 DEF IInv, SummaryInv, DetailInv, ListInv

------------------------------------------------------------------------------
(* The invariant *)

LEMMA InitInvariant == Init => IInv
<1> SUFFICES ASSUME Init PROVE IInv
  OBVIOUS
<1>1. at.name = "none" /\ at.case = "none" /\ at.step = 1
  BY DEF Init, NoReport
<1>2. DatabaseInv
  BY ReadAssumption
     DEF Init, DatabaseInv, Explained, ActedStatuses, RunIds, CaseStatuses
<1>3. ReportInv
  <2>1. DOMAIN seen = {}
    BY DEF Init, Nothing
  <2> QED BY <1>1, <2>1, NoStatements DEF Init, ReportInv, NoReport
<1> QED BY <1>1, <1>2, <1>3 DEF IInv, SummaryInv, DetailInv, ListInv

LEMMA NextKeeps == IInv /\ [Next]_vars => IInv'
<1> SUFFICES ASSUME IInv, [Next]_vars PROVE IInv'
  OBVIOUS
<1>1. CASE \E c \in Cases : Write(c)
  BY <1>1, WriteKeeps
<1>2. CASE Request
  BY <1>2, BeginKeeps DEF Request, Opened
<1>3. CASE Query
  BY <1>3, QueryKeeps
<1>4. CASE Done
  BY <1>4, DoneKeeps
<1>5. CASE UNCHANGED vars
  <2>1. DatabaseInv /\ ReportInv /\ SummaryInv /\ DetailInv /\ ListInv
    BY DEF IInv
  <2>2. Gains
    BY <1>5, <2>1 DEF vars, Gains, report, Opened, GivenUp, DatabaseInv
  <2>3. DatabaseInv'
    BY <1>5, <2>1 DEF vars, DatabaseInv, Explained
  <2>4. ReportInv'
    BY <1>5, <2>1 DEF vars, ReportInv, Opened
  <2> QED BY <2>1, <2>2, <2>3, <2>4, SummaryUnshaken, DetailUnshaken, ListUnshaken DEF IInv
<1> QED BY <1>1, <1>2, <1>3, <1>4, <1>5 DEF Next

\* Every state keeps what the readers rely on.
THEOREM Invariant == Spec => []IInv
BY InitInvariant, NextKeeps, PTL DEF Spec

(***************************************************************************)
(* The database and the report under way keep their types, whatever the    *)
(* writers of the workflow commit between the reader's statements.         *)
(***************************************************************************)
THEOREM TypeCorrect == Spec => []TypeOK
<1>1. IInv => TypeOK
  BY DEF IInv, DatabaseInv, ReportInv, TypeOK
<1> QED BY <1>1, Invariant, PTL

(***************************************************************************)
(* get_dashboard_summary: no payment that commits between two statements   *)
(* takes a case out of the figures.                                        *)
(***************************************************************************)
THEOREM SummaryComplete == Spec => []SummaryLosesNoCase
<1>1. IInv => SummaryLosesNoCase
  <2> SUFFICES ASSUME IInv, at.name = "summary", Complete PROVE SummaryLosesNoCase
    BY DEF SummaryLosesNoCase
  <2>1. at.step > 11 /\ at.step \in Nat
    BY SummaryPlaces DEF Complete, IInv, ReportInv
  <2>2. opened \subseteq Opened /\ SummaryInv
    BY DEF IInv, ReportInv
  <2>3. \A c \in opened : GivenUp(c) <=> status[c] \in {"FAILED", "STOPPED"}
    BY DEF GivenUp
  <2> QED BY <2>1, <2>2, <2>3 DEF SummaryInv, SummaryLosesNoCase
<1> QED BY <1>1, Invariant, PTL

------------------------------------------------------------------------------
(* Selection *)

\* A set of naturals that is not empty has a least element.
LEMMA LeastRank ==
  ASSUME NEW S, S \subseteq Nat, S # {}
  PROVE  \E n \in S : \A m \in S : n <= m
<1>1. PICK n \in S : \A m \in S : <<m, n>> \notin OpToRel(<, Nat)
  BY NatLessThanWellFounded, WFMin, Zenon
<1>2. \A m \in S : ~(m < n)
  BY <1>1 DEF OpToRel
<1> QED BY <1>2

\* The readers pick one row of a persisted run, the one an execution targets.
LEMMA SelectsExecutable ==
  ASSUME NEW candidates \in Analyses
  PROVE  \E r \in candidates :
           SelectCandidateRow(candidates) = {r} /\ Executable(r, candidates)
<1> DEFINE viable == {r \in candidates : r.kind = "viable"}
<1>1. /\ candidates \subseteq Rows
      /\ \E r \in candidates : r.kind = "stop"
      /\ \A r, s \in candidates : r.kind = "stop" /\ s.kind = "stop" => r = s
  BY ReadAssumption
<1>2. CASE viable # {}
  <2> DEFINE ranks == {r.rank : r \in viable}
  <2>1. ranks \subseteq Nat /\ ranks # {}
    BY <1>1, <1>2 DEF Rows, MaxRank
  <2>2. PICK n \in ranks : \A m \in ranks : n <= m
    <3> HIDE DEF ranks
    <3> QED BY <2>1, LeastRank
  <2>3. \E r \in viable : \A s \in viable : r.rank <= s.rank
    BY <2>2
  <2>4. First(viable) \in viable /\ \A s \in viable : First(viable).rank <= s.rank
    <3> HIDE DEF viable
    <3> QED BY <2>3 DEF First
  <2>5. SelectCandidateRow(candidates) = {First(viable)}
    BY <1>2 DEF SelectCandidateRow
  <2>6. Executable(First(viable), candidates)
    BY <2>4 DEF Executable
  <2> QED BY <2>4, <2>5, <2>6
<1>3. CASE viable = {}
  <2>1. PICK r \in candidates : r.kind = "stop"
    BY <1>1
  <2>2. {s \in candidates : s.kind = "stop"} = {r}
    BY <1>1, <2>1
  <2>3. SelectCandidateRow(candidates) = {r}
    BY <1>3, <2>2 DEF SelectCandidateRow
  <2>4. Executable(r, candidates)
    BY <1>3, <2>1 DEF Executable
  <2> QED BY <2>3, <2>4
<1> QED BY <1>2, <1>3

\* A run that was current once has its rows for good.
LEMMA RunHasRows ==
  ASSUME DatabaseInv, NEW c \in Cases, NEW r \in 0..run[c], r # 0
  PROVE  rows[c][r] \in Analyses
<1>1. r \in RunIds /\ r <= run[c]
  BY ReadAssumption DEF DatabaseInv, RunIds
<1> QED BY <1>1 DEF DatabaseInv

\* What a complete detail shows of its run.
LEMMA DetailShows ==
  ASSUME IInv, at.name = "detail", Complete
  PROVE  /\ at.step > 4 /\ at.case \in Cases
         /\ Explained(at.case, seen["case"].status, seen["case"].run)
         /\ seen["case"].run # 0 =>
              \E r \in seen["analysis"] :
                seen["analysis"] = {r} /\ Executable(r, rows[at.case][seen["case"].run])
<1>1. at.step > 4 /\ at.step \in Nat
  BY DetailPlaces DEF Complete, IInv, ReportInv
<1>2. /\ at.case \in Cases /\ Explained(at.case, seen["case"].status, seen["case"].run)
      /\ seen["analysis"] = ShownOf(at.case, seen["case"].run)
  BY <1>1 DEF IInv, DetailInv
<1>3. ASSUME seen["case"].run # 0
      PROVE  \E r \in seen["analysis"] :
               seen["analysis"] = {r} /\ Executable(r, rows[at.case][seen["case"].run])
  <2> DEFINE candidates == rows[at.case][seen["case"].run]
  <2>1. candidates \in Analyses
    BY <1>2, <1>3, RunHasRows DEF Explained, IInv
  <2>2. seen["analysis"] = Shown(candidates)
    BY <1>2, <1>3 DEF ShownOf
  <2> HIDE DEF candidates
  <2>3. PICK r \in candidates :
          SelectCandidateRow(candidates) = {r} /\ Executable(r, candidates)
    BY <2>1, SelectsExecutable
  <2>4. seen["analysis"] = {r}
    BY <2>2, <2>3 DEF Shown
  <2> QED BY <2>3, <2>4 DEF candidates
<1> QED BY <1>1, <1>2, <1>3

(***************************************************************************)
(* get_case_detail: the case is read first, so that its outcome, action    *)
(* and recommendation can only be newer than its status.                   *)
(***************************************************************************)
THEOREM DetailCoherent == Spec => []DetailIsCoherent
<1>1. IInv => DetailIsCoherent
  <2> SUFFICES ASSUME IInv, at.name = "detail", Complete PROVE DetailIsCoherent
    BY DEF DetailIsCoherent
  <2>1. /\ at.step > 4
        /\ Explained(at.case, seen["case"].status, seen["case"].run)
        /\ seen["case"].run # 0 => seen["analysis"] # {}
    BY DetailShows
  <2>2. DetailInv /\ at.step \in Nat
    BY DEF IInv, ReportInv
  <2>3. seen["case"].status \in ActedStatuses => seen["latest_action"]
    BY <2>1, <2>2 DEF DetailInv
  <2>4. seen["case"].status = "RECOVERED" => seen["outcome"]
    BY <2>1, <2>2 DEF DetailInv
  <2> QED BY <2>1, <2>3, <2>4 DEF DetailIsCoherent, Explained, ActedStatuses
<1> QED BY <1>1, Invariant, PTL

(***************************************************************************)
(* List and detail name the action an execution of the shown run targets,  *)
(* however many runs are persisted while they read.                        *)
(***************************************************************************)
THEOREM ShownIsSelected == Spec => []ReadersShowSelected
<1>1. IInv => ReadersShowSelected
  <2> SUFFICES ASSUME IInv, Complete PROVE ReadersShowSelected
    BY DEF ReadersShowSelected
  <2>1. ASSUME at.name = "detail", seen["case"].run # 0
        PROVE  \E r \in seen["analysis"] :
                 seen["analysis"] = {r} /\ Executable(r, rows[at.case][seen["case"].run])
    BY <2>1, DetailShows
  <2>2. ASSUME at.name = "list", NEW item \in seen["page"], item.run # 0
        PROVE  \E r \in seen["selected"][item] :
                 seen["selected"][item] = {r} /\ Executable(r, rows[item.case][item.run])
    <3>1. at.step > 3 /\ at.step \in Nat
      BY <2>2, ListPlaces DEF Complete, IInv, ReportInv
    <3>2. /\ item.case \in Cases /\ item.run \in 0..run[item.case]
          /\ seen["selected"][item] = SelectedOf(item)
      BY <2>2, <3>1 DEF IInv, ListInv
    <3> DEFINE candidates == rows[item.case][item.run]
    <3>3. candidates \in Analyses
      BY <2>2, <3>2, RunHasRows DEF IInv
    <3>4. SelectedOf(item) = IF SelectCandidateRow(candidates) # {}
                             THEN SelectCandidateRow(candidates) ELSE item.first
      BY <2>2 DEF SelectedOf
    <3> HIDE DEF candidates
    <3>5. PICK r \in candidates :
            SelectCandidateRow(candidates) = {r} /\ Executable(r, candidates)
      BY <3>3, SelectsExecutable
    <3>6. seen["selected"][item] = {r}
      BY <3>2, <3>4, <3>5
    <3> QED BY <3>5, <3>6 DEF candidates
  <2> QED BY <2>1, <2>2 DEF ReadersShowSelected
<1> QED BY <1>1, Invariant, PTL

=============================================================================
