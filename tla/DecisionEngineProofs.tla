------------------------ MODULE DecisionEngineProofs ------------------------
(***************************************************************************)
(* Proofs about DecisionEngine for any amounts, any answers of the model,  *)
(* any merchant policies and any number of analyses.                       *)
(***************************************************************************)
EXTENDS DecisionEngine, FiniteSetTheorems, WellFoundedInduction, TLAPS

------------------------------------------------------------------------------
(* Natural numbers and the tables *)

\* A nonempty set of naturals has a least element.
LEMMA LeastNatural ==
  ASSUME NEW S, S \subseteq Nat, S # {}
  PROVE  \E m \in S : \A n \in S : m <= n
<1>1. PICK m \in S : \A n \in S : <<n, m>> \notin OpToRel(<, Nat)
  BY NatLessThanWellFounded, WFMin, Zenon
<1>2. \A n \in S : ~(n < m)
  BY <1>1 DEF OpToRel
<1> QED BY <1>2

\* There are seven action types, finitely many.
LEMMA ActionTypesListed ==
  ActionTypes = {"WAIT", "REQUEST_ALTERNATE_PAYMENT_METHOD", "CREATE_PAYMENT_LINK",
                 "RETRY_SAME_METHOD", "SEND_RECOVERY_MESSAGE", "ESCALATE_TO_HUMAN", "STOP"}
BY DEF ActionTypes, Priority

LEMMA ActionTypesFinite == IsFiniteSet(ActionTypes)
<1> DEFINE Add(S, a) == S \cup {a}
<1>1. \A S, a : IsFiniteSet(S) => IsFiniteSet(Add(S, a))
  BY FS_AddElement, Zenon
<1>2. ActionTypes =
        Add(Add(Add(Add(Add(Add(Add({}, "WAIT"), "REQUEST_ALTERNATE_PAYMENT_METHOD"),
          "CREATE_PAYMENT_LINK"), "RETRY_SAME_METHOD"), "SEND_RECOVERY_MESSAGE"),
          "ESCALATE_TO_HUMAN"), "STOP")
  BY ActionTypesListed
<1>3. IsFiniteSet({})
  BY FS_EmptySet, Zenon
<1> HIDE DEF Add
<1>4. IsFiniteSet(Add(Add(Add({}, "WAIT"), "REQUEST_ALTERNATE_PAYMENT_METHOD"),
                      "CREATE_PAYMENT_LINK"))
  BY <1>1, <1>3
<1> QED BY <1>1, <1>2, <1>4

\* The tables give a number for every action type, and the priorities are distinct.
LEMMA TablesTyped ==
  /\ \A a \in ActionTypes : /\ Cost[a] \in Nat
                            /\ RiskBps[a] \in Nat
                            /\ Priority[a] \in Nat
                            /\ Burden[a] = Priority[a]
  /\ \A a, b \in ActionTypes : Priority[a] = Priority[b] => a = b
BY ActionTypesListed DEF Cost, RiskBps, Priority, Burden

\* Rounding half up is off by at most half a unit, and never below zero.
LEMMA RoundingBound ==
  ASSUME NEW n \in Nat, NEW d \in {100, 10000}
  PROVE  /\ RoundHalfUp(n, d) \in Nat
         /\ 2 * d * RoundHalfUp(n, d) <= 2 * n + d
         /\ 2 * n - d < 2 * d * RoundHalfUp(n, d)
<1>1. CASE d = 100
  BY <1>1 DEF RoundHalfUp
<1>2. CASE d = 10000
  BY <1>2 DEF RoundHalfUp
<1> QED BY <1>1, <1>2

------------------------------------------------------------------------------
(* Candidates *)

\* STOP is always a candidate, and every candidate is an action type.
LEMMA CandidatesTyped ==
  ASSUME NEW f \in Facts, NEW excluded
  PROVE  "STOP" \in Candidates(f, excluded) /\ Candidates(f, excluded) \subseteq ActionTypes
<1>1. Scenario(f) \in DOMAIN Matrix
  <2>1. Category(f) \in {"PAYMENT_RAIL_DOWNTIME", "INSUFFICIENT_FUNDS", "AUTHENTICATION_FAILURE",
                         "BANK_OR_ISSUER_DECLINE", "EXPIRED_OR_INVALID_METHOD",
                         "MANDATE_OR_RECURRING_FAILURE", "TECHNICAL_FAILURE", "UNKNOWN"}
    BY DEF Category, Mapped, ErrorReasonMap
  <2> QED BY <2>1 DEF Scenario, ScenarioOf, CandidateContext, Matrix
<1>2. \A s \in DOMAIN Matrix : Matrix[s] \subseteq ActionTypes
  BY ActionTypesListed DEF Matrix, LinkTypes, RecurringActions
<1> QED BY <1>1, <1>2, ActionTypesListed DEF Candidates, Generated, Scenario

\* At most seven of the 24 important features are ever missing.
LEMMA PresentBound ==
  ASSUME NEW f \in Facts, NEW b \in Backgrounds
  PROVE  Present(f, b) \in 17..24
<1>1. MissingHistory(b) \in {0, 1, 3}
  BY DEF MissingHistory, CountIf
<1>2. MissingFeatures(f, b) \in 0..7
  <2>1. \A h \in {0, 1, 3} : \A p, q, r, s \in {0, 1} : h + p + q + r + s \in 0..7
    OBVIOUS
  <2>2. /\ CountIf(~b.otherCases, 1) \in {0, 1}
        /\ CountIf(f.kind = "PAYMENT_FAILURE", 1) \in {0, 1}
        /\ CountIf(f.kind = "SUBSCRIPTION_FAILURE" \/ b.method = "unknown", 1) \in {0, 1}
        /\ CountIf(f.kind = "PAYMENT_FAILURE" /\ b.lookup = "failed", 1) \in {0, 1}
    BY DEF CountIf
  <2> QED BY <1>1, <2>1, <2>2 DEF MissingFeatures
<1> QED BY <1>2 DEF Present, ImportantFeatures

\* Confidence is a share of one, whatever its three inputs.
LEMMA ConfidenceBound ==
  ASSUME NEW c \in 0..24, NEW p \in Percent, NEW e \in Percent
  PROVE  Confidence(c, p, e) \in 0..4000
<1>1. c \in Int /\ 0 <= c /\ c <= 24 /\ p \in Int /\ 0 <= p /\ p <= 100
      /\ e \in Int /\ 0 <= e /\ e <= 100
  BY DEF Percent
<1>2. CASE p >= 50
  BY <1>1, <1>2 DEF Confidence
<1>3. CASE ~(p >= 50)
  BY <1>1, <1>3 DEF Confidence
<1> QED BY <1>2, <1>3

\* The rows of an analysis have their types, whatever it reads.
LEMMA RowsTyped ==
  ASSUME NEW f \in Facts, NEW A, A \subseteq ActionTypes, NEW prob \in [A -> Percent],
         NEW present \in 0..24, NEW pol \in PolicyRecords,
         NEW atRisk \in Nat, NEW tried \in Nat
  PROVE  LET rows == Rows(f, prob, present, pol, atRisk, tried)
         IN  DOMAIN rows = A /\ \A a \in A : rows[a] \in RowRecords
<1> DEFINE rows == Rows(f, prob, present, pol, atRisk, tried)
<1>1. DOMAIN rows = A
  BY DEF Rows, Evaluated
<1>2. ASSUME NEW a \in A PROVE rows[a] \in RowRecords
  <2> DEFINE sure == Confidence(present, prob[a], EvidenceStrength(f))
  <2>1. a \in ActionTypes /\ prob[a] \in Percent
    OBVIOUS
  <2>2. sure \in 0..4000
    <3>1. EvidenceStrength(f) \in Percent
      <4>1. EvidenceStrength(f) \in {100, 80, 65, 40}
        BY DEF EvidenceStrength
      <4> QED BY <4>1 DEF Percent
    <3>2. prob[a] \in Percent
      BY <2>1
    <3> DEFINE Counts == 0..24
               Shares == 0..4000
    <3>3. present \in Counts
      OBVIOUS
    <3>4. \A c \in Counts : \A p, e \in Percent : Confidence(c, p, e) \in Shares
      BY ConfidenceBound
    <3>5. SUFFICES sure \in Shares
      OBVIOUS
    <3> HIDE DEF Counts, Shares
    <3> QED BY <3>1, <3>2, <3>3, <3>4
  <2>3. Recovered(a, atRisk, prob[a]) \in Nat
    <3>1. atRisk * prob[a] \in Nat
      BY <2>1 DEF Percent
    <3> QED BY <3>1, RoundingBound DEF Recovered
  <2>4. ExpectedValue(a, atRisk, prob[a]) \in Int
    <3>1. Cost[a] \in Nat /\ RiskBps[a] \in Nat
      BY <2>1, TablesTyped
    <3>2. atRisk * RiskBps[a] \in Nat /\ atRisk * DelayBps(a) \in Nat
      <4>1. DelayBps(a) \in Nat
        BY DEF DelayBps
      <4>2. \A x, y \in Nat : x * y \in Nat
        OBVIOUS
      <4> QED BY <3>1, <4>1, <4>2
    <3>3. /\ RoundHalfUp(atRisk * RiskBps[a], 10000) \in Nat
          /\ RoundHalfUp(atRisk * DelayBps(a), 10000) \in Nat
      <4> DEFINE Penalty(n) == RoundHalfUp(n, 10000)
      <4>1. \A n \in Nat : Penalty(n) \in Nat
        BY RoundingBound
      <4> HIDE DEF Penalty
      <4>2. Penalty(atRisk * RiskBps[a]) \in Nat /\ Penalty(atRisk * DelayBps(a)) \in Nat
        BY <3>2, <4>1, Zenon
      <4> QED BY <4>2 DEF Penalty
    <3>4. Fatigue(a) \in Nat
      BY DEF Fatigue
    <3> QED BY <2>3, <3>1, <3>3, <3>4 DEF ExpectedValue
  <2>5. Eligible(a, AnalysisContext(f), pol, tried) \in BOOLEAN
    BY DEF Eligible
  <2>6. RequiresApproval(a, pol, atRisk, sure) \in BOOLEAN
    BY DEF RequiresApproval
  <2>7. rows[a] = [probability |-> prob[a],
                   recovered |-> Recovered(a, atRisk, prob[a]),
                   value |-> ExpectedValue(a, atRisk, prob[a]),
                   confidence |-> sure,
                   eligible |-> Eligible(a, AnalysisContext(f), pol, tried),
                   approval |-> RequiresApproval(a, pol, atRisk, sure)]
    BY DEF Rows, Evaluated
  <2> HIDE DEF rows, sure
  <2> QED BY <2>1, <2>2, <2>3, <2>4, <2>5, <2>6, <2>7 DEF RowRecords
<1> QED BY <1>1, <1>2

------------------------------------------------------------------------------
(* Ranking *)

\* Rows as an analysis writes them.
Tabular(rows) ==
  /\ DOMAIN rows \subseteq ActionTypes
  /\ \A a \in DOMAIN rows : rows[a] \in RowRecords

\* The sort key of ranking.py orders any two candidates one way, and never both ways.
LEMMA BeforeIsOrder ==
  ASSUME NEW rows, Tabular(rows)
  PROVE  /\ \A a \in DOMAIN rows : ~Before(rows, a, a)
         /\ \A a, b \in DOMAIN rows : a = b \/ Before(rows, a, b) \/ Before(rows, b, a)
         /\ \A a, b, c \in DOMAIN rows :
              Before(rows, a, b) /\ Before(rows, b, c) => Before(rows, a, c)
<1>1. \A a \in DOMAIN rows : /\ rows[a].value \in Int
                             /\ rows[a].probability \in Int
                             /\ rows[a].eligible \in BOOLEAN
                             /\ Priority[a] \in Int
                             /\ Burden[a] = Priority[a]
  BY TablesTyped DEF Tabular, RowRecords, Percent
<1>2. \A a, b \in DOMAIN rows : Priority[a] = Priority[b] => a = b
  BY TablesTyped DEF Tabular
<1>3. \A a \in DOMAIN rows : ~Before(rows, a, a)
  BY <1>1 DEF Before
<1>4. \A a, b \in DOMAIN rows : a = b \/ Before(rows, a, b) \/ Before(rows, b, a)
  BY <1>1, <1>2 DEF Before
<1>5. ASSUME NEW a \in DOMAIN rows, NEW b \in DOMAIN rows, NEW c \in DOMAIN rows,
             Before(rows, a, b), Before(rows, b, c)
      PROVE  Before(rows, a, c)
  BY <1>1, <1>5 DEF Before
<1> QED BY <1>3, <1>4, <1>5

\* Ranks are positive, and of two candidates the one that sorts first has the lower rank.
LEMMA RankFollowsOrder ==
  ASSUME NEW rows, Tabular(rows)
  PROVE  /\ Ranking(rows) \in [DOMAIN rows -> Nat \ {0}]
         /\ \A a, b \in DOMAIN rows :
              Before(rows, a, b) <=> Ranking(rows)[a] < Ranking(rows)[b]
<1> DEFINE D == DOMAIN rows
           Ahead(a) == {b \in D : Before(rows, b, a)}
           rank == Ranking(rows)
<1>1. \A a \in D : Ahead(a) \subseteq D
  OBVIOUS
<1>2. \A a \in D : IsFiniteSet(Ahead(a)) /\ Cardinality(Ahead(a)) \in Nat
  <2>1. IsFiniteSet(D)
    BY ActionTypesFinite, FS_Subset DEF Tabular
  <2>2. ASSUME NEW a \in D PROVE IsFiniteSet(Ahead(a))
    BY <2>1, FS_Subset
  <2> QED BY <2>2, FS_CardinalityType
<1>3. /\ rank \in [D -> Nat \ {0}]
      /\ \A a \in D : rank[a] = 1 + Cardinality(Ahead(a))
  BY <1>2 DEF Ranking
<1>4. ASSUME NEW a \in D, NEW b \in D, Before(rows, a, b)
      PROVE  rank[a] < rank[b]
  <2>1. Ahead(a) \subseteq Ahead(b)
    BY <1>4, BeforeIsOrder
  <2>2. a \in Ahead(b) /\ a \notin Ahead(a)
    BY <1>4, BeforeIsOrder
  <2>3. Cardinality(Ahead(a)) <= Cardinality(Ahead(b))
        /\ Cardinality(Ahead(a)) # Cardinality(Ahead(b))
    <3> HIDE DEF Ahead
    <3> QED BY <1>2, <2>1, <2>2, FS_Subset
  <2> HIDE DEF Ahead, rank
  <2> QED BY <1>2, <1>3, <2>3
<1>5. ASSUME NEW a \in D, NEW b \in D, rank[a] < rank[b]
      PROVE  Before(rows, a, b)
  <2>1. rank[a] \in Nat /\ rank[b] \in Nat
    BY <1>3
  <2>2. a # b /\ ~Before(rows, b, a)
    BY <1>4, <1>5, <2>1
  <2> QED BY <2>2, BeforeIsOrder
<1> QED BY <1>3, <1>4, <1>5

\* Where something is viable both selections pick the same viable row, before all others.
LEMMA SelectionsAgree ==
  ASSUME NEW rows, Tabular(rows)
  PROVE  /\ SelectInOrder(rows) = SelectByRank(rows, Ranking(rows))
         /\ Viable(rows) # {} =>
              /\ SelectInOrder(rows) \in Viable(rows)
              /\ \A b \in Viable(rows) :
                   b = SelectInOrder(rows) \/ Before(rows, SelectInOrder(rows), b)
<1> DEFINE V == Viable(rows)
           rank == Ranking(rows)
           First(a) == \A b \in V : b = a \/ Before(rows, a, b)
           Least(a) == \A b \in V : rank[a] <= rank[b]
<1>1. CASE V = {}
  BY <1>1 DEF SelectInOrder, SelectByRank
<1>2. CASE V # {}
  <2>1. V \subseteq DOMAIN rows
    BY DEF Viable
  <2>2. \A a \in V : rank[a] \in Nat
    BY <2>1, RankFollowsOrder
  <2>3. PICK m \in V : Least(m)
    <3>1. {rank[a] : a \in V} \subseteq Nat /\ {rank[a] : a \in V} # {}
      BY <1>2, <2>2
    <3>2. PICK n \in {rank[a] : a \in V} : \A k \in {rank[a] : a \in V} : n <= k
      BY <3>1, LeastNatural
    <3> QED BY <3>2
  <2>4. \A a \in V : Least(a) <=> First(a)
    <3>1. ASSUME NEW a \in V, NEW b \in V
          PROVE  rank[a] <= rank[b] <=> (b = a \/ Before(rows, a, b))
      <4>1. Before(rows, a, b) <=> rank[a] < rank[b]
        BY <2>1, RankFollowsOrder
      <4>2. Before(rows, b, a) <=> rank[b] < rank[a]
        BY <2>1, RankFollowsOrder
      <4>3. a = b \/ Before(rows, a, b) \/ Before(rows, b, a)
        BY <2>1, BeforeIsOrder
      <4> HIDE DEF rank
      <4> QED BY <2>2, <4>1, <4>2, <4>3
    <3> QED BY <3>1
  <2>5. ASSUME NEW a \in V, NEW b \in V, First(a), First(b) PROVE a = b
    BY <2>1, <2>5, BeforeIsOrder
  <2>6. SelectInOrder(rows) = m /\ First(m)
    <3>1. SelectInOrder(rows) = CHOOSE a \in V : First(a)
      BY <1>2 DEF SelectInOrder
    <3>2. First(m)
      BY <2>3, <2>4
    <3> HIDE DEF V, First
    <3> QED BY <2>5, <3>1, <3>2
  <2>7. SelectByRank(rows, rank) = m
    <3>1. SelectByRank(rows, rank) = CHOOSE a \in V : Least(a)
      BY <1>2 DEF SelectByRank
    <3>2. \A a \in V : Least(a) => a = m
      BY <2>4, <2>5, <2>6
    <3> HIDE DEF V, Least
    <3> QED BY <2>3, <3>1, <3>2
  <2> QED BY <2>6, <2>7
<1> QED BY <1>1, <1>2

------------------------------------------------------------------------------
(* The inductive invariant *)

Basics ==
  /\ policy \in Policies
  /\ amount \in Amounts
  /\ kind \in {"PAYMENT_FAILURE", "SUBSCRIPTION_FAILURE"}
  /\ stage \in Stages
  /\ attempts \in Nat
  /\ inFlight \in BOOLEAN

\* The scores an analysis can have asked for: every action a probability, STOP among them.
Scored(prob) ==
  /\ "STOP" \in DOMAIN prob
  /\ DOMAIN prob \subseteq ActionTypes
  /\ prob \in [DOMAIN prob -> Percent]

\* The run is what compute_analysis made of some evidence and scores.
Computed(tried) ==
  \E f \in Facts, b \in Backgrounds :
    \E prob : /\ Scored(prob)
              /\ run = Analysis(f, b, prob, policy, amount, tried)

(***************************************************************************)
(* The rows that are read were computed under the case's own policy and    *)
(* amount; those on offer also with the attempts there are now.            *)
(***************************************************************************)
DecisionInvariant ==
  /\ Basics
  /\ stage = "recommended" => Computed(attempts)
  /\ stage = "approval" => \E tried \in Nat : Computed(tried)

\* The fallback table holds percentages.
LEMMA FallbackTyped ==
  ASSUME NEW s \in DOMAIN FallbackTable, NEW a \in DOMAIN FallbackTable[s]
  PROVE  FallbackTable[s][a] \in Percent
BY DEF FallbackTable, Percent

\* Whoever scores, the candidates have probabilities.
LEMMA ScoresAreScored ==
  ASSUME NEW f \in Facts, NEW excluded,
         NEW prob \in ModelScores(f, excluded) \cup FallbackScores(f, excluded)
  PROVE  Scored(prob)
<1> DEFINE C == Candidates(f, excluded)
<1>1. "STOP" \in C /\ C \subseteq ActionTypes
  BY CandidatesTyped
<1>2. CASE prob \in ModelScores(f, excluded)
  <2>1. prob \in [C -> Probabilities \cup {0}]
    BY <1>2 DEF ModelScores
  <2>2. Probabilities \cup {0} \subseteq Percent
    BY DecisionAssumption DEF Percent
  <2> HIDE DEF C
  <2> QED BY <1>1, <2>1, <2>2 DEF Scored
<1>3. CASE prob \in FallbackScores(f, excluded)
  <2> DEFINE table == FallbackTable[Scenario(f)]
  <2>1. prob = [a \in C |-> IF a \in DOMAIN table THEN table[a] ELSE 0]
    BY <1>3 DEF FallbackScores
  <2>2. Scenario(f) \in DOMAIN FallbackTable
    <3>1. Category(f) \in
            {"PAYMENT_RAIL_DOWNTIME", "INSUFFICIENT_FUNDS", "AUTHENTICATION_FAILURE",
             "BANK_OR_ISSUER_DECLINE", "EXPIRED_OR_INVALID_METHOD",
             "MANDATE_OR_RECURRING_FAILURE", "TECHNICAL_FAILURE", "UNKNOWN"}
      BY DEF Category, Mapped, ErrorReasonMap
    <3> QED BY <3>1 DEF Scenario, ScenarioOf, CandidateContext, FallbackTable
  <2>3. \A a \in DOMAIN table : table[a] \in Percent
    BY <2>2, FallbackTyped
  <2>4. 0 \in Percent
    BY DEF Percent
  <2> HIDE DEF C, table
  <2> QED BY <1>1, <2>1, <2>3, <2>4 DEF Scored
<1> QED BY <1>2, <1>3

\* An analysis leaves a run that is computed from what it read.
LEMMA AnalyzeComputes ==
  ASSUME Basics, NEW excluded, Analyze(excluded), inFlight' \in BOOLEAN
  PROVE  DecisionInvariant'
<1>1. PICK f \in Facts, b \in Backgrounds :
        \E prob \in ModelScores(f, excluded) \cup FallbackScores(f, excluded) :
          run' = Analysis(f, b, prob, policy, amount, attempts)
  BY DEF Analyze
<1>2. PICK prob \in ModelScores(f, excluded) \cup FallbackScores(f, excluded) :
        run' = Analysis(f, b, prob, policy, amount, attempts)
  BY <1>1
<1>3. Scored(prob)
  BY <1>2, ScoresAreScored
<1>4. stage' = "recommended" /\ UNCHANGED <<policy, amount, kind, attempts>>
  BY DEF Analyze
<1>5. Computed(attempts)'
  BY <1>2, <1>3, <1>4 DEF Computed
<1>6. Basics'
  <2>1. stage' \in Stages
    BY <1>4 DEF Stages
  <2> QED BY <1>4, <2>1 DEF Basics
<1> QED BY <1>4, <1>5, <1>6 DEF DecisionInvariant

\* The invariant holds initially and every step keeps it.
LEMMA DecisionInductive ==
  /\ Init => DecisionInvariant
  /\ DecisionInvariant /\ [Next]_vars => DecisionInvariant'
<1>1. ASSUME Init PROVE DecisionInvariant
  <2>1. Basics
    BY <1>1 DEF Init, Basics, Stages
  <2>2. stage = "open"
    BY <1>1 DEF Init
  <2> QED BY <2>1, <2>2 DEF DecisionInvariant
<1>2. ASSUME DecisionInvariant, [Next]_vars PROVE DecisionInvariant'
  <2> USE <1>2
  <2>1. Basics
    BY DEF DecisionInvariant
  <2>2. CASE RunAnalysis
    BY <2>1, <2>2, AnalyzeComputes DEF RunAnalysis, Basics
  <2>3. CASE RejectAndReanalyze
    BY <2>1, <2>3, AnalyzeComputes DEF RejectAndReanalyze
  <2>4. CASE StageForApproval
    <3>1. /\ stage = "recommended" /\ stage' = "approval"
          /\ UNCHANGED <<policy, amount, kind, run>>
          /\ attempts' = attempts + 1 /\ inFlight' \in BOOLEAN
      BY <2>1, <2>4 DEF StageForApproval, Accepted, Basics
    <3>2. attempts \in Nat /\ Computed(attempts)
      BY <2>1, <3>1 DEF DecisionInvariant, Basics
    <3>3. ASSUME NEW tried \in Nat, Computed(tried) PROVE Computed(tried)'
      BY <3>1, <3>3 DEF Computed
    <3>4. Basics'
      BY <2>1, <3>1 DEF Basics, Stages
    <3>5. (\E tried \in Nat : Computed(tried))'
      BY <3>2, <3>3
    <3>6. stage' # "recommended"
      BY <3>1
    <3> QED BY <3>4, <3>5, <3>6, Zenon DEF DecisionInvariant
  <2>5. CASE ExecuteStop \/ ExecuteWait \/ ExecuteLink \/ ApproveLink
               \/ ApproveEscalation \/ RejectAndStop
    <3>1. stage' \in {"open", "closed"}
      BY <2>5 DEF ExecuteStop, ExecuteWait, ExecuteLink, ApproveLink, ApproveEscalation,
                  RejectAndStop
    <3>2. policy' = policy /\ amount' = amount /\ kind' = kind
      BY <2>5 DEF ExecuteStop, ExecuteWait, ExecuteLink, ApproveLink, ApproveEscalation,
                  RejectAndStop
    <3>3. attempts' \in Nat /\ inFlight' \in BOOLEAN
      <4>1. attempts' \in {attempts, attempts + 1}
        BY <2>5 DEF ExecuteStop, ExecuteWait, ExecuteLink, ApproveLink, ApproveEscalation,
                    RejectAndStop
      <4>2. inFlight' \in BOOLEAN
        <5>1. CASE RejectAndStop
          BY <5>1 DEF RejectAndStop
        <5>2. CASE ~RejectAndStop
          BY <2>1, <2>5, <5>2 DEF ExecuteStop, ExecuteWait, ExecuteLink, ApproveLink,
                                  ApproveEscalation, Basics
        <5> QED BY <5>1, <5>2
      <4> QED BY <2>1, <4>1, <4>2 DEF Basics
    <3>4. Basics'
      BY <2>1, <3>1, <3>2, <3>3 DEF Basics, Stages
    <3> QED BY <3>1, <3>4 DEF DecisionInvariant
  <2>6. CASE LinkSettles \/ UNCHANGED vars
    BY <2>1, <2>6 DEF LinkSettles, vars, DecisionInvariant, Basics, Computed
  <2> QED BY <2>2, <2>3, <2>4, <2>5, <2>6 DEF Next
<1> QED BY <1>1, <1>2

LEMMA DecisionInvariantHolds == Spec => []DecisionInvariant
BY DecisionInductive, PTL DEF Spec

------------------------------------------------------------------------------
(* What the invariant gives *)

\* Columns, ranks and summary of the current run, and the action selected from them.
LEMMA RunFacts ==
  ASSUME DecisionInvariant, Decided
  PROVE  /\ Tabular(run.rows)
         /\ "STOP" \in DOMAIN run.rows
         /\ run.facts \in Facts
         /\ run.background \in Backgrounds
         /\ run.rank = Ranking(run.rows)
         /\ Selected = SelectInOrder(run.rows)
         /\ run.summary = SummaryOf(run.rows[Selected], run.background, policy)
<1>1. PICK tried \in Nat : Computed(tried)
  BY DEF DecisionInvariant, Decided, Basics
<1>2. PICK f \in Facts, b \in Backgrounds :
        \E prob : Scored(prob) /\ run = Analysis(f, b, prob, policy, amount, tried)
  BY <1>1 DEF Computed
<1>3. PICK prob :
        Scored(prob) /\ run = Analysis(f, b, prob, policy, amount, tried)
  BY <1>2
<1> DEFINE rows == Rows(f, prob, Present(f, b), policy, amount, tried)
<1>4. /\ run.facts = f
      /\ run.background = b
      /\ run.rows = rows
      /\ run.rank = Ranking(rows)
      /\ run.summary = SummaryOf(rows[SelectInOrder(rows)], b, policy)
  BY <1>3 DEF Analysis
<1>5. Tabular(rows) /\ "STOP" \in DOMAIN rows
  <2>1. policy \in PolicyRecords /\ amount \in Nat
    BY DecisionAssumption DEF DecisionInvariant, Basics
  <2>2. Present(f, b) \in 0..24
    BY PresentBound
  <2>3. DOMAIN rows = DOMAIN prob /\ \A a \in DOMAIN prob : rows[a] \in RowRecords
    BY <1>3, <2>1, <2>2, RowsTyped DEF Scored
  <2> HIDE DEF rows
  <2> QED BY <1>3, <2>3 DEF Tabular, Scored
<1> HIDE DEF rows
<1>6. Selected = SelectInOrder(rows)
  BY <1>4, <1>5, SelectionsAgree DEF Selected
<1> QED BY <1>4, <1>5, <1>6

\* What may be offered is what selection considers.
LEMMA OfferableIsViable ==
  ASSUME NEW rows
  PROVE  Offerable(rows) = Viable(rows)
BY DEF Offerable, Viable

\* The selected action is STOP where nothing is viable, and viable otherwise.
LEMMA SelectedIsViable ==
  ASSUME DecisionInvariant, Decided
  PROVE  IF Viable(run.rows) = {} THEN Selected = "STOP"
         ELSE Selected \in Viable(run.rows) /\ Selected # "STOP"
<1>1. CASE Viable(run.rows) = {}
  BY <1>1, RunFacts DEF SelectInOrder
<1>2. CASE Viable(run.rows) # {}
  BY <1>2, RunFacts, SelectionsAgree DEF Viable
<1> QED BY <1>1, <1>2

\* A row on offer that is not STOP passed the policy question of the analysis.
LEMMA OfferedPassedPolicy ==
  ASSUME DecisionInvariant, stage = "recommended", Selected # "STOP"
  PROVE  Eligible(Selected, AnalysisContext(run.facts), policy, attempts)
<1>1. Decided /\ Computed(attempts)
  BY DEF DecisionInvariant, Decided
<1>2. PICK f \in Facts, b \in Backgrounds :
        \E prob : /\ Scored(prob)
                  /\ run = Analysis(f, b, prob, policy, amount, attempts)
  BY <1>1 DEF Computed
<1>3. PICK prob :
        Scored(prob) /\ run = Analysis(f, b, prob, policy, amount, attempts)
  BY <1>2
<1>4. run.facts = f /\ run.rows = Rows(f, prob, Present(f, b), policy, amount, attempts)
  BY <1>3 DEF Analysis
<1>5. Selected \in DOMAIN run.rows /\ run.rows[Selected].eligible
  BY <1>1, SelectedIsViable DEF Viable
<1> QED BY <1>4, <1>5 DEF Rows, Evaluated

------------------------------------------------------------------------------
(* The theorems *)

(***************************************************************************)
(* Every column of the case and of its run keeps its type and range: for   *)
(* any amounts and scores, probability and confidence stay within [0, 1]   *)
(* (recovery/confidence.py, recovery/erv.py).                              *)
(***************************************************************************)
THEOREM DecisionTypes == Spec => []TypeOK
<1>1. DecisionInvariant => TypeOK
  <2> SUFFICES ASSUME DecisionInvariant PROVE TypeOK
    OBVIOUS
  <2>1. Basics
    BY DEF DecisionInvariant
  <2>2. ASSUME Decided
        PROVE  /\ run.facts \in Facts
               /\ run.background \in Backgrounds
               /\ "STOP" \in DOMAIN run.rows
               /\ DOMAIN run.rows \subseteq ActionTypes
               /\ \A a \in DOMAIN run.rows : run.rows[a] \in RowRecords
               /\ run.rank \in [DOMAIN run.rows -> Nat \ {0}]
    BY <2>2, RunFacts, RankFollowsOrder DEF Tabular
  <2> QED BY <2>1, <2>2 DEF TypeOK, Basics
<1> QED BY <1>1, DecisionInvariantHolds, PTL

(***************************************************************************)
(* The action on offer has the highest expected value of those the policy  *)
(* allows and RevLoop can execute; STOP is on offer only when none of them *)
(* is worth anything (recovery/ranking.py select_recommendation).          *)
(***************************************************************************)
THEOREM BestActionIsOffered == Spec => []ChoiceIsBest
<1>1. DecisionInvariant => ChoiceIsBest
  <2> SUFFICES ASSUME DecisionInvariant, Decided
               PROVE  IF Selected = "STOP" THEN Offerable(run.rows) = {}
                      ELSE /\ Selected \in Offerable(run.rows)
                           /\ \A a \in Offerable(run.rows) :
                                \/ run.rows[a].value < run.rows[Selected].value
                                \/ /\ run.rows[a].value = run.rows[Selected].value
                                   /\ run.rows[a].probability <= run.rows[Selected].probability
    BY DEF ChoiceIsBest
  <2>1. Offerable(run.rows) = Viable(run.rows)
    BY OfferableIsViable
  <2>2. CASE Selected = "STOP"
    BY <2>1, <2>2, SelectedIsViable
  <2>3. CASE Selected # "STOP"
    <3>1. Viable(run.rows) # {} /\ Selected \in Viable(run.rows)
      BY <2>3, SelectedIsViable
    <3>2. ASSUME NEW a \in Viable(run.rows)
          PROVE  \/ run.rows[a].value < run.rows[Selected].value
                 \/ /\ run.rows[a].value = run.rows[Selected].value
                    /\ run.rows[a].probability <= run.rows[Selected].probability
      <4>1. a = Selected \/ Before(run.rows, Selected, a)
        BY <3>1, RunFacts, SelectionsAgree
      <4>2. \A b \in Viable(run.rows) : /\ b \in DOMAIN run.rows
                                        /\ run.rows[b].eligible
        BY DEF Viable
      <4>3. Tabular(run.rows)
        BY RunFacts
      <4>4. \A b \in Viable(run.rows) : /\ run.rows[b].value \in Int
                                        /\ run.rows[b].probability \in Int
        <5>1. \A b \in Viable(run.rows) : run.rows[b] \in RowRecords
          BY <4>2, <4>3 DEF Tabular
        <5>2. \A r \in RowRecords : r.value \in Int /\ r.probability \in Int
          BY DEF RowRecords, Percent
        <5> QED BY <5>1, <5>2
      <4> QED BY <3>1, <4>1, <4>2, <4>4 DEF Before
    <3> QED BY <2>1, <2>3, <3>1, <3>2
  <2> QED BY <2>2, <2>3
<1> QED BY <1>1, DecisionInvariantHolds, PTL

(***************************************************************************)
(* The write path, which selects from the sorted list, and the read paths, *)
(* which select by the stored rank, never disagree (recovery/selection.py).*)
(***************************************************************************)
THEOREM WriteAndReadPathsAgree == Spec => []SummaryShowsSelected
<1>1. DecisionInvariant => SummaryShowsSelected
  BY RunFacts DEF SummaryShowsSelected
<1> QED BY <1>1, DecisionInvariantHolds, PTL

(***************************************************************************)
(* Every recommendation is one that RecoveryWorkflow's Selectable allows:  *)
(* executable, an escalation gated, and only STOP or an exempt WAIT once   *)
(* the attempts are used up (policies/engine.py _attempt_cap_applies).     *)
(***************************************************************************)
THEOREM RecommendationsAreSelectable == Spec => []RecommendationIsSelectable
<1>1. DecisionInvariant => RecommendationIsSelectable
  <2> SUFFICES ASSUME DecisionInvariant, stage = "recommended"
               PROVE  /\ Selected \in Executable
                      /\ Selected = "ESCALATE_TO_HUMAN" => Gated(Selected)
                      /\ attempts >= policy.maxAttempts =>
                           \/ Selected = "STOP"
                           \/ Selected = "WAIT" /\ ProviderRetriesActive(run.facts)
    BY DEF RecommendationIsSelectable
  <2>1. Selected \in Executable
    BY SelectedIsViable DEF Decided, Viable, Executable
  <2>2. Selected = "ESCALATE_TO_HUMAN" => Gated(Selected)
    BY DEF Gated, RequiresApproval
  <2>3. ASSUME attempts >= policy.maxAttempts, Selected # "STOP"
        PROVE  Selected = "WAIT" /\ ProviderRetriesActive(run.facts)
    BY <2>3, OfferedPassedPolicy DEF Eligible, CapReached, AttemptCapApplies, AnalysisContext
  <2> QED BY <2>1, <2>2, <2>3
<1> QED BY <1>1, DecisionInvariantHolds, PTL

(***************************************************************************)
(* The executor refuses the selected action for three causes only:         *)
(* automation off, an unresolved link of the case, or an exempt WAIT that  *)
(* it counts against the cap (actions/policy_context.py).                  *)
(***************************************************************************)
THEOREM RefusalsHaveCauses == Spec => []RefusalHasCause
<1>1. DecisionInvariant => RefusalHasCause
  <2> SUFFICES ASSUME DecisionInvariant, stage = "recommended", ~Accepted(Selected),
                      policy.automation, ~(inFlight /\ Selected \in LinkTypes)
               PROVE  /\ Selected = "WAIT"
                      /\ ProviderRetriesActive(run.facts)
                      /\ attempts >= policy.maxAttempts
    BY DEF RefusalHasCause
  <2>1. ~Eligible(Selected, ExecutionContext(inFlight), policy, attempts)
    BY DEF Accepted
  <2>2. Selected # "STOP"
    BY <2>1 DEF Eligible
  <2>3. Selected \in Executable
    BY SelectedIsViable DEF Decided, Viable, Executable
  <2>4. Eligible(Selected, AnalysisContext(run.facts), policy, attempts)
    BY <2>2, OfferedPassedPolicy
  <2>5. Selected \notin ExecutionContext(inFlight).inFlight
    BY DEF ExecutionContext
  <2>6. CapReached(Selected, ExecutionContext(inFlight), policy, attempts)
    BY <2>1, <2>2, <2>3, <2>4, <2>5
       DEF Eligible, Executable, LinkTypes, ExecutionContext
  <2>7. ~CapReached(Selected, AnalysisContext(run.facts), policy, attempts)
    BY <2>2, <2>4 DEF Eligible
  <2> QED BY <2>6, <2>7 DEF CapReached, AttemptCapApplies, ExecutionContext, AnalysisContext
<1> QED BY <1>1, DecisionInvariantHolds, PTL

(***************************************************************************)
(* Whatever the evidence and whatever was rejected, the fallback has a     *)
(* probability for every candidate (ml/fallback.py                         *)
(* get_fallback_probability): an analysis without a model never fails.     *)
(***************************************************************************)
THEOREM FallbackIsComplete == Spec => []FallbackCoversCandidates
<1>1. ASSUME NEW f \in Facts, NEW excluded PROVE FallbackScores(f, excluded) # {}
  <2> DEFINE table == FallbackTable[Scenario(f)]
             actions == Candidates(f, excluded)
             prob == [a \in actions |-> IF a \in DOMAIN table THEN table[a] ELSE 0]
  <2>1. Scenario(f) \in
          {"ACTIVE_DOWNTIME", "INSUFFICIENT_FUNDS", "AUTHENTICATION_FAILURE",
           "BANK_OR_ISSUER_DECLINE", "EXPIRED_OR_INVALID_METHOD", "TECHNICAL_FAILURE",
           "SUBSCRIPTION_PENDING_RETRIES", "SUBSCRIPTION_HALTED",
           "SUBSCRIPTION_CONSERVATIVE", "UNKNOWN"}
    <3>1. Category(f) \in
            {"PAYMENT_RAIL_DOWNTIME", "INSUFFICIENT_FUNDS", "AUTHENTICATION_FAILURE",
             "BANK_OR_ISSUER_DECLINE", "EXPIRED_OR_INVALID_METHOD",
             "MANDATE_OR_RECURRING_FAILURE", "TECHNICAL_FAILURE", "UNKNOWN"}
      BY DEF Category, Mapped, ErrorReasonMap
    <3> QED BY <3>1 DEF Scenario, ScenarioOf, CandidateContext
  <2>2. Matrix[Scenario(f)] \subseteq DOMAIN table \cup {"STOP"}
    BY <2>1 DEF Matrix, FallbackTable, LinkTypes, RecurringActions
  <2>3. actions \ {"STOP"} \subseteq DOMAIN table
    BY <2>2 DEF Candidates, Generated, Scenario
  <2>4. prob \in FallbackScores(f, excluded)
    BY <2>3 DEF FallbackScores
  <2> QED BY <2>4
<1>2. FallbackCoversCandidates
  BY <1>1 DEF FallbackCoversCandidates
<1> QED BY <1>2, PTL

------------------------------------------------------------------------------
(* The simulator *)

\* Tables that agree on what the sort key and the selection read are selected from alike.
LEMMA SelectionReadsKey ==
  ASSUME NEW rows, NEW other, DOMAIN rows = DOMAIN other, Tabular(rows),
         \A a \in DOMAIN rows : /\ other[a].probability = rows[a].probability
                               /\ other[a].value = rows[a].value
                               /\ other[a].eligible = rows[a].eligible
  PROVE  SelectInOrder(other) = SelectInOrder(rows)
<1>1. Viable(other) = Viable(rows)
  BY DEF Viable
<1>2. \A a, b \in DOMAIN rows : Before(other, a, b) <=> Before(rows, a, b)
  BY DEF Before
<1>3. CASE Viable(rows) = {}
  BY <1>1, <1>3 DEF SelectInOrder
<1>4. CASE Viable(rows) # {}
  <2> DEFINE V == Viable(rows)
             First(a) == \A b \in V : b = a \/ Before(rows, a, b)
             FirstOther(a) == \A b \in V : b = a \/ Before(other, a, b)
  <2>1. V \subseteq DOMAIN rows
    BY DEF Viable
  <2>2. \A a \in V : First(a) <=> FirstOther(a)
    BY <1>2, <2>1
  <2>3. SelectInOrder(rows) \in V /\ First(SelectInOrder(rows))
    BY <1>4, SelectionsAgree
  <2>4. \A a, b \in V : First(a) /\ First(b) => a = b
    BY <2>1, BeforeIsOrder
  <2>5. SelectInOrder(other) = CHOOSE a \in V : FirstOther(a)
    BY <1>1, <1>4 DEF SelectInOrder
  <2> HIDE DEF V, First, FirstOther
  <2> QED BY <2>2, <2>3, <2>4, <2>5
<1> QED BY <1>3, <1>4

\* A request for the scenario of a case gives the candidate context of the case.
LEMMA EquivalentContext ==
  ASSUME NEW f \in Facts, NEW method
  PROVE  SimulatedContext(EquivalentRequest(f, method)) = CandidateContext(f)
<1>1. \/ f.kind = "PAYMENT_FAILURE" /\ f.status = "none"
      \/ f.kind = "SUBSCRIPTION_FAILURE"
  BY DEF Facts, PaymentFacts, SubscriptionFacts
<1> QED
  BY <1>1 DEF SimulatedContext, EquivalentRequest, CandidateContext, ProviderRetriesActive

(***************************************************************************)
(* For every policy, amount and probability the simulator offers the       *)
(* actions of the analysis, values and blocks them alike and selects the   *)
(* same one (services/simulator.py: "not a second engine").                *)
(***************************************************************************)
THEOREM SimulatorIsFaithful == Spec => []SimulatorAgrees
<1>1. ASSUME DecisionInvariant PROVE SimulatorAgrees
  <2> SUFFICES ASSUME stage = "recommended",
                      DOMAIN run.rows = Candidates(run.facts, {}),
                      NEW method \in {"known", "unknown"}
               PROVE  LET q == EquivalentRequest(run.facts, method)
                          prob == [a \in DOMAIN run.rows |-> run.rows[a].probability]
                          rows == Simulated(q, prob, policy, amount, attempts)
                      IN  /\ Generated(SimulatedContext(q)) = DOMAIN run.rows
                          /\ \A a \in DOMAIN rows :
                               /\ rows[a].value = run.rows[a].value
                               /\ rows[a].eligible = run.rows[a].eligible
                          /\ SelectInOrder(rows) = Selected
    BY DEF SimulatorAgrees
  <2> DEFINE q == EquivalentRequest(run.facts, method)
             D == DOMAIN run.rows
             prob == [a \in D |-> run.rows[a].probability]
             rows == Simulated(q, prob, policy, amount, attempts)
  <2>1. Decided /\ Computed(attempts)
    BY <1>1 DEF DecisionInvariant, Decided
  <2>2. PICK f \in Facts, b \in Backgrounds :
          \E p : Scored(p) /\ run = Analysis(f, b, p, policy, amount, attempts)
    BY <2>1 DEF Computed
  <2>3. PICK p : Scored(p) /\ run = Analysis(f, b, p, policy, amount, attempts)
    BY <2>2
  <2>4. run.facts = f /\ run.rows = Rows(f, p, Present(f, b), policy, amount, attempts)
    BY <2>3 DEF Analysis
  <2>5. SimulatedContext(q) = CandidateContext(f)
    BY <2>4, EquivalentContext
  <2>6. Generated(SimulatedContext(q)) = D
    <3>1. Scenario(f) \in DOMAIN Matrix
      <4>1. Category(f) \in
              {"PAYMENT_RAIL_DOWNTIME", "INSUFFICIENT_FUNDS", "AUTHENTICATION_FAILURE",
               "BANK_OR_ISSUER_DECLINE", "EXPIRED_OR_INVALID_METHOD",
               "MANDATE_OR_RECURRING_FAILURE", "TECHNICAL_FAILURE", "UNKNOWN"}
        BY DEF Category, Mapped, ErrorReasonMap
      <4> QED BY <4>1 DEF Scenario, ScenarioOf, CandidateContext, Matrix
    <3>2. \A s \in DOMAIN Matrix : "STOP" \in Matrix[s]
      BY DEF Matrix, RecurringActions
    <3>3. "STOP" \in Generated(CandidateContext(f))
      BY <3>1, <3>2 DEF Generated, Scenario
    <3> QED BY <2>4, <2>5, <3>3 DEF Candidates
  <2>7. DOMAIN rows = D /\ D = DOMAIN p
    BY <2>4 DEF Simulated, Evaluated, Rows
  <2>8. \A a \in D : prob[a] = p[a]
    BY <2>4, <2>7 DEF Rows, Evaluated
  <2>9. ASSUME NEW a \in D
        PROVE  /\ rows[a].probability = run.rows[a].probability
               /\ rows[a].value = run.rows[a].value
               /\ rows[a].eligible = run.rows[a].eligible
    <3>1. [exempt |-> SimulatedContext(q).retries, downtime |-> q.degraded,
           inFlight |-> {}, auto |-> FALSE] = AnalysisContext(f)
      <4>1. SimulatedContext(q).retries = ProviderRetriesActive(f)
        BY <2>5 DEF CandidateContext
      <4>2. q.degraded = (Category(f) = "PAYMENT_RAIL_DOWNTIME")
        BY <2>4 DEF EquivalentRequest
      <4> HIDE DEF q
      <4> QED BY <4>1, <4>2 DEF AnalysisContext
    <3>2. /\ rows[a].probability = prob[a]
          /\ rows[a].value = ExpectedValue(a, amount, prob[a])
          /\ rows[a].eligible = Eligible(a, AnalysisContext(f), policy, attempts)
      BY <3>1 DEF Simulated, Evaluated
    <3>3. /\ run.rows[a].value = ExpectedValue(a, amount, p[a])
          /\ run.rows[a].eligible = Eligible(a, AnalysisContext(f), policy, attempts)
      BY <2>4, <2>7 DEF Rows, Evaluated
    <3> QED BY <2>8, <3>2, <3>3
  <2>10. SelectInOrder(rows) = SelectInOrder(run.rows)
    <3>1. Tabular(run.rows)
      BY <1>1, <2>1, RunFacts
    <3> HIDE DEF rows
    <3> QED BY <2>7, <2>9, <3>1, SelectionReadsKey
  <2>11. SelectInOrder(run.rows) = Selected
    BY <1>1, <2>1, RunFacts
  <2> QED BY <2>6, <2>7, <2>9, <2>10, <2>11
<1> QED BY <1>1, DecisionInvariantHolds, PTL

=============================================================================
