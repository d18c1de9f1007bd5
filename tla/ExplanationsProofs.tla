-------------------------- MODULE ExplanationsProofs --------------------------
(***************************************************************************)
(* Proofs about Explanations, for any analyses, model answers and number   *)
(* of requests: a shown explanation describes the row that would be        *)
(* executed, and a missing one has one of two causes.                      *)
(***************************************************************************)
EXTENDS Explanations, TLAPS, FiniteSetTheorems

\* What the template says of the approval is so.
ApprovalStated(t, c) == t.approval = IF c.approval THEN "required" ELSE "not required"

\* What a request keeps about the row it has read and the text it has accepted.
JobInv(q) ==
  /\ job[q].at # "idle" => job[q].run \in 1..current
  /\ job[q].at \in {"asked", "fallback"} \/ Shown(q) => Executed(runs[job[q].run], job[q].row)
  /\ Shown(q) => Accepted(job[q].text, job[q].row)
  /\ Shown(q) /\ job[q].source = "TEMPLATE_FALLBACK" => ApprovalStated(job[q].text, job[q].row)
  /\ job[q].at = "done" /\ job[q].source = "none" =>
       current > job[q].run \/ Exponential(job[q].row.probability)

IInv == TypeOK /\ (\A q \in Requests : JobInv(q))

Jobs == [at : {"idle", "committed", "asked", "fallback", "done"},
         run : 0..current, row : Rows, text : TextRecords, source : Sources]

------------------------------------------------------------------------------
(* Rows and texts *)

\* The row that is explained is the one an execution would be based on.
LEMMA ExplainedIsExecuted ==
  ASSUME NEW rows \in Analyses, NEW c \in Explained(rows)
  PROVE  c \in Rows /\ Executed(rows, c)
  <1>1. rows \subseteq Rows
    BY ExplanationsAssumption
  <1>2. \A d \in rows : d.rank \in Int
    BY <1>1 DEF Rows, Ranks
  <1>3. CASE Viable(rows) = {}
    BY <1>1, <1>3 DEF Explained, Viable, Executed
  <1>4. CASE Viable(rows) # {}
    BY <1>1, <1>4 DEF Explained, Viable, Executed
  <1> QED
    BY <1>3, <1>4

\* A text that the validation accepts says nothing of the row but what is in it.
LEMMA AcceptedIsTrue ==
  ASSUME NEW t, NEW c, Accepted(t, c)
  PROVE  /\ t.names \subseteq {c.action}
         /\ \A p \in Signed(t) : p.value \in {c.probability, c.confidence}
         /\ t.evidence \subseteq c.factors \ {"MODEL_METADATA", "INFERENCE_FALLBACK"}
         /\ c.approval => t.approval # "denied"
  <1>1. \A v : PercentsAllowed(v) \subseteq {v}
    BY DEF PercentsAllowed
  <1>2. ASSUME NEW p \in Signed(t) PROVE p.value \in {c.probability, c.confidence}
    <2>1. p.value \in PercentsAllowed(IF p.near = "confidence" THEN c.confidence
                                                               ELSE c.probability)
      BY DEF Accepted, NumbersAccepted
    <2> QED
      BY <1>1, <2>1
  <1> QED
    BY <1>2 DEF Accepted, StatementsAccepted, SlipsAccepted, Explainable

LEMMA NoTextTyped == NoText \in TextRecords
  BY DEF NoText, TextRecords

\* The template is a text, and passes its own validation unless the probability is
\* written with an exponent.
LEMMA TemplateTyped ==
  ASSUME NEW c \in Rows, NEW e \in TopEvidence(c)
  PROVE  Template(c, e) \in TextRecords
  <1>1. PercentRead(c.probability) \in Tenths
    BY DEF PercentRead, Rows, Tenths
  <1>2. e \subseteq FactorCodes \cup {"generic"}
    BY DEF TopEvidence, Explainable, Rows
  <1>3. c.action \in Actions
    BY DEF Rows
  <1> QED
    BY <1>1, <1>2, <1>3 DEF Template, TextRecords

LEMMA TemplateAccepted ==
  ASSUME NEW c \in Rows, "NO_RECENT_CONTACTS" \in c.factors, ~Exponential(c.probability),
         NEW e \in TopEvidence(c)
  PROVE  Accepted(Template(c, e), c)
  <1>1. e \subseteq Explainable(c) /\ e # {}
    <2>1. Explainable(c) # {}
      BY DEF Explainable
    <2>2. e \subseteq Explainable(c) /\ Cardinality(e) \in {1, 2}
      BY <2>1 DEF TopEvidence
    <2> QED
      BY <2>2, FS_EmptySet
  <1>2. /\ Template(c, e).percents
             = {[value |-> c.probability, near |-> "elsewhere", form |-> "sign"]}
        /\ Template(c, e).money = {}
        /\ Template(c, e).evidence = e
        /\ Template(c, e).names = {c.action}
        /\ Template(c, e).approval = IF c.approval THEN "required" ELSE "not required"
        /\ Template(c, e).slips = {}
    BY DEF Template, PercentRead
  <1>3. NumbersAccepted(Template(c, e), c)
    <2>1. PercentsAllowed(c.probability) = {c.probability}
      BY DEF PercentsAllowed
    <2>2. ASSUME NEW p \in Template(c, e).percents
          PROVE  p.value = c.probability /\ p.near = "elsewhere" /\ p.form = "sign"
      <3>1. p = [value |-> c.probability, near |-> "elsewhere", form |-> "sign"]
        BY <1>2
      <3> QED
        BY <3>1
    <2>3. "elsewhere" # "confidence"
      OBVIOUS
    <2>4. ASSUME NEW p \in Template(c, e).percents
          PROVE  p.value \in PercentsAllowed(IF p.near = "confidence" THEN c.confidence
                                                                     ELSE c.probability)
      BY <2>1, <2>2, <2>3
    <2>5. "fraction" # "sign"
      OBVIOUS
    <2> QED
      BY <1>2, <2>2, <2>4, <2>5 DEF NumbersAccepted, Signed
  <1>4. StatementsAccepted(Template(c, e), c)
    BY <1>1, <1>2 DEF StatementsAccepted
  <1>5. SlipsAccepted(Template(c, e), c)
    BY <1>2 DEF SlipsAccepted
  <1> QED
    BY <1>3, <1>4, <1>5 DEF Accepted

------------------------------------------------------------------------------
(* The steps *)

LEMMA NoRowTyped == NoRow \in Rows
  BY DEF NoRow, Rows, Ranks, Actions, Tenths

LEMMA InitInvariant == ASSUME Init PROVE IInv
  <1>2. TypeOK
    BY NoRowTyped, NoTextTyped, ExplanationsAssumption
       DEF Init, TypeOK, Idle, Fresh, NoDraft, Inputs, Sources
  <1>3. \A q \in Requests : JobInv(q)
    BY DEF Init, JobInv, Idle, Fresh, Shown
  <1> QED
    BY <1>2, <1>3 DEF IInv

\* A run that is committed leaves the earlier ones as they were.
LEMMA CommitKeeps ==
  ASSUME TypeOK, NEW rows \in Analyses, Commit(rows)
  PROVE  /\ current' = current + 1
         /\ current' \in 0..MaxRuns
         /\ runs' \in [1..MaxRuns -> Analyses \cup {{}}]
         /\ \A r \in 1..current : runs'[r] = runs[r]
  BY ExplanationsAssumption DEF TypeOK, Commit

\* A request that a step leaves alone keeps what it has, although runs may be added.
LEMMA JobKept ==
  ASSUME TypeOK, NEW q \in Requests, JobInv(q), job'[q] = job[q],
         current' \in Int, current' >= current,
         \A r \in 1..current : runs'[r] = runs[r]
  PROVE  JobInv(q)'
  <1>1. current \in Int /\ job[q].run \in Int
    BY ExplanationsAssumption DEF TypeOK
  <1>2. job[q].at # "idle" => runs'[job[q].run] = runs[job[q].run]
    BY DEF JobInv
  <1> QED
    BY <1>1, <1>2 DEF JobInv, Shown

LEMMA JobsGrow ==
  ASSUME TypeOK, current' = current + 1
  PROVE  job \in [Requests -> Jobs']
  BY ExplanationsAssumption DEF TypeOK, Jobs

LEMMA AnalyzeKeeps == ASSUME IInv, NEW q \in Requests, Analyze(q) PROVE IInv'
  <1>1. PICK rows \in Analyses : Commit(rows)
    BY DEF Analyze
  <1>2. /\ current' = current + 1
        /\ current' \in 0..MaxRuns
        /\ runs' \in [1..MaxRuns -> Analyses \cup {{}}]
        /\ \A r \in 1..current : runs'[r] = runs[r]
    BY <1>1, CommitKeeps DEF IInv
  <1>3. current \in Int /\ current >= 0
    BY ExplanationsAssumption DEF IInv, TypeOK
  <1> DEFINE j == Fresh("committed", current')
  <1>4. j.at = "committed" /\ j.run = current' /\ j.source = "none"
    BY DEF Fresh
  <1>5. j \in Jobs'
    <2>1. j = [at |-> "committed", run |-> current', row |-> NoRow, text |-> NoText,
               source |-> "none"]
      BY DEF Fresh
    <2>2. current' \in 0..current'
      BY <1>2, <1>3
    <2> HIDE DEF j
    <2> QED
      BY <2>1, <2>2, NoRowTyped, NoTextTyped DEF Jobs, Sources
  <1>6. job' = [job EXCEPT ![q] = j]
    BY DEF Analyze
  <1>7. TypeOK'
    <2>1. job \in [Requests -> Jobs']
      BY <1>2, JobsGrow DEF IInv
    <2>2. job' \in [Requests -> Jobs']
      BY <1>5, <1>6, <2>1
    <2> QED
      BY <1>2, <2>2 DEF IInv, TypeOK, Analyze, Jobs
  <1>8. ASSUME NEW p \in Requests PROVE JobInv(p)'
    <2>1. CASE p = q
      <3>1. job'[q] = j
        BY <1>6 DEF IInv, TypeOK
      <3> HIDE DEF j
      <3> QED
        BY <1>2, <1>3, <1>4, <2>1, <3>1 DEF JobInv, Shown
    <2>2. CASE p # q
      <3>1. job'[p] = job[p]
        BY <1>6, <2>2 DEF IInv, TypeOK
      <3> QED
        BY <1>2, <1>3, <3>1, JobKept DEF IInv
    <2> QED
      BY <2>1, <2>2
  <1> QED
    BY <1>7, <1>8 DEF IInv

LEMMA ReanalyzeKeeps == ASSUME IInv, Reanalyze PROVE IInv'
  <1>1. PICK rows \in Analyses : Commit(rows)
    BY DEF Reanalyze
  <1>2. /\ current' = current + 1
        /\ current' \in 0..MaxRuns
        /\ runs' \in [1..MaxRuns -> Analyses \cup {{}}]
        /\ \A r \in 1..current : runs'[r] = runs[r]
    BY <1>1, CommitKeeps DEF IInv
  <1>3. current \in Int
    BY ExplanationsAssumption DEF IInv, TypeOK
  <1>4. TypeOK'
    <2>1. job \in [Requests -> Jobs']
      BY <1>2, JobsGrow DEF IInv
    <2> QED
      BY <1>2, <2>1 DEF IInv, TypeOK, Reanalyze, Jobs
  <1>5. ASSUME NEW p \in Requests PROVE JobInv(p)'
    BY <1>2, <1>3, JobKept DEF IInv, Reanalyze
  <1> QED
    BY <1>4, <1>5 DEF IInv

\* A step of one request that commits no run.
LEMMA OneRequestMoves ==
  ASSUME IInv, NEW q \in Requests, NEW j \in Jobs, job' = [job EXCEPT ![q] = j],
         UNCHANGED <<llm, runs, current, draft>>, JobInv(q)'
  PROVE  IInv'
  <1>1. current \in Int
    BY ExplanationsAssumption DEF IInv, TypeOK
  <1>2. TypeOK'
    BY DEF IInv, TypeOK, Jobs
  <1>3. ASSUME NEW p \in Requests, p # q PROVE JobInv(p)'
    <2>1. job'[p] = job[p]
      BY <1>3 DEF IInv, TypeOK
    <2> QED
      BY <1>1, <2>1, JobKept DEF IInv
  <1> QED
    BY <1>2, <1>3 DEF IInv

\* A request that is answered, with a text that its row bears out or with none.
LEMMA FinishKeeps ==
  ASSUME IInv, NEW q \in Requests, NEW t \in TextRecords, NEW source \in Sources,
         Finish(q, t, source), UNCHANGED <<llm, runs, current, draft>>,
         job[q].at # "idle",
         source # "none" =>
           Executed(runs[job[q].run], job[q].row) /\ Accepted(t, job[q].row),
         source = "TEMPLATE_FALLBACK" => ApprovalStated(t, job[q].row),
         source = "none" =>
           current > job[q].run \/ Exponential(job[q].row.probability)
  PROVE  IInv'
  <1> DEFINE j == [job[q] EXCEPT !.at = "done", !.text = t, !.source = source]
  <1>1. job[q] \in Jobs /\ job[q].run \in 1..current
    BY DEF IInv, TypeOK, Jobs, JobInv
  <1>2. j \in Jobs
    BY <1>1 DEF Jobs
  <1>3. /\ j.at = "done" /\ j.run = job[q].run /\ j.row = job[q].row
        /\ j.text = t /\ j.source = source
    BY <1>1 DEF Jobs
  <1>4. job' = [job EXCEPT ![q] = j]
    BY DEF Finish
  <1> HIDE DEF j
  <1>5. job'[q] = j
    BY <1>4 DEF IInv, TypeOK
  <1>6. JobInv(q)'
    BY <1>1, <1>3, <1>5 DEF JobInv, Shown
  <1> QED
    BY <1>2, <1>4, <1>6, OneRequestMoves

\* A request that goes on to ask the model or to use the template.
LEMMA GoesOn ==
  ASSUME IInv, NEW q \in Requests, NEW c \in Rows, NEW at \in {"asked", "fallback"},
         job' = [job EXCEPT ![q] = [@ EXCEPT !.at = at, !.row = c]],
         UNCHANGED <<llm, runs, current, draft>>,
         job[q].at # "idle", Executed(runs[job[q].run], c)
  PROVE  IInv'
  <1> DEFINE j == [job[q] EXCEPT !.at = at, !.row = c]
  <1>1. job[q] \in Jobs /\ job[q].run \in 1..current
    BY DEF IInv, TypeOK, Jobs, JobInv
  <1>2. j \in Jobs
    BY <1>1 DEF Jobs
  <1>3. j.at = at /\ j.run = job[q].run /\ j.row = c
    BY <1>1 DEF Jobs
  <1>4. job' = [job EXCEPT ![q] = j]
    OBVIOUS
  <1> HIDE DEF j
  <1>5. job'[q] = j
    BY <1>4 DEF IInv, TypeOK
  <1>6. JobInv(q)'
    BY <1>1, <1>3, <1>5 DEF JobInv, Shown
  <1> QED
    BY <1>2, <1>4, <1>6, OneRequestMoves

LEMMA ReadSupersededKeeps == ASSUME IInv, NEW q \in Requests, ReadSuperseded(q) PROVE IInv'
  <1>1. job[q].run \in 1..current /\ current \in Int
    BY ExplanationsAssumption DEF IInv, TypeOK, JobInv, ReadSuperseded
  <1>2. current > job[q].run
    BY <1>1 DEF ReadSuperseded
  <1> QED
    BY <1>2, NoTextTyped, FinishKeeps DEF ReadSuperseded, Sources

LEMMA ReadInputKeeps == ASSUME IInv, NEW q \in Requests, ReadInput(q) PROVE IInv'
  <1>1. PICK c \in Explained(runs[job[q].run]) :
          job' = [job EXCEPT ![q] = [@ EXCEPT !.at = IF llm THEN "asked" ELSE "fallback",
                                              !.row = c]]
    BY DEF ReadInput
  <1>2. job[q].run \in 1..MaxRuns
    BY ExplanationsAssumption DEF IInv, TypeOK, JobInv, ReadInput
  <1>3. runs[job[q].run] \in Analyses
    <2>1. runs[job[q].run] \in Analyses \cup {{}}
      BY <1>2 DEF IInv, TypeOK
    <2>2. runs[job[q].run] # {}
      BY <1>1 DEF Explained, Viable
    <2> QED
      BY <2>1, <2>2
  <1>4. c \in Rows /\ Executed(runs[job[q].run], c)
    BY <1>1, <1>3, ExplainedIsExecuted
  <1> QED
    BY <1>1, <1>4, GoesOn DEF ReadInput

\* The row stays; only the place of the request changes.
LEMMA FallsBackKeeps ==
  ASSUME IInv, NEW q \in Requests, job[q].at = "asked",
         job' = [job EXCEPT ![q] = [@ EXCEPT !.at = "fallback"]],
         UNCHANGED <<llm, runs, current, draft>>
  PROVE  IInv'
  <1>1. job[q] \in Jobs
    BY DEF IInv, TypeOK, Jobs
  <1>2. [job[q] EXCEPT !.at = "fallback"]
          = [job[q] EXCEPT !.at = "fallback", !.row = job[q].row]
    BY <1>1 DEF Jobs
  <1>3. job[q].row \in Rows /\ Executed(runs[job[q].run], job[q].row)
    BY <1>1 DEF Jobs, IInv, JobInv
  <1> QED
    BY <1>2, <1>3, GoesOn

LEMMA AnsweredKeeps == ASSUME IInv, NEW q \in Requests, Answered(q) PROVE IInv'
  <1>1. PICK t \in Texts :
          IF Accepted(t, job[q].row)
          THEN Finish(q, t, "LLM")
          ELSE job' = [job EXCEPT ![q] = [@ EXCEPT !.at = "fallback"]]
    BY DEF Answered
  <1>2. CASE Accepted(t, job[q].row)
    <2>1. t \in TextRecords
      BY ExplanationsAssumption
    <2>2. Executed(runs[job[q].run], job[q].row)
      BY DEF Answered, IInv, JobInv
    <2> QED
      BY <1>1, <1>2, <2>1, <2>2, FinishKeeps DEF Answered, Sources
  <1>3. CASE ~Accepted(t, job[q].row)
    BY <1>1, <1>3, FallsBackKeeps DEF Answered
  <1> QED
    BY <1>2, <1>3

LEMMA TimesOutKeeps == ASSUME IInv, NEW q \in Requests, TimesOut(q) PROVE IInv'
  BY FallsBackKeeps DEF TimesOut

LEMMA FallBackKeeps == ASSUME IInv, NEW q \in Requests, FallBack(q) PROVE IInv'
  <1> DEFINE c == job[q].row
  <1>1. PICK e \in TopEvidence(c) :
          IF Accepted(Template(c, e), c)
          THEN Finish(q, Template(c, e), "TEMPLATE_FALLBACK")
          ELSE Finish(q, NoText, "none")
    BY DEF FallBack
  <1>2. c \in Rows /\ Executed(runs[job[q].run], c)
    BY DEF FallBack, IInv, JobInv, TypeOK
  <1>3. "NO_RECENT_CONTACTS" \in c.factors
    <2>1. runs[job[q].run] \in Analyses \cup {{}}
      BY ExplanationsAssumption DEF FallBack, IInv, JobInv, TypeOK
    <2>2. c \in runs[job[q].run]
      BY <1>2 DEF Executed
    <2>3. runs[job[q].run] \in Analyses
      BY <2>1, <2>2
    <2> QED
      BY <2>2, <2>3, ExplanationsAssumption
  <1> HIDE DEF c
  <1>4. CASE Accepted(Template(c, e), c)
    <2>1. Template(c, e) \in TextRecords
      BY <1>2, TemplateTyped
    <2>2. ApprovalStated(Template(c, e), c)
      BY DEF ApprovalStated, Template
    <2> QED
      BY <1>1, <1>2, <1>4, <2>1, <2>2, FinishKeeps DEF FallBack, Sources, c
  <1>5. CASE ~Accepted(Template(c, e), c)
    <2>1. Exponential(c.probability)
      BY <1>2, <1>3, <1>5, TemplateAccepted
    <2> QED
      BY <1>1, <1>5, <2>1, NoTextTyped, FinishKeeps DEF FallBack, Sources, c
  <1> QED
    BY <1>4, <1>5

LEMMA DraftKeeps == ASSUME IInv, NEW in \in Inputs, Draft(in) PROVE IInv'
  <1>1. PICK t \in TextRecords, source \in {"LLM", "TEMPLATE_FALLBACK"} :
          MessageAccepted(t, in) /\ draft' = [input |-> in, text |-> t, source |-> source]
    <2>1. Message(in) \in TextRecords
      BY DEF Message, NoText, TextRecords, MoneyTokens
    <2>2. Texts \subseteq TextRecords
      BY ExplanationsAssumption
    <2> QED
      BY <2>1, <2>2 DEF Draft
  <1>2. TypeOK'
    BY <1>1 DEF IInv, TypeOK, Draft, Sources
  <1>3. ASSUME NEW p \in Requests PROVE JobInv(p)'
    BY DEF IInv, JobInv, Shown, Draft
  <1> QED
    BY <1>2, <1>3 DEF IInv

LEMMA NextKeeps == ASSUME IInv, [Next]_vars PROVE IInv'
  <1>1. CASE UNCHANGED vars
    BY <1>1 DEF vars, IInv, TypeOK, JobInv, Shown
  <1>2. ASSUME NEW q \in Requests, Request(q) PROVE IInv'
    BY <1>2, AnalyzeKeeps, ReadSupersededKeeps, ReadInputKeeps, AnsweredKeeps, TimesOutKeeps,
       FallBackKeeps DEF Request
  <1>3. CASE Reanalyze
    BY <1>3, ReanalyzeKeeps
  <1>4. ASSUME NEW in \in Inputs, Draft(in) PROVE IInv'
    BY <1>4, DraftKeeps
  <1> QED
    BY <1>1, <1>2, <1>3, <1>4 DEF Next

------------------------------------------------------------------------------
(* Theorems *)

THEOREM Invariant == Spec => []IInv
  BY InitInvariant, NextKeeps, PTL DEF Spec

\* Runs, requests and drafts stay well-formed.
THEOREM TypeCorrect == Spec => []TypeOK
  BY Invariant, PTL DEF IInv

(***************************************************************************)
(* A shown explanation describes the row that an execution would be based  *)
(* on: its action, its factors and what is written with a percent sign,    *)
(* whatever the model answers and however often the case is analysed       *)
(* again.  What a model says of approval in words that nobody looks for is *)
(* not among it.                                                           *)
(***************************************************************************)
THEOREM ShownIsTrue == Spec => []ShownDescribesSelected
  <1>1. IInv => ShownDescribesSelected
    <2> SUFFICES ASSUME IInv, NEW q \in Requests, Shown(q)
                 PROVE  \E c \in runs[job[q].run] :
                          /\ Executed(runs[job[q].run], c)
                          /\ job[q].text.names \subseteq {c.action}
                          /\ \A p \in Signed(job[q].text) :
                               p.value \in {c.probability, c.confidence}
                          /\ job[q].text.evidence
                               \subseteq c.factors \ {"MODEL_METADATA", "INFERENCE_FALLBACK"}
                          /\ c.approval => job[q].text.approval # "denied"
                          /\ job[q].source = "TEMPLATE_FALLBACK" =>
                               job[q].text.approval
                                 = IF c.approval THEN "required" ELSE "not required"
      BY DEF ShownDescribesSelected
    <2>1. Executed(runs[job[q].run], job[q].row) /\ Accepted(job[q].text, job[q].row)
      BY DEF IInv, JobInv
    <2>2. job[q].row \in runs[job[q].run]
      BY <2>1 DEF Executed
    <2>3. job[q].source = "TEMPLATE_FALLBACK" => ApprovalStated(job[q].text, job[q].row)
      BY DEF IInv, JobInv
    <2> QED
      BY <2>1, <2>2, <2>3, AcceptedIsTrue DEF ApprovalStated
  <1> QED
    BY <1>1, Invariant, PTL

\* No explanation is missing but for a newer run or a probability written with an exponent.
THEOREM SilenceExplained == Spec => []SilenceHasCause
  <1>1. IInv => SilenceHasCause
    BY DEF IInv, JobInv, SilenceHasCause
  <1> QED
    BY <1>1, Invariant, PTL

=============================================================================
