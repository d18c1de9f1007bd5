----------------------------- MODULE Explanations -----------------------------
(***************************************************************************)
(* The explanation of a recommendation and the draft of a customer message *)
(* (ai/explanations.py, validation.py, fallback.py, formatting.py,         *)
(* outreach.py, gemini_provider.py and the end of the analyze route).      *)
(*                                                                         *)
(* An analysis is committed first.  The same request then reads it back,   *)
(* ends its transaction, asks a language model within a budget, validates  *)
(* the answer against the facts of the selected candidate, and falls back  *)
(* to a template, which is validated too.  Whatever goes wrong, the        *)
(* response carries the analysis, if need be without an explanation.       *)
(*                                                                         *)
(* A text is the set of claims that the validation can tell apart; how     *)
(* analyses come about is RecoveryWorkflow's and DecisionEngine's matter.  *)
(***************************************************************************)
EXTENDS Integers, FiniteSets

CONSTANTS
  Requests,        \* analyze requests for one case
  MaxRuns,         \* bound: analysis runs
  Analyses,        \* candidate rows that one analysis may write
  Texts            \* explanations and messages that a language model may return

(***************************************************************************)
(* A candidate row.  Probability and confidence are in tenths of a percent *)
(* (format_probability_percent rounds to them); viable says that the row   *)
(* is eligible, executable, not STOP and of positive value.                *)
(***************************************************************************)
Actions ==
  {"WAIT", "RETRY_SAME_METHOD", "REQUEST_ALTERNATE_PAYMENT_METHOD", "CREATE_PAYMENT_LINK",
   "SEND_RECOVERY_MESSAGE", "ESCALATE_TO_HUMAN", "STOP"}
Ranks == 1..7         \* one for each action
Tenths == 0..1000
FactorCodes ==
  {"MODEL_METADATA", "INFERENCE_FALLBACK", "ACTIVE_RAIL_DOWNTIME", "RECENT_METHOD_SUCCESS",
   "NO_RECENT_CONTACTS", "STOP_SAFE_FLOOR"}

Rows ==
  [action : Actions, rank : Ranks, viable : BOOLEAN, eligible : BOOLEAN,
   probability : Tenths, confidence : Tenths, approval : BOOLEAN, factors : SUBSET FactorCodes]

Viable(rows) == {c \in rows : c.viable}

\* Deviation: the first rank is explained, whether or not it can be executed.
ExplainedTopRanked(rows) == {c \in rows : \A d \in rows : c.rank <= d.rank}

\* select_candidate_row; the ranks of a run differ, so this is at most one row.
Explained(rows) ==
  IF Viable(rows) = {} THEN {c \in rows : c.action = "STOP"}
  ELSE {c \in Viable(rows) : \A d \in Viable(rows) : c.rank <= d.rank}

(***************************************************************************)
(* The claims of a text.  A percentage has a value and says whether the    *)
(* word "confidence" stands within 45 characters of it; its digits are     *)
(* followed by the sign at once, or it is put into words ("60 percent",    *)
(* "60 %"), or it is the fraction 0.6 beside a word for probability.  A    *)
(* money token is one of the row's amounts, some digits inside one of      *)
(* them, or another.  Evidence "generic" is a sentence that no factor      *)
(* stands for.  Approval is "denied" in one of three phrases that the      *)
(* validation looks for, "not required" in any other words, among them the *)
(* template's own.  A foreign url is "unseen" outside the message of a     *)
(* draft (in its subject or button) or without http:// or https://.        *)
(***************************************************************************)
MoneyTokens == {"amount", "recovered", "digits of one", "another"}
Slips == {"provider down", "already recovered", "urgency", "fee", "authorised"}

TextRecords ==
  [percents : SUBSET [value : Tenths, near : {"confidence", "elsewhere"},
                      form : {"sign", "words", "fraction"}],
   money : SUBSET MoneyTokens,
   evidence : SUBSET (FactorCodes \cup {"generic"}),
   names : SUBSET Actions,
   approval : {"required", "not required", "denied", "silent"},
   slips : SUBSET Slips,
   urls : SUBSET {"ours", "foreign", "unseen"}]

NoText ==
  [percents |-> {}, money |-> {}, evidence |-> {}, names |-> {}, approval |-> "silent",
   slips |-> {}, urls |-> {}]

ASSUME ExplanationsAssumption ==
  /\ MaxRuns \in Nat
  /\ \A rows \in Analyses :
       /\ rows \subseteq Rows
       /\ IsFiniteSet(rows)
       /\ \E c \in rows : c.action = "STOP"
       /\ \A c, d \in rows : c.rank = d.rank => c = d
       /\ \A c, d \in rows : c.action = d.action => c = d
       /\ \A c \in rows : "NO_RECENT_CONTACTS" \in c.factors
  /\ Texts \subseteq TextRecords

------------------------------------------------------------------------------
(* Numbers as text *)

(***************************************************************************)
(* Decimal.normalize writes a positive multiple of ten percent with an     *)
(* exponent: 60% becomes 6E+1%, and 100% becomes 1E+2%.                    *)
(***************************************************************************)
Exponential(v) == v > 0 /\ v % 100 = 0

\* The percentage that the validation reads in a phrase: of 6E+1% the 1%.
PercentRead(v) ==
  IF ~Exponential(v) THEN v ELSE IF v = 1000 THEN 20 ELSE 10

\* No percentage equals a phrase with an exponent.
PercentsAllowed(v) == IF Exponential(v) THEN {} ELSE {v}

(***************************************************************************)
(* validate_explanation_semantics, for the row that is explained           *)
(***************************************************************************)
Explainable(c) == c.factors \ {"MODEL_METADATA", "INFERENCE_FALLBACK"}

Signed(t) == {p \in t.percents : p.form = "sign"}

\* A fraction passes beside the row's own percentage; what is put into words is not seen.
NumbersAccepted(t, c) ==
  /\ \A p \in Signed(t) :
       /\ p.value \in PercentsAllowed(IF p.near = "confidence" THEN c.confidence
                                                               ELSE c.probability)
       /\ p.value \in 1..9 => p.value = c.probability
  /\ (\E p \in t.percents : p.form = "fraction") => \E p \in Signed(t) : p.value = c.probability
  /\ "another" \notin t.money

StatementsAccepted(t, c) ==
  /\ t.evidence # {}
  /\ t.evidence \subseteq Explainable(c)
  /\ t.names \subseteq {c.action}

SlipsAccepted(t, c) ==
  /\ c.approval => t.approval # "denied"
  /\ c.eligible \/ "authorised" \notin t.slips
  /\ "ACTIVE_RAIL_DOWNTIME" \in c.factors \/ "provider down" \notin t.slips
  /\ t.slips \cap {"already recovered", "urgency", "fee"} = {}

Accepted(t, c) == NumbersAccepted(t, c) /\ StatementsAccepted(t, c) /\ SlipsAccepted(t, c)

\* Deviation: the two top factors include those that have no statement.
TemplateAnyFactor(c, evidence) ==
  [percents |-> {[value |-> PercentRead(c.probability), near |-> "elsewhere", form |-> "sign"]},
   money |-> {}, evidence |-> evidence \cup (c.factors \cap {"MODEL_METADATA"}),
   names |-> {c.action}, approval |-> IF c.approval THEN "required" ELSE "not required",
   slips |-> {}, urls |-> {}]

\* build_explanation_fallback, with the statements of the top factors as evidence.
Template(c, evidence) ==
  [percents |-> {[value |-> PercentRead(c.probability), near |-> "elsewhere", form |-> "sign"]},
   money |-> {}, evidence |-> evidence, names |-> {c.action},
   approval |-> IF c.approval THEN "required" ELSE "not required", slips |-> {}, urls |-> {}]

\* The statements of two top factors, whichever these are, or the only one.
TopEvidence(c) ==
  IF Explainable(c) = {} THEN {{"generic"}}
  ELSE {e \in SUBSET Explainable(c) :
          Cardinality(e) = IF Cardinality(Explainable(c)) = 1 THEN 1 ELSE 2}

------------------------------------------------------------------------------
(* Outreach *)

\* The approved action of a message; every other one is treated like WAIT.
Inputs == [action : {"CREATE_PAYMENT_LINK", "WAIT"}, url : BOOLEAN]

\* Of the urls that are seen the approved one must be there, if there is one, and no other.
LinksAccepted(t, in) == t.urls \ {"unseen"} = IF in.url THEN {"ours"} ELSE {}

MessageAccepted(t, in) ==
  /\ LinksAccepted(t, in)
  /\ "another" \notin t.money
  /\ t.slips \cap {"urgency", "fee"} = {}

\* build_outreach_fallback: only the template of a payment link has a place for it.
Message(in) ==
  [NoText EXCEPT !.money = {"amount"},
                 !.urls = IF in.action = "CREATE_PAYMENT_LINK" /\ in.url THEN {"ours"} ELSE {}]

------------------------------------------------------------------------------

VARIABLES
  llm,         \* whether a provider with a usable key is configured
  runs,        \* candidate rows of every analysis run of the case
  current,     \* recovery_cases.current_analysis_run_id, 0 for none
  job,         \* the analyze requests
  draft        \* the last outreach draft: its input, its text and its source

vars == <<llm, runs, current, job, draft>>

NoRow == [action |-> "STOP", rank |-> 1, viable |-> FALSE, eligible |-> FALSE,
          probability |-> 0, confidence |-> 0, approval |-> FALSE, factors |-> {}]

Fresh(at, run) == [at |-> at, run |-> run, row |-> NoRow, text |-> NoText, source |-> "none"]
Idle == Fresh("idle", 0)

NoDraft ==
  [input |-> [action |-> "WAIT", url |-> FALSE], text |-> NoText, source |-> "none"]

Init ==
  /\ llm \in BOOLEAN
  /\ runs = [r \in 1..MaxRuns |-> {}]
  /\ current = 0
  /\ job = [q \in Requests |-> Idle]
  /\ draft = NoDraft

\* An analysis run is committed: rows and current_analysis_run_id together.
Commit(rows) ==
  /\ current < MaxRuns
  /\ current' = current + 1
  /\ runs' = [runs EXCEPT ![current + 1] = rows]

\* analyze_recovery_case has returned, everything of it committed.
Analyze(q) ==
  /\ job[q].at = "idle"
  /\ \E rows \in Analyses : Commit(rows)
  /\ job' = [job EXCEPT ![q] = Fresh("committed", current')]
  /\ UNCHANGED <<llm, draft>>

\* The reanalysis after a rejection or a failure: nobody asks for an explanation.
Reanalyze ==
  /\ \E rows \in Analyses : Commit(rows)
  /\ UNCHANGED <<llm, job, draft>>

\* Deviation: the provider's name is returned as the source of the explanation.
FinishNamed(q, text, source) ==
  job' = [job EXCEPT ![q] = [@ EXCEPT !.at = "done", !.text = text,
                                      !.source = IF source = "LLM" THEN "gemini" ELSE source]]

Finish(q, text, source) ==
  job' = [job EXCEPT ![q] = [@ EXCEPT !.at = "done", !.text = text, !.source = source]]

\* _build_input raises when another run is current; the route answers without explanation.
ReadSuperseded(q) ==
  /\ job[q].at = "committed"
  /\ current # job[q].run
  /\ Finish(q, NoText, "none")
  /\ UNCHANGED <<llm, runs, current, draft>>

\* The rows are those of the request's own run; the read transaction ends here.
ReadInput(q) ==
  /\ job[q].at = "committed"
  /\ current = job[q].run
  /\ \E c \in Explained(runs[job[q].run]) :
       job' = [job EXCEPT ![q] = [@ EXCEPT !.at = IF llm THEN "asked" ELSE "fallback",
                                           !.row = c]]
  /\ UNCHANGED <<llm, runs, current, draft>>

\* The model's answer passes the schema; the validation decides.
Answered(q) ==
  /\ job[q].at = "asked"
  /\ \E t \in Texts :
       IF Accepted(t, job[q].row)
       THEN Finish(q, t, "LLM")
       ELSE job' = [job EXCEPT ![q] = [@ EXCEPT !.at = "fallback"]]
  /\ UNCHANGED <<llm, runs, current, draft>>

\* Deviation: the budget is not enforced.
TimesOutUnenforced(q) == job[q].at = "asked" /\ UNCHANGED vars

\* wait_for cancels the call after gemini_timeout_seconds, or the provider fails before.
TimesOut(q) ==
  /\ job[q].at = "asked"
  /\ job' = [job EXCEPT ![q] = [@ EXCEPT !.at = "fallback"]]
  /\ UNCHANGED <<llm, runs, current, draft>>

\* What the validation raises against the template leaves enrich, and the route catches it.
FallBack(q) ==
  /\ job[q].at = "fallback"
  /\ \E evidence \in TopEvidence(job[q].row) :
       LET t == Template(job[q].row, evidence) IN
       IF Accepted(t, job[q].row)
       THEN Finish(q, t, "TEMPLATE_FALLBACK")
       ELSE Finish(q, NoText, "none")
  /\ UNCHANGED <<llm, runs, current, draft>>

\* OutreachDraftService.generate; an input it refuses, and a template that its own
\* validation refuses, raise and leave no draft.
Draft(in) ==
  /\ in.action = "CREATE_PAYMENT_LINK" => in.url
  /\ \/ \E t \in Texts :
          /\ llm
          /\ MessageAccepted(t, in)
          /\ draft' = [input |-> in, text |-> t, source |-> "LLM"]
     \/ /\ MessageAccepted(Message(in), in)
        /\ draft' = [input |-> in, text |-> Message(in), source |-> "TEMPLATE_FALLBACK"]
  /\ UNCHANGED <<llm, runs, current, job>>

Request(q) ==
  Analyze(q) \/ ReadSuperseded(q) \/ ReadInput(q) \/ Answered(q) \/ TimesOut(q) \/ FallBack(q)

Next ==
  \/ \E q \in Requests : Request(q)
  \/ Reanalyze
  \/ \E in \in Inputs : Draft(in)

Spec == Init /\ [][Next]_vars

(***************************************************************************)
(* The thread of a request runs on, and the timer fires.  Nothing obliges  *)
(* the language model to answer or anyone to start a request.              *)
(***************************************************************************)
FairSpec ==
  /\ Spec
  /\ \A q \in Requests :
       WF_vars(ReadSuperseded(q) \/ ReadInput(q) \/ TimesOut(q) \/ FallBack(q))

------------------------------------------------------------------------------
(* Properties *)

Sources == {"none", "LLM", "TEMPLATE_FALLBACK"}

\* Runs, requests and drafts are well-formed; a request that was answered, or is
\* about to be, belongs to a committed run.
TypeOK ==
  /\ llm \in BOOLEAN
  /\ current \in 0..MaxRuns
  /\ runs \in [1..MaxRuns -> Analyses \cup {{}}]
  /\ job \in [Requests -> [at : {"idle", "committed", "asked", "fallback", "done"},
                          run : 0..current, row : Rows, text : TextRecords, source : Sources]]
  /\ draft \in [input : Inputs, text : TextRecords, source : Sources]

\* The row that an execution of the run would be based on.
Executed(rows, c) ==
  /\ c \in rows
  /\ c.viable \/ c.action = "STOP"
  /\ \A d \in rows : d.viable => c.viable /\ c.rank <= d.rank

Shown(q) == job[q].at = "done" /\ job[q].source # "none"

(***************************************************************************)
(* An explanation in a response argues for the action that would be        *)
(* executed, writes no percentage with a sign but that row's probability   *)
(* and confidence, cites only factors stored with the row, and does not    *)
(* deny its approval in one of the phrases that are looked for; the text   *)
(* of the template states the approval rightly.  All this also while other *)
(* requests analyse the same case again.                                   *)
(***************************************************************************)
ShownDescribesSelected ==
  \A q \in Requests : Shown(q) =>
    \E c \in runs[job[q].run] :
      /\ Executed(runs[job[q].run], c)
      /\ job[q].text.names \subseteq {c.action}
      /\ \A p \in Signed(job[q].text) : p.value \in {c.probability, c.confidence}
      /\ job[q].text.evidence \subseteq c.factors \ {"MODEL_METADATA", "INFERENCE_FALLBACK"}
      /\ c.approval => job[q].text.approval # "denied"
      /\ job[q].source = "TEMPLATE_FALLBACK" =>
           job[q].text.approval = IF c.approval THEN "required" ELSE "not required"

\* A committed analysis is answered without an explanation only if another run has
\* replaced it or its probability is a positive multiple of ten percent.
SilenceHasCause ==
  \A q \in Requests : job[q].at = "done" /\ job[q].source = "none" =>
    current > job[q].run \/ Exponential(job[q].row.probability)

\* A request whose analysis is committed is answered although the model may never be.
RequestEnds == \A q \in Requests : job[q].at = "committed" ~> job[q].at = "done"

\* docs/AI_ML_DESIGN.md: the API still returns analysis success with a template.
CommittedIsExplained ==
  \A q \in Requests : job[q].at = "done" /\ current = job[q].run => job[q].source # "none"

=============================================================================
