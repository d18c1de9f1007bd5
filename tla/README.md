# Verification of RevLoop's recovery workflow

RevLoop turns failed Razorpay payments into *recovery cases*: it analyses a case, recommends
an action, executes it (mostly by creating a Razorpay Payment Link) after an approval where
policy asks for one, and closes the case when a webhook verifies a payment. Paths below are
relative to `src/apps/api/app/` unless they start with `docs/` or `apps/`.

The state that matters lives in PostgreSQL rows that many short-lived actors share: request
threads (routes declared `def` run in a thread pool), the webhook coroutine, and a provider
that answers late, twice or never. There is no scheduler and no background worker: whatever
must happen happens because a request or a webhook makes it happen.

## 1. Inventory

| Component | State | Operations | Interacts by | Hard behaviour | What makes it correct |
|---|---|---|---|---|---|
| State machine (`workflows/state_machine.py`) | `recovery_cases.status, version` | `transition_case` | called by every other component; version-checked UPDATE and commit | stale versions, commits inside a caller's savepoint | moves only along the registry, one version per move, terminal is final, RECOVERED iff an outcome exists |
| Analysis (`workflows/recovery.py`, `repositories/recovery_analysis.py`) | `current_analysis_run_id`, recommendations | analyse, finalise a failure, reanalyse at once | three commits per analysis: enter, persist (no check of the case), complete | a payment or another request between the commits | one analysis at a time; runs replace each other in order, and none rewrites what an action was created from |
| Actions (`actions/service.py`, `actions/repository.py`) | `recovery_actions` rows, case row lock | create (stop, wait, stage, execute), approve, reject, reconcile; handling of provider answers | `SELECT ... FOR UPDATE`, partial unique index on EXECUTING, provider calls between two commits | duplicate clicks, reads before the lock, timeouts, late answers, crashes around the call | no second provider call, none without approval, rows agree with the provider, attempt cap |
| Webhooks (`services/provider_events.py`, `repositories/webhook_events.py`) | `webhook_events`, `transactions`, `subscriptions`, `recovery_outcomes` | claim, apply, create a case, resolve a case, acknowledge | HTTP from Razorpay, at least once, in any order | redelivery, reordering, two commits per event, version conflicts | no payment is lost, none resolves a case twice, older events do not undo newer ones |
| Policy (`policies/engine.py`, `actions/policy_context.py`) | merchant policy row | `evaluate_policy` | asked by analysis and executor with different facts | caps at their limit, facts that differ | caps hold; what is recommended is refused for known causes only |
| Decision engine (`recovery/*.py`, `ml/fallback.py`) | rows of a run, summary on the case | normalization, feature completeness, candidates, expected value, confidence, ranking, selection | pure functions in the analysis; rows read back by the executor | rounding, ties, fallbacks, two readings of the rows | the best eligible candidate, STOP when there is none; both readings agree |
| Simulator (`services/simulator.py`) | none | what-if evaluation of one failure | calls the engine's functions with a context of its own | a second derivation of the same facts | same candidates, values and selection as the analysis |
| Razorpay client (`integrations/razorpay/*.py`, `recovery/context.py`) | none | create link, bounded read retries, fetch by reference, downtime reads | HTTP | what may be retried, what an error means, an answer lost after the deed | a call with side effects is never repeated; a row says only what the provider's links allow |
| Explanations (`ai/*.py`) | none | explain the selected row, draft a message | language model within a budget, after the analysis is committed | wrong or late answers, a re-analysis meanwhile, a fallback that fails too | what is shown describes the row that would be executed; silence has a cause |
| Queries (`services/recovery_case_service.py`, `repositories/recovery_case_repo.py`, `repositories/analytics_repo.py`) | none | case list, case detail, dashboard summary | several SQL statements per report at READ COMMITTED | commits between two statements | a report does not contradict itself, and no case falls out of it |
| Trained model, demo, auth, console | artifact, caches, sessions | predictions, synthetic data, tokens | reads | | see section 8 |

The hazards that follow from this, each at the line where it bites, are in `PROJECT.json`.

## 2. Modules

- `StateMachine` - the transition registry, as sets of triples.
- `CaseLifecycle` - the abstract specification of one case: status, version and whether an
  outcome exists. One action.
- `Episode` - the abstract specification of one episode (a failed payment, a billing cycle): it is opened, closed or
  recovered, with what the recovery rests on. Both `RecoveryWorkflow` and `ProviderEvents` implement it.
- `RecoveryWorkflow` - analysis, actions, provider calls, approvals, customers' payments, webhook
  resolution, lost requests, lost webhooks and process restarts for one case. It is shown to
  implement `CaseLifecycle` (`Lifecycle == INSTANCE CaseLifecycle WITH recovered <- (outcome # None)`).
- `MCRecoveryWorkflow` - the model-checking instance, and what the documents say of a case that the
  code does not keep.
- `RecoveryWorkflowProofs` - type correctness.
- `RecoveryPaymentProofs` - both refinements, the payment invariants, nothing pending after recovery.
- `RecoveryActionProofs` - what concurrent requests do to the actions: one analysis, the attempt cap, approvals, provider
  calls, rows against the provider, unresolved links, runs.
- `ProviderEvents` - Razorpay's events about one payment and one subscription with several billing
  cycles, delivered at least once and in any order: ordering rules, creation and resolution of the case
  of each episode, claim and acknowledgement of each event. Request threads appear as moves of a case.
- `MCProviderEvents` - its model-checking instance, with what a test says of the next billing cycle.
- `ProviderEventsProofs` - type correctness, the ledger invariant, the ordering invariant, failures and their cases, the
  status of the subscription, what no later delivery takes back, the episodes it implements.
- `DecisionEngine` - what an analysis of one case decides: normalization, feature completeness, candidates, expected
  value, confidence, policy, ranking and selection, the rows and the summary it commits, the second policy question
  that the executor asks, and the simulator's derivation of the same decision.
- `MCDecisionEngine` - three merchants (the demo policy, a strict one, one with automation off) and two customers.
- `DecisionEngineProofs` - type correctness and every invariant of the engine.
- `PaymentLinkPort` - the abstract specification of one payment link action: the status of its row against the
  existence of the link.
- `ProviderClient` - the Razorpay adapter: the POST that creates a link, GETs tried three times, lookup by reference,
  outage lookup. It implements `PaymentLinkPort`.
- `MCProviderClient`, `ProviderClientProofs` - its instance; type correctness, the refinement and its invariants.
- `Explanations` - the end of an analyze request: input, language model, validation, template; outreach drafts.
- `MCExplanations`, `ExplanationsProofs` - its instance, with analyses and right and wrong texts; its invariants.
- `ReadModels` - summary, case detail and case list, one SQL statement per step, beside the commits of the workflow.
- `MCReadModels`, `ReadModelsProofs` - its instance; type correctness and its invariants.

`DecisionEngine` computes what `RecoveryWorkflow` leaves open: there an analysis returns any member of `Selectable`
and the executor any verdict. `RecommendationIsSelectable` says that what is computed is a member. In turn
`RecoveryWorkflow` has the requests, locks and provider answers that `DecisionEngine` shortens to one action each.

`ProviderClient` stands to the provider steps of `RecoveryWorkflow` in the same way: there `PostAccepted`,
`PostUnknown`, `PostRefused` and the reconciliations are choices with a meaning (accepted: the link exists; refused: it
never will; unknown: either), and `RowAgreesWithProvider` rests on it. `PaymentLinkPort` states that meaning and
`PortImplemented` shows that the HTTP answers, error classes and lookups give it.

`Explanations` and `ReadModels` have readers of rows the others write. They take any analysis that satisfies their
assumption on candidate lists: a STOP row, distinct ranks, and in `ReadModels` a first rank (`DecisionEngine`'s
`TypeOK` and `RankFollowsOrder` are the reason it may be assumed). `ReadModels` uses `StateMachine` for its writers, with
the couplings of `RecoveryWorkflow` that reports can tell: rows and run pointer in one commit, outcome and RECOVERED in
one commit, the action row in the commit of the transition that inserts it.

`RecoveryWorkflow` and `ProviderEvents` meet in the webhook's resolution of a case. The first has one case
and all that requests do to it; its webhook carries a payment that is verified already. The second has all
that webhooks do; of the requests it keeps that they move a case, close it, or change its version under
the handler. A composition of the two would multiply their state spaces without a race that neither has.

Operators named in a comment as a *Deviation* are variants of the definition below them, as a
plausible mistake would have it. The specification does not use them; they document that each
property is sensitive to the code it is about (`mutants` in `PROJECT.json`).

### State of `RecoveryWorkflow`

| Variable | Code |
|---|---|
| `status`, `version`, `run` | `recovery_cases.status`, `.version`, `.current_analysis_run_id` (0: null) |
| `outcome` | the payment named by the `recovery_outcomes` row |
| `recs`, `runs` | the selected candidate of each persisted run; run ids drawn |
| `acts`, `attempts` | `recovery_actions` by `attempt_number`; their number |
| `posts`, `links` | at Razorpay: create-link calls received per action, links that exist |
| `money` | each payment, from unpaid over "sent" (its event is not acknowledged) to what became of its event |
| `job` | program counter and local variables of each request thread |
| `lock` | the request that keeps the row lock of the case between two steps |
| `hook` | what the webhook coroutine has read |

### State of `ProviderEvents`

| Variable | Code |
|---|---|
| `sent`, `clock`, `proof` | at Razorpay: when each event happened (seconds, per payment or subscription), and what the payment in a success event proves |
| `known` | whether `_correlate_*` finds the local customer and subscription |
| `row` | `webhook_events.processing_status`; FLAGGED is IGNORED with `TERMINAL_STATE_RECONCILIATION_REQUIRED` |
| `txn`, `sub` | `transactions.status, last_provider_event_at`; `subscriptions.status, last_provider_event_at` |
| `cases`, `outcome` | per episode: the case (closed is FAILED or STOPPED) and what its outcome row rests on |
| `hook` | the handler between its read of the case and `mark_processed`; `moved`: the version changed meanwhile |
| `locked` | episodes whose case row is still locked by a request that returned without a commit |
| `waiting` | the event loop waits for such a row outside `hook` (`payment_link.paid`, the audit row of a flagged event) |

A subscription starts as the seed leaves it; `pending` stands for every seeded status, since none of
them is the `active` of a charge and the rules look at nothing else. What can happen at Razorpay, and in
which order, is an assumption on the environment (`CanHappen`): a failed payment may still be captured, a cycle's
charge may fail, succeed, or be given up and succeed after all, and a cycle begins when the one before it is
over. A success may carry the same second as its failure.

### State of `DecisionEngine`

| Variable | Code |
|---|---|
| `policy` | the `merchant_policies` row; no request changes it |
| `amount`, `kind` | `recovery_cases.amount_at_risk_minor`, `.case_type` |
| `stage` | what may happen next to the case: an analysis (`open`), a create call (`recommended`), an approval (`approval`), nothing (`closed`: stopped, or in the hands of a human) |
| `run` | the `recovery_recommendations` rows of the current run, their ranks, the summary on the case, and the evidence and background the run had; forgotten when nothing reads it any more |
| `attempts` | number of `recovery_actions` rows |
| `inFlight` | `get_blocking_payment_link_action` finds a row |

### State of `ProviderClient`, `Explanations` and `ReadModels`

| Variable | Code |
|---|---|
| `configured` | `RazorpayClient` has usable credentials |
| `links`, `wire` | at Razorpay: links that exist, and what became of the one POST |
| `post`, `get` | the thread in `create_payment_link`; the reads of `_request_with_retries` and their attempts |
| `row` | `recovery_actions.status, provider_reference_id, error_code` of the action |
| `found` | the `PaymentLinkReconciliation` that a lookup returned and the service has not yet applied |
| `rail` | the last downtime context, with the evidence and the list behind it |
| `llm` | whether the language model is enabled |
| `runs`, `current` | candidate rows per run; `recovery_cases.current_analysis_run_id` |
| `job` | an analyze request after its commit: run, explanation input, text, source |
| `draft` | the last outreach draft |
| `status`, `run`, `rows`, `outcome`, `acted` (`ReadModels`) | per case: status, current run, candidate rows; cases with an outcome row, with an action row |
| `at`, `opened`, `seen` | the report under way and its next statement; the cases there were when it began; what its statements returned |

### Grain of the steps

- A section from `SELECT ... FOR UPDATE` to its commit is one step. Where the lock outlives the
  step (`lock`): reconciliation keeps it while it asks Razorpay (`actions/service.py:639-681`), and a
  call that is refused or has nothing to do returns or raises without commit and keeps it
  until `get_db` closes the session (`db/session.py:30-39`), which needs the event loop.
- A read of the case followed by the version-checked UPDATE is one step: versions only grow, so
  a check that succeeds saw the current row, and one that fails writes nothing. Where the
  version comes from an earlier step (approval, webhook) it is carried in `job` or `hook`.
- `reject_action` and `approve_action` read the action before they lock the case and do not read
  it again: `RejectStart`/`ApproveStart` and their second halves are separate steps.
- A provider call lies between the commit of the intent and the commit of the answer; the answer's
  transition is a further transaction (`posting`, `answered`, `settling`).
- The webhook handler is one coroutine in one worker (`apps/api/deploy/entrypoint.sh`): at most one
  event is being handled. `transition_case` commits inside the handler's savepoint, so outcome,
  cancellations and transition are one commit, and `mark_processed` another.
- In `ProviderEvents` a delivery that does not resolve a case is one step, as it has one commit. A delivery
  that does is three: up to the version-checked UPDATE, the commit of `transition_case`, and `mark_processed`.
  A request may take the version in between, and the process may die after either commit.
- In both models of webhooks a handler that needs a case row waits for its lock: for the version-checked UPDATE, for the lookup
  of `payment_link.paid`, and for the audit row of a flagged event, whose foreign key takes a share lock on the case
  (`services/provider_events.py:644`). `ProviderEvents` keeps only locks of requests that returned without a commit
  (`RequestReturns`, until `SessionClosed`); one that a commit releases delays others and no more.
- The analysis asks the policy without the links in flight and exempts WAIT from the attempt
  cap while the provider retries; the executor does neither (`Selectable`, `PolicyEligible`).
- In `ProviderClient` the provider acts on its own between the caller's steps: a POST may be executed after the
  caller gave up, twice (a proxy), or not at all although an answer arrives. A retry of a GET is a step.
- In `Explanations` the commit of the analysis, the read of the explanation input (which checks that the run is still
  current), the model's answer or timeout, and the fallback are steps; another request may analyse the case between them.
- In `ReadModels` every SQL statement is a step and every commit of a writer is one. Readers write nothing, so two
  reports cannot affect each other and one at a time is enough.
- In `DecisionEngine` an analysis, an execution and an approval are one step each, since what is decided depends on
  what was read and not on when. The answer of the provider is a choice of `inFlight`, and its effect on the case is
  `RecoveryWorkflow`'s. A refused create call changes nothing and has no action.

Abstracted in `RecoveryWorkflow`: amounts (equal to the amount at risk or not), reasons, timestamps, metadata (a
reconciliation that finds several links changes only metadata), audit rows, contact caps, and what
decides `gated` for links (amount and confidence; ESCALATE always needs approval). The merchant policy
does not change under a case. `automation_enabled` only makes create calls fail and is left out there.

Abstracted in `DecisionEngine`: evidence is a record of what the normalizer distinguishes (a mapped, unmapped or absent
reason; a mapped, partial or absent code; a degraded rail; the subscription's status), and the background is what
decides which of the 24 features are missing. Their values only feed the trained model, which answers any member of
`Probabilities`, in whole percents, so the rounding of `confidence` to six places in its column does not occur.
`contacts_last_24h` is 0 and the cooldown has lasted 999 minutes in every call of the source, and so they are here. The
factors shown to operators and the reason codes decide nothing and are left out. An invoice case (`OVERDUE_INVOICE`) is
never created.

Abstracted in `ProviderClient`: a link is its id and whether reference, amount and currency are those of the action; time
is three instants; response bodies are usable or one of three kinds of unusable. In `Explanations` a text is the set of
claims the validation can tell apart, numbers in tenths of a percent; its fields are not told apart. A percentage is a number with
the sign behind it, or put into words, which the validation does not see, or a fraction. Approval is denied in one of
the three phrases that the validation looks for, or in other words, which it takes for nothing. A url it does not look at is
`unseen`. In `ReadModels` amounts are left out, so a sum is
the set (the baseline: the bag) of cases it runs over, and a page of the list is any set of its size.

## 3. Runs

All `wf_` runs use two concurrent requests. `CHECK_DEADLOCK FALSE` except in `rm_reports`, where readers can always ask
again: a closed case whose payments are settled legitimately stops, as does a ledger with every event settled, a client
whose calls have ended, requests that are answered, and the stall described below.

| Run | Bounds | Shows |
|---|---|---|
| `wf_safety` | 2 attempts, 2 analysis runs, 1 crash | invariants and the refinement |
| `wf_clicks` | 2 attempts, 3 analysis runs, 1 crash, clicks repeated while the provider call runs | at most one authorised call per action; rows agree with Razorpay; UNKNOWN is sticky |
| `wf_liveness` | 1 attempt, 2 runs, no crash, provider retries, fairness | executions end and payments are settled, short of the stall; the attempt cap holds when WAIT is exempt from the policy's cap |
| `wf_two_links`, `wf_stall` | the smallest that show it | what a document or comment says and the code does not do (section 5) |
| `pe_order` | 2 billing cycles, 1 request move, 1 crash, fairness | every order of delivery: late evidence undoes nothing, no success leaves a case open, every event is settled, short of the stall |
| `pe_next_cycle` | 2 billing cycles | what a test says of the next cycle's failure and the code does not do (section 5) |
| `de_decide` | 3 policies, 2 backgrounds, amounts 200, 500 and 2,000,000, probabilities 60 and 80 | the best candidate is offered and read back, refused for known causes only, and the simulator decides alike |
| `pc_calls` | 3 link ids, one foreign link, 4 outages, 5 payments, fairness | a row fails or succeeds only as the provider's links allow; outages are reported and ruled out on a received list only; every call ends |
| `ex_explain` | 2 requests, 2 runs, 3 analyses, 10 texts, fairness | what is shown describes the selected row as far as the validation can tell, what is missing has a cause, every request is answered |
| `ex_template` | 1 request, 2 runs | an analysis that gets no explanation, not even the template's (section 5) |
| `rm_reports` | 2 cases, 2 runs each, page of 1 | every interleaving of the statements of a report with the writers' commits |

Two requests are enough for every race of the code: each of its races is between two actors (two
requests, or a request and the webhook). Two runs and two attempts give an old and a current
recommendation, an unresolved old link beside a new one, and the attempt cap reached by either
kind of action. One crash can fall between any two steps.

Two billing cycles give events of an old and a new cycle that overtake each other; `StatusConverges` was also checked with
three, without moves and crashes (1.9 million states, too many for the run), and is proved for any number. `Together = FALSE` explores the
payment and the subscription in separate behaviours: no rule and no property relates the two, and the
proofs hold for both values.

`de_decide` has amounts below every payment link's cost (200: WAIT or STOP), with tied expected values (500: a request for an
alternate method at 60 percent and a link at 80 are both worth 99), and above the approval limit (2,000,000). Policies
reach the cap after one and after three attempts, which is all that bounds `attempts`. The strict policy gates every
action by confidence, forbids payment links and has a cooldown that 999 minutes do not satisfy. Every scenario of
`candidates.py` has evidence that leads to it. The two backgrounds (a known customer; a new one whose downtime lookup
failed) have the fewest and the most missing features; the proofs cover every value of all of these.

`pc_calls` has two ids for links of our own, as a repeated POST makes two, and one link with our reference and another
amount. The outages and payments differ in everything the matching looks at: method, status, window, instrument known,
different or unknown. `ex_explain` has an analysis whose first rank is advisory, one with a probability of 60%, and one
where only STOP is left; each text states one fact rightly or wrongly. `rm_reports` has a candidate list whose first
rank cannot be executed, so that first and selected row differ; lists with STOP alone are left to the proof. Two runs give a
current and a superseded one; with two cases a list page of one leaves one out.

`RepeatClicks = FALSE` in `wf_safety` is an assumption on the environment: nobody repeats a create call for an action
whose own request is still at work. It leaves a stale rejection as the only way to a second unresolved link
(`LinksOpenAlone`), which takes three requests and four attempts and so does not occur within the bounds of the run; with
repeated clicks `wf_two_links` shows one at once. The proofs cover every number of requests and both values.

### Fairness

`FairSpec` asks for strong fairness of the steps of each running request and of the webhook. A step
that needs the case row may be disabled again and again while others lock it; PostgreSQL serves
waiters for a row lock in turn, so one that can proceed again and again does. Provider calls
have timeouts and every one of them ends. Razorpay redelivers until it is acknowledged. No fairness is
assumed of arrivals, customers or crashes: nobody is obliged to click or to pay.

In `ProviderEvents` weak fairness of each delivery and of the handler's steps is enough: an event loop that is free handles one
delivery after another, and Razorpay redelivers an event until it is acknowledged. It asks nothing of a step whose case row is
locked: a row that a returned request still locks when a handler comes to it stays locked, as only a free loop closes the
session, so the handler waits for ever (`Stalled`) and `EventSettles` excepts exactly that. That sessions are closed before a
handler needs the row is not assumed. Nor is anything of what happens at Razorpay, of request threads or of crashes, which
`MaxMoves` and `MaxCrashes` bound; a crash is the one step that ends a stall.

`ProviderClient` assumes weak fairness of the calls, each of which has a timeout, and nothing of the provider, which need
not answer or execute anything. `Explanations` assumes it of a running request, whose model call `asyncio.wait_for` ends,
and nothing of the model. `ReadModels` states no liveness: nobody is obliged to ask.

## 4. Properties

Safety: `RecoveredIffVerified`, `RecoveredHasNothingPending`, `AwaitingHasPending`,
`ProviderCallsAuthorised`, `RowAgreesWithProvider`, `AttemptCap`, `AtMostOneAnalysis`, `NoPaymentLost`,
steps: `UnknownIsKept`, `LinksOpenAlone`; refinement: `LifecycleImplemented`; liveness:
`ExecutionEnds`, `PaymentSettled`.

Of `ProviderEvents`, safety: `SuccessIsSettled`, `OutcomeHasItsEvent`, `StatusConverges`, `FailedPaymentHasCase`,
`DroppedOnEvidence`; liveness: `EventSettles`. Each is stated in words above its definition.

Of `DecisionEngine`: `ChoiceIsBest`, `SummaryShowsSelected`, `SimulatorAgrees`, `RecommendationIsSelectable`,
`RefusalHasCause`. They speak of the run at hand. No liveness: nothing obliges an operator to act.

Of `ProviderClient`: `SuccessNamesOurLink`, `RailVerdictIsEvidence`; refinement: `PortImplemented`; liveness: `CallsEnd`.
Of `Explanations`: `ShownDescribesSelected`, `SilenceHasCause`; liveness: `RequestEnds`. Of `ReadModels`:
`SummaryLosesNoCase`, `DetailIsCoherent`, `ReadersShowSelected`.

`RailVerdictIsEvidence` says nothing of KNOWN for a payment without a time: the code matches such a payment to an outage
of its method and instrument, whenever that was.

## 5. Where code and documents disagree

Shown by a run:

1. **Two unresolved links** (`wf_two_links`): the row takes a late answer whatever happened since. Repeated clicks are the
   short way there. A longer one needs none: the second transaction of an older call moves the case while a newer call
   runs, a rejection that read the running action before its approval cancels it, and its ambiguous answer then puts it
   back to UNKNOWN beside the next link. `LinksOpenAlone` says, and its proof shows, that there is no third.
2. **The event loop waits for itself** (`wf_stall`): `razorpay_webhook` is `async def` and blocks on the case
   row while a request that has returned without a commit waits for the loop to close its session.
   No lock timeout is configured. `ExecutionEnds` and `PaymentSettled`, and `EventSettles` of `ProviderEvents`, hold short
   of this `Stalled` state.
3. **The next cycle's failure is stale** (`pe_next_cycle`): `_should_apply_subscription_state` drops a
   `subscription.pending` whenever the status is `active`, newer or not, so after one charge the failure of the next
   cycle opens no case. `apps/api/tests/integrations/razorpay/test_webhook_events.py:467-468` says it must. With three
   cycles the status itself depends on the order of delivery: if the halt of cycle 2 arrives after the failure of cycle 3
   was dropped the subscription reads `halted` and cycle 3 has no case; delivered in order it reads `pending` and has one.
   `docs/DOMAIN_MODEL.md:317` says that order is not trusted. `StatusConverges` leaves dropped failures out,
   `DroppedOnEvidence` says when they are dropped.
4. **60% has no explanation** (`ex_template`): `Decimal.normalize` writes 60% as `6E+1%`, and the template built with it
   does not pass the validation that reads `1%` there. `docs/AI_ML_DESIGN.md:472-478` promises the fallback.

Seen in the code while modelling; the models contain these behaviours (or name their abstraction), no run is devoted to
them:

- STOP closes a case whose link is unresolved (`actions/service.py:191`; `docs/STATE_MACHINE.md:191` excludes it).
- The analysis passes no actions in flight (`recovery/service.py:358`), the executor refuses the duplicate, and only
  the current recommendation's action can be reconciled: a recommendation nobody can execute. `RefusalHasCause` names the cause.
- A rejection checks the status before the lock and not after it (`actions/service.py:305`). It can cancel an action that was
  approved meanwhile, and of two rejections of one action the slower one stops or reanalyses the case after a new action was
  staged: that one stays PENDING_APPROVAL under a case that no longer awaits approval and, if it is a link, blocks further ones.
- A definitive provider failure leaves the case ANALYZING, and nothing can start an analysis from there (`actions/service.py:760`).
- A model's text may deny a required approval in any words but three phrases (`ai/validation.py:183-186`): the template's own
  sentence "No manual approval is required under current policy." (`ai/fallback.py:19`) passes for a row that needs approval.
  "90 percent" and "90 %" are not checked (`:11`), nor are a foreign link in the subject or the button of a customer message
  and one without `http://` or `https://` (`:20`, `:209-217`). `ShownDescribesSelected` claims none of these.
- The money check of a text is a substring test (`ai/validation.py:134`); percentages near "confidence" are compared with
  the confidence only; `"rate"` anywhere in an error classifies it as a rate limit (`ai/gemini_provider.py:149`); an outreach
  template given a URL for an action other than a link always fails its own validation.
- The summary may count a case both at risk and recovered, when the payment commits between the statements; the baseline counts
  a case once per run (`repositories/analytics_repo.py:256-279`); each action of a recovered case is credited with the whole
  amount; `total` and page of a list are separate statements (`repositories/recovery_case_repo.py:164-170`), and
  `min_confidence` filters by the first rank while the row shown is the selected one (`:256`).
- `services/simulator.py:95` says it mirrors the live normalizer, but its evidence strengths are 30, 60 and 90 against 40, 65, 80
  and 100, so confidence and with it the previewed approval may differ: `SimulatorAgrees` leaves the approval out.
- Category `UNKNOWN` counts as a present feature: only the lower-case `unknown` is taken for missing (`recovery/features.py`).

## 6. Proofs

For every set of requests and every value of the constants, from `ConstantsAssumption` alone:

- `TypeCorrect`. `TypeOK` is not inductive: a provider answer adds `job[p].act` to `links`, so a request at
  work must name an existing action and an answered one must hold an answer. `WorksOnAction` adds that.
- `LifecycleRefined`. `EveryStepMoves` sorts every step into: the case row and its outcome are
  untouched, one ordinary transition, or the webhook's resolution. The registry
  lemmas say that an ordinary transition starts from an open status and does not enter RECOVERED.
- `RecoveredIsVerified`, `PaymentsAreKept`. Neither is inductive: the webhook acts on what it read. `PaymentInv`
  adds that only live links and the original payment can be paid (`PaidWhatExists`), and that what
  the webhook read still holds (`HookIsCurrent`): its event is unsettled, and a terminal status seen stays.
- `NothingPendingAfterRecovery`. A row starts to wait only in a step that also moves an open case.
- `AttemptsAreCapped`, `AnalysesAreExclusive`, `ApprovalHasItsAction`, `CallsAreAuthorised`, `RowsAgree`, `UnknownStays`,
  `LinksOpenOneByOne`, `LinksInProgress`, `RunsReplacedInOrder`, `SelectionsAreKept` (`RecoveryActionProofs`). They rest on three
  sorts of steps: what moves the case (`CaseTable`), what a step does to one row (`RowMoves`: inserted, or rewritten by the request
  that works on it) and to one request (`JobMoves`). The invariants build on each other: `RowsInv` numbers the rows without
  gaps; `OneAnalysis` puts every analysis under an ANALYZING case (or one a payment resolved), which each of them left another status to
  enter; `RunsDrawn` makes its run newer than the current one and unused; `CallsInv` gives each provider call one request, whose
  row was committed and is EXECUTING or was settled under it, and lets only a link be UNKNOWN; `ProviderInv` says that a call
  about to be made is the first of its action and authorised, and that an answer not yet recorded is what happened at the provider.
- `EventTypes`, `OutcomesHaveEvents`. `LedgerInv` adds to `OutcomeHasItsEvent` that only events that happened have
  rows and that what the handler holds is a proven success whose case is open until it has moved, and
  RECOVERED once committed.
- `SuccessesAreSettled`, `CaptureIsFinal`. A late failure must be rejected by what the success left behind, so the
  invariant says what that is (`EvidenceInv`): once a captured event has a row the transaction is captured; once a
  charge has a row the subscription is at least as new as it, and if not newer then `active`
  (`Remembers`). `TimesOrdered` says that a failure is never later than its success.
- `FailuresHaveCases`. `PaymentSource` says what the rows and the transaction say of each other: it is captured only if
  the capture has a row, failed only if the failure has one, and unless captured a failure with a row has its case.
- `StatusesConverge`, `DropsHaveEvidence`. `SubscriptionSource` names the event the status comes from (proven, not dropped),
  `FailuresAbsorbed` says that the subscription is at least as new as every failure that was not dropped, and `Remembers` the
  same of proven charges. The newest event that counts is then the source or shares its second with it.
- `EventsSettleOnce`, `EpisodesResolveOnce`, `OlderUndoesNothing`: a verdict, an outcome and the time of the subscription survive
  redeliveries, conflicts and crashes. The first needs that the event being resolved is settled by nobody else (`HookUnsettled`).
- `EpisodeRefined`, `EpisodesRefined`. The two models of webhooks divide the work: `RecoveryWorkflow` has every request and one
  case, `ProviderEvents` every event and many cases, with requests shortened to `CaseMoves` and `LinkPaid`. Both
  implement `Episode` (with `CaseSeen` and `BasisSeen`, and with `cases[k]` and `outcome[k]` for each `k`), so whatever the
  requests of the one do to a case is among the moves that the other expects: open to closed, open to recovered, never back.
  The steps come from `EveryStepMoves` there and from `LedgerInv` here: an open case has no outcome, and what the
  handler commits was open until then. These two theorems state `EpisodeImplemented` and `EpisodesImplemented`, which no run lists.
- `DecisionTypes`, `BestActionIsOffered`, `WriteAndReadPathsAgree`, `FallbackIsComplete`, `SimulatorIsFaithful`,
  `RecommendationsAreSelectable`, `RefusalsHaveCauses`: for every merchant policy, amount, probability and background. The
  properties speak of a run that was computed earlier, so `DecisionInvariant` says what a run still is when it is read:
  computed under the case's own policy and amount, with as many attempts as there are now while it is only recommended.
  `BeforeIsOrder` says that the sort key is a strict total order, `RankFollowsOrder` that ranks grow along it (counting
  the candidates before each), and `SelectionsAgree` that the first of the sorted list is the one of least rank.
- `PortRefinement`, `SuccessIsOurs`, `RailSound` and `TypeCorrect` of the client. FAILED must exclude a link for ever, so
  `Bookkeeping` says that a row fails only on a refusal, that a refused POST never creates, and that what a lookup has
  found and not yet applied is still a link of ours.
- `ShownIsTrue`, `SilenceExplained` and `TypeCorrect` of the explanations. The invariant says that the row a
  request works with is the selected row of its run whatever runs are committed later, and that a text on its way to the
  response was accepted for that row, and that one that came from the template states its approval as the row does. Accepted
  means what `validation.py` accepts: no more is claimed of a model's text. That the template is accepted whenever the
  probability is not written with an exponent is a lemma about the validation.
- `SummaryComplete`, `DetailCoherent`, `ShownIsSelected` and `TypeCorrect` of the reports. `Gains` says what no commit takes
  away: an outcome, an action, an opened case, a closed one's end, the rows of a run. `SummaryInv`, `DetailInv` and
  `ListInv` say what each answered statement still implies of the rows now, which is what the next statement
  needs; `SelectsExecutable` says that the readers' selection is one row, the one an execution targets.

Theorems are proved from the named assumption of the module only (`ConstantsAssumption`, `DecisionAssumption`,
`ClientAssumption`, `ExplanationsAssumption`, `ReadAssumption`), each evaluated by TLC in the runs.

Two statements that the runs had passed turned out false when their proofs were attempted, and TLC found the counterexample
beyond the bounds of the run: that a case has at most one unresolved link without repeated clicks (three requests), and that the
subscription always ends with the status of its newest event (three cycles). Section 5 describes both, and the properties now
say what holds: `LinksOpenAlone` and `StatusConverges`.

Every invariant and every action property of the passing runs is proved. Only model-checked: liveness (`ExecutionEnds`,
`PaymentSettled`, `EventSettles`, `CallsEnd`, `RequestEnds`), which rests on fairness and ENABLED and is out of the prover's reach.

## 7. Plan

1. Done: `StateMachine`, `CaseLifecycle`, `RecoveryWorkflow`, its runs and the proofs above.
2. Done: `ProviderEvents`, its runs and proofs. To add: the pending event that arrives after halted.
3. Done: `DecisionEngine` with features and simulator, its run and the proofs of its invariants. To add: finer
   probabilities and the rounding of the confidence column, with the threshold property that it may break.
4. Done: `ProviderClient`, `Explanations`, `ReadModels`, their runs and the proofs of their invariants.
5. Done: proofs of every invariant and action property of the runs, and `Episode`, which `ProviderEvents` and
   `RecoveryWorkflow` both implement. To add: the port of one link action that `RecoveryWorkflow` implements, with the rejection
   that cancels a row while its call runs (`PaymentLinkPort` has no such step).

## 8. Not modelled

- Trained model (`ml/service.py`): inference is numerical; its answer is any member of `Probabilities`. Its load,
  failure and fallback are modelled as the choice of `FallbackScores`.
- Demo batch and seed (`demo/*.py`): synthetic data and a batch evaluation that touch no real case. Its cache is one value
  behind one lock, computed inside it.
- Authentication and configuration (`core/*.py`): token verification and settings; organizations share no rows, so one
  organization is modelled.
- Timeline, policy and provider-event pages: each reads one kind of row in one statement. The timeline orders by
  `created_at`, which is the start of the writing transaction, so events of concurrent transactions may be listed out of order.
- Web console, training scripts and data: presentation over the API, and offline work.
- The branch for a duplicate reference in the answer of the provider (`actions/service.py:544`): no message
  that the client raises contains the words it looks for.
- Webhook signatures and malformed bodies change no row. Two webhook workers would race in
  `services/provider_events.py:350`; the deployment runs one.
