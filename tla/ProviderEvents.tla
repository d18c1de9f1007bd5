--------------------------- MODULE ProviderEvents ---------------------------
(***************************************************************************)
(* What RevLoop makes of Razorpay's webhook events about one payment and   *)
(* one subscription (services/provider_events.py).  Razorpay delivers them *)
(* at least once and in any order; each carries the time at which it       *)
(* happened.  A failure opens a recovery case for its episode, a success   *)
(* resolves it, and evidence that comes late must not undo what newer      *)
(* evidence has decided.                                                   *)
(*                                                                         *)
(* An episode is the payment (key 0) or a billing cycle of the             *)
(* subscription (keys 1 and up); it has at most one case.  Deliveries are  *)
(* handled one at a time by the event loop; request threads move the cases *)
(* meanwhile, which RecoveryWorkflow models in full.  A request that ends  *)
(* without a commit keeps the row of its case locked until the event loop  *)
(* closes its session; a lock that a commit releases only delays others.   *)
(***************************************************************************)
EXTENDS Integers, FiniteSets

CONSTANTS
  MaxCycles,   \* billing cycles of the subscription
  MaxMoves,    \* steps that request threads make on open cases
  MaxCrashes,  \* deliveries whose process dies
  Together     \* do the payment and the subscription have events in one behaviour?

ASSUME BoundsAssumption ==
  /\ MaxCycles \in Nat
  /\ MaxMoves \in Nat
  /\ MaxCrashes \in Nat
  /\ Together \in BOOLEAN

Cycles == 1..MaxCycles
Keys == 0..MaxCycles

\* An event is its kind and its episode.
PaymentEvents == {"failed", "captured"} \X {0}
SubscriptionEvents == {"pending", "charged", "halted"} \X Cycles
Events == PaymentEvents \cup SubscriptionEvents

Failure(k) == IF k = 0 THEN <<"failed", 0>> ELSE <<"pending", k>>
Success(k) == IF k = 0 THEN <<"captured", 0>> ELSE <<"charged", k>>
Successes == {Success(k) : k \in Keys}

\* Events are ordered by time within the payment and within the subscription.
Entities == {"payment", "subscription"}
Entity(k) == IF k = 0 THEN "payment" ELSE "subscription"
EventsOf(entity) == IF entity = "payment" THEN PaymentEvents ELSE SubscriptionEvents

(***************************************************************************)
(* What the payment inside a success event proves: captured with the       *)
(* amount of the case, captured with another amount (the merchant's record *)
(* of the subscription is out of date), or not captured at all.            *)
(***************************************************************************)
Proofs == {"captured", "other_amount", "authorized"}

\* processing_status and reason of a webhook_events row; FLAGGED is IGNORED
\* with TERMINAL_STATE_RECONCILIATION_REQUIRED.
RowStates == {"ABSENT", "RECEIVED", "PROCESSED", "IGNORED", "FLAGGED"}
Settled == {"PROCESSED", "IGNORED", "FLAGGED"}

\* A case by what the handlers tell apart: closed is FAILED or STOPPED.
CaseStates == {"ABSENT", "open", "closed", "RECOVERED"}

NoEvent == <<"none", 0>>
IdleHook == [at |-> "idle", ev |-> NoEvent, moved |-> FALSE]
Hooks == [at : {"idle", "resolving", "committed"}, ev : Events \cup {NoEvent}, moved : BOOLEAN]

VARIABLES
  sent,     \* time at which each event happened at Razorpay, 0 if it has not
  clock,    \* time of the latest event of the payment and of the subscription
  proof,    \* what the success event of an episode proves
  known,    \* customer and subscription can be correlated with local records
  row,      \* webhook_events
  txn,      \* the transactions row of the payment
  sub,      \* the subscriptions row
  cases,    \* the recovery case of each episode
  outcome,  \* what the outcome row of an episode rests on
  hook,     \* the delivery the event loop is handling
  locked,   \* episodes whose case row a request that has returned still locks
  waiting,  \* the event loop waits for such a row, other than in hook
  moves,
  crashes

razorpay == <<sent, clock, proof>>
records == <<txn, sub, cases, outcome>>
process == <<locked, waiting, moves, crashes>>
vars == <<razorpay, known, row, records, hook, process>>

\* Subscriptions are only created by the seed, never with the status of a charge.
Init ==
  /\ sent = [e \in Events |-> 0]
  /\ clock = [n \in Entities |-> 0]
  /\ proof = [k \in Keys |-> "none"]
  /\ known \in BOOLEAN
  /\ row = [e \in Events |-> "ABSENT"]
  /\ txn = [status |-> "ABSENT", at |-> 0]
  /\ sub = [status |-> "pending", at |-> 0]
  /\ cases = [k \in Keys |-> "ABSENT"]
  /\ outcome = [k \in Keys |-> "none"]
  /\ hook = IdleHook
  /\ locked = {}
  /\ waiting = FALSE
  /\ moves = 0
  /\ crashes = 0

------------------------------------------------------------------------------
(* What happens at Razorpay *)

Happened(e) == sent[e] > 0

\* A cycle begins when the one before it is paid or given up.
CycleBegun(c) ==
  c = 1 \/ \E e \in SubscriptionEvents : e[2] = c - 1 /\ e[1] # "pending" /\ Happened(e)
CycleOver(c) == \E e \in SubscriptionEvents : e[2] = c + 1 /\ Happened(e)

(***************************************************************************)
(* A payment may fail and still be captured later.  A cycle's charge may   *)
(* fail, then succeed or be given up, and succeed after all while the next *)
(* cycle has not begun.                                                    *)
(***************************************************************************)
CanHappen(e) ==
  /\ ~Happened(e)
  /\ e[1] = "failed" => ~Happened(Success(0))
  /\ e[1] \in {"pending", "charged"} => CycleBegun(e[2])
  /\ e[1] = "halted" => Happened(Failure(e[2]))
  /\ e[1] \in {"pending", "halted"} => ~Happened(Success(e[2]))
  /\ e \in SubscriptionEvents => ~CycleOver(e[2])

\* Times are in seconds: a success may share the second of the failure before it.
Happen(e) ==
  /\ CanHappen(e)
  /\ LET entity == Entity(e[2])
     IN /\ \A other \in Entities \ {entity} : clock[other] = 0 \/ Together
        /\ \E t \in {clock[entity], clock[entity] + 1} :
             /\ t = clock[entity] => (e \in Successes /\ t > 0 /\ sent[Failure(e[2])] = t)
             /\ sent' = [sent EXCEPT ![e] = t]
             /\ clock' = [clock EXCEPT ![entity] = t]
  /\ IF e \in Successes
     THEN \E p \in Proofs : /\ e[2] = 0 => p = "captured"
                            /\ proof' = [proof EXCEPT ![e[2]] = p]
     ELSE UNCHANGED proof
  /\ UNCHANGED <<known, row, records, hook, process>>

------------------------------------------------------------------------------
(* Ordering rules *)

\* _payment_status_rank; no other status is ever written for an event.
Rank(status) == CASE status = "failed" -> 3 [] status = "captured" -> 4 [] OTHER -> 0

\* _should_apply_payment_state; a new row is always written.
ShouldApplyPayment(status, at) ==
  \/ txn.status = "ABSENT"
  \/ status = "captured"
  \/ /\ txn.status # "captured"
     /\ at >= txn.at
     /\ Rank(status) >= Rank(txn.status)

\* Deviation: a charge is authoritative whenever it arrives.
ShouldApplySubscriptionCharge(kind, at) ==
  kind = "charged" \/ (at >= sub.at /\ ~(sub.status = "active" /\ kind = "pending"))

\* Deviation: an event that repeats the status counts as stale.
ShouldApplySubscriptionChange(kind, at) ==
  /\ at >= sub.at
  /\ kind = "charged" \/ sub.status # "active"
  /\ ~(kind = "pending" /\ sub.status = "pending")

\* _should_apply_subscription_state.
ShouldApplySubscription(kind, at) ==
  /\ at >= sub.at
  /\ kind = "charged" \/ ~(sub.status = "active" /\ kind = "pending")

UpsertTransaction(status, at) ==
  txn' = IF ShouldApplyPayment(status, at) THEN [status |-> status, at |-> at] ELSE txn

\* Deviation: the name of the event is stored.
StatusOfEvent == [pending |-> "pending", charged |-> "charged", halted |-> "halted"]

StatusOf == [pending |-> "pending", charged |-> "active", halted |-> "halted"]

UpsertSubscription(kind, at) ==
  sub' = IF ShouldApplySubscription(kind, at) THEN [status |-> StatusOf[kind], at |-> at] ELSE sub

\* The row that the event of a success updates.
UpsertEvidence(e) ==
  IF e[2] = 0 THEN UpsertTransaction("captured", sent[e]) /\ UNCHANGED sub
              ELSE UpsertSubscription("charged", sent[e]) /\ UNCHANGED txn

------------------------------------------------------------------------------
(* Deliveries *)

Settle(e, state) == row' = [row EXCEPT ![e] = state]

\* Deviation: a claim that was interrupted counts as complete.
ClaimableOnce(e) == row[e] = "ABSENT"

\* claim_event: a settled event is acknowledged again and changes nothing.
Claimable(e) == row[e] \notin Settled

LoopFree == hook.at = "idle" /\ ~waiting

Delivered(e) == LoopFree /\ Happened(e) /\ Claimable(e)

\* WebhookCorrelationError: ignored, except that a charge returns without a mark.
DeliverUncorrelated(e) ==
  /\ Delivered(e)
  /\ ~known
  /\ e \in Successes => e[2] = 0 \/ proof[e[2]] # "authorized"
  /\ Settle(e, IF e[1] = "charged" THEN "PROCESSED" ELSE "IGNORED")
  /\ UNCHANGED <<razorpay, known, records, hook, process>>

\* _create_payment_failure_case_if_absent, _create_subscription_failure_case_if_absent.
OpenCase(k) == cases' = [cases EXCEPT ![k] = IF @ = "ABSENT" THEN "open" ELSE @]

\* Deviation: the case is opened before the ordering is looked at.
DeliverPaymentFailedUnordered(e) ==
  /\ Delivered(e) /\ known /\ e[1] = "failed"
  /\ UpsertTransaction("failed", sent[e])
  /\ OpenCase(0)
  /\ Settle(e, "PROCESSED")
  /\ UNCHANGED <<razorpay, known, sub, outcome, hook, process>>

\* Deviation: only a payment that was seen before gets a case.
DeliverPaymentFailedSeen(e) ==
  /\ Delivered(e) /\ known /\ e[1] = "failed"
  /\ UpsertTransaction("failed", sent[e])
  /\ IF txn.status = "failed" THEN OpenCase(0) ELSE UNCHANGED cases
  /\ Settle(e, "PROCESSED")
  /\ UNCHANGED <<razorpay, known, sub, outcome, hook, process>>

DeliverPaymentFailed(e) ==
  /\ Delivered(e) /\ known /\ e[1] = "failed"
  /\ UpsertTransaction("failed", sent[e])
  /\ \/ /\ ShouldApplyPayment("failed", sent[e])
        /\ OpenCase(0)
        /\ Settle(e, "PROCESSED")
     \/ /\ ~ShouldApplyPayment("failed", sent[e])
        /\ Settle(e, "IGNORED")                      \* STALE_WEBHOOK_IGNORED
        /\ UNCHANGED cases
  /\ UNCHANGED <<razorpay, known, sub, outcome, hook, process>>

DeliverPending(e) ==
  /\ Delivered(e) /\ known /\ e[1] = "pending"
  /\ UpsertSubscription("pending", sent[e])
  /\ \/ /\ ShouldApplySubscription("pending", sent[e])
        /\ OpenCase(e[2])
        /\ Settle(e, "PROCESSED")
     \/ /\ ~ShouldApplySubscription("pending", sent[e])
        /\ Settle(e, "IGNORED")                      \* STALE_WEBHOOK_IGNORED
        /\ UNCHANGED cases
  /\ UNCHANGED <<razorpay, known, txn, outcome, hook, process>>

\* No case is opened, and a stale event is marked processed all the same.
DeliverHalted(e) ==
  /\ Delivered(e) /\ known /\ e[1] = "halted"
  /\ UpsertSubscription("halted", sent[e])
  /\ Settle(e, "PROCESSED")
  /\ UNCHANGED <<razorpay, known, txn, cases, outcome, hook, process>>

\* INSUFFICIENT_PAYMENT_EVIDENCE: a charge whose payment is not captured.
DeliverUnproven(e) ==
  /\ Delivered(e) /\ e[1] = "charged" /\ proof[e[2]] = "authorized"
  /\ Settle(e, "IGNORED")
  /\ UNCHANGED <<razorpay, known, records, hook, process>>

IsProof(e) == e \in Successes /\ proof[e[2]] # "authorized"

\* _validate_recovery_money
MoneyMatches(k) == proof[k] = "captured"

(***************************************************************************)
(* A success that resolves nothing: there is no case, it is RECOVERED      *)
(* already, or it was closed or the amount differs, which leaves a reason. *)
(***************************************************************************)
DeliverSuccess(e) ==
  LET k == e[2]
  IN /\ Delivered(e) /\ known /\ IsProof(e)
     /\ UpsertEvidence(e)
     /\ \/ cases[k] \in {"ABSENT", "RECOVERED"} /\ Settle(e, "PROCESSED")
        \/ cases[k] \in {"open", "closed"} /\ ~MoneyMatches(k) /\ Settle(e, "IGNORED")
        \/ cases[k] = "closed" /\ k \notin locked /\ MoneyMatches(k) /\ Settle(e, "FLAGGED")
     /\ UNCHANGED <<razorpay, known, cases, outcome, hook, process>>

\* The audit row of the flag refers to the case row, which is locked.
DeliverBlocked(e) ==
  /\ Delivered(e) /\ known /\ IsProof(e)
  /\ cases[e[2]] = "closed" /\ e[2] \in locked /\ MoneyMatches(e[2])
  /\ waiting' = TRUE
  /\ UNCHANGED <<razorpay, known, row, records, hook, locked, moves, crashes>>

\* A success that resolves its case, up to the version-checked UPDATE.
DeliverResolving(e) ==
  /\ Delivered(e) /\ known /\ IsProof(e)
  /\ cases[e[2]] = "open" /\ MoneyMatches(e[2])
  /\ hook' = [at |-> "resolving", ev |-> e, moved |-> FALSE]
  /\ UNCHANGED <<razorpay, known, row, records, process>>

\* Deviation: the claim is only written when the event is marked processed.
ResolveCommitUnclaimed ==
  LET e == hook.ev
  IN /\ hook.at = "resolving" /\ ~hook.moved /\ e[2] \notin locked
     /\ UpsertEvidence(e)
     /\ cases' = [cases EXCEPT ![e[2]] = "RECOVERED"]
     /\ outcome' = [outcome EXCEPT ![e[2]] = "event"]
     /\ hook' = [hook EXCEPT !.at = "committed"]
     /\ UNCHANGED <<razorpay, known, row, process>>

(***************************************************************************)
(* transition_case commits the session: the claim, the updated row, the    *)
(* outcome and the case together.                                          *)
(***************************************************************************)
ResolveCommit ==
  LET e == hook.ev
  IN /\ hook.at = "resolving" /\ ~hook.moved /\ e[2] \notin locked
     /\ UpsertEvidence(e)
     /\ cases' = [cases EXCEPT ![e[2]] = "RECOVERED"]
     /\ outcome' = [outcome EXCEPT ![e[2]] = "event"]
     /\ Settle(e, "RECEIVED")
     /\ hook' = [hook EXCEPT !.at = "committed"]
     /\ UNCHANGED <<razorpay, known, process>>

\* StaleVersionError: everything is rolled back and Razorpay delivers again.
ResolveConflict ==
  /\ hook.at = "resolving" /\ hook.moved /\ hook.ev[2] \notin locked
  /\ hook' = IdleHook
  /\ UNCHANGED <<razorpay, known, row, records, process>>

MarkProcessed ==
  /\ hook.at = "committed"
  /\ Settle(hook.ev, "PROCESSED")
  /\ hook' = IdleHook
  /\ UNCHANGED <<razorpay, known, records, process>>

\* The process dies: what was not committed is gone, and so are its locks.
Crash ==
  /\ ~LoopFree
  /\ crashes < MaxCrashes
  /\ crashes' = crashes + 1
  /\ hook' = IdleHook
  /\ locked' = {}
  /\ waiting' = FALSE
  /\ UNCHANGED <<razorpay, known, row, records, moves>>

Deliver(e) ==
  \/ DeliverUncorrelated(e)
  \/ DeliverPaymentFailed(e)
  \/ DeliverPending(e)
  \/ DeliverHalted(e)
  \/ DeliverUnproven(e)
  \/ DeliverSuccess(e)
  \/ DeliverBlocked(e)
  \/ DeliverResolving(e)

------------------------------------------------------------------------------
(* Request threads, seen from here *)

\* A transition of an open case changes its version; it may also close it.
CaseMoves(k) ==
  /\ cases[k] = "open"
  /\ k \notin locked
  /\ moves < MaxMoves
  /\ moves' = moves + 1
  /\ \E state \in {"open", "closed"} : cases' = [cases EXCEPT ![k] = state]
  /\ hook' = IF hook.at = "resolving" /\ hook.ev[2] = k THEN [hook EXCEPT !.moved = TRUE] ELSE hook
  /\ UNCHANGED <<razorpay, known, row, txn, sub, outcome, locked, waiting, crashes>>

\* payment_link.paid resolves the case instead; it needs the event loop.
LinkPaid(k) ==
  /\ LoopFree
  /\ cases[k] = "open" /\ k \notin locked
  /\ cases' = [cases EXCEPT ![k] = "RECOVERED"]
  /\ outcome' = [outcome EXCEPT ![k] = "link"]
  /\ UNCHANGED <<razorpay, known, row, txn, sub, hook, process>>

\* The coroutine of payment_link.paid waits for the row of its case.
LinkWaits(k) ==
  /\ LoopFree
  /\ cases[k] \in {"open", "closed"} /\ k \in locked
  /\ waiting' = TRUE
  /\ UNCHANGED <<razorpay, known, row, records, hook, locked, moves, crashes>>

\* A request is refused, or finds nothing to do, after lock_case; it returns uncommitted.
RequestReturns(k) ==
  /\ cases[k] # "ABSENT" /\ k \notin locked
  /\ locked' = locked \cup {k}
  /\ UNCHANGED <<razorpay, known, row, records, hook, waiting, moves, crashes>>

\* get_db closes the session: the event loop has to schedule it.
SessionClosed(k) ==
  /\ LoopFree
  /\ k \in locked
  /\ locked' = locked \ {k}
  /\ UNCHANGED <<razorpay, known, row, records, hook, waiting, moves, crashes>>

Locking == \E k \in Keys : LinkWaits(k) \/ RequestReturns(k) \/ SessionClosed(k)

Next ==
  \/ \E e \in Events : Happen(e) \/ Deliver(e)
  \/ ResolveCommit \/ ResolveConflict \/ MarkProcessed
  \/ \E k \in Keys : CaseMoves(k) \/ LinkPaid(k)
  \/ Locking
  \/ Crash

Spec == Init /\ [][Next]_vars

(***************************************************************************)
(* Razorpay delivers until it is acknowledged, and the event loop runs on  *)
(* unless it waits for a row.  A row that is locked while a delivery is    *)
(* handled stays so, for only a free loop closes a session: weak fairness  *)
(* asks nothing of a step that waits for it.                               *)
(***************************************************************************)
Fairness ==
  /\ \A e \in Events : WF_vars(Deliver(e))
  /\ WF_vars(ResolveCommit \/ ResolveConflict)
  /\ WF_vars(MarkProcessed)

FairSpec == Spec /\ Fairness

------------------------------------------------------------------------------
(* Properties *)

\* Every variable keeps its type.
TypeOK ==
  /\ sent \in [Events -> Nat]
  /\ clock \in [Entities -> Nat]
  /\ proof \in [Keys -> Proofs \cup {"none"}]
  /\ known \in BOOLEAN
  /\ row \in [Events -> RowStates]
  /\ txn \in [status : {"ABSENT", "failed", "captured"}, at : Nat]
  /\ sub \in [status : {"pending", "active", "halted"}, at : Nat]
  /\ cases \in [Keys -> CaseStates]
  /\ outcome \in [Keys -> {"none", "event", "link"}]
  /\ hook \in Hooks
  /\ locked \subseteq Keys
  /\ waiting \in BOOLEAN
  /\ moves \in 0..MaxMoves
  /\ crashes \in 0..MaxCrashes

(***************************************************************************)
(* Whatever the order of deliveries: once the verified success of an       *)
(* episode is settled the episode has no open case, not even one that its  *)
(* late failure event opens afterwards, and a case that had been closed    *)
(* before is flagged for reconciliation.                                   *)
(***************************************************************************)
SuccessIsSettled ==
  \A k \in Keys :
    known /\ row[Success(k)] \in Settled /\ proof[k] = "captured" =>
      \/ cases[k] \in {"ABSENT", "RECOVERED"}
      \/ cases[k] = "closed" /\ row[Success(k)] = "FLAGGED"

(***************************************************************************)
(* A case is RECOVERED exactly when it has an outcome, and an outcome that *)
(* rests on a success event has that event's row, with the right amount,   *)
(* committed with it: a redelivery after a crash finds both.               *)
(***************************************************************************)
OutcomeHasItsEvent ==
  \A k \in Keys :
    /\ cases[k] = "RECOVERED" <=> outcome[k] # "none"
    /\ outcome[k] = "event" =>
         row[Success(k)] \in {"RECEIVED", "PROCESSED"} /\ proof[k] = "captured"

(***************************************************************************)
(* Each episode has at most one case, whose end is reached once, in the    *)
(* step that records what it rests on: the same promise that               *)
(* RecoveryWorkflow keeps for the case it drives.                          *)
(***************************************************************************)
Of(k) == INSTANCE Episode WITH case <- cases[k], basis <- outcome[k]
EpisodesImplemented ==
  /\ \A k \in Keys : Of(k)!EpisodeInit
  /\ [][\A k \in Keys : [Of(k)!EpisodeNext]_(Of(k)!episodeVars)]_vars

AllSettled == \A e \in Events : Happened(e) => row[e] \in Settled

Quiet == known /\ AllSettled

\* What an event says of the subscription counts if it is proven and was not dropped.
Counts(e) ==
  /\ Happened(e)
  /\ e \in Successes => IsProof(e)
  /\ e[1] = "pending" => row[e] # "IGNORED"

\* The newest event that counts: in one second a charge comes after its failure.
Newest(e) ==
  /\ Counts(e)
  /\ \A f \in SubscriptionEvents : f # e /\ Counts(f) =>
       sent[f] < sent[e] \/ (sent[f] = sent[e] /\ e \in Successes)

(***************************************************************************)
(* When all is delivered, in whatever order, the transaction is captured   *)
(* if the payment was, and the subscription has the status of its newest   *)
(* event, failures that were dropped as stale apart.                       *)
(***************************************************************************)
StatusConverges ==
  Quiet =>
    /\ Happened(<<"captured", 0>>) => txn.status = "captured"
    /\ Happened(<<"failed", 0>>) /\ ~Happened(<<"captured", 0>>) => txn.status = "failed"
    /\ \A e \in SubscriptionEvents : Newest(e) => sub.status = StatusOf[e[1]]

\* A payment that failed and is not known to be captured has a case.
FailedPaymentHasCase ==
  known /\ row[<<"failed", 0>>] \in Settled /\ txn.status # "captured" => cases[0] # "ABSENT"

(***************************************************************************)
(* A failure of a subscription is never dropped for nothing: an ignored    *)
(* pending event was preceded by a proven charge, of whatever cycle, or by *)
(* an event at least as new.                                               *)
(***************************************************************************)
DroppedOnEvidence ==
  \A c \in Cycles :
    known /\ row[<<"pending", c>>] = "IGNORED" =>
      \E e \in SubscriptionEvents :
        /\ e # <<"pending", c>>
        /\ row[e] # "ABSENT"
        /\ IsProof(e) \/ sent[e] >= sent[<<"pending", c>>]

\* A captured payment is never downgraded (docs/STATE_MACHINE.md, section 10).
CapturedStays == [][txn.status = "captured" => txn'.status = "captured"]_vars

(***************************************************************************)
(* The event loop waits for a row lock that only the event loop can        *)
(* release, as in RecoveryWorkflow.                                        *)
(***************************************************************************)
Stalled == waiting \/ (hook.at = "resolving" /\ hook.ev[2] \in locked)

(***************************************************************************)
(* Every event is settled in the end, crashes and conflicts                *)
(* notwithstanding, unless the event loop comes to wait for ever for a row *)
(* that a returned request keeps locked: nothing else stops an event.      *)
(***************************************************************************)
EventSettles == <>[]Stalled \/ []<>AllSettled

=============================================================================
