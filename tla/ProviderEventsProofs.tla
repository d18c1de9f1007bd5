------------------------ MODULE ProviderEventsProofs ------------------------
(***************************************************************************)
(* Proofs about ProviderEvents for any number of billing cycles, moves and *)
(* crashes, whether or not payment and subscription have events together.  *)
(***************************************************************************)
EXTENDS ProviderEvents, TLAPS

------------------------------------------------------------------------------
(* Events *)

\* Every event belongs to an episode, and an episode's events are events.
LEMMA EventShape ==
  /\ \A e \in Events : e[2] \in Keys
  /\ \A k \in Keys : Success(k) \in Events /\ Success(k)[2] = k
  /\ \A e \in Successes : e \in Events /\ e = Success(e[2])
  /\ \A j, k \in Keys : Success(j) = Success(k) => j = k
  /\ 0 \in Keys
<1>0. 0 \in Keys
  BY BoundsAssumption DEF Keys
<1>1. ASSUME NEW e \in Events PROVE e[2] \in Keys
  BY BoundsAssumption DEF Events, PaymentEvents, SubscriptionEvents, Keys, Cycles
<1>2. ASSUME NEW k \in Keys PROVE Success(k) \in Events /\ Success(k)[2] = k
  <2>1. CASE k = 0
    BY <2>1 DEF Success, Events, PaymentEvents
  <2>2. CASE k # 0
    <3>1. k \in Cycles
      BY <2>2, BoundsAssumption DEF Keys, Cycles
    <3> QED BY <2>2, <3>1 DEF Success, Events, SubscriptionEvents
  <2> QED BY <2>1, <2>2
<1>3. ASSUME NEW e \in Successes PROVE e \in Events /\ e = Success(e[2])
  BY <1>2 DEF Successes
<1>4. ASSUME NEW j \in Keys, NEW k \in Keys, Success(j) = Success(k) PROVE j = k
  BY <1>2, <1>4
<1> QED BY <1>0, <1>1, <1>2, <1>3, <1>4

\* Requests that lock rows, and a coroutine that waits for one, change nothing else.
LEMMA LocksAside ==
  ASSUME Locking \/ \E e \in Events : DeliverBlocked(e)
  PROVE  UNCHANGED <<razorpay, known, row, records, hook, moves, crashes>>
BY DEF Locking, LinkWaits, RequestReturns, SessionClosed, DeliverBlocked

\* The delivery being handled is that of a success.
HookTyped == hook.at # "idle" => hook.ev \in Successes

------------------------------------------------------------------------------
(* Types *)

\* Writing the transaction of an event keeps its type.
LEMMA TransactionTyped ==
  ASSUME TypeOK, NEW status \in {"failed", "captured"}, NEW e \in Events,
         UpsertTransaction(status, sent[e])
  PROVE  txn' \in [status : {"ABSENT", "failed", "captured"}, at : Nat]
BY DEF TypeOK, UpsertTransaction

\* Writing the subscription of an event keeps its type.
LEMMA SubscriptionTyped ==
  ASSUME TypeOK, NEW kind \in {"pending", "charged", "halted"}, NEW e \in Events,
         UpsertSubscription(kind, sent[e])
  PROVE  sub' \in [status : {"pending", "active", "halted"}, at : Nat]
BY DEF TypeOK, UpsertSubscription, StatusOf

\* Writing the evidence of a success keeps both types.
LEMMA EvidenceTyped ==
  ASSUME TypeOK, NEW e \in Events, UpsertEvidence(e)
  PROVE  /\ txn' \in [status : {"ABSENT", "failed", "captured"}, at : Nat]
         /\ sub' \in [status : {"pending", "active", "halted"}, at : Nat]
<1>1. CASE e[2] = 0
  BY <1>1, TransactionTyped DEF UpsertEvidence, TypeOK
<1>2. CASE e[2] # 0
  BY <1>2, SubscriptionTyped DEF UpsertEvidence, TypeOK
<1> QED BY <1>1, <1>2

\* Settling a delivered event and opening a case keep their types.
LEMMA DeliveryTyped ==
  ASSUME TypeOK, NEW e \in Events, NEW state \in RowStates
  PROVE  /\ Settle(e, state) => row' \in [Events -> RowStates]
         /\ \A k \in Keys : OpenCase(k) => cases' \in [Keys -> CaseStates]
BY DEF TypeOK, Settle, OpenCase, CaseStates

\* The initial state is typed.
LEMMA TypesInit == Init => TypeOK /\ HookTyped
<1> SUFFICES ASSUME Init PROVE TypeOK /\ HookTyped
  OBVIOUS
<1>1. locked \subseteq Keys /\ waiting \in BOOLEAN
  BY DEF Init
<1> QED
  BY <1>1, BoundsAssumption DEF Init, TypeOK, HookTyped, IdleHook, Hooks, NoEvent, RowStates,
     CaseStates

\* Every step keeps the types.
LEMMA TypesStep == TypeOK /\ HookTyped /\ [Next]_vars => TypeOK' /\ HookTyped'
<1> SUFFICES ASSUME TypeOK, HookTyped, [Next]_vars PROVE TypeOK' /\ HookTyped'
  OBVIOUS
<1> USE BoundsAssumption
<1>0. IdleHook \in Hooks /\ IdleHook.at = "idle"
  BY DEF IdleHook, Hooks
<1>1. ASSUME NEW e \in Events, Happen(e) PROVE TypeOK' /\ HookTyped'
  <2>1. e[2] \in Keys
    BY EventShape
  <2>2. proof' \in [Keys -> Proofs \cup {"none"}]
    BY <1>1, <2>1 DEF Happen, TypeOK
  <2>3. sent' \in [Events -> Nat] /\ clock' \in [Entities -> Nat]
    BY <1>1 DEF Happen, TypeOK, Entity, Entities
  <2> QED BY <1>1, <2>2, <2>3 DEF Happen, TypeOK, HookTyped, records, process
<1>2. ASSUME NEW e \in Events, DeliverUncorrelated(e) PROVE TypeOK' /\ HookTyped'
  <2>1. row' \in [Events -> RowStates]
    BY <1>2, DeliveryTyped DEF DeliverUncorrelated, RowStates
  <2> QED BY <1>2, <2>1 DEF DeliverUncorrelated, TypeOK, HookTyped, records, process, razorpay
<1>3. ASSUME NEW e \in Events, DeliverPaymentFailed(e) PROVE TypeOK' /\ HookTyped'
  <2>1. txn' \in [status : {"ABSENT", "failed", "captured"}, at : Nat]
    BY <1>3, TransactionTyped DEF DeliverPaymentFailed
  <2>2. row' \in [Events -> RowStates] /\ cases' \in [Keys -> CaseStates]
    <3>1. 0 \in Keys /\ "PROCESSED" \in RowStates /\ "IGNORED" \in RowStates
      BY EventShape DEF RowStates
    <3>2. cases \in [Keys -> CaseStates]
      BY DEF TypeOK
    <3> QED BY <1>3, <3>1, <3>2, DeliveryTyped DEF DeliverPaymentFailed
  <2> QED BY <1>3, <2>1, <2>2 DEF DeliverPaymentFailed, TypeOK, HookTyped, process, razorpay
<1>4. ASSUME NEW e \in Events, DeliverPending(e) PROVE TypeOK' /\ HookTyped'
  <2>1. sub' \in [status : {"pending", "active", "halted"}, at : Nat]
    BY <1>4, SubscriptionTyped DEF DeliverPending
  <2>2. row' \in [Events -> RowStates] /\ cases' \in [Keys -> CaseStates]
    <3>1. e[2] \in Keys /\ "PROCESSED" \in RowStates /\ "IGNORED" \in RowStates
      BY EventShape DEF RowStates
    <3>2. cases \in [Keys -> CaseStates]
      BY DEF TypeOK
    <3> QED BY <1>4, <3>1, <3>2, DeliveryTyped DEF DeliverPending
  <2> QED BY <1>4, <2>1, <2>2 DEF DeliverPending, TypeOK, HookTyped, process, razorpay
<1>5. ASSUME NEW e \in Events, DeliverHalted(e) PROVE TypeOK' /\ HookTyped'
  <2>1. sub' \in [status : {"pending", "active", "halted"}, at : Nat]
    BY <1>5, SubscriptionTyped DEF DeliverHalted
  <2>2. row' \in [Events -> RowStates]
    BY <1>5, DeliveryTyped DEF DeliverHalted, RowStates
  <2> QED BY <1>5, <2>1, <2>2 DEF DeliverHalted, TypeOK, HookTyped, process, razorpay
<1>6. ASSUME NEW e \in Events, DeliverUnproven(e) PROVE TypeOK' /\ HookTyped'
  <2>1. row' \in [Events -> RowStates]
    BY <1>6, DeliveryTyped DEF DeliverUnproven, RowStates
  <2> QED BY <1>6, <2>1 DEF DeliverUnproven, TypeOK, HookTyped, records, process, razorpay
<1>7. ASSUME NEW e \in Events, DeliverSuccess(e) PROVE TypeOK' /\ HookTyped'
  <2>1. row' \in [Events -> RowStates]
    BY <1>7, DeliveryTyped DEF DeliverSuccess, RowStates
  <2>2. /\ txn' \in [status : {"ABSENT", "failed", "captured"}, at : Nat]
        /\ sub' \in [status : {"pending", "active", "halted"}, at : Nat]
    BY <1>7, EvidenceTyped DEF DeliverSuccess
  <2> QED BY <1>7, <2>1, <2>2 DEF DeliverSuccess, TypeOK, HookTyped, process, razorpay
<1>8. ASSUME NEW e \in Events, DeliverResolving(e) PROVE TypeOK' /\ HookTyped'
  BY <1>8 DEF DeliverResolving, IsProof, TypeOK, HookTyped, Hooks, records, process, razorpay
<1>9. CASE ResolveCommit
  <2>1. hook.ev \in Events /\ hook.ev[2] \in Keys
    BY <1>9, EventShape DEF ResolveCommit, HookTyped
  <2>2. row' \in [Events -> RowStates]
    BY <1>9, <2>1, DeliveryTyped DEF ResolveCommit, RowStates
  <2>3. /\ txn' \in [status : {"ABSENT", "failed", "captured"}, at : Nat]
        /\ sub' \in [status : {"pending", "active", "halted"}, at : Nat]
    BY <1>9, <2>1, EvidenceTyped DEF ResolveCommit
  <2>4. cases' \in [Keys -> CaseStates] /\ outcome' \in [Keys -> {"none", "event", "link"}]
    BY <1>9, <2>1 DEF ResolveCommit, TypeOK, CaseStates
  <2>5. hook' \in Hooks /\ HookTyped'
    BY <1>9 DEF ResolveCommit, TypeOK, Hooks, HookTyped
  <2> QED BY <1>9, <2>2, <2>3, <2>4, <2>5 DEF ResolveCommit, TypeOK, process, razorpay
<1>10. CASE ResolveConflict
  BY <1>0, <1>10 DEF ResolveConflict, TypeOK, HookTyped, records, process, razorpay
<1>11. CASE MarkProcessed
  <2>1. row' \in [Events -> RowStates]
    BY <1>11, EventShape, DeliveryTyped DEF MarkProcessed, HookTyped, RowStates
  <2> QED BY <1>0, <1>11, <2>1 DEF MarkProcessed, TypeOK, HookTyped, records, process, razorpay
<1>12. CASE Crash
  <2>1. locked' \subseteq Keys /\ waiting' \in BOOLEAN
    BY <1>12 DEF Crash
  <2> QED BY <1>0, <1>12, <2>1 DEF Crash, TypeOK, HookTyped, records, razorpay
<1>13. ASSUME NEW k \in Keys, CaseMoves(k) PROVE TypeOK' /\ HookTyped'
  <2>1. hook' \in Hooks /\ hook'.at = hook.at /\ hook'.ev = hook.ev
    <3>1. hook \in Hooks
      BY DEF TypeOK
    <3>2. hook' = hook \/ hook' = [hook EXCEPT !.moved = TRUE]
      BY <1>13 DEF CaseMoves
    <3> QED BY <3>1, <3>2 DEF Hooks
  <2>2. cases' \in [Keys -> CaseStates]
    BY <1>13 DEF CaseMoves, TypeOK, CaseStates
  <2>3. moves' \in 0..MaxMoves
    BY <1>13 DEF CaseMoves, TypeOK
  <2> QED BY <1>13, <2>1, <2>2, <2>3 DEF CaseMoves, TypeOK, HookTyped, razorpay
<1>14. ASSUME NEW k \in Keys, LinkPaid(k) PROVE TypeOK' /\ HookTyped'
  BY <1>14 DEF LinkPaid, TypeOK, HookTyped, CaseStates, process, razorpay
<1>15. CASE UNCHANGED vars
  BY <1>15 DEF vars, TypeOK, HookTyped, records, process, razorpay
<1>16. CASE Locking \/ \E e \in Events : DeliverBlocked(e)
  <2>1. locked' \subseteq Keys /\ waiting' \in BOOLEAN
    BY <1>16 DEF Locking, LinkWaits, RequestReturns, SessionClosed, DeliverBlocked, TypeOK
  <2> QED BY <1>16, <2>1, LocksAside DEF TypeOK, HookTyped, records, razorpay
<1> QED
  BY <1>1, <1>2, <1>3, <1>4, <1>5, <1>6, <1>7, <1>8, <1>9, <1>10, <1>11, <1>12, <1>13, <1>14,
     <1>15, <1>16 DEF Next, Deliver

LEMMA TypesInvariant == Spec => [](TypeOK /\ HookTyped)
BY TypesInit, TypesStep, PTL DEF Spec

\* Every variable keeps its type.
THEOREM EventTypes == Spec => []TypeOK
BY TypesInvariant, PTL

------------------------------------------------------------------------------
(* Outcomes and the events they rest on *)

\* Only events that happened have rows.
RowsHappened == \A e \in Events : row[e] # "ABSENT" => Happened(e)

(***************************************************************************)
(* What the handler has established about the success it is handling: it   *)
(* happened and proves the money, and, once committed, its claim and the   *)
(* outcome are there.                                                      *)
(***************************************************************************)
HookSound ==
  hook.at # "idle" =>
    /\ known
    /\ Happened(hook.ev)
    /\ proof[hook.ev[2]] = "captured"
    /\ hook.at = "resolving" /\ ~hook.moved => cases[hook.ev[2]] = "open"
    /\ hook.at = "committed" => row[hook.ev] = "RECEIVED" /\ outcome[hook.ev[2]] = "event"

\* An outcome that rests on an event was correlated.
OutcomeKnown == \A k \in Keys : outcome[k] = "event" => known

LedgerInv == RowsHappened /\ HookSound /\ OutcomeKnown /\ OutcomeHasItsEvent

Typed == TypeOK /\ HookTyped

\* Delivering settles the event's row and leaves the hook, cases and outcomes alone.
LEMMA SettlingKeepsLedger ==
  ASSUME Typed, LedgerInv, NEW e \in Events, NEW state \in Settled, Delivered(e), Settle(e, state),
         UNCHANGED <<razorpay, known, outcome, hook>>,
         \A k \in Keys : cases'[k] = "RECOVERED" <=> cases[k] = "RECOVERED",
         \A k \in Keys : outcome[k] = "event" /\ e = Success(k) => state = "PROCESSED"
  PROVE  LedgerInv'
<1>1. \A f \in Events : row'[f] = IF f = e THEN state ELSE row[f]
  BY DEF Settle, Typed, TypeOK
<1>2. RowsHappened'
  BY <1>1 DEF LedgerInv, RowsHappened, Happened, Delivered, razorpay
<1>3. HookSound'
  BY DEF Delivered, LoopFree, HookSound
<1>4. OutcomeKnown'
  BY DEF LedgerInv, OutcomeKnown
<1>5. OutcomeHasItsEvent'
  <2> SUFFICES ASSUME NEW k \in Keys
               PROVE  /\ cases'[k] = "RECOVERED" <=> outcome'[k] # "none"
                      /\ outcome'[k] = "event" => row'[Success(k)] \in {"RECEIVED", "PROCESSED"}
                            /\ proof'[k] = "captured"
    BY DEF OutcomeHasItsEvent
  <2> QED BY <1>1, EventShape DEF LedgerInv, OutcomeHasItsEvent, razorpay
<1> QED BY <1>2, <1>3, <1>4, <1>5 DEF LedgerInv

\* The initial state has no rows and no outcomes.
LEMMA LedgerInit == Init => LedgerInv
BY EventShape DEF Init, LedgerInv, RowsHappened, HookSound, OutcomeKnown, OutcomeHasItsEvent,
   IdleHook

\* Every step keeps outcomes and events together.
LEMMA LedgerStep == Typed /\ LedgerInv /\ [Next]_vars => LedgerInv'
<1> SUFFICES ASSUME Typed, LedgerInv, [Next]_vars PROVE LedgerInv'
  OBVIOUS
<1>0. /\ "PROCESSED" \in Settled /\ "IGNORED" \in Settled /\ "FLAGGED" \in Settled
      /\ IdleHook.at = "idle"
  BY DEF Settled, IdleHook
<1>1. ASSUME NEW e \in Events, Happen(e) PROVE LedgerInv'
  <2>1. ~Happened(e) /\ row[e] = "ABSENT"
    BY <1>1 DEF Happen, CanHappen, LedgerInv, RowsHappened
  <2>2. \A f \in Events : Happened(f) => Happened(f)' /\ f # e
    BY <1>1, <2>1 DEF Happen, Happened, Typed, TypeOK
  <2>3. \A k \in Keys : proof'[k] # proof[k] => e = Success(k)
    BY <1>1, EventShape DEF Happen, Typed, TypeOK
  <2>4. UNCHANGED <<known, row, cases, outcome, hook>>
    BY <1>1 DEF Happen, records
  <2>5. RowsHappened'
    BY <2>2, <2>4 DEF LedgerInv, RowsHappened
  <2>6. HookSound'
    <3> SUFFICES ASSUME hook.at # "idle"
                 PROVE  Happened(hook.ev)' /\ proof'[hook.ev[2]] = "captured"
      BY <2>4 DEF LedgerInv, HookSound
    <3>1. hook.ev \in Events /\ hook.ev = Success(hook.ev[2]) /\ hook.ev[2] \in Keys
      BY EventShape DEF Typed, HookTyped
    <3>2. hook.ev # e
      BY <2>2, <3>1 DEF LedgerInv, HookSound
    <3> QED BY <2>2, <2>3, <2>4, <3>1, <3>2 DEF LedgerInv, HookSound, Happened
  <2>7. OutcomeHasItsEvent'
    BY <2>1, <2>3, <2>4 DEF LedgerInv, OutcomeHasItsEvent
  <2> QED BY <2>4, <2>5, <2>6, <2>7 DEF LedgerInv, OutcomeKnown
<1>2. ASSUME NEW e \in Events, DeliverUncorrelated(e) PROVE LedgerInv'
  <2>1. \A k \in Keys : outcome[k] # "event"
    BY <1>2 DEF DeliverUncorrelated, LedgerInv, OutcomeKnown
  <2>2. Settle(e, "PROCESSED") \/ Settle(e, "IGNORED")
    BY <1>2 DEF DeliverUncorrelated
  <2>3. Delivered(e) /\ UNCHANGED <<razorpay, known, outcome, hook, cases>>
    BY <1>2 DEF DeliverUncorrelated, records
  <2> QED BY <1>0, <2>1, <2>2, <2>3, SettlingKeepsLedger
<1>3. ASSUME NEW e \in Events, DeliverPaymentFailed(e) PROVE LedgerInv'
  <2>1. \A k \in Keys : e # Success(k)
    BY <1>3 DEF DeliverPaymentFailed, Success
  <2>2. \A k \in Keys : cases'[k] = "RECOVERED" <=> cases[k] = "RECOVERED"
    BY <1>3 DEF DeliverPaymentFailed, OpenCase, Typed, TypeOK
  <2>3. Delivered(e) /\ UNCHANGED <<razorpay, known, outcome, hook>>
    BY <1>3 DEF DeliverPaymentFailed
  <2>4. Settle(e, "PROCESSED") \/ Settle(e, "IGNORED")
    BY <1>3 DEF DeliverPaymentFailed
  <2> QED BY <1>0, <2>1, <2>2, <2>3, <2>4, SettlingKeepsLedger
<1>4. ASSUME NEW e \in Events, DeliverPending(e) PROVE LedgerInv'
  <2>1. \A k \in Keys : e # Success(k)
    BY <1>4 DEF DeliverPending, Success
  <2>2. \A k \in Keys : cases'[k] = "RECOVERED" <=> cases[k] = "RECOVERED"
    BY <1>4 DEF DeliverPending, OpenCase, Typed, TypeOK
  <2>3. Delivered(e) /\ UNCHANGED <<razorpay, known, outcome, hook>>
    BY <1>4 DEF DeliverPending
  <2>4. Settle(e, "PROCESSED") \/ Settle(e, "IGNORED")
    BY <1>4 DEF DeliverPending
  <2> QED BY <1>0, <2>1, <2>2, <2>3, <2>4, SettlingKeepsLedger
<1>5. ASSUME NEW e \in Events, DeliverHalted(e) PROVE LedgerInv'
  <2>1. Delivered(e) /\ Settle(e, "PROCESSED")
        /\ UNCHANGED <<razorpay, known, outcome, hook, cases>>
    BY <1>5 DEF DeliverHalted
  <2> QED BY <1>0, <2>1, SettlingKeepsLedger
<1>6. ASSUME NEW e \in Events, DeliverUnproven(e) PROVE LedgerInv'
  <2>1. Delivered(e) /\ Settle(e, "IGNORED") /\ UNCHANGED <<razorpay, known, outcome, hook, cases>>
    BY <1>6 DEF DeliverUnproven, records
  <2>2. \A k \in Keys : e = Success(k) => outcome[k] # "event"
    BY <1>6, EventShape DEF DeliverUnproven, LedgerInv, OutcomeHasItsEvent
  <2> QED BY <1>0, <2>1, <2>2, SettlingKeepsLedger
<1>7. ASSUME NEW e \in Events, DeliverSuccess(e) PROVE LedgerInv'
  <2>1. Delivered(e) /\ UNCHANGED <<razorpay, known, outcome, hook, cases>>
    BY <1>7 DEF DeliverSuccess
  <2>2. CASE Settle(e, "PROCESSED")
    BY <1>0, <2>1, <2>2, SettlingKeepsLedger
  <2>3. CASE cases[e[2]] # "RECOVERED" /\ (Settle(e, "IGNORED") \/ Settle(e, "FLAGGED"))
    <3>1. \A k \in Keys : e = Success(k) => outcome[k] # "event"
      BY <2>3, EventShape DEF LedgerInv, OutcomeHasItsEvent
    <3> QED BY <1>0, <2>1, <2>3, <3>1, SettlingKeepsLedger
  <2> QED BY <1>7, <2>2, <2>3 DEF DeliverSuccess
<1>8. ASSUME NEW e \in Events, DeliverResolving(e) PROVE LedgerInv'
  BY <1>8 DEF DeliverResolving, Delivered, MoneyMatches, Happened, razorpay, records,
              LedgerInv, RowsHappened, HookSound, OutcomeKnown, OutcomeHasItsEvent
<1>9. CASE ResolveCommit
  <2>1. hook.ev \in Events /\ hook.ev[2] \in Keys /\ hook.ev = Success(hook.ev[2])
    BY <1>9, EventShape DEF ResolveCommit, Typed, HookTyped
  <2>2. known /\ Happened(hook.ev) /\ proof[hook.ev[2]] = "captured"
        /\ UNCHANGED <<sent, proof, known>>
    BY <1>9 DEF ResolveCommit, LedgerInv, HookSound, razorpay
  <2>3. /\ \A f \in Events : row'[f] = IF f = hook.ev THEN "RECEIVED" ELSE row[f]
        /\ \A k \in Keys : cases'[k] = IF k = hook.ev[2] THEN "RECOVERED" ELSE cases[k]
        /\ \A k \in Keys : outcome'[k] = IF k = hook.ev[2] THEN "event" ELSE outcome[k]
    BY <1>9, <2>1 DEF ResolveCommit, Settle, Typed, TypeOK
  <2>4. hook'.ev = hook.ev /\ hook'.at = "committed"
    BY <1>9 DEF ResolveCommit, Typed, TypeOK, Hooks
  <2>5. RowsHappened'
    BY <2>2, <2>3 DEF LedgerInv, RowsHappened, Happened
  <2>6. HookSound'
    BY <2>1, <2>2, <2>3, <2>4 DEF HookSound, Happened
  <2>7. OutcomeKnown'
    BY <2>2 DEF OutcomeKnown
  <2>8. OutcomeHasItsEvent'
    BY <2>1, <2>2, <2>3, EventShape DEF LedgerInv, OutcomeHasItsEvent
  <2> QED BY <2>5, <2>6, <2>7, <2>8 DEF LedgerInv
<1>10. CASE ResolveConflict
  BY <1>0, <1>10 DEF ResolveConflict, razorpay, records, LedgerInv, RowsHappened, Happened,
     HookSound,
                     OutcomeKnown, OutcomeHasItsEvent
<1>11. CASE MarkProcessed
  <2>1. hook.ev \in Events /\ row[hook.ev] = "RECEIVED" /\ Happened(hook.ev)
    BY <1>11, EventShape DEF MarkProcessed, Typed, HookTyped, LedgerInv, HookSound
  <2>2. \A f \in Events : row'[f] = IF f = hook.ev THEN "PROCESSED" ELSE row[f]
    BY <1>11, <2>1 DEF MarkProcessed, Settle, Typed, TypeOK
  <2>3. UNCHANGED <<sent, proof, known, cases, outcome>> /\ hook'.at = "idle"
    BY <1>0, <1>11 DEF MarkProcessed, razorpay, records
  <2>4. RowsHappened'
    BY <2>1, <2>2, <2>3 DEF LedgerInv, RowsHappened, Happened
  <2>5. OutcomeHasItsEvent'
    BY <2>2, <2>3, EventShape DEF LedgerInv, OutcomeHasItsEvent
  <2> QED BY <2>3, <2>4, <2>5 DEF LedgerInv, HookSound, OutcomeKnown
<1>12. CASE Crash
  BY <1>0, <1>12 DEF Crash, razorpay, records, LedgerInv, RowsHappened, Happened, HookSound,
                     OutcomeKnown, OutcomeHasItsEvent
<1>13. ASSUME NEW k \in Keys, CaseMoves(k) PROVE LedgerInv'
  <2>1. UNCHANGED <<sent, proof, known, row, outcome>>
    BY <1>13 DEF CaseMoves, razorpay
  <2>2. \A j \in Keys : cases'[j] = cases[j] \/ (j = k /\ cases[k] = "open"
        /\ cases'[k] \in {"open", "closed"})
    BY <1>13 DEF CaseMoves, Typed, TypeOK
  <2>3. hook' = hook \/ (hook'.ev = hook.ev /\ hook'.at = hook.at /\ hook'.moved)
    BY <1>13 DEF CaseMoves, Typed, TypeOK, Hooks
  <2>4. hook.at = "resolving" /\ hook.ev[2] = k => hook'.moved
    BY <1>13 DEF CaseMoves, Typed, TypeOK, Hooks
  <2>5. HookSound'
    <3> SUFFICES ASSUME hook'.at # "idle"
                 PROVE  hook'.at = "resolving" /\ ~hook'.moved => cases'[hook'.ev[2]] = "open"
      BY <2>1, <2>3 DEF LedgerInv, HookSound, Happened
    <3>1. hook.ev[2] \in Keys
      BY <2>3, EventShape DEF Typed, HookTyped
    <3> QED BY <2>2, <2>3, <2>4, <3>1 DEF LedgerInv, HookSound
  <2>6. OutcomeHasItsEvent'
    BY <2>1, <2>2 DEF LedgerInv, OutcomeHasItsEvent
  <2> QED BY <2>1, <2>5, <2>6 DEF LedgerInv, RowsHappened, Happened, OutcomeKnown
<1>14. ASSUME NEW k \in Keys, LinkPaid(k) PROVE LedgerInv'
  <2>1. UNCHANGED <<sent, proof, known, row, hook>> /\ hook.at = "idle"
    BY <1>14 DEF LinkPaid, LoopFree, razorpay
  <2>2. \A j \in Keys : /\ cases'[j] = IF j = k THEN "RECOVERED" ELSE cases[j]
                        /\ outcome'[j] = IF j = k THEN "link" ELSE outcome[j]
    BY <1>14 DEF LinkPaid, Typed, TypeOK
  <2>3. OutcomeHasItsEvent'
    BY <2>1, <2>2 DEF LedgerInv, OutcomeHasItsEvent
  <2> QED BY <2>1, <2>2, <2>3 DEF LedgerInv, RowsHappened, Happened, OutcomeKnown, HookSound
<1>15. CASE UNCHANGED vars
  BY <1>15 DEF vars, razorpay, records, LedgerInv, RowsHappened, Happened, HookSound,
               OutcomeKnown, OutcomeHasItsEvent
<1>16. CASE Locking \/ \E e \in Events : DeliverBlocked(e)
  BY <1>16, LocksAside DEF razorpay, records, LedgerInv, RowsHappened, Happened, HookSound,
     OutcomeKnown, OutcomeHasItsEvent
<1> QED
  BY <1>1, <1>2, <1>3, <1>4, <1>5, <1>6, <1>7, <1>8, <1>9, <1>10, <1>11, <1>12, <1>13, <1>14,
     <1>15, <1>16 DEF Next, Deliver

LEMMA LedgerInvariant == Spec => [](Typed /\ LedgerInv)
<1>1. Init => Typed /\ LedgerInv
  BY TypesInit, LedgerInit DEF Typed
<1>2. Typed /\ LedgerInv /\ [Next]_vars => (Typed /\ LedgerInv)'
  BY TypesStep, LedgerStep DEF Typed
<1> QED BY <1>1, <1>2, PTL DEF Spec

(***************************************************************************)
(* A case is RECOVERED exactly when it has an outcome, and an outcome that *)
(* rests on a success event has that event's row, with the right amount.   *)
(***************************************************************************)
THEOREM OutcomesHaveEvents == Spec => []OutcomeHasItsEvent
BY LedgerInvariant, PTL DEF LedgerInv

------------------------------------------------------------------------------
(* The order of events at Razorpay *)

Pending(c) == <<"pending", c>>
Charged(c) == <<"charged", c>>
Halted(c) == <<"halted", c>>

(***************************************************************************)
(* A cycle's failure is not newer than its charge, and no other event of   *)
(* the subscription shares the second of a halt.                           *)
(***************************************************************************)
TimesOrdered ==
  /\ \A e \in SubscriptionEvents : sent[e] <= clock["subscription"]
  /\ \A c \in Cycles : Happened(Pending(c)) /\ Happened(Charged(c))
        => sent[Pending(c)] <= sent[Charged(c)]
  /\ \A c \in Cycles, e \in SubscriptionEvents :
       Happened(Halted(c)) /\ Happened(e) /\ e # Halted(c) => sent[e] # sent[Halted(c)]

\* The events of a cycle are events of the subscription.
LEMMA CycleEvents ==
  /\ SubscriptionEvents \subseteq Events
  /\ \A c \in Cycles : /\ Pending(c) \in SubscriptionEvents
                       /\ Charged(c) \in SubscriptionEvents
                       /\ Halted(c) \in SubscriptionEvents
                       /\ c \in Keys /\ c # 0
                       /\ Success(c) = Charged(c) /\ Failure(c) = Pending(c)
  /\ \A e \in SubscriptionEvents : e[2] \in Cycles
        /\ e \in {Pending(e[2]), Charged(e[2]), Halted(e[2])}
  /\ \A e \in PaymentEvents : e[2] = 0
  /\ \A e \in Events : e \in PaymentEvents \/ e \in SubscriptionEvents
<1>1. \A c \in Cycles : c \in Keys /\ c # 0
  BY BoundsAssumption DEF Cycles, Keys
<1>2. \A c \in Cycles : /\ Pending(c) \in SubscriptionEvents
                       /\ Charged(c) \in SubscriptionEvents
                       /\ Halted(c) \in SubscriptionEvents
  BY DEF Pending, Charged, Halted, SubscriptionEvents
<1>3. \A c \in Cycles : Success(c) = Charged(c) /\ Failure(c) = Pending(c)
  BY <1>1 DEF Success, Failure, Pending, Charged
<1>4. \A e \in SubscriptionEvents : e[2] \in Cycles
      /\ e \in {Pending(e[2]), Charged(e[2]), Halted(e[2])}
  BY DEF Pending, Charged, Halted, SubscriptionEvents
<1>5. \A e \in PaymentEvents : e[2] = 0
  BY DEF PaymentEvents
<1> QED BY <1>1, <1>2, <1>3, <1>4, <1>5 DEF Events

\* A later event of the subscription keeps the order.
LEMMA TimesStep == Typed /\ TimesOrdered /\ [Next]_vars => TimesOrdered'
<1> SUFFICES ASSUME Typed, TimesOrdered, [Next]_vars PROVE TimesOrdered'
  OBVIOUS
<1>1. ASSUME NEW e \in Events, Happen(e) PROVE TimesOrdered'
  <2>1. ~Happened(e) /\ CanHappen(e)
    BY <1>1 DEF Happen, CanHappen
  <2>2. CASE e[2] = 0
    <3>1. UNCHANGED clock["subscription"]
      BY <1>1, <2>2 DEF Happen, Entity, Typed, TypeOK, Entities
    <3>2. \A f \in SubscriptionEvents : sent'[f] = sent[f]
      <4>1. \A f \in SubscriptionEvents : f # e
        BY <2>2, CycleEvents
      <4> QED BY <1>1, <4>1, CycleEvents DEF Happen, Typed, TypeOK
    <3> QED BY <3>1, <3>2, CycleEvents DEF TimesOrdered, Happened
  <2>3. CASE e[2] # 0
    <3>0. e \in SubscriptionEvents /\ e[2] \in Cycles /\ Entity(e[2]) = "subscription"
      BY <2>3, CycleEvents DEF Entity
    <3>1. PICK t \in {clock["subscription"], clock["subscription"] + 1} :
            /\ t = clock["subscription"] => e \in Successes /\ t > 0 /\ sent[Failure(e[2])] = t
            /\ sent' = [sent EXCEPT ![e] = t]
            /\ clock' = [clock EXCEPT !["subscription"] = t]
      BY <1>1, <3>0 DEF Happen
    <3>2. clock["subscription"] \in Nat /\ clock'["subscription"] = t /\ t \in Nat
      BY <3>1 DEF Typed, TypeOK, Entities
    <3>3. \A f \in SubscriptionEvents : sent[f] \in Nat /\ sent'[f] = IF f = e THEN t ELSE sent[f]
      BY <3>1, CycleEvents DEF Typed, TypeOK
    <3>4. \A f \in SubscriptionEvents : sent'[f] <= t
      BY <3>1, <3>2, <3>3 DEF TimesOrdered
    <3>5. t = clock["subscription"] => e = Charged(e[2]) /\ sent[Pending(e[2])] = t /\ t > 0
      BY <3>0, <3>1, CycleEvents, EventShape
    <3>6. ASSUME NEW c \in Cycles, Happened(Pending(c))', Happened(Charged(c))'
          PROVE  sent'[Pending(c)] <= sent'[Charged(c)]
      <4>0. Pending(c) \in SubscriptionEvents /\ Charged(c) \in SubscriptionEvents
            /\ Pending(c) # Charged(c)
        BY CycleEvents DEF Pending, Charged
      <4>1. CASE e = Pending(c)
        <5>1. ~Happened(Charged(c))
          <6>1. e[1] = "pending" /\ e[2] = c /\ Success(c) = Charged(c)
            BY <4>1, CycleEvents DEF Pending
          <6> QED BY <2>1, <6>1 DEF CanHappen
        <5> QED BY <3>3, <3>6, <4>0, <4>1, <5>1 DEF Happened
      <4>2. CASE e = Charged(c)
        BY <3>3, <3>4, <4>0, <4>2
      <4>3. CASE e # Pending(c) /\ e # Charged(c)
        BY <3>3, <3>6, <4>0, <4>3 DEF TimesOrdered, Happened
      <4> QED BY <4>1, <4>2, <4>3
    <3>7. ASSUME NEW c \in Cycles, NEW f \in SubscriptionEvents,
                 Happened(Halted(c))', Happened(f)', f # Halted(c)
          PROVE  sent'[f] # sent'[Halted(c)]
      <4>0. Halted(c) \in SubscriptionEvents
        BY CycleEvents
      <4>1. CASE t = clock["subscription"] + 1
        <5>1. \A g \in SubscriptionEvents : sent[g] < t
          BY <3>2, <3>3, <4>1 DEF TimesOrdered
        <5>2. CASE e = Halted(c) \/ e = f
          BY <3>2, <3>3, <3>7, <4>0, <5>1, <5>2
        <5>3. CASE e # Halted(c) /\ e # f
          BY <3>3, <3>7, <4>0, <5>3 DEF TimesOrdered, Happened
        <5> QED BY <5>2, <5>3
      <4>2. CASE t = clock["subscription"]
        <5>1. e = Charged(e[2]) /\ sent[Pending(e[2])] = t /\ t > 0
          BY <3>5, <4>2
        <5>2. e # Halted(c) /\ Pending(e[2]) # Halted(c) /\ Pending(e[2]) \in SubscriptionEvents
          <6>1. e[1] = "charged" /\ Halted(c)[1] = "halted" /\ Pending(e[2])[1] = "pending"
            <7> DEFINE j == e[2]
            <7>1. e = Charged(j) /\ Charged(j)[1] = "charged"
              BY <5>1 DEF Charged
            <7> QED BY <7>1 DEF Pending, Halted
          <6> QED BY <3>0, <6>1, CycleEvents
        <5>3. Happened(Halted(c)) /\ sent'[Halted(c)] = sent[Halted(c)]
          BY <3>3, <3>7, <4>0, <5>2 DEF Happened
        <5>4. sent[Halted(c)] # t
          BY <5>1, <5>2, <5>3 DEF TimesOrdered, Happened
        <5> QED BY <3>3, <3>7, <5>3, <5>4 DEF TimesOrdered, Happened
      <4> QED BY <3>1, <4>1, <4>2
    <3> QED BY <3>2, <3>4, <3>6, <3>7 DEF TimesOrdered
  <2> QED BY <2>2, <2>3
<1>2. CASE UNCHANGED <<sent, clock>>
  BY <1>2 DEF TimesOrdered, Happened
<1> QED
  BY <1>1, <1>2 DEF Next, Deliver, vars, razorpay, DeliverUncorrelated, DeliverPaymentFailed,
     DeliverPending,
     DeliverHalted, DeliverUnproven, DeliverSuccess, DeliverResolving, ResolveCommit,
     ResolveConflict,
     MarkProcessed, Crash, CaseMoves, LinkPaid, Locking, LinkWaits, RequestReturns, SessionClosed,
     DeliverBlocked

------------------------------------------------------------------------------
(* What the local records remember of a success *)

\* Once the capture has a row the transaction is captured.
PaymentEvidence == known /\ row[Success(0)] # "ABSENT" => txn.status = "captured"

(***************************************************************************)
(* Once the proven charge of a cycle has a row, the subscription is at     *)
(* least as new, and active unless something newer was applied.            *)
(***************************************************************************)
Remembers(c) ==
  /\ sub.at >= sent[Charged(c)]
  /\ sub.at = sent[Charged(c)] => sub.status = "active"

ChargeEvidence ==
  \A c \in Cycles :
    known /\ row[Charged(c)] # "ABSENT" /\ proof[c] # "authorized" => Remembers(c)

EvidenceInv == PaymentEvidence /\ ChargeEvidence

\* An applied event is not older, and a halt never shares the second of a charge.
LEMMA RemembersLater ==
  ASSUME Typed, TimesOrdered, NEW c \in Cycles, NEW e \in SubscriptionEvents, Happened(e),
         Happened(Charged(c)), Remembers(c), UpsertSubscription(e[1], sent[e]), UNCHANGED sent
  PROVE  Remembers(c)'
<1>1. CASE ~ShouldApplySubscription(e[1], sent[e])
  BY <1>1 DEF UpsertSubscription, Remembers
<1>2. CASE ShouldApplySubscription(e[1], sent[e])
  <2>1. sub' = [status |-> StatusOf[e[1]], at |-> sent[e]] /\ sent[e] >= sub.at
    BY <1>2 DEF UpsertSubscription, ShouldApplySubscription
  <2>2. sent[e] \in Nat /\ sent[Charged(c)] \in Nat /\ sub.at \in Nat
    BY CycleEvents DEF Typed, TypeOK
  <2>3. sent[e] >= sent[Charged(c)]
    BY <2>1, <2>2 DEF Remembers
  <2>4. ASSUME sent[e] = sent[Charged(c)] PROVE e[1] = "charged"
    <3>1. sub.status = "active"
      BY <2>1, <2>2, <2>4 DEF Remembers
    <3>2. e[1] # "pending"
      BY <1>2, <3>1 DEF ShouldApplySubscription
    <3>3. e # Halted(e[2])
      <4>1. Charged(c) # Halted(e[2])
        BY DEF Charged, Halted
      <4> QED BY <2>4, <4>1, CycleEvents DEF TimesOrdered
    <3>4. e[1] \in {"pending", "charged", "halted"} /\ (e[1] = "halted" => e = Halted(e[2]))
      BY DEF SubscriptionEvents, Halted
    <3> QED BY <3>2, <3>3, <3>4
  <2> QED BY <2>1, <2>3, <2>4 DEF Remembers, StatusOf
<1> QED BY <1>1, <1>2

\* The charge itself is remembered.
LEMMA RemembersOwn ==
  ASSUME Typed, NEW c \in Cycles, UpsertSubscription("charged", sent[Charged(c)]), UNCHANGED sent
  PROVE  Remembers(c)'
<1>1. sent[Charged(c)] \in Nat /\ sub.at \in Nat
  BY CycleEvents DEF Typed, TypeOK
<1>2. CASE ShouldApplySubscription("charged", sent[Charged(c)])
  BY <1>1, <1>2 DEF UpsertSubscription, Remembers, StatusOf
<1>3. CASE ~ShouldApplySubscription("charged", sent[Charged(c)])
  BY <1>1, <1>3 DEF UpsertSubscription, ShouldApplySubscription, Remembers
<1> QED BY <1>2, <1>3

\* A failure is not applied to a captured payment.
LEMMA CapturedRefusesFailure ==
  ASSUME txn.status = "captured", NEW at PROVE ~ShouldApplyPayment("failed", at)
BY DEF ShouldApplyPayment

\* Writing the evidence of a success keeps what is remembered and adds its own.
LEMMA EvidenceWritten ==
  ASSUME Typed, TimesOrdered, RowsHappened, EvidenceInv, NEW e \in Successes, Happened(e),
         UpsertEvidence(e), UNCHANGED <<sent, proof, known>>,
         \A f \in Events : f # e => row'[f] = row[f]
  PROVE  EvidenceInv'
<1>0. e \in Events /\ e[2] \in Keys /\ e = Success(e[2])
  BY EventShape
<1>1. CASE e[2] = 0
  <2>1. txn'.status = "captured" /\ sub' = sub
    BY <1>1 DEF UpsertEvidence, UpsertTransaction, ShouldApplyPayment
  <2>2. \A c \in Cycles : Charged(c) # e /\ Charged(c) \in Events
    BY <1>1, CycleEvents DEF Charged
  <2> QED BY <2>1, <2>2 DEF EvidenceInv, PaymentEvidence, ChargeEvidence, Remembers
<1>2. CASE e[2] # 0
  <2>1. txn' = txn /\ UpsertSubscription("charged", sent[e])
    BY <1>2 DEF UpsertEvidence
  <2>2. e[2] \in Cycles /\ e = Charged(e[2]) /\ e \in SubscriptionEvents
    BY <1>0, <1>2, CycleEvents DEF PaymentEvents
  <2>3. PaymentEvidence'
    BY <1>0, <1>2, <2>1, EventShape DEF EvidenceInv, PaymentEvidence
  <2>4. ASSUME NEW c \in Cycles, (known /\ row[Charged(c)] # "ABSENT" /\ proof[c] # "authorized")'
        PROVE  Remembers(c)'
    <3>1. CASE e = Charged(c)
      BY <2>1, <3>1, RemembersOwn
    <3>2. CASE e # Charged(c)
      <4>1. Charged(c) \in Events /\ row[Charged(c)] # "ABSENT" /\ known /\ proof[c] # "authorized"
        BY <2>4, <3>2, CycleEvents
      <4>2. Remembers(c) /\ Happened(Charged(c))
        BY <4>1 DEF EvidenceInv, ChargeEvidence, RowsHappened
      <4>3. e[1] = "charged"
        BY <2>2 DEF Charged
      <4> QED BY <2>1, <2>2, <4>2, <4>3, RemembersLater
    <3> QED BY <3>1, <3>2
  <2> QED BY <2>3, <2>4 DEF EvidenceInv, ChargeEvidence
<1> QED BY <1>1, <1>2

\* The initial state remembers nothing.
LEMMA EvidenceInit == Init => TimesOrdered /\ EvidenceInv
<1> SUFFICES ASSUME Init PROVE TimesOrdered /\ EvidenceInv
  OBVIOUS
<1>1. TimesOrdered
  BY CycleEvents DEF Init, TimesOrdered, Happened, Entities
<1>2. EvidenceInv
  BY CycleEvents, EventShape DEF Init, EvidenceInv, PaymentEvidence, ChargeEvidence
<1> QED BY <1>1, <1>2

\* Every step keeps what is remembered.
LEMMA EvidenceStep ==
  Typed /\ LedgerInv /\ TimesOrdered /\ EvidenceInv /\ [Next]_vars => EvidenceInv'
<1> SUFFICES ASSUME Typed, LedgerInv, TimesOrdered, EvidenceInv, [Next]_vars PROVE EvidenceInv'
  OBVIOUS
<1>0. RowsHappened /\ HookSound
  BY DEF LedgerInv
<1>1. ASSUME NEW e \in Events, Happen(e) PROVE EvidenceInv'
  <2>1. UNCHANGED <<known, row, txn, sub>> /\ ~Happened(e)
    BY <1>1 DEF Happen, CanHappen, records
  <2>2. \A c \in Cycles : row[Charged(c)] # "ABSENT" => sent'[Charged(c)] = sent[Charged(c)]
        /\ proof'[c] = proof[c]
    <3> SUFFICES ASSUME NEW c \in Cycles, row[Charged(c)] # "ABSENT"
                 PROVE  sent'[Charged(c)] = sent[Charged(c)] /\ proof'[c] = proof[c]
      OBVIOUS
    <3>1. Charged(c) \in Events /\ Charged(c) = Success(c) /\ c \in Keys /\ e # Charged(c)
      BY <1>0, <2>1, CycleEvents DEF RowsHappened
    <3>2. e \in Successes => e[2] # c
      BY <3>1, EventShape
    <3> QED BY <1>1, <3>1, <3>2 DEF Happen, Typed, TypeOK
  <2> QED BY <2>1, <2>2 DEF EvidenceInv, PaymentEvidence, ChargeEvidence, Remembers
<1>2. ASSUME NEW e \in Events, DeliverUncorrelated(e) PROVE EvidenceInv'
  BY <1>2 DEF DeliverUncorrelated, EvidenceInv, PaymentEvidence, ChargeEvidence
<1>3. ASSUME NEW e \in Events, DeliverPaymentFailed(e) PROVE EvidenceInv'
  <2>1. \A k \in Keys : e # Success(k)
    BY <1>3 DEF DeliverPaymentFailed, Success
  <2>2. \A k \in Keys : row'[Success(k)] = row[Success(k)]
    BY <1>3, <2>1, EventShape DEF DeliverPaymentFailed, Settle, Typed, TypeOK
  <2>3. txn.status = "captured" => txn' = txn
    BY <1>3, CapturedRefusesFailure DEF DeliverPaymentFailed, UpsertTransaction
  <2>4. UNCHANGED <<sent, proof, known, sub>>
    BY <1>3 DEF DeliverPaymentFailed, razorpay
  <2>5. PaymentEvidence'
    BY <2>2, <2>3, <2>4, EventShape DEF EvidenceInv, PaymentEvidence
  <2>6. ChargeEvidence'
    BY <2>2, <2>4, CycleEvents DEF EvidenceInv, ChargeEvidence, Remembers
  <2> QED BY <2>5, <2>6 DEF EvidenceInv
<1>4. ASSUME NEW e \in Events, DeliverPending(e) \/ DeliverHalted(e) PROVE EvidenceInv'
  <2>1. e[1] \in {"pending", "halted"} /\ UpsertSubscription(e[1], sent[e]) /\ Happened(e)
    BY <1>4 DEF DeliverPending, DeliverHalted, Delivered
  <2>2. UNCHANGED <<sent, proof, known, txn>>
    BY <1>4 DEF DeliverPending, DeliverHalted, razorpay
  <2>3. \A k \in Keys : e # Success(k)
    BY <2>1 DEF Success
  <2>4. \A k \in Keys : row'[Success(k)] = row[Success(k)]
    BY <1>4, <2>3, EventShape DEF DeliverPending, DeliverHalted, Settle, Typed, TypeOK
  <2>5. e \in SubscriptionEvents
    BY <2>1 DEF Events, PaymentEvents
  <2>6. PaymentEvidence'
    BY <2>2, <2>4, EventShape DEF EvidenceInv, PaymentEvidence
  <2>7. ASSUME NEW c \in Cycles, (known /\ row[Charged(c)] # "ABSENT" /\ proof[c] # "authorized")'
        PROVE  Remembers(c)'
    <3>1. Charged(c) \in Events /\ row[Charged(c)] # "ABSENT" /\ known /\ proof[c] # "authorized"
      BY <2>2, <2>4, <2>7, CycleEvents
    <3>2. Remembers(c) /\ Happened(Charged(c))
      BY <1>0, <3>1 DEF EvidenceInv, ChargeEvidence, RowsHappened
    <3> QED BY <2>1, <2>2, <2>5, <3>2, RemembersLater
  <2> QED BY <2>6, <2>7 DEF EvidenceInv, ChargeEvidence
<1>5. ASSUME NEW e \in Events, DeliverUnproven(e) PROVE EvidenceInv'
  <2>1. UNCHANGED <<sent, proof, known, txn, sub>> /\ e[1] = "charged" /\ proof[e[2]] = "authorized"
    BY <1>5 DEF DeliverUnproven, razorpay, records
  <2>2. \A f \in Events : f # e => row'[f] = row[f]
    BY <1>5 DEF DeliverUnproven, Settle, Typed, TypeOK
  <2>3. e # Success(0)
    BY <2>1 DEF Success
  <2>4. \A c \in Cycles : e = Charged(c) => proof[c] = "authorized"
    BY <2>1 DEF Charged
  <2> QED BY <2>1, <2>2, <2>3, <2>4, CycleEvents, EventShape
          DEF EvidenceInv, PaymentEvidence, ChargeEvidence, Remembers
<1>6. ASSUME NEW e \in Events, DeliverSuccess(e) PROVE EvidenceInv'
  <2>1. e \in Successes /\ Happened(e) /\ UpsertEvidence(e) /\ UNCHANGED <<sent, proof, known>>
    BY <1>6 DEF DeliverSuccess, IsProof, Delivered, razorpay
  <2>2. \A f \in Events : f # e => row'[f] = row[f]
    BY <1>6 DEF DeliverSuccess, Settle, Typed, TypeOK
  <2> QED BY <1>0, <2>1, <2>2, EvidenceWritten
<1>7. CASE ResolveCommit
  <2>1. hook.ev \in Successes /\ Happened(hook.ev) /\ UpsertEvidence(hook.ev)
        /\ UNCHANGED <<sent, proof, known>>
    BY <1>0, <1>7 DEF ResolveCommit, Typed, HookTyped, HookSound, razorpay
  <2>2. \A f \in Events : f # hook.ev => row'[f] = row[f]
    BY <1>7 DEF ResolveCommit, Settle, Typed, TypeOK
  <2> QED BY <1>0, <2>1, <2>2, EvidenceWritten
<1>8. CASE MarkProcessed
  <2>1. UNCHANGED <<sent, proof, known, txn, sub>> /\ row[hook.ev] = "RECEIVED"
        /\ hook.ev \in Events
    BY <1>0, <1>8, EventShape DEF MarkProcessed, razorpay, records, HookSound, Typed, HookTyped
  <2>2. \A f \in Events : row'[f] # "ABSENT" => row[f] # "ABSENT"
    BY <1>8, <2>1 DEF MarkProcessed, Settle, Typed, TypeOK
  <2> QED BY <2>1, <2>2, CycleEvents, EventShape DEF EvidenceInv, PaymentEvidence, ChargeEvidence,
        Remembers
<1>9. CASE UNCHANGED <<sent, proof, known, row, txn, sub>>
  BY <1>9 DEF EvidenceInv, PaymentEvidence, ChargeEvidence, Remembers
<1> QED
  BY <1>1, <1>2, <1>3, <1>4, <1>5, <1>6, <1>7, <1>8, <1>9
     DEF Next, Deliver, vars, razorpay, records, DeliverResolving, ResolveConflict, Crash,
        CaseMoves, LinkPaid, Locking, LinkWaits, RequestReturns, SessionClosed, DeliverBlocked

LEMMA EvidenceInvariant == Spec => [](Typed /\ LedgerInv /\ TimesOrdered /\ EvidenceInv)
<1>1. Init => TimesOrdered /\ EvidenceInv
  BY EvidenceInit
<1>2. Typed /\ LedgerInv /\ TimesOrdered /\ EvidenceInv /\ [Next]_vars => TimesOrdered'
      /\ EvidenceInv'
  BY TimesStep, EvidenceStep
<1> QED BY <1>1, <1>2, LedgerInvariant, PTL DEF Spec

------------------------------------------------------------------------------
(* Results *)

Inv == Typed /\ LedgerInv /\ TimesOrdered /\ EvidenceInv

\* What SuccessIsSettled says of one episode.
SettledFor(k) ==
  known /\ row[Success(k)] \in Settled /\ proof[k] = "captured" =>
    \/ cases[k] \in {"ABSENT", "RECOVERED"}
    \/ cases[k] = "closed" /\ row[Success(k)] = "FLAGGED"

\* No row of a success and no case changes for an episode that a step leaves alone.
LEMMA SettledUndisturbed ==
  ASSUME NEW k \in Keys, SettledFor(k), UNCHANGED <<known, proof>>,
         row'[Success(k)] = row[Success(k)], cases'[k] = cases[k]
  PROVE  SettledFor(k)'
BY DEF SettledFor

\* A late failure opens no case once the success has a row.
LEMMA LateFailureOpensNothing ==
  ASSUME Inv, NEW k \in Keys, known, row[Success(k)] # "ABSENT", proof[k] = "captured",
         NEW e \in Events, Happened(e), e[2] = k
  PROVE  /\ e[1] = "failed" => ~ShouldApplyPayment("failed", sent[e])
         /\ e[1] = "pending" => ~ShouldApplySubscription("pending", sent[e])
<1>1. ASSUME e[1] = "failed" PROVE ~ShouldApplyPayment("failed", sent[e])
  <2>1. k = 0
    BY <1>1, CycleEvents DEF Events, PaymentEvents, SubscriptionEvents
  <2> QED BY <2>1, CapturedRefusesFailure DEF Inv, EvidenceInv, PaymentEvidence
<1>2. ASSUME e[1] = "pending" PROVE ~ShouldApplySubscription("pending", sent[e])
  <2>1. e \in SubscriptionEvents
    BY <1>2 DEF Events, PaymentEvents
  <2>2. k \in Cycles /\ e \in {Pending(k), Charged(k), Halted(k)}
    BY <2>1, CycleEvents
  <2>3. e = Pending(k)
    BY <1>2, <2>2 DEF Pending, Charged, Halted
  <2>4. Success(k) = Charged(k) /\ Charged(k) \in Events
    BY <2>2, CycleEvents
  <2>5. Remembers(k) /\ Happened(Charged(k))
    BY <2>2, <2>4 DEF Inv, EvidenceInv, ChargeEvidence, LedgerInv, RowsHappened
  <2>6. sent[e] <= sent[Charged(k)]
    BY <2>2, <2>3, <2>5 DEF Inv, TimesOrdered
  <2>7. sent[e] \in Nat /\ sent[Charged(k)] \in Nat /\ sub.at \in Nat
    BY <2>4 DEF Inv, Typed, TypeOK
  <2> QED BY <2>5, <2>6, <2>7 DEF Remembers, ShouldApplySubscription
<1> QED BY <1>1, <1>2

LEMMA SettledStep == Inv /\ SuccessIsSettled /\ [Next]_vars => SuccessIsSettled'
<1> SUFFICES ASSUME Inv, [Next]_vars, NEW k \in Keys, SettledFor(k) PROVE SettledFor(k)'
  BY DEF SuccessIsSettled, SettledFor
<1>0. /\ Success(k) \in Events /\ Success(k)[2] = k
      /\ Typed /\ RowsHappened /\ HookSound /\ OutcomeHasItsEvent
  BY EventShape DEF Inv, LedgerInv
<1>1. ASSUME NEW e \in Events, Happen(e) PROVE SettledFor(k)'
  <2>1. UNCHANGED <<known, row, cases>> /\ ~Happened(e)
    BY <1>1 DEF Happen, CanHappen, records
  <2>2. row[Success(k)] # "ABSENT" => proof'[k] = proof[k]
    <3>1. row[Success(k)] # "ABSENT" => e # Success(k)
      BY <1>0, <2>1 DEF RowsHappened
    <3> QED BY <1>1, <3>1, EventShape DEF Happen, Typed, TypeOK, Inv
  <2> QED BY <2>1, <2>2 DEF SettledFor, Settled
<1>2. ASSUME NEW e \in Events, DeliverUncorrelated(e) PROVE SettledFor(k)'
  BY <1>2 DEF DeliverUncorrelated, SettledFor
<1>3. ASSUME NEW e \in Events, DeliverPaymentFailed(e) \/ DeliverPending(e) PROVE SettledFor(k)'
  <2>1. /\ UNCHANGED <<known, proof>> /\ known /\ Happened(e)
        /\ e[1] \in {"failed", "pending"} /\ e # Success(k)
    BY <1>3 DEF DeliverPaymentFailed, DeliverPending, Delivered, razorpay, Success
  <2>2. row'[Success(k)] = row[Success(k)]
    BY <1>0, <1>3, <2>1 DEF DeliverPaymentFailed, DeliverPending, Settle, Typed, TypeOK
  <2>3. e[2] \in Keys /\ (e[1] = "failed" => e[2] = 0)
    BY EventShape, <2>1 DEF Events, PaymentEvents, SubscriptionEvents
  <2>4. CASE cases'[k] = cases[k]
    BY <2>1, <2>2, <2>4, SettledUndisturbed
  <2>5. CASE cases'[k] # cases[k]
    <3>1. e[2] = k /\ cases[k] = "ABSENT"
      BY <1>0, <1>3, <2>3, <2>5 DEF DeliverPaymentFailed, DeliverPending, OpenCase, Typed, TypeOK
    <3>2. \/ e[1] = "failed" /\ ShouldApplyPayment("failed", sent[e])
          \/ e[1] = "pending" /\ ShouldApplySubscription("pending", sent[e])
      BY <1>3, <2>5 DEF DeliverPaymentFailed, DeliverPending
    <3>3. row[Success(k)] = "ABSENT" \/ proof[k] # "captured"
      BY <2>1, <3>1, <3>2, LateFailureOpensNothing
    <3> QED BY <2>1, <2>2, <3>3 DEF SettledFor, Settled
  <2> QED BY <2>4, <2>5
<1>4. ASSUME NEW e \in Events, DeliverHalted(e) PROVE SettledFor(k)'
  <2>1. e # Success(k)
    BY <1>4 DEF DeliverHalted, Success
  <2> QED BY <1>0, <1>4, <2>1, SettledUndisturbed DEF DeliverHalted, Settle, razorpay, Typed, TypeOK
<1>5. ASSUME NEW e \in Events, DeliverUnproven(e) PROVE SettledFor(k)'
  <2>1. UNCHANGED <<known, proof, cases>> /\ proof[e[2]] = "authorized"
    BY <1>5 DEF DeliverUnproven, razorpay, records
  <2>2. CASE e = Success(k)
    BY <1>0, <2>1, <2>2 DEF SettledFor
  <2>3. CASE e # Success(k)
    BY <1>0, <1>5, <2>1, <2>3, SettledUndisturbed DEF DeliverUnproven, Settle, Typed, TypeOK
  <2> QED BY <2>2, <2>3
<1>6. ASSUME NEW e \in Events, DeliverSuccess(e) PROVE SettledFor(k)'
  <2>1. UNCHANGED <<known, proof, cases>>
    BY <1>6 DEF DeliverSuccess, razorpay
  <2>2. CASE e = Success(k)
    <3>1. e[2] = k
      BY <1>0, <2>2
    <3>2. \/ cases[k] \in {"ABSENT", "RECOVERED"}
          \/ proof[k] # "captured"
          \/ cases[k] = "closed" /\ row'[e] = "FLAGGED"
      BY <1>0, <1>6, <3>1 DEF DeliverSuccess, MoneyMatches, Settle, Typed, TypeOK
    <3> QED BY <2>1, <2>2, <3>2 DEF SettledFor
  <2>3. CASE e # Success(k)
    BY <1>0, <1>6, <2>1, <2>3, SettledUndisturbed DEF DeliverSuccess, Settle, Typed, TypeOK
  <2> QED BY <2>2, <2>3
<1>7. CASE ResolveCommit
  <2>1. UNCHANGED <<known, proof>> /\ hook.ev \in Events /\ hook.ev[2] \in Keys
        /\ hook.ev = Success(hook.ev[2])
    BY <1>0, <1>7, EventShape DEF ResolveCommit, razorpay, Typed, HookTyped
  <2>2. CASE hook.ev = Success(k)
    <3>1. cases'[k] = "RECOVERED"
      BY <1>0, <1>7, <2>2 DEF ResolveCommit, Typed, TypeOK
    <3> QED BY <3>1 DEF SettledFor
  <2>3. CASE hook.ev # Success(k)
    <3>1. hook.ev[2] # k
      BY <2>1, <2>3
    <3> QED BY <1>0, <1>7, <2>1, <2>3, <3>1, SettledUndisturbed DEF ResolveCommit, Settle, Typed,
          TypeOK
  <2> QED BY <2>2, <2>3
<1>8. CASE MarkProcessed
  <2>1. UNCHANGED <<known, proof, cases>> /\ hook.ev \in Events /\ hook.ev = Success(hook.ev[2])
        /\ outcome[hook.ev[2]] = "event"
    BY <1>0, <1>8, EventShape DEF MarkProcessed, razorpay, records, Typed, HookTyped, HookSound
  <2>2. CASE hook.ev = Success(k)
    <3>1. cases[k] = "RECOVERED"
      BY <1>0, <2>1, <2>2 DEF OutcomeHasItsEvent
    <3> QED BY <2>1, <3>1 DEF SettledFor
  <2>3. CASE hook.ev # Success(k)
    BY <1>0, <1>8, <2>1, <2>3, SettledUndisturbed DEF MarkProcessed, Settle, Typed, TypeOK
  <2> QED BY <2>2, <2>3
<1>9. ASSUME NEW j \in Keys, CaseMoves(j) \/ LinkPaid(j) PROVE SettledFor(k)'
  <2>1. UNCHANGED <<known, proof, row>> /\ cases[j] = "open"
    BY <1>9 DEF CaseMoves, LinkPaid, razorpay
  <2>2. CASE j = k
    BY <2>1, <2>2 DEF SettledFor
  <2>3. CASE j # k
    BY <1>0, <1>9, <2>1, <2>3, SettledUndisturbed DEF CaseMoves, LinkPaid, Typed, TypeOK
  <2> QED BY <2>2, <2>3
<1>10. CASE UNCHANGED <<known, proof, row, cases>>
  BY <1>10 DEF SettledFor
<1> QED
  BY <1>1, <1>2, <1>3, <1>4, <1>5, <1>6, <1>7, <1>8, <1>9, <1>10
     DEF Next, Deliver, vars, razorpay, records, DeliverResolving, ResolveConflict, Crash,
         Locking, LinkWaits, RequestReturns, SessionClosed, DeliverBlocked

(***************************************************************************)
(* In whatever order events are delivered and however often, once the      *)
(* verified success of an episode is settled the episode has no open case, *)
(* and a case that had been closed before is flagged.                      *)
(***************************************************************************)
THEOREM SuccessesAreSettled == Spec => []SuccessIsSettled
<1>1. Init => SuccessIsSettled
  BY EventShape DEF Init, SuccessIsSettled, Settled
<1>2. Inv /\ SuccessIsSettled /\ [Next]_vars => SuccessIsSettled'
  BY SettledStep
<1> QED BY <1>1, <1>2, EvidenceInvariant, PTL DEF Spec, Inv

\* No step downgrades a captured payment.
LEMMA CapturedStep == [Next]_vars => (txn.status = "captured" => txn'.status = "captured")
<1> SUFFICES ASSUME [Next]_vars, txn.status = "captured" PROVE txn'.status = "captured"
  OBVIOUS
<1>1. ASSUME NEW e \in Events, DeliverPaymentFailed(e) PROVE txn'.status = "captured"
  BY <1>1, CapturedRefusesFailure DEF DeliverPaymentFailed, UpsertTransaction
<1>2. ASSUME NEW e, UpsertEvidence(e) PROVE txn'.status = "captured"
  BY <1>2 DEF UpsertEvidence, UpsertTransaction
<1>3. CASE UNCHANGED txn
  BY <1>3
<1> QED
  BY <1>1, <1>2, <1>3 DEF Next, Deliver, vars, records, Happen, DeliverUncorrelated, DeliverPending,
     DeliverHalted, DeliverUnproven, DeliverSuccess, DeliverResolving, ResolveCommit,
     ResolveConflict,
     MarkProcessed, Crash, CaseMoves, LinkPaid, Locking, LinkWaits, RequestReturns, SessionClosed,
     DeliverBlocked

\* A captured payment is never downgraded by an event, whatever its time.
THEOREM CaptureIsFinal == Spec => CapturedStays
BY CapturedStep, PTL DEF Spec, CapturedStays

------------------------------------------------------------------------------
(* Which event a record comes from *)

\* What has a row keeps it, with its time and what it proves.
LEMMA NotedStays ==
  ASSUME Typed, LedgerInv, [Next]_vars, NEW f \in Events, row[f] # "ABSENT"
  PROVE  /\ row'[f] # "ABSENT" /\ sent'[f] = sent[f]
         /\ f \in Successes => proof'[f[2]] = proof[f[2]]
<1>1. ASSUME NEW e \in Events, Happen(e)
      PROVE  /\ row'[f] # "ABSENT" /\ sent'[f] = sent[f]
             /\ f \in Successes => proof'[f[2]] = proof[f[2]]
  <2>1. f # e
    BY <1>1 DEF Happen, CanHappen, LedgerInv, RowsHappened
  <2>2. row' = row /\ sent'[f] = sent[f]
    BY <1>1, <2>1 DEF Happen, Typed, TypeOK
  <2>3. f \in Successes => e \notin Successes \/ e[2] # f[2]
    BY <2>1, EventShape
  <2>4. f \in Successes => proof'[f[2]] = proof[f[2]]
    BY <1>1, <2>3, EventShape DEF Happen, Typed, TypeOK
  <2> QED BY <2>2, <2>4
<1>2. CASE row' = row /\ UNCHANGED razorpay
  BY <1>2 DEF razorpay
<1>3. ASSUME NEW g, NEW state \in {"RECEIVED", "PROCESSED", "IGNORED", "FLAGGED"},
             Settle(g, state), UNCHANGED razorpay
      PROVE  /\ row'[f] # "ABSENT" /\ sent'[f] = sent[f]
             /\ f \in Successes => proof'[f[2]] = proof[f[2]]
  BY <1>3 DEF Settle, razorpay, Typed, TypeOK
<1>4. ASSUME NEW e \in Events, Deliver(e)
      PROVE  /\ row'[f] # "ABSENT" /\ sent'[f] = sent[f]
             /\ f \in Successes => proof'[f[2]] = proof[f[2]]
  BY <1>2, <1>3, <1>4 DEF Deliver, DeliverUncorrelated, DeliverPaymentFailed, DeliverPending,
     DeliverHalted, DeliverUnproven, DeliverSuccess, DeliverResolving, DeliverBlocked
<1>5. CASE ResolveCommit \/ ResolveConflict \/ MarkProcessed \/ Crash \/ UNCHANGED vars
  BY <1>2, <1>3, <1>5 DEF ResolveCommit, ResolveConflict, MarkProcessed, Crash, vars
<1>6. ASSUME NEW k \in Keys, CaseMoves(k) \/ LinkPaid(k)
      PROVE  /\ row'[f] # "ABSENT" /\ sent'[f] = sent[f]
             /\ f \in Successes => proof'[f[2]] = proof[f[2]]
  BY <1>2, <1>6 DEF CaseMoves, LinkPaid
<1> QED BY <1>1, <1>2, <1>4, <1>5, <1>6, LocksAside DEF Next

\* Who marks the row of a failure.
LEMMA FailureMarked ==
  ASSUME Typed, LedgerInv, [Next]_vars, NEW f \in Events, f \notin Successes, row'[f] # row[f]
  PROVE  \/ ~known /\ row'[f] \in Settled
         \/ DeliverPaymentFailed(f) \/ DeliverPending(f) \/ DeliverHalted(f)
<1>1. ASSUME NEW e \in Events, Deliver(e)
      PROVE  \/ ~known /\ row'[f] \in Settled
             \/ DeliverPaymentFailed(f) \/ DeliverPending(f) \/ DeliverHalted(f)
  <2>1. CASE DeliverUncorrelated(e)
    <3>1. f = e /\ row'[f] \in {"PROCESSED", "IGNORED"}
      BY <2>1 DEF DeliverUncorrelated, Settle, Typed, TypeOK
    <3> QED BY <2>1, <3>1 DEF DeliverUncorrelated, Settled
  <2>2. CASE DeliverPaymentFailed(e) \/ DeliverPending(e) \/ DeliverHalted(e)
    <3>1. f = e
      BY <2>2 DEF DeliverPaymentFailed, DeliverPending, DeliverHalted, Settle, Typed, TypeOK
    <3> QED BY <2>2, <3>1
  <2>3. ASSUME DeliverUnproven(e) \/ DeliverSuccess(e) PROVE FALSE
    <3>1. f = e
      BY <2>3 DEF DeliverUnproven, DeliverSuccess, Settle, Typed, TypeOK
    <3>2. CASE DeliverUnproven(e)
      <4>1. e \in SubscriptionEvents /\ e[1] = "charged"
        BY <3>2 DEF DeliverUnproven, Events, PaymentEvents
      <4>2. e[2] \in Cycles /\ e = Charged(e[2])
        BY <4>1, CycleEvents DEF Pending, Halted
      <4> QED BY <3>1, <4>2, CycleEvents DEF Successes
    <3> QED BY <2>3, <3>1, <3>2 DEF DeliverSuccess, IsProof
  <2>4. ~DeliverResolving(e)
    BY DEF DeliverResolving
  <2> QED BY <1>1, <2>1, <2>2, <2>3, <2>4 DEF Deliver, DeliverBlocked
<1>2. ASSUME ResolveCommit \/ MarkProcessed PROVE FALSE
  <2>1. hook.ev \in Successes
    BY <1>2 DEF ResolveCommit, MarkProcessed, Typed, HookTyped
  <2> QED BY <1>2, <2>1 DEF ResolveCommit, MarkProcessed, Settle, Typed, TypeOK
<1>3. UNCHANGED row => FALSE
  OBVIOUS
<1> QED BY <1>1, <1>2, <1>3 DEF Next, Happen, ResolveConflict, Crash, CaseMoves, LinkPaid, vars,
     Locking, LinkWaits, RequestReturns, SessionClosed

\* Correlation is decided once.
LEMMA KnownStays == [Next]_vars => known' = known
BY DEF Next, Deliver, vars, Happen, DeliverUncorrelated, DeliverPaymentFailed, DeliverPending,
   DeliverHalted, DeliverUnproven, DeliverSuccess, DeliverResolving, ResolveCommit,
   ResolveConflict, MarkProcessed, Crash, CaseMoves, LinkPaid, Locking, LinkWaits, RequestReturns,
   SessionClosed, DeliverBlocked

------------------------------------------------------------------------------
(* The failed payment and its case *)

Failed == <<"failed", 0>>

\* What a row of the failed payment, and the transaction, say of each other.
PaymentSource ==
  /\ row[Failed] # "ABSENT" => row[Failed] \in Settled
  /\ txn.status = "failed" => row[Failed] # "ABSENT"
  /\ txn.status = "captured" => row[Success(0)] # "ABSENT"
  /\ known /\ row[Failed] # "ABSENT" => txn.status # "ABSENT"
  /\ known /\ row[Failed] # "ABSENT" /\ txn.status # "captured" => cases[0] # "ABSENT"

LEMMA FailedEvent ==
  Failed \in Events /\ Failed \notin Successes /\ Success(0) \in Events /\ 0 \in Keys
<1>1. Failed \in Events
  BY DEF Failed, Events, PaymentEvents
<1>2. \A k \in Keys : Success(k)[1] # "failed"
  BY DEF Success
<1> QED BY <1>1, <1>2, EventShape DEF Failed, Successes

\* What a step does to the transaction.
LEMMA TransactionMoves ==
  ASSUME Typed, LedgerInv, [Next]_vars
  PROVE  \/ UNCHANGED txn
         \/ DeliverPaymentFailed(Failed)
         \/ txn'.status = "captured" /\ row'[Success(0)] # "ABSENT"
<1>1. ASSUME NEW e \in Events, DeliverPaymentFailed(e) PROVE e = Failed
  BY <1>1 DEF DeliverPaymentFailed, Events, PaymentEvents, SubscriptionEvents, Failed
<1>2. ASSUME NEW e \in Successes, UpsertEvidence(e), row'[e] # "ABSENT"
      PROVE  UNCHANGED txn \/ (txn'.status = "captured" /\ row'[Success(0)] # "ABSENT")
  <2>1. CASE e[2] = 0
    <3>1. txn'.status = "captured"
      BY <1>2, <2>1 DEF UpsertEvidence, UpsertTransaction, ShouldApplyPayment
    <3> QED BY <1>2, <2>1, <3>1, EventShape
  <2> QED BY <1>2, <2>1 DEF UpsertEvidence
<1>3. ASSUME NEW e \in Events, DeliverSuccess(e)
      PROVE  e \in Successes /\ UpsertEvidence(e) /\ row'[e] # "ABSENT"
  <2>1. row'[e] \in Settled
    BY <1>3 DEF DeliverSuccess, Settle, Typed, TypeOK, Settled
  <2> QED BY <1>3, <2>1 DEF DeliverSuccess, IsProof, Settled
<1>4. ResolveCommit => hook.ev \in Successes /\ UpsertEvidence(hook.ev) /\ row'[hook.ev] # "ABSENT"
  BY EventShape DEF ResolveCommit, Typed, HookTyped, Settle, TypeOK
<1> QED
  BY <1>1, <1>2, <1>3, <1>4 DEF Next, Deliver, vars, Happen, DeliverUncorrelated, DeliverPending,
     DeliverHalted, DeliverUnproven, DeliverResolving, ResolveConflict, MarkProcessed, Crash,
     CaseMoves, LinkPaid, records, Locking, LinkWaits, RequestReturns, SessionClosed,
     DeliverBlocked

\* A case that was opened does not go away.
LEMMA CasesStay ==
  ASSUME Typed, [Next]_vars, NEW k \in Keys, cases[k] # "ABSENT" PROVE cases'[k] # "ABSENT"
<1>1. ASSUME NEW e \in Events, Deliver(e) PROVE cases'[k] # "ABSENT"
  BY <1>1 DEF Deliver, DeliverUncorrelated, DeliverPaymentFailed, DeliverPending, DeliverHalted,
     DeliverUnproven, DeliverSuccess, DeliverResolving, OpenCase, Typed, TypeOK, records,
     DeliverBlocked
<1>2. CASE ResolveCommit \/ \E j \in Keys : CaseMoves(j) \/ LinkPaid(j)
  BY <1>2 DEF ResolveCommit, CaseMoves, LinkPaid, Typed, TypeOK
<1> QED
  BY <1>1, <1>2 DEF Next, Happen, ResolveConflict, MarkProcessed, Crash, vars, records, Locking,
     LinkWaits, RequestReturns, SessionClosed

\* The failure of a payment is applied, or the payment is captured by then.
LEMMA FailureDelivered ==
  ASSUME Typed, PaymentSource, DeliverPaymentFailed(Failed)
  PROVE  PaymentSource'
<1>0. /\ row[Failed] = "ABSENT" /\ txn.status # "failed" /\ 0 \in Keys
      /\ row'[Failed] \in Settled /\ row'[Success(0)] = row[Success(0)] /\ known' = known
  BY FailedEvent DEF DeliverPaymentFailed, Delivered, Claimable, PaymentSource, Settle, Settled,
     Typed, TypeOK, Failed, Success
<1>1. CASE ShouldApplyPayment("failed", sent[Failed])
  <2>1. txn'.status = "failed" /\ cases'[0] # "ABSENT"
    BY <1>0, <1>1 DEF DeliverPaymentFailed, UpsertTransaction, OpenCase, Typed, TypeOK
  <2> QED BY <1>0, <2>1 DEF PaymentSource, Settled
<1>2. CASE ~ShouldApplyPayment("failed", sent[Failed])
  <2>1. txn' = txn /\ txn.status = "captured"
    BY <1>0, <1>2 DEF DeliverPaymentFailed, UpsertTransaction, ShouldApplyPayment, Typed, TypeOK
  <2> QED BY <1>0, <2>1 DEF PaymentSource, Settled
<1> QED BY <1>1, <1>2

LEMMA PaymentSourceStep ==
  ASSUME Typed, LedgerInv, PaymentSource, [Next]_vars PROVE PaymentSource'
<1>1. CASE DeliverPaymentFailed(Failed)
  BY <1>1, FailureDelivered
<1>2. CASE ~DeliverPaymentFailed(Failed)
  <2>1. row'[Failed] = row[Failed] \/ (~known /\ row'[Failed] \in Settled)
    <3>1. ~DeliverPending(Failed) /\ ~DeliverHalted(Failed)
      BY DEF DeliverPending, DeliverHalted, Failed
    <3> QED BY <1>2, <3>1, FailureMarked, FailedEvent
  <2>2. known' = known
    BY KnownStays
  <2>3. row[Success(0)] # "ABSENT" => row'[Success(0)] # "ABSENT"
    BY NotedStays, FailedEvent
  <2>4. cases[0] # "ABSENT" => cases'[0] # "ABSENT"
    BY CasesStay, FailedEvent
  <2>5. CASE UNCHANGED txn
    BY <2>1, <2>2, <2>3, <2>4, <2>5 DEF PaymentSource, Settled
  <2>6. CASE txn'.status = "captured" /\ row'[Success(0)] # "ABSENT"
    BY <2>1, <2>2, <2>6 DEF PaymentSource, Settled
  <2> QED BY <1>2, <2>5, <2>6, TransactionMoves
<1> QED BY <1>1, <1>2

LEMMA PaymentSourceInvariant == Spec => []PaymentSource
<1>1. Init => PaymentSource
  BY FailedEvent DEF Init, PaymentSource
<1>2. Typed /\ LedgerInv /\ PaymentSource /\ [Next]_vars => PaymentSource'
  BY PaymentSourceStep
<1> QED BY <1>1, <1>2, LedgerInvariant, PTL DEF Spec

(***************************************************************************)
(* A payment that failed and is not known to be captured has a case, in    *)
(* whatever order its events arrive and whatever became of the case since. *)
(***************************************************************************)
THEOREM FailuresHaveCases == Spec => []FailedPaymentHasCase
<1>1. PaymentSource => FailedPaymentHasCase
  BY DEF PaymentSource, FailedPaymentHasCase, Settled, Failed
<1> QED BY <1>1, PaymentSourceInvariant, PTL

------------------------------------------------------------------------------
(* What no later delivery takes back *)

\* The event being resolved is not settled: nobody else settles it meanwhile.
HookUnsettled == hook.at = "resolving" => row[hook.ev] \notin Settled

LEMMA HookUnsettledStep ==
  ASSUME Typed, HookUnsettled, [Next]_vars PROVE HookUnsettled'
<1>1. ASSUME NEW e \in Events, Deliver(e) PROVE HookUnsettled'
  <2>1. CASE DeliverResolving(e)
    BY <2>1 DEF DeliverResolving, Delivered, Claimable, HookUnsettled
  <2>2. CASE ~DeliverResolving(e)
    <3>1. hook' = hook /\ hook.at = "idle"
      BY <1>1, <2>2 DEF Deliver, DeliverUncorrelated, DeliverPaymentFailed, DeliverPending,
         DeliverHalted, DeliverUnproven, DeliverSuccess, Delivered, LoopFree, DeliverBlocked
    <3> QED BY <3>1 DEF HookUnsettled
  <2> QED BY <2>1, <2>2
<1>2. CASE ResolveCommit
  BY <1>2 DEF ResolveCommit, HookUnsettled, Typed, TypeOK, Hooks
<1>3. CASE ResolveConflict \/ MarkProcessed \/ Crash
  BY <1>3 DEF ResolveConflict, MarkProcessed, Crash, HookUnsettled, IdleHook
<1>4. ASSUME NEW k \in Keys, CaseMoves(k) PROVE HookUnsettled'
  BY <1>4 DEF CaseMoves, HookUnsettled, Typed, TypeOK, Hooks
<1>5. CASE UNCHANGED <<row, hook>>
  BY <1>5 DEF HookUnsettled
<1> QED BY <1>1, <1>2, <1>3, <1>4, <1>5 DEF Next, Happen, LinkPaid, vars, records, Locking,
     LinkWaits, RequestReturns, SessionClosed

LEMMA HookUnsettledInvariant == Spec => []HookUnsettled
<1>1. Init => HookUnsettled
  BY DEF Init, HookUnsettled, IdleHook
<1>2. Typed /\ LedgerInv /\ HookUnsettled /\ [Next]_vars => HookUnsettled'
  BY HookUnsettledStep
<1> QED BY <1>1, <1>2, LedgerInvariant, PTL DEF Spec

\* A settled event keeps its verdict.
VerdictKept == \A e \in Events : row[e] \in Settled => row'[e] = row[e]
VerdictsStay == [][VerdictKept]_vars

LEMMA VerdictStep ==
  ASSUME Typed, LedgerInv, HookUnsettled, [Next]_vars PROVE VerdictKept
<1>1. ASSUME NEW e \in Events, NEW state, Settle(e, state), row[e] \notin Settled PROVE VerdictKept
  BY <1>1 DEF Settle, VerdictKept, Typed, TypeOK
<1>2. ASSUME NEW e \in Events, Deliver(e) PROVE VerdictKept
  <2>1. row[e] \notin Settled
    BY <1>2 DEF Deliver, DeliverUncorrelated, DeliverPaymentFailed, DeliverPending,
       DeliverHalted, DeliverUnproven, DeliverSuccess, DeliverResolving, Delivered, Claimable,
       DeliverBlocked
  <2>2. UNCHANGED row \/ \E state \in Settled : Settle(e, state)
    BY <1>2 DEF Deliver, DeliverUncorrelated, DeliverPaymentFailed, DeliverPending,
       DeliverHalted, DeliverUnproven, DeliverSuccess, DeliverResolving, Settled, DeliverBlocked
  <2>3. UNCHANGED row => VerdictKept
    BY DEF VerdictKept
  <2> QED BY <1>1, <2>1, <2>2, <2>3
<1>3. CASE ResolveCommit \/ MarkProcessed
  <2>1. hook.ev \in Events /\ row[hook.ev] \notin Settled
    BY <1>3, EventShape DEF ResolveCommit, MarkProcessed, Typed, HookTyped, HookUnsettled,
       LedgerInv, HookSound, Settled
  <2>2. Settle(hook.ev, "RECEIVED") \/ Settle(hook.ev, "PROCESSED")
    BY <1>3 DEF ResolveCommit, MarkProcessed
  <2> QED BY <1>1, <2>1, <2>2
<1>4. CASE UNCHANGED row
  BY <1>4 DEF VerdictKept
<1> QED BY <1>2, <1>3, <1>4 DEF Next, Happen, ResolveConflict, Crash, CaseMoves, LinkPaid, vars,
     Locking, LinkWaits, RequestReturns, SessionClosed

(***************************************************************************)
(* An event is settled once: redeliveries, a delivery that is resolved     *)
(* while requests move its case, and crashes never give it another         *)
(* verdict.                                                                *)
(***************************************************************************)
THEOREM EventsSettleOnce == Spec => VerdictsStay
<1>1. Typed /\ LedgerInv /\ HookUnsettled /\ [Next]_vars => [VerdictKept]_vars
  BY VerdictStep
<1>2. [][VerdictKept]_vars => VerdictsStay
  BY DEF VerdictsStay
<1> QED BY <1>1, <1>2, LedgerInvariant, HookUnsettledInvariant, PTL DEF Spec

\* A resolved episode keeps its case and what its outcome rests on.
OutcomeKept ==
  \A k \in Keys : outcome[k] # "none" => outcome'[k] = outcome[k] /\ cases'[k] = "RECOVERED"
OutcomesStay == [][OutcomeKept]_vars

LEMMA OutcomeStep ==
  ASSUME Typed, LedgerInv, [Next]_vars PROVE OutcomeKept
<1> SUFFICES ASSUME NEW k \in Keys, outcome[k] # "none"
             PROVE  outcome'[k] = outcome[k] /\ cases'[k] = "RECOVERED"
  BY DEF OutcomeKept
<1>0. cases[k] = "RECOVERED"
  BY DEF LedgerInv, OutcomeHasItsEvent
<1>1. ASSUME NEW e \in Events, Deliver(e) PROVE outcome' = outcome /\ cases'[k] = "RECOVERED"
  BY <1>0, <1>1 DEF Deliver, DeliverUncorrelated, DeliverPaymentFailed, DeliverPending,
     DeliverHalted, DeliverUnproven, DeliverSuccess, DeliverResolving, OpenCase, Typed, TypeOK,
     records, DeliverBlocked
<1>2. CASE ResolveCommit
  <2>1. cases[hook.ev[2]] = "open" /\ hook.ev[2] # k
    BY <1>0, <1>2 DEF ResolveCommit, LedgerInv, HookSound
  <2> QED BY <1>0, <1>2, <2>1 DEF ResolveCommit, Typed, TypeOK
<1>3. ASSUME NEW j \in Keys, CaseMoves(j) \/ LinkPaid(j)
      PROVE  outcome'[k] = outcome[k] /\ cases'[k] = "RECOVERED"
  <2>1. j # k
    BY <1>0, <1>3 DEF CaseMoves, LinkPaid
  <2> QED BY <1>0, <1>3, <2>1 DEF CaseMoves, LinkPaid, Typed, TypeOK
<1>4. CASE UNCHANGED <<cases, outcome>>
  BY <1>0, <1>4
<1> QED
  BY <1>1, <1>2, <1>3, <1>4 DEF Next, Happen, ResolveConflict, MarkProcessed, Crash, vars, records,
     Locking, LinkWaits, RequestReturns, SessionClosed

(***************************************************************************)
(* No episode is resolved twice: an outcome, be it of a success event or   *)
(* of a paid link, is never replaced, and its case stays RECOVERED,        *)
(* whatever arrives afterwards.                                            *)
(***************************************************************************)
THEOREM EpisodesResolveOnce == Spec => OutcomesStay
<1>1. Typed /\ LedgerInv /\ [Next]_vars => [OutcomeKept]_vars
  BY OutcomeStep
<1>2. [][OutcomeKept]_vars => OutcomesStay
  BY DEF OutcomesStay
<1> QED BY <1>1, <1>2, LedgerInvariant, PTL DEF Spec

------------------------------------------------------------------------------
(* The status of the subscription and the events behind it *)

\* Noted(e): e has a row, is proven and was not dropped.
Noted(e) ==
  /\ row[e] # "ABSENT"
  /\ e \in Successes => IsProof(e)
  /\ e[1] = "pending" => row[e] = "PROCESSED"

\* The subscription is as the seed left it or as a noted event made it.
SubscriptionSource ==
  \/ sub.status = "pending" /\ sub.at = 0
  \/ \E f \in SubscriptionEvents : Noted(f) /\ sub.status = StatusOf[f[1]] /\ sub.at = sent[f]

\* A failure that was not dropped is not newer than the subscription.
FailuresAbsorbed ==
  \A e \in SubscriptionEvents :
    known /\ e \notin Successes /\ row[e] # "ABSENT" /\ ~(e[1] = "pending" /\ row[e] = "IGNORED")
      => sub.at >= sent[e]

StatusInv == SubscriptionSource /\ FailuresAbsorbed /\ DroppedOnEvidence

\* What a step does to the subscription.
LEMMA SubscriptionMoves ==
  ASSUME Typed, LedgerInv, [Next]_vars
  PROVE  \/ UNCHANGED sub
         \/ \E e \in SubscriptionEvents :
              /\ UpsertSubscription(e[1], sent[e]) /\ Noted(e)' /\ UNCHANGED <<sent, proof>>
<1>1. ASSUME NEW e \in Events, DeliverPending(e) \/ DeliverHalted(e)
      PROVE  \/ UNCHANGED sub
             \/ /\ e \in SubscriptionEvents /\ UpsertSubscription(e[1], sent[e]) /\ Noted(e)'
                /\ UNCHANGED <<sent, proof>>
  <2>1. e \in SubscriptionEvents /\ e \notin Successes
    BY <1>1 DEF DeliverPending, DeliverHalted, Events, PaymentEvents, Successes, Success
  <2>2. UNCHANGED sub \/ row'[e] = "PROCESSED"
    BY <1>1 DEF DeliverPending, DeliverHalted, UpsertSubscription, Settle, Typed, TypeOK
  <2> QED BY <1>1, <2>1, <2>2 DEF DeliverPending, DeliverHalted, Noted, razorpay
<1>2. ASSUME NEW e \in Successes, UpsertEvidence(e), row'[e] # "ABSENT", IsProof(e),
             UNCHANGED razorpay
      PROVE  \/ UNCHANGED sub
             \/ /\ e \in SubscriptionEvents /\ UpsertSubscription(e[1], sent[e]) /\ Noted(e)'
                /\ UNCHANGED <<sent, proof>>
  <2>1. e \in Events /\ e[2] \in Keys /\ e = Success(e[2])
    BY EventShape
  <2>2. CASE e[2] # 0
    <3>1. e \in SubscriptionEvents
      BY <2>1, <2>2, CycleEvents
    <3>2. e[1] = "charged"
      BY <2>1, <2>2 DEF Success
    <3> QED BY <1>2, <2>2, <3>1, <3>2 DEF UpsertEvidence, Noted, IsProof, razorpay
  <2> QED BY <1>2, <2>2 DEF UpsertEvidence
<1>3. ASSUME NEW e \in Events, DeliverSuccess(e)
      PROVE  /\ e \in Successes /\ UpsertEvidence(e) /\ row'[e] # "ABSENT" /\ IsProof(e)
             /\ UNCHANGED razorpay
  <2>1. row'[e] \in Settled
    BY <1>3 DEF DeliverSuccess, Settle, Typed, TypeOK, Settled
  <2> QED BY <1>3, <2>1 DEF DeliverSuccess, IsProof, Settled
<1>4. ResolveCommit => /\ hook.ev \in Successes /\ UpsertEvidence(hook.ev)
                       /\ row'[hook.ev] # "ABSENT" /\ IsProof(hook.ev) /\ UNCHANGED razorpay
  BY EventShape DEF ResolveCommit, Typed, HookTyped, Settle, TypeOK, LedgerInv, HookSound, IsProof
<1> QED
  BY <1>1, <1>2, <1>3, <1>4 DEF Next, Deliver, vars, Happen, DeliverUncorrelated,
     DeliverPaymentFailed, DeliverUnproven, DeliverResolving, ResolveConflict, MarkProcessed,
     Crash, CaseMoves, LinkPaid, records, Locking, LinkWaits, RequestReturns, SessionClosed,
     DeliverBlocked

\* The subscription never gets older.
LEMMA SubscriptionNewer ==
  ASSUME Typed, LedgerInv, [Next]_vars
  PROVE  sub.at \in Nat /\ sub'.at \in Nat /\ sub'.at >= sub.at
<1>1. sub.at \in Nat /\ \A e \in SubscriptionEvents : sent[e] \in Nat
  BY CycleEvents DEF Typed, TypeOK
<1>2. CASE UNCHANGED sub
  BY <1>1, <1>2
<1>3. ASSUME NEW e \in SubscriptionEvents, UpsertSubscription(e[1], sent[e])
      PROVE  sub'.at \in Nat /\ sub'.at >= sub.at
  BY <1>1, <1>3 DEF UpsertSubscription, ShouldApplySubscription
<1> QED BY <1>1, <1>2, <1>3, SubscriptionMoves

\* A noted event remains one.
LEMMA NotedRemains ==
  ASSUME Typed, LedgerInv, HookUnsettled, [Next]_vars, NEW f \in SubscriptionEvents, Noted(f)
  PROVE  Noted(f)' /\ sent'[f] = sent[f]
<1>1. f \in Events /\ row'[f] # "ABSENT" /\ sent'[f] = sent[f]
  BY NotedStays, CycleEvents DEF Noted
<1>2. f \in Successes => IsProof(f)'
  BY NotedStays, CycleEvents DEF Noted, IsProof
<1>3. f[1] = "pending" => row'[f] = "PROCESSED"
  BY <1>1, VerdictStep DEF Noted, VerdictKept, Settled
<1> QED BY <1>1, <1>2, <1>3 DEF Noted

LEMMA SourceStep ==
  ASSUME Typed, LedgerInv, HookUnsettled, SubscriptionSource, [Next]_vars PROVE SubscriptionSource'
<1>1. CASE UNCHANGED sub
  BY <1>1, NotedRemains DEF SubscriptionSource
<1>2. ASSUME NEW e \in SubscriptionEvents, UpsertSubscription(e[1], sent[e]), Noted(e)',
             UNCHANGED <<sent, proof>>
      PROVE  SubscriptionSource'
  <2>1. CASE ShouldApplySubscription(e[1], sent[e])
    BY <1>2, <2>1 DEF UpsertSubscription, SubscriptionSource
  <2>2. CASE ~ShouldApplySubscription(e[1], sent[e])
    BY <1>1, <1>2, <2>2 DEF UpsertSubscription
  <2> QED BY <2>1, <2>2
<1> QED BY <1>1, <1>2, SubscriptionMoves

LEMMA AbsorbedStep ==
  ASSUME Typed, LedgerInv, FailuresAbsorbed, [Next]_vars PROVE FailuresAbsorbed'
<1> SUFFICES ASSUME NEW e \in SubscriptionEvents, known', e \notin Successes, row'[e] # "ABSENT",
                    ~(e[1] = "pending" /\ row'[e] = "IGNORED")
             PROVE  sub'.at >= sent'[e]
  BY DEF FailuresAbsorbed
<1>0. known /\ e \in Events /\ sent[e] \in Nat
  BY KnownStays, CycleEvents DEF Typed, TypeOK
<1>1. CASE row'[e] = row[e]
  <2>1. sub.at >= sent[e] /\ sent'[e] = sent[e]
    BY <1>0, <1>1, NotedStays DEF FailuresAbsorbed
  <2> QED BY <1>0, <2>1, SubscriptionNewer
<1>2. CASE DeliverPending(e)
  <2>1. row'[e] \in Settled /\ ShouldApplySubscription("pending", sent[e])
    BY <1>0, <1>2 DEF DeliverPending, Settle, Settled, Typed, TypeOK
  <2> QED BY <1>0, <1>2, <2>1 DEF DeliverPending, UpsertSubscription, razorpay
<1>3. CASE DeliverHalted(e)
  <2>1. ShouldApplySubscription("halted", sent[e]) \/ sub.at > sent[e]
    BY <1>0 DEF ShouldApplySubscription, Typed, TypeOK
  <2>2. sent' = sent /\ sub.at \in Nat
    BY <1>3 DEF DeliverHalted, razorpay, Typed, TypeOK
  <2>3. CASE ShouldApplySubscription("halted", sent[e])
    BY <1>0, <1>3, <2>2, <2>3 DEF DeliverHalted, UpsertSubscription
  <2>4. CASE ~ShouldApplySubscription("halted", sent[e])
    BY <1>0, <1>3, <2>1, <2>2, <2>4 DEF DeliverHalted, UpsertSubscription
  <2> QED BY <2>3, <2>4
<1>4. ~DeliverPaymentFailed(e)
  BY DEF DeliverPaymentFailed, SubscriptionEvents
<1> QED BY <1>0, <1>1, <1>2, <1>3, <1>4, FailureMarked

\* The event that made the subscription active, or newer, is there to be named.
LEMMA DroppedStep ==
  ASSUME Typed, LedgerInv, SubscriptionSource, DroppedOnEvidence, [Next]_vars
  PROVE  DroppedOnEvidence'
<1> SUFFICES ASSUME NEW c \in Cycles, known', row'[Pending(c)] = "IGNORED"
             PROVE  \E e \in SubscriptionEvents :
                      /\ e # Pending(c) /\ row'[e] # "ABSENT"
                      /\ IsProof(e)' \/ sent'[e] >= sent'[Pending(c)]
  BY DEF DroppedOnEvidence, Pending
<1> DEFINE p == Pending(c)
<1>0. /\ known /\ p \in Events /\ p \in SubscriptionEvents /\ p \notin Successes
      /\ p[1] = "pending" /\ sent[p] \in Nat /\ sub.at \in Nat
  <2>1. p \in Events /\ p \in SubscriptionEvents
    BY CycleEvents
  <2>2. p[1] = "pending"
    BY DEF Pending
  <2>3. \A s \in Successes : s[1] # "pending"
    BY DEF Success, Successes
  <2>4. known /\ sub.at \in Nat
    BY KnownStays DEF Typed, TypeOK
  <2>5. sent[p] \in Nat
    BY <2>1 DEF Typed, TypeOK
  <2> HIDE DEF p
  <2> QED BY <2>1, <2>2, <2>3, <2>4, <2>5
<1> HIDE DEF p
<1>1. CASE row[p] = "IGNORED"
  <2>1. PICK e \in SubscriptionEvents :
          e # p /\ row[e] # "ABSENT" /\ (IsProof(e) \/ sent[e] >= sent[p])
    BY <1>0, <1>1 DEF DroppedOnEvidence, Pending, p
  <2>2. row'[e] # "ABSENT" /\ sent'[e] = sent[e] /\ sent'[p] = sent[p]
        /\ (IsProof(e) => IsProof(e)')
    BY <1>0, <1>1, <2>1, NotedStays, CycleEvents DEF IsProof
  <2> QED BY <2>1, <2>2 DEF p
<1>2. CASE row[p] # "IGNORED"
  <2>1. DeliverPending(p)
    <3>1. ~DeliverPaymentFailed(p) /\ ~DeliverHalted(p)
      BY <1>0 DEF DeliverPaymentFailed, DeliverHalted
    <3> QED BY <1>0, <1>2, <3>1, FailureMarked DEF p
  <2>2. /\ Happened(p) /\ ~ShouldApplySubscription("pending", sent[p])
        /\ sent' = sent /\ proof' = proof
    <3>1. row'[p] = "IGNORED"
      BY DEF p
    <3> QED BY <1>0, <2>1, <3>1 DEF DeliverPending, Delivered, Settle, razorpay, Typed, TypeOK
  <2>3. sub.at > sent[p] \/ sub.status = "active"
    BY <1>0, <2>2 DEF ShouldApplySubscription
  <2>4. PICK f \in SubscriptionEvents :
          Noted(f) /\ sub.status = StatusOf[f[1]] /\ sub.at = sent[f]
    BY <1>0, <2>2, <2>3 DEF SubscriptionSource, Happened
  <2>5. f # p /\ (IsProof(f) \/ sent[f] >= sent[p])
    <3>1. CASE sub.at > sent[p]
      BY <1>0, <2>4, <3>1
    <3>2. CASE sub.status = "active"
      <4>1. f[1] = "charged"
        BY <2>4, <3>2 DEF StatusOf, SubscriptionEvents
      <4>2. f = Charged(f[2]) /\ f[2] \in Cycles
        BY <4>1, CycleEvents DEF Pending, Halted
      <4>3. f \in Successes
        BY <4>2, CycleEvents DEF Successes
      <4> QED BY <1>0, <2>4, <4>1, <4>3 DEF Noted
    <3> QED BY <2>3, <3>1, <3>2
  <2>6. row'[f] # "ABSENT"
    BY <2>4, NotedStays, CycleEvents DEF Noted
  <2> QED BY <2>2, <2>5, <2>6 DEF IsProof, p
<1> QED BY <1>1, <1>2

LEMMA StatusInit == Init => StatusInv
<1> SUFFICES ASSUME Init PROVE StatusInv
  OBVIOUS
<1>1. \A e \in SubscriptionEvents : row[e] = "ABSENT"
  BY CycleEvents DEF Init
<1>2. SubscriptionSource
  BY DEF Init, SubscriptionSource
<1>3. FailuresAbsorbed
  BY <1>1 DEF FailuresAbsorbed
<1>4. DroppedOnEvidence
  BY <1>1, CycleEvents DEF DroppedOnEvidence, Pending
<1> QED BY <1>2, <1>3, <1>4 DEF StatusInv

LEMMA StatusInvariant == Spec => []StatusInv
<1>1. Typed /\ LedgerInv /\ HookUnsettled /\ StatusInv /\ [Next]_vars => StatusInv'
  BY SourceStep, AbsorbedStep, DroppedStep DEF StatusInv
<1> QED BY <1>1, StatusInit, LedgerInvariant, HookUnsettledInvariant, PTL DEF Spec

(***************************************************************************)
(* A failure of a subscription is never dropped for nothing: an ignored    *)
(* pending event was preceded by a proven charge or by an event at least   *)
(* as new.                                                                 *)
(***************************************************************************)
THEOREM DropsHaveEvidence == Spec => []DroppedOnEvidence
BY StatusInvariant, PTL DEF StatusInv

\* The newest event that counts decides the status.
LEMMA NewestDecides ==
  ASSUME Inv, StatusInv, Quiet, NEW e \in SubscriptionEvents, Newest(e)
  PROVE  sub.status = StatusOf[e[1]]
<1>0. Counts(e)
  BY DEF Newest
<1>1. known /\ Happened(e) /\ row[e] # "ABSENT" /\ e \in Events
  BY <1>0, CycleEvents DEF Counts, Quiet, Settled, AllSettled
<1>2. sub.at \in Nat /\ \A f \in SubscriptionEvents : sent[f] \in Nat
  BY CycleEvents DEF Inv, Typed, TypeOK
<1>3. /\ sub.at >= sent[e]
      /\ e \in Successes /\ sub.at = sent[e] => sub.status = StatusOf[e[1]]
  <2>1. CASE e \in Successes
    <3>1. e[2] \in Cycles /\ e = Charged(e[2])
      <4>1. e[2] \in Cycles /\ e[2] # 0 /\ e = Success(e[2])
        BY <2>1, CycleEvents, EventShape
      <4> QED BY <4>1, CycleEvents
    <3>2. proof[e[2]] # "authorized"
      BY <1>0, <2>1 DEF Counts, IsProof
    <3>3. Remembers(e[2])
      BY <1>1, <3>1, <3>2 DEF Inv, EvidenceInv, ChargeEvidence
    <3>4. StatusOf[e[1]] = "active"
      <4>1. e[1] = "charged"
        BY <3>1 DEF Charged
      <4> QED BY <4>1 DEF StatusOf
    <3> QED BY <3>1, <3>3, <3>4 DEF Remembers
  <2>2. CASE e \notin Successes
    BY <1>0, <1>1, <2>2 DEF Counts, StatusInv, FailuresAbsorbed
  <2> QED BY <2>1, <2>2
<1>4. PICK f \in SubscriptionEvents :
        Noted(f) /\ sub.status = StatusOf[f[1]] /\ sub.at = sent[f]
  BY <1>1, <1>2, <1>3 DEF StatusInv, SubscriptionSource, Happened
<1>5. CASE f = e
  BY <1>4, <1>5
<1>6. CASE f # e
  <2>1. Counts(f)
    BY <1>1, <1>2, <1>3, <1>4 DEF Counts, Noted, Happened
  <2>2. sent[f] = sent[e] /\ e \in Successes
    BY <1>2, <1>3, <1>4, <1>6, <2>1 DEF Newest
  <2> QED BY <1>3, <1>4, <2>2
<1> QED BY <1>5, <1>6

\* When all is delivered the transaction is captured if the payment was, and failed if not.
LEMMA TransactionConverges ==
  ASSUME Inv, PaymentSource, Quiet
  PROVE  /\ Happened(<<"captured", 0>>) => txn.status = "captured"
         /\ Happened(<<"failed", 0>>) /\ ~Happened(<<"captured", 0>>) => txn.status = "failed"
<1>1. Success(0) = <<"captured", 0>> /\ Success(0) \in Events /\ Failed \in Events
  BY FailedEvent DEF Success
<1>2. ASSUME Happened(Success(0)) PROVE txn.status = "captured"
  BY <1>1, <1>2 DEF Quiet, Settled, Inv, EvidenceInv, PaymentEvidence, AllSettled
<1>3. ASSUME Happened(Failed), ~Happened(Success(0)) PROVE txn.status = "failed"
  <2>1. known /\ row[Failed] # "ABSENT"
    BY <1>1, <1>3 DEF Quiet, Settled, AllSettled
  <2>2. row[Success(0)] = "ABSENT"
    BY <1>1, <1>3 DEF Inv, LedgerInv, RowsHappened
  <2>3. txn.status # "ABSENT" /\ txn.status # "captured"
    BY <2>1, <2>2 DEF PaymentSource
  <2> QED BY <2>3 DEF Inv, Typed, TypeOK
<1> QED BY <1>1, <1>2, <1>3 DEF Failed

(***************************************************************************)
(* When all is delivered, in whatever order and however often, the         *)
(* transaction is captured if the payment was, and the subscription has    *)
(* the status of its newest event, failures that were dropped as stale     *)
(* apart.                                                                  *)
(***************************************************************************)
THEOREM StatusesConverge == Spec => []StatusConverges
<1>1. Inv /\ PaymentSource /\ StatusInv => StatusConverges
  BY NewestDecides, TransactionConverges DEF StatusConverges
<1> QED BY <1>1, EvidenceInvariant, PaymentSourceInvariant, StatusInvariant, PTL DEF Inv

\* Nothing that is applied to the subscription is older than what it shows.
NoOlder == sub'.at >= sub.at
SubscriptionAdvances == [][NoOlder]_vars

\* Older events, however late they arrive, do not undo newer ones.
THEOREM OlderUndoesNothing == Spec => SubscriptionAdvances
<1>1. Typed /\ LedgerInv /\ [Next]_vars => [NoOlder]_vars
  BY SubscriptionNewer DEF NoOlder
<1>2. [][NoOlder]_vars => SubscriptionAdvances
  BY DEF SubscriptionAdvances
<1> QED BY <1>1, <1>2, LedgerInvariant, PTL DEF Spec

------------------------------------------------------------------------------
(* What webhooks do to one episode *)

\* Opening the case of one episode opens, or leaves, the case of each.
LEMMA OpeningIsEpisodeStep ==
  ASSUME Typed, NEW j \in Keys, NEW k \in Keys, OpenCase(j), UNCHANGED outcome
  PROVE  [Of(k)!EpisodeNext]_(Of(k)!episodeVars)
<1>1. CASE j = k /\ cases[k] = "ABSENT"
  <2>1. cases'[k] = "open"
    BY <1>1 DEF OpenCase, Typed, TypeOK
  <2> QED BY <1>1, <2>1 DEF Of!EpisodeNext, Of!Open
<1>2. CASE j # k \/ cases[k] # "ABSENT"
  <2>1. cases'[k] = cases[k]
    BY <1>2 DEF OpenCase, Typed, TypeOK
  <2> QED BY <2>1 DEF Of!episodeVars
<1> QED BY <1>1, <1>2

\* Resolving the open case of one episode recovers it, and no other.
LEMMA ResolvingIsEpisodeStep ==
  ASSUME Typed, LedgerInv, NEW j \in Keys, NEW k \in Keys, NEW evidence \in {"event", "link"},
         cases[j] = "open",
         cases' = [cases EXCEPT ![j] = "RECOVERED"], outcome' = [outcome EXCEPT ![j] = evidence]
  PROVE  [Of(k)!EpisodeNext]_(Of(k)!episodeVars)
<1>1. CASE j = k
  <2>1. cases'[k] = "RECOVERED" /\ outcome'[k] = evidence
    BY <1>1 DEF Typed, TypeOK
  <2>2. outcome[k] = "none"
    BY <1>1 DEF LedgerInv, OutcomeHasItsEvent
  <2> QED BY <1>1, <2>1, <2>2 DEF Of!EpisodeNext, Of!Recover
<1>2. CASE j # k
  <2>1. cases'[k] = cases[k] /\ outcome'[k] = outcome[k]
    BY <1>2 DEF Typed, TypeOK
  <2> QED BY <2>1 DEF Of!episodeVars
<1> QED BY <1>1, <1>2

LEMMA StepImplementsEpisode ==
  ASSUME Typed, LedgerInv, NEW k \in Keys, [Next]_vars
  PROVE  [Of(k)!EpisodeNext]_(Of(k)!episodeVars)
<1>1. CASE UNCHANGED <<cases, outcome>>
  BY <1>1 DEF Of!episodeVars
<1>2. ASSUME NEW e \in Events, DeliverPaymentFailed(e) \/ DeliverPending(e)
      PROVE  [Of(k)!EpisodeNext]_(Of(k)!episodeVars)
  <2>1. e[2] \in Keys /\ 0 \in Keys
    BY EventShape
  <2>2. UNCHANGED outcome
    BY <1>2 DEF DeliverPaymentFailed, DeliverPending
  <2>3. OpenCase(0) \/ OpenCase(e[2]) \/ UNCHANGED cases
    BY <1>2 DEF DeliverPaymentFailed, DeliverPending
  <2> QED BY <1>1, <2>1, <2>2, <2>3, OpeningIsEpisodeStep
<1>3. ASSUME NEW e \in Events, Deliver(e), ~(DeliverPaymentFailed(e) \/ DeliverPending(e))
      PROVE  UNCHANGED <<cases, outcome>>
  BY <1>3 DEF Deliver, DeliverUncorrelated, DeliverHalted, DeliverUnproven, DeliverSuccess,
     DeliverResolving, records, DeliverBlocked
<1>4. CASE ResolveCommit
  <2>1. hook.ev[2] \in Keys /\ cases[hook.ev[2]] = "open"
    BY <1>4, EventShape DEF ResolveCommit, Typed, HookTyped, LedgerInv, HookSound
  <2> QED BY <1>4, <2>1, ResolvingIsEpisodeStep DEF ResolveCommit
<1>5. ASSUME NEW j \in Keys, CaseMoves(j) PROVE [Of(k)!EpisodeNext]_(Of(k)!episodeVars)
  <2>1. cases[j] = "open" /\ UNCHANGED outcome
    BY <1>5 DEF CaseMoves
  <2>2. cases'[k] = cases[k] \/ (j = k /\ cases'[k] = "closed")
    BY <1>5 DEF CaseMoves, Typed, TypeOK
  <2> QED BY <2>1, <2>2 DEF Of!EpisodeNext, Of!Close, Of!episodeVars
<1>6. ASSUME NEW j \in Keys, LinkPaid(j) PROVE [Of(k)!EpisodeNext]_(Of(k)!episodeVars)
  BY <1>6, ResolvingIsEpisodeStep DEF LinkPaid
<1> QED
  BY <1>1, <1>2, <1>3, <1>4, <1>5, <1>6 DEF Next, Happen, ResolveConflict, MarkProcessed, Crash,
     vars, records, Locking, LinkWaits, RequestReturns, SessionClosed

(***************************************************************************)
(* Every episode, the payment and each billing cycle, has at most one      *)
(* case, closed or recovered at most once, in the step that records what   *)
(* the recovery rests on: no order of deliveries, conflicts and crashes    *)
(* opens a second case or resolves one twice.                              *)
(***************************************************************************)
THEOREM EpisodesRefined == Spec => EpisodesImplemented
<1> DEFINE EpisodesBegin == \A k \in Keys : Of(k)!EpisodeInit
           EpisodeSteps == \A k \in Keys : [Of(k)!EpisodeNext]_(Of(k)!episodeVars)
<1>1. Init => EpisodesBegin
  BY DEF Init, Of!EpisodeInit
<1>2. Typed /\ LedgerInv /\ [Next]_vars => [EpisodeSteps]_vars
  BY StepImplementsEpisode
<1>3. EpisodesBegin /\ [][EpisodeSteps]_vars => EpisodesImplemented
  BY DEF EpisodesImplemented
<1> HIDE DEF EpisodesBegin, EpisodeSteps
<1> QED BY <1>1, <1>2, <1>3, LedgerInvariant, PTL DEF Spec

=============================================================================
