-------------------------- MODULE MCProviderEvents --------------------------
(***************************************************************************)
(* Model-checking instance of ProviderEvents, and what a test of the       *)
(* repository says of the next billing cycle that the code does not keep.  *)
(***************************************************************************)
EXTENDS ProviderEvents

(***************************************************************************)
(* A genuinely newer subscription.pending for a real new failure must      *)
(* still be accepted, not rejected as stale, and must create a new case    *)
(* (test_webhook_events.py:467-468).                                       *)
(***************************************************************************)
NewestPendingOpensCase ==
  \A c \in Cycles :
    LET e == <<"pending", c>>
    IN known /\ row[e] \in Settled /\ sent[e] = clock["subscription"] /\ ~Happened(Success(c)) =>
         cases[c] # "ABSENT"

=============================================================================
