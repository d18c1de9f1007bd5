------------------------- MODULE MCRecoveryWorkflow -------------------------
(***************************************************************************)
(* Model-checking instance of RecoveryWorkflow with two concurrent         *)
(* requests, and what the repository's documents say of a case that the    *)
(* code does not keep: each of those is checked by a run that TLC refutes. *)
(***************************************************************************)
EXTENDS RecoveryWorkflow, TLC

CONSTANTS p1, p2

\* Requests are interchangeable: no definition names one.
Symmetry == Permutations(Requests)

------------------------------------------------------------------------------
(* Statements of the documents that the code contradicts *)

(***************************************************************************)
(* The payment links of a case must not run concurrently                   *)
(* (actions/repository.py:63-65), repeated clicks included.                *)
(***************************************************************************)
LinksDoNotRunConcurrently == Cardinality(Blocking) <= 1

(***************************************************************************)
(* Payment evidence dominates (docs/ARCHITECTURE.md, principle 5): a       *)
(* payment that was made is eventually settled.                            *)
(***************************************************************************)
PaymentAlwaysSettled ==
  \A m \in Payments : (money[m] = "sent") ~> (money[m] # "sent")

=============================================================================
