----------------------------- MODULE MCReadModels -----------------------------
(***************************************************************************)
(* Model-checking instance of ReadModels: a candidate list whose first     *)
(* rank is advisory, so that the selected row is not the first one.        *)
(***************************************************************************)
EXTENDS ReadModels, TLC

Row(rank, kind) == [rank |-> rank, kind |-> kind]

MCAnalyses ==
  {{Row(1, "advisory"), Row(2, "viable"), Row(3, "stop")}}

Symmetry == Permutations(Cases)

=============================================================================
