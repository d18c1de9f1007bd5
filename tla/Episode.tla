------------------------------- MODULE Episode --------------------------------
(***************************************************************************)
(* What RevLoop promises about one episode, a failed payment or a billing  *)
(* cycle whose charge failed: it has at most one case, which is closed at  *)
(* most once and recovered at most once, in the step that records what the *)
(* recovery rests on.  RecoveryWorkflow, with all that requests do to the  *)
(* case, and ProviderEvents, with all that webhooks do, both implement it: *)
(* what each takes for granted of the other is no more than this.          *)
(***************************************************************************)

VARIABLES
  case,        \* the recovery case by what webhooks tell apart
  basis        \* what its outcome row rests on: a success event or a paid link

episodeVars == <<case, basis>>

\* The workflow's case is there from the beginning.
EpisodeInit == case \in {"ABSENT", "open"} /\ basis = "none"

Open == case = "ABSENT" /\ case' = "open" /\ UNCHANGED basis

\* FAILED, STOPPED, or another status that no transition leaves.
Close == case = "open" /\ case' = "closed" /\ UNCHANGED basis

Recover ==
  /\ case = "open" /\ basis = "none"
  /\ case' = "RECOVERED"
  /\ basis' \in {"event", "link"}

EpisodeNext == Open \/ Close \/ Recover

EpisodeSpec == EpisodeInit /\ [][EpisodeNext]_episodeVars

=============================================================================
