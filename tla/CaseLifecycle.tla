---------------------------- MODULE CaseLifecycle ----------------------------
(***************************************************************************)
(* What the workflow promises about one recovery case, whoever drives it:  *)
(* the status moves along the registry, every move increments the version  *)
(* by one, and the case is RECOVERED exactly when a verified outcome is    *)
(* recorded, which happens in the same step.  RecoveryWorkflow is shown to *)
(* implement this specification.                                           *)
(***************************************************************************)
EXTENDS Naturals, StateMachine

VARIABLES
  status,      \* recovery_cases.status
  version,     \* recovery_cases.version
  recovered    \* a recovery_outcomes row exists for the case

lifecycleVars == <<status, version, recovered>>

LifecycleInit ==
  /\ status = "DETECTED"
  /\ version = 1
  /\ recovered = FALSE

(***************************************************************************)
(* One transition_case call that commits.                                  *)
(***************************************************************************)
Transition(event) ==
  \E target \in CaseStatuses :
    /\ <<status, event, target>> \in TransitionRegistry
    /\ status' = target
    /\ version' = version + 1
    /\ recovered' = (target = "RECOVERED")

LifecycleNext == \E event \in Events : Transition(event)

LifecycleSpec == LifecycleInit /\ [][LifecycleNext]_lifecycleVars

------------------------------------------------------------------------------

\* A case reads RECOVERED exactly when its outcome row exists.
RecoveredIffOutcome == (status = "RECOVERED") <=> recovered

=============================================================================
