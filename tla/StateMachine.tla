---------------------------- MODULE StateMachine ----------------------------
(***************************************************************************)
(* The transition registry of a recovery case                              *)
(* (apps/api/app/workflows/state_machine.py).  Constant definitions only:  *)
(* CaseLifecycle and RecoveryWorkflow both take the registry from here.    *)
(***************************************************************************)

CaseStatuses ==
  {"DETECTED", "ANALYZING", "RECOMMENDED", "AWAITING_APPROVAL", "SCHEDULED",
   "EXECUTING", "WAITING_FOR_OUTCOME", "RECOVERED", "FAILED", "STOPPED"}

TerminalStatuses == {"RECOVERED", "FAILED", "STOPPED"}

(***************************************************************************)
(* The transitions that do not depend on payment evidence, as triples      *)
(* <<current status, event, target>>.                                      *)
(***************************************************************************)
OrdinaryTransitions ==
  {<<"DETECTED", "ANALYSIS_REQUESTED", "ANALYZING">>,
   <<"ANALYZING", "ANALYSIS_COMPLETED", "RECOMMENDED">>,
   <<"ANALYZING", "ANALYSIS_TERMINAL_FAILURE", "FAILED">>,
   <<"RECOMMENDED", "APPROVAL_REQUIRED", "AWAITING_APPROVAL">>,
   <<"RECOMMENDED", "ACTION_SCHEDULED", "SCHEDULED">>,
   <<"RECOMMENDED", "AUTO_EXECUTE", "EXECUTING">>,
   <<"RECOMMENDED", "STOP_SELECTED", "STOPPED">>,
   <<"AWAITING_APPROVAL", "APPROVED_NOW", "EXECUTING">>,
   <<"AWAITING_APPROVAL", "APPROVED_LATER", "SCHEDULED">>,
   <<"AWAITING_APPROVAL", "APPROVAL_REJECTED_REANALYZE", "ANALYZING">>,
   <<"AWAITING_APPROVAL", "APPROVAL_REJECTED_STOP", "STOPPED">>,
   <<"SCHEDULED", "REEVALUATION_DUE", "ANALYZING">>,
   <<"SCHEDULED", "ACTION_DUE", "EXECUTING">>,
   <<"SCHEDULED", "SCHEDULE_CANCELLED", "STOPPED">>,
   <<"EXECUTING", "ACTION_ACCEPTED_OR_UNKNOWN", "WAITING_FOR_OUTCOME">>,
   <<"EXECUTING", "ACTION_FAILED_REANALYZE", "ANALYZING">>,
   <<"EXECUTING", "TERMINAL_ACTION_FAILURE", "FAILED">>,
   <<"WAITING_FOR_OUTCOME", "NEGATIVE_OUTCOME_OR_TIMEOUT", "ANALYZING">>,
   <<"WAITING_FOR_OUTCOME", "RECOVERY_EXHAUSTED", "FAILED">>,
   <<"WAITING_FOR_OUTCOME", "STOPPING_RULE_MET", "STOPPED">>}

(***************************************************************************)
(* PAYMENT_VERIFIED is accepted from every status that is not terminal.    *)
(***************************************************************************)
PaymentTransitions ==
  {<<s, "PAYMENT_VERIFIED", "RECOVERED">> : s \in CaseStatuses \ TerminalStatuses}

TransitionRegistry == OrdinaryTransitions \cup PaymentTransitions

Events == {t[2] : t \in TransitionRegistry}

=============================================================================
