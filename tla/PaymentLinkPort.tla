--------------------------- MODULE PaymentLinkPort ----------------------------
(***************************************************************************)
(* What the recovery workflow may believe of one payment link action: the  *)
(* status of its row against the existence of the link at the provider.    *)
(* ProviderClient, with HTTP answers, timeouts, retries and lookups,       *)
(* implements it.                                                          *)
(***************************************************************************)

VARIABLES
  exists,      \* a link with the reference and the terms of the action exists
  verdict      \* status of the action's row

port == <<exists, verdict>>

PortInit == exists = FALSE /\ verdict = "EXECUTING"

\* Also after the caller gave up waiting, but never after a refusal.
LinkAppears ==
  /\ verdict # "FAILED"
  /\ exists' = TRUE
  /\ UNCHANGED verdict

\* The link is confirmed by the provider's answer or found by its reference.
Confirm ==
  /\ verdict \in {"EXECUTING", "UNKNOWN", "SUCCEEDED"}
  /\ exists
  /\ verdict' = "SUCCEEDED"
  /\ UNCHANGED exists

\* A late ambiguous answer may put a confirmed row back into doubt.
Doubt ==
  /\ verdict \in {"EXECUTING", "UNKNOWN", "SUCCEEDED"}
  /\ verdict' = "UNKNOWN"
  /\ UNCHANGED exists

\* The provider refuses: there is no link, and there never will be one.
Refuse ==
  /\ verdict = "EXECUTING"
  /\ ~exists
  /\ verdict' = "FAILED"
  /\ UNCHANGED exists

PortNext == LinkAppears \/ Confirm \/ Doubt \/ Refuse

PortSpec == PortInit /\ [][PortNext]_port

=============================================================================
