---------------------------- MODULE MCExplanations ----------------------------
(***************************************************************************)
(* Model-checking instance of Explanations: analyses in which the first    *)
(* rank is an advisory action, in which only STOP is left, and in which    *)
(* the probability is a multiple of ten percent; model answers that state  *)
(* each fact rightly or wrongly, and some that the validation cannot tell. *)
(***************************************************************************)
EXTENDS Explanations

Row(action, rank, viable, probability, confidence, approval, factors) ==
  [action |-> action, rank |-> rank, viable |-> viable, eligible |-> TRUE,
   probability |-> probability, confidence |-> confidence, approval |-> approval,
   factors |-> factors \cup {"MODEL_METADATA", "NO_RECENT_CONTACTS"}]

Stop(rank) == Row("STOP", rank, FALSE, 0, 700, FALSE, {"STOP_SAFE_FLOOR"})

MCAnalyses ==
  {{Row("RETRY_SAME_METHOD", 1, FALSE, 715, 820, FALSE, {}),
    Row("CREATE_PAYMENT_LINK", 2, TRUE, 645, 820, TRUE, {"ACTIVE_RAIL_DOWNTIME"}), Stop(3)},
   {Row("CREATE_PAYMENT_LINK", 1, TRUE, 600, 820, FALSE, {"RECENT_METHOD_SUCCESS"}), Stop(2)},
   {Row("WAIT", 2, FALSE, 305, 410, FALSE, {"INFERENCE_FALLBACK"}), Stop(1)}}

Honest(action, percent, near, evidence) ==
  [NoText EXCEPT !.names = {action}, !.evidence = evidence,
                 !.percents = {[value |-> percent, near |-> near, form |-> "sign"]}]

\* The same with a percentage that the validation does not see, or not as one.
Unsigned(action, percent, form, evidence) ==
  [NoText EXCEPT !.names = {action}, !.evidence = evidence,
                 !.percents = {[value |-> percent, near |-> "elsewhere", form |-> form]}]

Link == "CREATE_PAYMENT_LINK"

MCTexts ==
  {Honest(Link, 645, "elsewhere", {"ACTIVE_RAIL_DOWNTIME"}),
   Honest(Link, 820, "confidence", {"NO_RECENT_CONTACTS"}),
   Honest(Link, 10, "elsewhere", {"NO_RECENT_CONTACTS"}),
   Honest("RETRY_SAME_METHOD", 715, "elsewhere", {"NO_RECENT_CONTACTS"}),
   Honest("STOP", 0, "elsewhere", {"STOP_SAFE_FLOOR"}),
   Unsigned(Link, 900, "words", {"NO_RECENT_CONTACTS"}),
   Unsigned(Link, 900, "fraction", {"NO_RECENT_CONTACTS"}),
   [NoText EXCEPT !.evidence = {"NO_RECENT_CONTACTS"}, !.approval = "not required"],
   [NoText EXCEPT !.evidence = {"NO_RECENT_CONTACTS"}, !.approval = "denied"],
   [NoText EXCEPT !.evidence = {"generic"}, !.slips = {"already recovered"}],
   [NoText EXCEPT !.money = {"amount"}, !.urls = {"ours"}],
   [NoText EXCEPT !.money = {"digits of one"}, !.urls = {"ours", "unseen"}],
   [NoText EXCEPT !.money = {"amount"}, !.urls = {"ours", "foreign"}],
   [NoText EXCEPT !.money = {"another"}, !.slips = {"urgency"}]}

=============================================================================
