--------------------------- MODULE MCProviderClient ---------------------------
(***************************************************************************)
(* Model-checking instance of ProviderClient: two links of our own (a      *)
(* repeated POST), one link with our reference but another amount, and     *)
(* outages and payments that differ in everything the matching looks at.   *)
(***************************************************************************)
EXTENDS ProviderClient

CONSTANTS l1, l2, l3

MCForeign ==
  {[id |-> l3, ref |-> "ours", amount |-> "other", currency |-> "asked", partial |-> "absent"]}

Outage(status, begin, end, instrument) ==
  [method |-> "upi", status |-> status, begin |-> begin, end |-> end,
   instrument |-> instrument]

MCOutages ==
  {Outage("started", 2, 3, <<>>),
   Outage("started", 1, 3, <<<<"issuer", "hdfc">>, <<"network", "visa">>>>),
   [Outage("resolved", 1, 3, <<>>) EXCEPT !.method = "card"],
   Outage("unrecognised", 1, 2, <<<<"network", "visa">>>>)}

Payment(method, at, issuer, network) ==
  [method |-> method, at |-> at,
   instrument |-> [k \in InstrumentKeys |-> IF k = "issuer" THEN issuer ELSE network]]

MCTransactions ==
  {Payment("upi", 1, "hdfc", "visa"),
   Payment("upi", 3, "other", Unknown),
   Payment("upi", 1, Unknown, "other"),
   Payment("card", NoTime, "hdfc", Unknown),
   Payment(Unknown, NoTime, Unknown, Unknown)}

=============================================================================
