---------------------------- MODULE ProviderClient ----------------------------
(***************************************************************************)
(* The Razorpay adapter around one payment link action                     *)
(* (integrations/razorpay/client.py, payment_links.py, downtime.py, the    *)
(* classification in actions/service.py and recovery/context.py): one POST *)
(* that creates the link and is never repeated, GETs that are tried up to  *)
(* three times, the lookup of the link by its reference, and the lookup of *)
(* payment rail outages for an analysis.                                   *)
(*                                                                         *)
(* The provider works on its own: it may create the link after the caller  *)
(* has given up, answer without having done anything, list links that      *)
(* belong to somebody else, and list too few.  A refusal (400, 401, 403 or *)
(* another 4xx) is taken to mean that nothing was created.                 *)
(*                                                                         *)
(* The row's later fate (case transitions, crashes) is RecoveryWorkflow's. *)
(***************************************************************************)
EXTENDS Integers, Sequences, FiniteSets

CONSTANTS
  LinkIds,         \* identifiers the provider gives to links
  Foreign,         \* links of other actions that a lookup may list
  Outages,         \* outage records the provider may list
  Transactions     \* evidence of the failed payments that are analysed

MaxReadAttempts == 3

(***************************************************************************)
(* A link as its JSON reads after validation.  ref, amount and currency    *)
(* are compared with what the action asked for.                            *)
(***************************************************************************)
Links ==
  [id : LinkIds, ref : {"ours", "other"}, amount : {"asked", "other"},
   currency : {"asked", "other"}, partial : {"yes", "no", "absent"}]

Compatible(l) ==
  /\ l.ref = "ours"
  /\ l.amount = "asked"
  /\ l.currency = "asked"
  /\ l.partial # "yes"

OurLinks(links) == {l \in links : Compatible(l)}

\* The request of create_payment_link, as the provider stores it.
Asked(id) ==
  [id |-> id, ref |-> "ours", amount |-> "asked", currency |-> "asked", partial |-> "no"]

NoLink == "no link"

Times == 1..3
Unknown == "unknown"
NoTime == 0
InstrumentKeys == {"issuer", "network"}
Values == {"hdfc", "visa", "other"}

\* begin 1 and end 3 also stand for an outage without begin or without end.
OutageRecords ==
  [method : {"upi", "card"}, status : {"started", "resolved", "scheduled", "unrecognised"},
   begin : Times, end : Times, instrument : Seq(InstrumentKeys \X Values)]

EvidenceRecords ==
  [method : {"upi", "card", Unknown}, at : Times \cup {NoTime},
   instrument : [InstrumentKeys -> Values \cup {Unknown}]]

NoTransaction ==
  [method |-> "none", at |-> NoTime, instrument |-> [k \in InstrumentKeys |-> Unknown]]

\* A reference is derived from the action's own id: nobody else's link has it
\* together with the terms of the action.
ASSUME ClientAssumption ==
  /\ NoLink \notin LinkIds
  /\ Foreign \subseteq Links
  /\ OurLinks(Foreign) = {}
  /\ Outages \subseteq OutageRecords
  /\ Transactions \subseteq EvidenceRecords

VARIABLES
  configured,      \* credentials are present and no placeholder
  links,           \* links at the provider
  wire,            \* the POST: unsent, sent, created, refused or failed at the provider
  post,            \* the caller of the POST: idle, waiting, ended
  row,             \* status, link id and error category of the action
  get,             \* per reader: idle, waiting or answered, and the attempt
  found,           \* what the last lookup by reference concluded
  rail             \* last downtime context: verdict, the evidence and the records behind it

vars == <<configured, links, wire, post, row, get, found, rail>>
provider == <<links, wire>>

Readers == {"lookup", "downtime"}

IdleRead == [at |-> "idle", attempt |-> 0]

NoRail == [lookup |-> "none", about |-> NoTransaction, records |-> {}, listed |-> FALSE]

NotFound == [status |-> "not_found", link |-> NoLink]

Init ==
  /\ configured \in BOOLEAN
  /\ links = Foreign
  /\ wire = "unsent"
  /\ post = "idle"
  /\ row = [status |-> "EXECUTING", link |-> NoLink, error |-> "none"]
  /\ get = [r \in Readers |-> IdleRead]
  /\ found = NotFound
  /\ rail = NoRail

------------------------------------------------------------------------------
(* The provider *)

\* The request is executed, perhaps twice when a proxy repeats it.
ProviderCreates ==
  /\ wire \in {"sent", "created"}
  /\ \E id \in LinkIds :
       /\ \A l \in links : l.id # id
       /\ links' = links \cup {Asked(id)}
  /\ wire' = "created"
  /\ UNCHANGED <<configured, post, row, get, found, rail>>

ProviderRefuses ==
  /\ wire = "sent"
  /\ wire' \in {"refused", "failed"}
  /\ UNCHANGED <<configured, links, post, row, get, found, rail>>

------------------------------------------------------------------------------
(* create_payment_link *)

(***************************************************************************)
(* What post_json and create_payment_link make of the provider's answer.   *)
(* A timeout says nothing; a transport error, 404, 429 and 5xx may come    *)
(* after the link was created; a 2xx whose body is no JSON object, lacks a *)
(* field or names other terms counts as a side effect that is unknown.     *)
(***************************************************************************)
Unusable == {"not_json", "not_object", "malformed"}

Answers ==
  {"timeout", "transport", "not_found", "rate_limited", "server_error",
   "unauthorized", "rejected"} \cup Unusable

\* Deviation: an unreadable answer counts as a rejected request.
PostErrorUnreadable ==
  [timeout |-> "PROVIDER_TIMEOUT", transport |-> "PROVIDER_TRANSIENT",
   rate_limited |-> "PROVIDER_TRANSIENT", server_error |-> "PROVIDER_TRANSIENT",
   not_found |-> "PROVIDER_ERROR", unauthorized |-> "PROVIDER_AUTH",
   rejected |-> "PROVIDER_VALIDATION", not_json |-> "PROVIDER_VALIDATION",
   not_object |-> "PROVIDER_VALIDATION", malformed |-> "PROVIDER_VALIDATION"]

PostError ==
  [timeout |-> "PROVIDER_TIMEOUT", transport |-> "PROVIDER_TRANSIENT",
   rate_limited |-> "PROVIDER_TRANSIENT", server_error |-> "PROVIDER_TRANSIENT",
   not_found |-> "PROVIDER_ERROR", unauthorized |-> "PROVIDER_AUTH",
   rejected |-> "PROVIDER_VALIDATION", not_json |-> "AMBIGUOUS_PROVIDER_RESPONSE",
   not_object |-> "AMBIGUOUS_PROVIDER_RESPONSE", malformed |-> "AMBIGUOUS_PROVIDER_RESPONSE"]

Definitive == {"PROVIDER_AUTH", "PROVIDER_VALIDATION"}

\* _mark_provider_unknown and _mark_provider_failed up to their first commit.
Marked(error) ==
  [row EXCEPT !.status = IF error \in Definitive THEN "FAILED" ELSE "UNKNOWN",
              !.error = error]

PostNotConfigured ==
  /\ post = "idle"
  /\ ~configured
  /\ post' = "ended"
  /\ row' = Marked("PROVIDER_NOT_CONFIGURED")
  /\ UNCHANGED <<configured, links, wire, get, found, rail>>

SendPost ==
  /\ post = "idle"
  /\ configured
  /\ post' = "waiting"
  /\ wire' = "sent"
  /\ UNCHANGED <<configured, links, row, get, found, rail>>

\* Which answers the caller may see, given what has become of the request.
Possible(answer) ==
  \/ answer \in {"timeout", "transport"}
  \/ wire = "refused" /\ answer \in {"unauthorized", "rejected"}
  \/ wire \in {"created", "failed"}
     /\ answer \in {"not_found", "rate_limited", "server_error"} \cup Unusable

PostFails ==
  /\ post = "waiting"
  /\ \E answer \in Answers :
       /\ Possible(answer)
       /\ row' = Marked(PostError[answer])
  /\ post' = "ended"
  /\ UNCHANGED <<configured, links, wire, get, found, rail>>

\* A 2xx whose body reads as some link the provider has.
PostSucceeds ==
  /\ post = "waiting"
  /\ wire = "created"
  /\ \E l \in links :
       row' = IF Compatible(l)
              THEN [row EXCEPT !.status = "SUCCEEDED", !.link = l.id]
              ELSE Marked("AMBIGUOUS_PROVIDER_RESPONSE")
  /\ post' = "ended"
  /\ UNCHANGED <<configured, links, wire, get, found, rail>>

------------------------------------------------------------------------------
(* get_json: a bounded number of attempts for what a retry may cure *)

Transient == {"timeout", "transport", "server_error"}

\* A new request while the earlier one has not been answered is another reader.
StartRead(r) == get' = [get EXCEPT ![r] = [at |-> "waiting", attempt |-> 1]]

EndRead(r) == get' = [get EXCEPT ![r] = IdleRead]

\* Deviation: the limit counts the retries, not the attempts.
ReadRetriesOnceMore(r) ==
  /\ get[r].at = "waiting"
  /\ get[r].attempt <= MaxReadAttempts
  /\ get' = [get EXCEPT ![r].attempt = @ + 1]
  /\ UNCHANGED <<configured, provider, post, row, found, rail>>

\* Deviation: a retry starts the count again.
ReadRetriesForever(r) ==
  /\ get[r].at = "waiting"
  /\ get' = [get EXCEPT ![r].attempt = IF @ = 1 THEN 2 ELSE 1]
  /\ UNCHANGED <<configured, provider, post, row, found, rail>>

ReadRetries(r) ==
  /\ get[r].at = "waiting"
  /\ get[r].attempt < MaxReadAttempts
  /\ get' = [get EXCEPT ![r].attempt = @ + 1]
  /\ UNCHANGED <<configured, provider, post, row, found, rail>>

\* The read raises: at once for most errors, after the last attempt for the others.
ReadRaises(r, answer) ==
  /\ get[r].at = "waiting"
  /\ answer \in Transient => get[r].attempt = MaxReadAttempts

------------------------------------------------------------------------------
(* fetch_payment_links_by_reference, when the action is asked for again *)

Unresolved ==
  \/ row.status \in {"EXECUTING", "UNKNOWN"}
  \/ row.status = "SUCCEEDED" /\ row.link = NoLink

StartLookup ==
  /\ get["lookup"].at = "idle"
  /\ configured
  /\ Unresolved
  /\ StartRead("lookup")
  /\ UNCHANGED <<configured, provider, post, row, found, rail>>

LookupFails ==
  /\ \E answer \in Answers : ReadRaises("lookup", answer)
  /\ EndRead("lookup")
  /\ UNCHANGED <<configured, provider, post, row, found, rail>>

\* Deviation: the first link with the reference is taken.
ReconciliationByReference(listing) ==
  LET ours == {l \in listing : l.ref = "ours"} IN
  IF ours = {} THEN NotFound
  ELSE [status |-> "matched", link |-> (CHOOSE l \in ours : TRUE).id]

Reconciliation(listing) ==
  LET compatible == OurLinks(listing) IN
  IF compatible = {} THEN NotFound
  ELSE IF Cardinality(compatible) > 1 THEN [status |-> "ambiguous", link |-> NoLink]
  ELSE [status |-> "matched", link |-> (CHOOSE l \in compatible : TRUE).id]

LookupAnswered ==
  /\ get["lookup"].at = "waiting"
  /\ \E listing \in SUBSET links : found' = Reconciliation(listing)
  /\ get' = [get EXCEPT !["lookup"].at = "answered"]
  /\ UNCHANGED <<configured, provider, post, row, rail>>

\* _apply_reconciled_payment_link: the row is written without being read again.
ApplyLookup ==
  /\ get["lookup"].at = "answered"
  /\ EndRead("lookup")
  /\ row' = CASE found.status = "not_found" -> row
              [] found.status = "ambiguous" ->
                   [row EXCEPT !.error = "RECONCILIATION_AMBIGUOUS"]
              [] found.status = "matched" ->
                   [status |-> "SUCCEEDED", link |-> found.link, error |-> "none"]
  /\ found' = NotFound
  /\ UNCHANGED <<configured, provider, post, rail>>

------------------------------------------------------------------------------
(* Payment rail outages *)

\* The first required detail that is not met decides; an unknown one is no mismatch.
InstrumentMatch(d, e) ==
  LET Known(i) == e.instrument[d.instrument[i][1]]
      Met(i) == Known(i) = d.instrument[i][2]
      Contradicted(i) == ~Met(i) /\ Known(i) # Unknown
  IN IF \A i \in DOMAIN d.instrument : Met(i) THEN "MATCH"
     ELSE IF \E i \in DOMAIN d.instrument : Contradicted(i) /\ \A j \in 1..(i - 1) : Met(j)
          THEN "NO_MATCH"
     ELSE "UNCERTAIN"

OutsideWindow(d, e) == e.at # NoTime /\ (e.at < d.begin \/ e.at > d.end)

RuledOut(d, e) ==
  \/ d.method # e.method
  \/ d.status \in {"resolved", "scheduled"}
  \/ OutsideWindow(d, e)
  \/ InstrumentMatch(d, e) = "NO_MATCH"

\* Deviation: an unrecognised status is taken for an ended outage.
DowntimeMatchKnownStatus(d, e) ==
  IF e.method = Unknown THEN "UNCERTAIN"
  ELSE IF RuledOut(d, e) \/ d.status # "started" THEN "NO_MATCH"
  ELSE InstrumentMatch(d, e)

DowntimeMatch(d, e) ==
  IF e.method = Unknown THEN "UNCERTAIN"
  ELSE IF RuledOut(d, e) THEN "NO_MATCH"
  ELSE IF InstrumentMatch(d, e) = "MATCH" /\ d.status = "started" THEN "MATCH"
  ELSE "UNCERTAIN"

DowntimeVerdict(records, e) ==
  IF \E d \in records : DowntimeMatch(d, e) = "MATCH" THEN "KNOWN"
  ELSE IF \E d \in records : DowntimeMatch(d, e) = "UNCERTAIN" THEN "UNKNOWN"
  ELSE "NO_DOWNTIME"

\* A subscription has no payment to compare with; without credentials nothing is read.
DowntimeNotRead ==
  /\ get["downtime"].at = "idle"
  /\ \/ rail' = [NoRail EXCEPT !.lookup = "NO_DOWNTIME"]
     \/ /\ ~configured
        /\ \E e \in Transactions : rail' = [NoRail EXCEPT !.lookup = "UNKNOWN", !.about = e]
  /\ UNCHANGED <<configured, provider, post, row, get, found>>

StartDowntime ==
  /\ get["downtime"].at = "idle"
  /\ configured
  /\ StartRead("downtime")
  /\ \E e \in Transactions : rail' = [NoRail EXCEPT !.about = e]
  /\ UNCHANGED <<configured, provider, post, row, found>>

DowntimeFails ==
  /\ \E answer \in Answers : ReadRaises("downtime", answer)
  /\ EndRead("downtime")
  /\ rail' = [rail EXCEPT !.lookup = "UNKNOWN"]
  /\ UNCHANGED <<configured, provider, post, row, found>>

DowntimeListed ==
  /\ get["downtime"].at = "waiting"
  /\ \E records \in SUBSET Outages :
       rail' = [rail EXCEPT !.lookup = DowntimeVerdict(records, rail.about),
                            !.records = records, !.listed = TRUE]
  /\ EndRead("downtime")
  /\ UNCHANGED <<configured, provider, post, row, found>>

------------------------------------------------------------------------------

Create == PostNotConfigured \/ SendPost \/ PostFails \/ PostSucceeds

Lookup == StartLookup \/ ReadRetries("lookup") \/ LookupFails \/ LookupAnswered \/ ApplyLookup

Downtime ==
  \/ DowntimeNotRead
  \/ StartDowntime
  \/ ReadRetries("downtime")
  \/ DowntimeFails
  \/ DowntimeListed

Next == ProviderCreates \/ ProviderRefuses \/ Create \/ Lookup \/ Downtime

Spec == Init /\ [][Next]_vars

(***************************************************************************)
(* Every HTTP call has a timeout, so a call that waits gets some answer;   *)
(* nothing obliges anyone to start a lookup.                               *)
(***************************************************************************)
FairSpec ==
  /\ Spec
  /\ WF_vars(PostFails \/ PostSucceeds)
  /\ WF_vars(ReadRetries("lookup") \/ LookupFails \/ LookupAnswered)
  /\ WF_vars(ApplyLookup)
  /\ WF_vars(ReadRetries("downtime") \/ DowntimeFails \/ DowntimeListed)

------------------------------------------------------------------------------
(* Properties *)

Statuses == {"EXECUTING", "SUCCEEDED", "UNKNOWN", "FAILED"}
ErrorCategories ==
  {"none", "PROVIDER_TIMEOUT", "PROVIDER_TRANSIENT", "PROVIDER_ERROR", "PROVIDER_AUTH",
   "PROVIDER_VALIDATION", "PROVIDER_NOT_CONFIGURED", "AMBIGUOUS_PROVIDER_RESPONSE",
   "RECONCILIATION_AMBIGUOUS"}

\* Rows, links and reads are well-formed; a waiting read is at one of its three
\* attempts, and the adapter has not asked the provider for anything unsent.
TypeOK ==
  /\ configured \in BOOLEAN
  /\ links \subseteq Links
  /\ wire \in {"unsent", "sent", "created", "refused", "failed"}
  /\ post \in {"idle", "waiting", "ended"}
  /\ row \in [status : Statuses, link : LinkIds \cup {NoLink}, error : ErrorCategories]
  /\ get \in [Readers -> {IdleRead} \cup [at : {"waiting", "answered"},
                                          attempt : 1..MaxReadAttempts]]
  /\ found \in [status : {"not_found", "ambiguous", "matched"}, link : LinkIds \cup {NoLink}]
  /\ rail \in [lookup : {"none", "KNOWN", "UNKNOWN", "NO_DOWNTIME"},
               about : EvidenceRecords \cup {NoTransaction},
               records : SUBSET Outages, listed : BOOLEAN]

\* What the steps keep between the provider, the caller and the row: no link of ours
\* before the request was executed, and a refusal only for a request that never will be.
Bookkeeping ==
  /\ wire # "created" => links = Foreign
  /\ post = "idle" => wire = "unsent"
  /\ post # "ended" => row.status \in {"EXECUTING", "SUCCEEDED"}
  /\ row.status = "FAILED" => wire = "refused" /\ post = "ended"
  /\ found.status = "matched" => \E l \in OurLinks(links) : l.id = found.link

\* A row that says SUCCEEDED names a link that exists at the provider, carries the
\* action's reference, amount and currency and takes no partial payment, whichever
\* of the POST's answer and a concurrent lookup wrote the row last.
SuccessNamesOurLink ==
  row.status = "SUCCEEDED" => \E l \in OurLinks(links) : l.id = row.link

\* Ways in which the missing evidence of a payment may turn out.
Completions(e) ==
  {f \in [method : IF e.method = Unknown THEN {"upi", "card"} ELSE {e.method},
          at : IF e.at = NoTime THEN Times ELSE {e.at},
          instrument : [InstrumentKeys -> Values]] :
     \A k \in InstrumentKeys : e.instrument[k] \in {Unknown, f.instrument[k]}}

\* The outage may be what made the payment with these particulars fail.
Touches(d, f) ==
  /\ d.method = f.method
  /\ d.status \notin {"resolved", "scheduled"}
  /\ f.at \in d.begin..d.end
  /\ \A i \in DOMAIN d.instrument : f.instrument[d.instrument[i][1]] = d.instrument[i][2]

\* The rail of a payment is called healthy only when the provider's list was received
\* and no way of filling in the missing evidence makes an outage of the list touch the
\* payment, and degraded only when every way does, the time of the failure being known.
RailVerdictIsEvidence ==
  rail.about # NoTransaction =>
    /\ rail.lookup = "NO_DOWNTIME" =>
         /\ rail.listed
         /\ \A f \in Completions(rail.about), d \in rail.records : ~Touches(d, f)
    /\ rail.lookup = "KNOWN" /\ rail.about.at # NoTime =>
         \A f \in Completions(rail.about) :
           \E d \in rail.records : Touches(d, f) /\ d.status = "started"

\* The adapter keeps the promise that the workflow is built on: a row fails only when
\* no link exists and none can appear, and succeeds only when one exists.
Port == INSTANCE PaymentLinkPort
          WITH exists <- (OurLinks(links) # {}), verdict <- row.status
PortImplemented == Port!PortSpec

\* No call waits for ever: a read ends after at most three attempts.
CallsEnd ==
  /\ (post = "waiting") ~> (post = "ended")
  /\ \A r \in Readers : (get[r].at # "idle") ~> (get[r].at = "idle")

=============================================================================
