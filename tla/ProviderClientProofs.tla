------------------------- MODULE ProviderClientProofs -------------------------
(***************************************************************************)
(* Proofs about ProviderClient, for any links, outages and payments: the   *)
(* row that says SUCCEEDED names the action's own link, and the adapter    *)
(* implements PaymentLinkPort, and an outage is reported or ruled out only *)
(* on the evidence of the provider's list.                                 *)
(***************************************************************************)
EXTENDS ProviderClient, TLAPS

IInv == TypeOK /\ Bookkeeping /\ SuccessNamesOurLink

\* The classification of an answer writes a row that failed or is in doubt.
LEMMA MarkedRow ==
  ASSUME TypeOK, NEW e \in ErrorCategories
  PROVE  /\ Marked(e) \in [status : {"FAILED", "UNKNOWN"}, link : LinkIds \cup {NoLink},
                           error : ErrorCategories]
         /\ Marked(e).status = "FAILED" <=> e \in Definitive
  BY DEF Marked, TypeOK

\* Every answer has an error category, and only a refusal is a definitive one.
LEMMA PostErrors ==
  ASSUME NEW answer \in Answers
  PROVE  /\ PostError[answer] \in ErrorCategories
         /\ PostError[answer] \in Definitive => answer \in {"unauthorized", "rejected"}
  BY DEF PostError, Answers, Unusable, ErrorCategories, Definitive

\* The link that the provider makes of the request is the action's own.
LEMMA AskedIsOurs ==
  ASSUME NEW id \in LinkIds
  PROVE  Asked(id) \in Links /\ Compatible(Asked(id)) /\ Asked(id).id = id
  BY DEF Asked, Links, Compatible

\* A lookup names a link only if it is on the provider's list and compatible.
LEMMA ReconciliationSound ==
  ASSUME NEW listing \in SUBSET links, TypeOK
  PROVE  /\ Reconciliation(listing) \in
              [status : {"not_found", "ambiguous", "matched"}, link : LinkIds \cup {NoLink}]
         /\ Reconciliation(listing).status = "matched" =>
              \E l \in OurLinks(links) : l.id = Reconciliation(listing).link
  <1> DEFINE c == CHOOSE l \in OurLinks(listing) : TRUE
  <1>1. CASE OurLinks(listing) = {}
    BY <1>1 DEF Reconciliation, NotFound
  <1>2. CASE OurLinks(listing) # {} /\ Cardinality(OurLinks(listing)) > 1
    BY <1>2 DEF Reconciliation
  <1>3. CASE OurLinks(listing) # {} /\ ~(Cardinality(OurLinks(listing)) > 1)
    <2>1. c \in OurLinks(listing)
      BY <1>3
    <2>2. c \in OurLinks(links) /\ c \in Links
      BY <2>1 DEF OurLinks, TypeOK
    <2>3. c.id \in LinkIds
      BY <2>2 DEF Links
    <2>4. Reconciliation(listing) = [status |-> "matched", link |-> c.id]
      BY <1>3 DEF Reconciliation
    <2>5. /\ Reconciliation(listing).status = "matched"
          /\ Reconciliation(listing).link = c.id
      BY <2>4
    <2>6. Reconciliation(listing) \in
            [status : {"not_found", "ambiguous", "matched"}, link : LinkIds \cup {NoLink}]
      <3> HIDE DEF c
      <3> QED
        BY <2>3, <2>4
    <2> QED
      BY <2>2, <2>5, <2>6
  <1> QED
    BY <1>1, <1>2, <1>3

\* The provider's own steps.
LEMMA ProviderCreatesKeeps == ASSUME IInv, ProviderCreates PROVE IInv'
  <1>1. PICK id \in LinkIds : links' = links \cup {Asked(id)}
    BY DEF ProviderCreates
  <1>2. wire' = "created" /\ wire # "refused" /\ wire # "unsent"
    BY DEF ProviderCreates
  <1>3. TypeOK'
    BY <1>1, AskedIsOurs DEF IInv, TypeOK, ProviderCreates
  <1>4. OurLinks(links) \subseteq OurLinks(links')
    BY <1>1 DEF OurLinks
  <1>5. Bookkeeping'
    BY <1>2, <1>4 DEF IInv, Bookkeeping, ProviderCreates
  <1>6. SuccessNamesOurLink'
    BY <1>4 DEF IInv, SuccessNamesOurLink, ProviderCreates
  <1> QED
    BY <1>3, <1>5, <1>6 DEF IInv

LEMMA ProviderRefusesKeeps == ASSUME IInv, ProviderRefuses PROVE IInv'
  <1>1. TypeOK'
    BY DEF IInv, TypeOK, ProviderRefuses
  <1>2. Bookkeeping'
    BY DEF IInv, Bookkeeping, ProviderRefuses
  <1>3. SuccessNamesOurLink'
    BY DEF IInv, SuccessNamesOurLink, ProviderRefuses
  <1> QED
    BY <1>1, <1>2, <1>3 DEF IInv

\* The steps of the POST.
LEMMA PostNotConfiguredKeeps == ASSUME IInv, PostNotConfigured PROVE IInv'
  <1>1. "PROVIDER_NOT_CONFIGURED" \in ErrorCategories /\ "PROVIDER_NOT_CONFIGURED" \notin Definitive
    BY DEF ErrorCategories, Definitive
  <1>2. /\ row' \in [status : {"FAILED", "UNKNOWN"}, link : LinkIds \cup {NoLink},
                     error : ErrorCategories]
        /\ row'.status = "UNKNOWN"
    BY <1>1, MarkedRow DEF IInv, PostNotConfigured
  <1>3. TypeOK'
    BY <1>2 DEF IInv, TypeOK, PostNotConfigured, Statuses
  <1>4. Bookkeeping'
    BY <1>2 DEF IInv, Bookkeeping, PostNotConfigured
  <1> QED
    BY <1>2, <1>3, <1>4 DEF IInv, SuccessNamesOurLink

LEMMA SendPostKeeps == ASSUME IInv, SendPost PROVE IInv'
  <1>1. TypeOK'
    BY DEF IInv, TypeOK, SendPost
  <1>2. Bookkeeping'
    BY DEF IInv, Bookkeeping, SendPost
  <1>3. SuccessNamesOurLink'
    BY DEF IInv, SuccessNamesOurLink, SendPost
  <1> QED
    BY <1>1, <1>2, <1>3 DEF IInv

LEMMA PostFailsKeeps == ASSUME IInv, PostFails PROVE IInv'
  <1>1. PICK answer \in Answers : Possible(answer) /\ row' = Marked(PostError[answer])
    BY DEF PostFails
  <1>2. /\ row' \in [status : {"FAILED", "UNKNOWN"}, link : LinkIds \cup {NoLink},
                     error : ErrorCategories]
        /\ row'.status = "FAILED" => PostError[answer] \in Definitive
    BY <1>1, MarkedRow, PostErrors DEF IInv
  <1>3. row'.status = "FAILED" => wire = "refused"
    BY <1>1, <1>2, PostErrors DEF Possible, Unusable
  <1>4. TypeOK'
    BY <1>2 DEF IInv, TypeOK, PostFails, Statuses
  <1>5. Bookkeeping'
    BY <1>3 DEF IInv, Bookkeeping, PostFails
  <1> QED
    BY <1>2, <1>4, <1>5 DEF IInv, SuccessNamesOurLink

LEMMA PostSucceedsKeeps == ASSUME IInv, PostSucceeds PROVE IInv'
  <1>1. PICK l \in links :
          row' = IF Compatible(l)
                 THEN [row EXCEPT !.status = "SUCCEEDED", !.link = l.id]
                 ELSE Marked("AMBIGUOUS_PROVIDER_RESPONSE")
    BY DEF PostSucceeds
  <1>2. l.id \in LinkIds
    BY DEF IInv, TypeOK, Links
  <1>3. /\ "AMBIGUOUS_PROVIDER_RESPONSE" \in ErrorCategories
        /\ "AMBIGUOUS_PROVIDER_RESPONSE" \notin Definitive
    BY DEF ErrorCategories, Definitive
  <1>4. CASE Compatible(l)
    <2>1. /\ row' \in [status : Statuses, link : LinkIds \cup {NoLink}, error : ErrorCategories]
          /\ row'.status = "SUCCEEDED" /\ row'.link = l.id
      BY <1>1, <1>2, <1>4 DEF IInv, TypeOK, Statuses
    <2>2. l \in OurLinks(links')
      BY <1>4 DEF PostSucceeds, OurLinks
    <2>3. TypeOK'
      BY <2>1 DEF IInv, TypeOK, PostSucceeds
    <2>4. Bookkeeping'
      BY <2>1 DEF IInv, Bookkeeping, PostSucceeds
    <2> QED
      BY <2>1, <2>2, <2>3, <2>4 DEF IInv, SuccessNamesOurLink
  <1>5. CASE ~Compatible(l)
    <2>1. /\ row' \in [status : {"FAILED", "UNKNOWN"}, link : LinkIds \cup {NoLink},
                       error : ErrorCategories]
          /\ row'.status = "UNKNOWN"
      BY <1>1, <1>3, <1>5, MarkedRow DEF IInv
    <2>2. TypeOK'
      BY <2>1 DEF IInv, TypeOK, PostSucceeds, Statuses
    <2>3. Bookkeeping'
      BY <2>1 DEF IInv, Bookkeeping, PostSucceeds
    <2> QED
      BY <2>1, <2>2, <2>3 DEF IInv, SuccessNamesOurLink
  <1> QED
    BY <1>4, <1>5

\* Reads that only change who waits, and what is known of the rail.
LEMMA ReadKeeps ==
  ASSUME IInv, TypeOK', UNCHANGED <<links, wire, post, row, found>>
  PROVE  IInv'
  BY DEF IInv, Bookkeeping, SuccessNamesOurLink

LEMMA ReadRetriesTyped == ASSUME TypeOK, NEW r \in Readers, ReadRetries(r) PROVE TypeOK'
  <1>1. get[r] \in [at : {"waiting", "answered"}, attempt : 1..MaxReadAttempts]
    BY DEF TypeOK, ReadRetries, IdleRead
  <1>2. [get[r] EXCEPT !.attempt = @ + 1]
          \in [at : {"waiting", "answered"}, attempt : 1..MaxReadAttempts]
    BY <1>1 DEF ReadRetries, MaxReadAttempts
  <1>3. get' = [get EXCEPT ![r] = [get[r] EXCEPT !.attempt = @ + 1]]
    BY DEF ReadRetries
  <1> QED
    BY <1>2, <1>3 DEF TypeOK, ReadRetries, provider

LEMMA StartReadTyped ==
  ASSUME TypeOK, NEW r \in Readers, StartRead(r)
  PROVE  get' \in [Readers -> {IdleRead} \cup [at : {"waiting", "answered"},
                                              attempt : 1..MaxReadAttempts]]
  BY DEF TypeOK, StartRead, MaxReadAttempts

LEMMA EndReadTyped ==
  ASSUME TypeOK, NEW r \in Readers, EndRead(r)
  PROVE  get' \in [Readers -> {IdleRead} \cup [at : {"waiting", "answered"},
                                              attempt : 1..MaxReadAttempts]]
  BY DEF TypeOK, EndRead

\* The lookup by reference.
LEMMA LookupKeeps == ASSUME IInv, Lookup PROVE IInv'
  <1> USE DEF provider
  <1> "lookup" \in Readers
    BY DEF Readers
  <1>1. CASE StartLookup
    BY <1>1, StartReadTyped, ReadKeeps DEF StartLookup, IInv, TypeOK
  <1>2. CASE ReadRetries("lookup")
    BY <1>2, ReadRetriesTyped, ReadKeeps DEF ReadRetries, IInv
  <1>3. CASE LookupFails
    BY <1>3, EndReadTyped, ReadKeeps DEF LookupFails, IInv, TypeOK
  <1>4. CASE LookupAnswered
    <2>1. PICK listing \in SUBSET links : found' = Reconciliation(listing)
      BY <1>4 DEF LookupAnswered
    <2>2. get["lookup"] \in [at : {"waiting", "answered"}, attempt : 1..MaxReadAttempts]
      BY <1>4 DEF IInv, TypeOK, LookupAnswered, IdleRead
    <2>3. get' = [get EXCEPT !["lookup"] = [get["lookup"] EXCEPT !.at = "answered"]]
      BY <1>4 DEF LookupAnswered
    <2>4. [get["lookup"] EXCEPT !.at = "answered"]
            \in [at : {"waiting", "answered"}, attempt : 1..MaxReadAttempts]
      BY <2>2
    <2>5. TypeOK'
      BY <1>4, <2>1, <2>3, <2>4, ReconciliationSound DEF IInv, TypeOK, LookupAnswered
    <2>6. Bookkeeping'
      BY <1>4, <2>1, ReconciliationSound DEF IInv, Bookkeeping, LookupAnswered, OurLinks
    <2> QED
      BY <1>4, <2>5, <2>6 DEF IInv, SuccessNamesOurLink, LookupAnswered
  <1>5. CASE ApplyLookup
    <2>1. /\ NotFound \in [status : {"not_found", "ambiguous", "matched"},
                           link : LinkIds \cup {NoLink}]
          /\ NotFound.status = "not_found"
      BY DEF NotFound
    <2>2. CASE found.status = "not_found"
      BY <1>5, <2>1, <2>2, EndReadTyped
         DEF IInv, TypeOK, Bookkeeping, SuccessNamesOurLink, ApplyLookup
    <2>3. CASE found.status = "ambiguous"
      <3>1. row' = [row EXCEPT !.error = "RECONCILIATION_AMBIGUOUS"]
        BY <1>5, <2>3 DEF ApplyLookup
      <3>2. row'.status = row.status /\ row'.link = row.link
        BY <3>1 DEF IInv, TypeOK
      <3>3. TypeOK'
        BY <1>5, <2>1, <3>1, EndReadTyped DEF IInv, TypeOK, ApplyLookup, ErrorCategories
      <3> QED
        BY <1>5, <2>1, <3>2, <3>3 DEF IInv, Bookkeeping, SuccessNamesOurLink, ApplyLookup
    <2>4. CASE found.status = "matched"
      <3>1. row' = [status |-> "SUCCEEDED", link |-> found.link, error |-> "none"]
        BY <1>5, <2>4 DEF ApplyLookup
      <3>2. PICK l \in OurLinks(links) : l.id = found.link
        BY <2>4 DEF IInv, Bookkeeping
      <3>3. TypeOK'
        BY <1>5, <2>1, <3>1, EndReadTyped
           DEF IInv, TypeOK, ApplyLookup, ErrorCategories, Statuses
      <3>4. row'.status = "SUCCEEDED" /\ row'.link = found.link
        BY <3>1
      <3>5. links' = links /\ wire' = wire /\ post' = post /\ found' = NotFound
        BY <1>5 DEF ApplyLookup
      <3>6. Bookkeeping'
        BY <2>1, <3>4, <3>5 DEF IInv, Bookkeeping
      <3>7. SuccessNamesOurLink'
        BY <3>2, <3>4, <3>5 DEF SuccessNamesOurLink
      <3> QED
        BY <3>3, <3>6, <3>7 DEF IInv
    <2> QED
      BY <2>2, <2>3, <2>4 DEF IInv, TypeOK
  <1> QED
    BY <1>1, <1>2, <1>3, <1>4, <1>5 DEF Lookup

\* The lookup of outages.
LEMMA DowntimeKeeps == ASSUME IInv, Downtime PROVE IInv'
  <1> USE DEF provider
  <1> "downtime" \in Readers
    BY DEF Readers
  <1> DEFINE Rails == [lookup : {"none", "KNOWN", "UNKNOWN", "NO_DOWNTIME"},
                       about : EvidenceRecords \cup {NoTransaction},
                       records : SUBSET Outages, listed : BOOLEAN]
  <1>0. /\ NoRail \in Rails
        /\ \A e \in Transactions : [NoRail EXCEPT !.about = e] \in Rails
        /\ \A e \in Transactions : [NoRail EXCEPT !.lookup = "UNKNOWN", !.about = e] \in Rails
        /\ [NoRail EXCEPT !.lookup = "NO_DOWNTIME"] \in Rails
    BY ClientAssumption DEF NoRail
  <1>1. CASE DowntimeNotRead
    <2>1. rail' \in Rails
      BY <1>0, <1>1 DEF DowntimeNotRead
    <2> QED
      BY <1>1, <2>1, ReadKeeps DEF DowntimeNotRead, IInv, TypeOK
  <1>2. CASE StartDowntime
    <2>1. rail' \in Rails
      BY <1>0, <1>2 DEF StartDowntime
    <2> QED
      BY <1>2, <2>1, StartReadTyped, ReadKeeps DEF StartDowntime, IInv, TypeOK
  <1>3. CASE ReadRetries("downtime")
    BY <1>3, ReadRetriesTyped, ReadKeeps DEF ReadRetries, IInv
  <1>4. CASE DowntimeFails
    <2>1. rail' \in Rails
      BY <1>4 DEF DowntimeFails, IInv, TypeOK
    <2> QED
      BY <1>4, <2>1, EndReadTyped, ReadKeeps DEF DowntimeFails, IInv, TypeOK
  <1>5. CASE DowntimeListed
    <2>1. PICK records \in SUBSET Outages :
            rail' = [rail EXCEPT !.lookup = DowntimeVerdict(records, rail.about),
                                 !.records = records, !.listed = TRUE]
      BY <1>5 DEF DowntimeListed
    <2>2. DowntimeVerdict(records, rail.about) \in {"KNOWN", "UNKNOWN", "NO_DOWNTIME"}
      BY DEF DowntimeVerdict
    <2>3. rail' \in Rails
      BY <2>1, <2>2 DEF IInv, TypeOK
    <2> QED
      BY <1>5, <2>3, EndReadTyped, ReadKeeps DEF DowntimeListed, IInv, TypeOK
  <1> QED
    BY <1>1, <1>2, <1>3, <1>4, <1>5 DEF Downtime

LEMMA NextKeeps == ASSUME IInv, [Next]_vars PROVE IInv'
  <1>1. CASE ProviderCreates
    BY <1>1, ProviderCreatesKeeps
  <1>2. CASE ProviderRefuses
    BY <1>2, ProviderRefusesKeeps
  <1>3. CASE Create
    BY <1>3, PostNotConfiguredKeeps, SendPostKeeps, PostFailsKeeps, PostSucceedsKeeps DEF Create
  <1>4. CASE Lookup
    BY <1>4, LookupKeeps
  <1>5. CASE Downtime
    BY <1>5, DowntimeKeeps
  <1>6. CASE UNCHANGED vars
    BY <1>6 DEF vars, IInv, TypeOK, Bookkeeping, SuccessNamesOurLink
  <1> QED
    BY <1>1, <1>2, <1>3, <1>4, <1>5, <1>6 DEF Next

LEMMA InitInvariant == ASSUME Init PROVE IInv
  BY ClientAssumption DEF Init, IInv, TypeOK, Bookkeeping, SuccessNamesOurLink, Links, IdleRead,
     NoRail, NotFound, Readers, Statuses, ErrorCategories

\* Rows, reads and contexts stay well-formed whatever the provider answers.
THEOREM TypeCorrect == Spec => []TypeOK
  <1>1. IInv => TypeOK
    BY DEF IInv
  <1> QED
    BY InitInvariant, NextKeeps, <1>1, PTL DEF Spec

\* A row that says SUCCEEDED names a link of the action's own at the provider, however
\* the POST's answer and concurrent lookups by reference interleave.
THEOREM SuccessIsOurs == Spec => []SuccessNamesOurLink
  <1>1. IInv => SuccessNamesOurLink
    BY DEF IInv
  <1> QED
    BY InitInvariant, NextKeeps, <1>1, PTL DEF Spec

\* Links of our own appear only when the provider executes the request.
LEMMA NoLinkBefore == ASSUME IInv, OurLinks(links) # {} PROVE wire = "created"
  BY ClientAssumption DEF IInv, Bookkeeping

\* Every step of the adapter is a step of the port or leaves it alone.
LEMMA StepRefines == ASSUME IInv, [Next]_vars PROVE [Port!PortNext]_(Port!port)
  <1> USE DEF Port!port, Port!PortNext
  <1>1. CASE ProviderCreates
    <2>1. OurLinks(links') # {}
      BY <1>1, AskedIsOurs DEF ProviderCreates, OurLinks
    <2>2. row.status # "FAILED" /\ row' = row
      BY <1>1 DEF ProviderCreates, IInv, Bookkeeping
    <2> QED
      BY <2>1, <2>2 DEF Port!LinkAppears
  <1>2. CASE ProviderRefuses
    BY <1>2 DEF ProviderRefuses
  <1>3. CASE PostNotConfigured
    <2>1. "PROVIDER_NOT_CONFIGURED" \in ErrorCategories
          /\ "PROVIDER_NOT_CONFIGURED" \notin Definitive
      BY DEF ErrorCategories, Definitive
    <2>2. row'.status = "UNKNOWN" /\ links' = links
      BY <1>3, <2>1, MarkedRow DEF IInv, PostNotConfigured
    <2>3. row.status \in {"EXECUTING", "SUCCEEDED"}
      BY <1>3 DEF IInv, Bookkeeping, PostNotConfigured
    <2> QED
      BY <2>2, <2>3 DEF Port!Doubt
  <1>4. CASE SendPost
    BY <1>4 DEF SendPost
  <1>5. CASE PostFails
    <2>1. PICK answer \in Answers : Possible(answer) /\ row' = Marked(PostError[answer])
      BY <1>5 DEF PostFails
    <2>2. /\ row'.status \in {"FAILED", "UNKNOWN"}
          /\ row'.status = "FAILED" => wire = "refused"
      BY <2>1, MarkedRow, PostErrors DEF IInv, Possible, Unusable
    <2>3. row.status \in {"EXECUTING", "SUCCEEDED"} /\ links' = links
      BY <1>5 DEF IInv, Bookkeeping, PostFails
    <2>4. row.status = "SUCCEEDED" => wire = "created"
      BY NoLinkBefore DEF IInv, SuccessNamesOurLink
    <2>5. CASE row'.status = "UNKNOWN"
      BY <2>3, <2>5 DEF Port!Doubt
    <2>6. CASE row'.status = "FAILED"
      BY <2>2, <2>3, <2>4, <2>6, NoLinkBefore DEF Port!Refuse
    <2> QED
      BY <2>2, <2>5, <2>6
  <1>6. CASE PostSucceeds
    <2>1. PICK l \in links :
            row' = IF Compatible(l)
                   THEN [row EXCEPT !.status = "SUCCEEDED", !.link = l.id]
                   ELSE Marked("AMBIGUOUS_PROVIDER_RESPONSE")
      BY <1>6 DEF PostSucceeds
    <2>2. row.status \in {"EXECUTING", "SUCCEEDED"} /\ links' = links
      BY <1>6 DEF IInv, Bookkeeping, PostSucceeds
    <2>3. CASE Compatible(l)
      <3>1. row'.status = "SUCCEEDED" /\ OurLinks(links) # {}
        BY <2>1, <2>3 DEF IInv, TypeOK, OurLinks
      <3> QED
        BY <2>2, <3>1 DEF Port!Confirm
    <2>4. CASE ~Compatible(l)
      <3>1. "AMBIGUOUS_PROVIDER_RESPONSE" \in ErrorCategories
            /\ "AMBIGUOUS_PROVIDER_RESPONSE" \notin Definitive
        BY DEF ErrorCategories, Definitive
      <3>2. row'.status = "UNKNOWN"
        BY <2>1, <2>4, <3>1, MarkedRow DEF IInv
      <3> QED
        BY <2>2, <3>2 DEF Port!Doubt
    <2> QED
      BY <2>3, <2>4
  <1>7. CASE Lookup
    <2>1. CASE ApplyLookup
      <3>1. CASE found.status = "matched"
        <4>1. row'.status = "SUCCEEDED" /\ links' = links /\ OurLinks(links) # {}
          BY <2>1, <3>1 DEF ApplyLookup, IInv, Bookkeeping, provider
        <4>2. row.status \in {"EXECUTING", "UNKNOWN", "SUCCEEDED"}
          BY <4>1, NoLinkBefore DEF IInv, Bookkeeping, TypeOK, Statuses
        <4> QED
          BY <4>1, <4>2 DEF Port!Confirm
      <3>2. CASE found.status # "matched"
        <4>1. row'.status = row.status /\ links' = links
          BY <2>1, <3>2 DEF ApplyLookup, IInv, TypeOK, provider
        <4> QED
          BY <4>1
      <3> QED
        BY <3>1, <3>2
    <2>2. CASE ~ApplyLookup
      <3>1. row' = row /\ links' = links
        BY <1>7, <2>2 DEF Lookup, StartLookup, ReadRetries, LookupFails, LookupAnswered, provider
      <3> QED
        BY <3>1
    <2> QED
      BY <2>1, <2>2
  <1>8. CASE Downtime
    <2>1. row' = row /\ links' = links
      BY <1>8 DEF Downtime, DowntimeNotRead, StartDowntime, ReadRetries, DowntimeFails,
         DowntimeListed, provider
    <2> QED
      BY <2>1
  <1>9. CASE UNCHANGED vars
    BY <1>9 DEF vars
  <1> QED
    BY <1>1, <1>2, <1>3, <1>4, <1>5, <1>6, <1>7, <1>8, <1>9 DEF Next, Create

\* The adapter implements the port: a row fails only when no link exists and none can
\* appear, and is confirmed only when one exists.
THEOREM PortRefinement == Spec => PortImplemented
  <1>1. Init => Port!PortInit
    BY ClientAssumption DEF Init, Port!PortInit
  <1> QED
    BY InitInvariant, NextKeeps, StepRefines, <1>1, PTL DEF Spec, PortImplemented, Port!PortSpec

\* An outage that is matched with neither MATCH nor UNCERTAIN cannot have touched the
\* payment, whatever the missing evidence is.
LEMMA RuledOutIsSafe ==
  ASSUME NEW d \in OutageRecords, NEW e \in EvidenceRecords, NEW f \in Completions(e),
         DowntimeMatch(d, e) \notin {"MATCH", "UNCERTAIN"}
  PROVE  ~Touches(d, f)
  <1>1. e.method # Unknown /\ RuledOut(d, e)
    BY DEF DowntimeMatch
  <1>2. f.method = e.method
    BY <1>1 DEF Completions
  <1>3. CASE d.method # e.method
    BY <1>2, <1>3 DEF Touches
  <1>4. CASE d.status \in {"resolved", "scheduled"}
    BY <1>4 DEF Touches
  <1>5. CASE OutsideWindow(d, e)
    <2>1. f.at = e.at
      BY <1>5 DEF OutsideWindow, Completions
    <2>2. f.at \in Int /\ d.begin \in Int /\ d.end \in Int
      BY DEF Completions, OutageRecords, EvidenceRecords, Times, NoTime
    <2> QED
      BY <1>5, <2>1, <2>2 DEF OutsideWindow, Touches
  <1>6. CASE InstrumentMatch(d, e) = "NO_MATCH"
    <2>1. PICK i \in DOMAIN d.instrument :
            /\ e.instrument[d.instrument[i][1]] # d.instrument[i][2]
            /\ e.instrument[d.instrument[i][1]] # Unknown
      BY <1>6 DEF InstrumentMatch
    <2>2. d.instrument[i][1] \in InstrumentKeys
      BY <2>1 DEF OutageRecords
    <2>3. f.instrument[d.instrument[i][1]] = e.instrument[d.instrument[i][1]]
      BY <2>1, <2>2 DEF Completions
    <2> QED
      BY <2>1, <2>3 DEF Touches
  <1> QED
    BY <1>1, <1>3, <1>4, <1>5, <1>6 DEF RuledOut

\* A matched outage touches the payment, whatever the missing evidence is, if at least
\* the time of the failure is known.
LEMMA MatchIsCertain ==
  ASSUME NEW d \in OutageRecords, NEW e \in EvidenceRecords, NEW f \in Completions(e),
         DowntimeMatch(d, e) = "MATCH", e.at # NoTime
  PROVE  Touches(d, f) /\ d.status = "started"
  <1>1. /\ e.method # Unknown
        /\ ~RuledOut(d, e)
        /\ InstrumentMatch(d, e) = "MATCH"
        /\ d.status = "started"
    BY DEF DowntimeMatch
  <1>2. f.method = e.method /\ f.at = e.at
    BY <1>1 DEF Completions
  <1>3. f.at \in Int /\ d.begin \in Int /\ d.end \in Int
    BY DEF Completions, OutageRecords, EvidenceRecords, Times, NoTime
  <1>4. f.at \in d.begin..d.end
    BY <1>1, <1>2, <1>3 DEF RuledOut, OutsideWindow
  <1>5. \A i \in DOMAIN d.instrument : f.instrument[d.instrument[i][1]] = d.instrument[i][2]
    <2> TAKE i \in DOMAIN d.instrument
    <2>1. d.instrument[i] \in InstrumentKeys \X Values
      BY DEF OutageRecords
    <2>2. e.instrument[d.instrument[i][1]] = d.instrument[i][2]
      BY <1>1 DEF InstrumentMatch
    <2>3. d.instrument[i][2] # Unknown /\ d.instrument[i][1] \in InstrumentKeys
      BY <2>1 DEF Values, Unknown
    <2> QED
      BY <2>2, <2>3 DEF Completions
  <1> QED
    BY <1>1, <1>2, <1>4, <1>5 DEF Touches, RuledOut

\* The verdict on a received list says what the list shows.
LEMMA VerdictSound ==
  ASSUME NEW e \in EvidenceRecords, NEW records \in SUBSET Outages
  PROVE  /\ DowntimeVerdict(records, e) = "NO_DOWNTIME" =>
              \A f \in Completions(e), d \in records : ~Touches(d, f)
         /\ DowntimeVerdict(records, e) = "KNOWN" /\ e.at # NoTime =>
              \A f \in Completions(e) :
                \E d \in records : Touches(d, f) /\ d.status = "started"
  <1>1. records \subseteq OutageRecords
    BY ClientAssumption
  <1>2. ASSUME DowntimeVerdict(records, e) = "NO_DOWNTIME",
               NEW f \in Completions(e), NEW d \in records
        PROVE  ~Touches(d, f)
    <2>1. DowntimeMatch(d, e) \notin {"MATCH", "UNCERTAIN"}
      BY <1>2 DEF DowntimeVerdict
    <2> QED
      BY <1>1, <2>1, RuledOutIsSafe
  <1>3. ASSUME DowntimeVerdict(records, e) = "KNOWN", e.at # NoTime, NEW f \in Completions(e)
        PROVE  \E d \in records : Touches(d, f) /\ d.status = "started"
    <2>1. PICK d \in records : DowntimeMatch(d, e) = "MATCH"
      BY <1>3 DEF DowntimeVerdict
    <2> QED
      BY <1>1, <1>3, <2>1, MatchIsCertain
  <1> QED
    BY <1>2, <1>3

\* Steps that leave the context of the rail alone.
LEMMA RailUntouched ==
  ASSUME RailVerdictIsEvidence, rail' = rail PROVE RailVerdictIsEvidence'
  BY DEF RailVerdictIsEvidence

LEMMA RailStep == ASSUME IInv, RailVerdictIsEvidence, [Next]_vars PROVE RailVerdictIsEvidence'
  <1> DEFINE Rails == [lookup : {"none", "KNOWN", "UNKNOWN", "NO_DOWNTIME"},
                       about : EvidenceRecords \cup {NoTransaction},
                       records : SUBSET Outages, listed : BOOLEAN]
  <1>0. rail \in Rails /\ NoRail \in Rails
    BY DEF IInv, TypeOK, NoRail
  <1>1. CASE DowntimeNotRead
    <2>1. CASE rail' = [NoRail EXCEPT !.lookup = "NO_DOWNTIME"]
      BY <2>1 DEF RailVerdictIsEvidence, NoRail
    <2>2. CASE \E e \in Transactions :
                 rail' = [NoRail EXCEPT !.lookup = "UNKNOWN", !.about = e]
      BY <2>2 DEF RailVerdictIsEvidence, NoRail
    <2> QED
      BY <1>1, <2>1, <2>2 DEF DowntimeNotRead
  <1>2. CASE StartDowntime
    BY <1>2 DEF StartDowntime, RailVerdictIsEvidence, NoRail
  <1>3. CASE DowntimeFails
    <2>1. rail'.lookup = "UNKNOWN"
      BY <1>0, <1>3 DEF DowntimeFails
    <2> QED
      BY <2>1 DEF RailVerdictIsEvidence
  <1>4. CASE DowntimeListed
    <2>1. PICK records \in SUBSET Outages :
            rail' = [rail EXCEPT !.lookup = DowntimeVerdict(records, rail.about),
                                 !.records = records, !.listed = TRUE]
      BY <1>4 DEF DowntimeListed
    <2>2. /\ rail'.lookup = DowntimeVerdict(records, rail.about)
          /\ rail'.records = records
          /\ rail'.listed
          /\ rail'.about = rail.about
      BY <1>0, <2>1
    <2>3. SUFFICES ASSUME rail.about # NoTransaction PROVE RailVerdictIsEvidence'
      BY <2>2 DEF RailVerdictIsEvidence
    <2>4. rail.about \in EvidenceRecords
      BY <1>0, <2>3
    <2> QED
      BY <2>2, <2>4, VerdictSound DEF RailVerdictIsEvidence
  <1>5. CASE Create \/ Lookup \/ ReadRetries("downtime") \/ ProviderCreates \/ ProviderRefuses
             \/ UNCHANGED vars
    <2>1. rail' = rail
      BY <1>5 DEF Create, PostNotConfigured, SendPost, PostFails, PostSucceeds, Lookup,
         StartLookup, ReadRetries, LookupFails, LookupAnswered, ApplyLookup, ProviderCreates,
         ProviderRefuses, vars
    <2> QED
      BY <2>1, RailUntouched
  <1> QED
    BY <1>1, <1>2, <1>3, <1>4, <1>5 DEF Next, Downtime

\* A healthy or a degraded rail is reported only on the evidence of the provider's list.
THEOREM RailSound == Spec => []RailVerdictIsEvidence
  <1>1. Init => RailVerdictIsEvidence
    BY DEF Init, RailVerdictIsEvidence, NoRail
  <1> QED
    BY InitInvariant, NextKeeps, RailStep, <1>1, PTL DEF Spec

=============================================================================
