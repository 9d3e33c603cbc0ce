---------------------------- MODULE RevenueObservation ----------------------------
(***************************************************************************)
(* The validator of protocol-revenue observations: a document that says      *)
(* under which authority fees are taken, where the protocol is deployed,     *)
(* how they are routed and who is paid, and cites evidence for it.  The      *)
(* document is revised field by field, time passes, and the document is      *)
(* validated as it then stands: parsed first, then checked across its parts. *)
(* Strings, numbers and their formats are left out: a field has a value of    *)
(* its type, and the rules that relate fields are kept.                     *)
(***************************************************************************)
EXTENDS Integers, Sequences, FiniteSets

CONSTANTS
    MaxRevenueTime,     \* bound on the clock, in days
    MaxEvidenceAge,     \* maxEvidenceAgeSeconds
    MaxRevisions        \* bound on the fields that are revised

ASSUME RevenueAssumption ==
    MaxRevenueTime \in Nat /\ MaxEvidenceAge \in Nat \ {0} /\ MaxRevisions \in Nat

VARIABLES
    roDocument,     \* the observation
    roNow,          \* options.now
    roRevisions,    \* how many fields were revised
    roVerdict       \* what the last validation said, and when

roVars == <<roDocument, roNow, roRevisions, roVerdict>>

RevenueDays == 0 .. MaxRevenueTime

NoHeight == -1

Unproven == {"source-only", "plan", "preflight"}

Window(first, last) == [exact |-> TRUE, first |-> first, last |-> last]

OpenWindow == [exact |-> FALSE, first |-> NoHeight, last |-> NoHeight]

(* A document that a payout may follow from: every claim has its evidence.  *)
CompleteDocument ==
    LET item(kind) == [id |-> kind, kind |-> kind, at |-> 1]
        endpoint(kind) == [authorization |-> "verified", cites |-> <<kind>>]
        resting == [status |-> "none-observed", disclosed |-> "not-disclosed", kind |-> "not-applicable",
                    reference |-> "none", resolved |-> FALSE, entries |-> <<>>, route |-> "not-configured"]
    IN
    [observedAt |-> 1, expiresAt |-> 3, cites |-> <<"source">>, anchor |-> "source",
     authority |-> [kind |-> "approved", status |-> "ratified", provenance |-> "p2", approval |-> <<"approval">>],
     evidence |-> <<item("source"), item("approval"), item("deployment-confirmation"),
                    item("interface-verification"), item("route-verification"), item("deployment-plan")>>,
     provenance |-> <<[id |-> "p1", role |-> "protocol-source", cites |-> <<"source">>],
                      [id |-> "p2", role |-> "governance-approval", cites |-> <<"approval">>]>>,
     fee |-> [status |-> "resolved", rates |-> <<Window(0, 1)>>],
     founder |-> [status |-> "active", disclosed |-> "disclosed", kind |-> "evidence-id",
                  reference |-> "approval", resolved |-> TRUE, entries |-> <<Window(0, 1), Window(2, 3)>>, route |-> "verified"],
     builder |-> resting,
     deployment |-> [stage |-> "live-interface-verified", source |-> "p1", broadcast |-> TRUE, confirmed |-> 1,
                     cites |-> <<"deployment-confirmation">>, interface |-> <<"interface-verification">>],
     collector |-> endpoint("route-verification"), distributor |-> endpoint("route-verification"),
     sources |-> <<endpoint("interface-verification")>>,
     payout |-> [enabled |-> TRUE, route |-> "verified", cites |-> <<"route-verification">>]]

---------------------------------------------------------------------------
(* Parsing: the rules a part must keep by itself.                           *)

ParsedIds(ids) == \A m, n \in DOMAIN ids : ids[m] = ids[n] => m = n

ParsedAuthority(a) ==
    /\ ParsedIds(a.approval)
    /\ a.kind = "source" => a.status = "not-applicable" /\ a.approval = <<>>
    /\ a.kind = "proposal" => a.status \in {"unratified", "unresolved", "revoked"} /\ a.approval = <<>>
    /\ a.kind = "approved" => a.status = "ratified" /\ a.approval # <<>>

ParsedWindow(w) ==
    IF w.exact THEN w.first # NoHeight /\ w.last # NoHeight /\ w.first <= w.last
    ELSE w.first = NoHeight /\ w.last = NoHeight

ParsedFeePolicy(fee) ==
    /\ fee.rates # <<>>
    /\ \A n \in DOMAIN fee.rates : ParsedWindow(fee.rates[n])
    /\ fee.status = "resolved" => \A n \in DOMAIN fee.rates : fee.rates[n].exact

ParsedDisclosure(track) ==
    /\ track.disclosed = "disclosed" => track.reference # "none" /\ track.kind # "not-applicable"
    /\ track.disclosed = "not-disclosed" => track.reference = "none"

ParsedSchedule(track) ==
    /\ \A n \in DOMAIN track.entries : ParsedWindow(track.entries[n])
    /\ track.resolved <=> track.entries # <<>>

ParsedTrack(track) == ParsedDisclosure(track) /\ ParsedSchedule(track)

ParsedDeployment(d) == ParsedIds(d.cites) /\ ParsedIds(d.interface)

ParsedRouting(o) ==
    /\ o.sources # <<>>
    /\ ParsedIds(o.collector.cites) /\ ParsedIds(o.distributor.cites)
    /\ \A n \in DOMAIN o.sources : ParsedIds(o.sources[n].cites)

ParsedRoot(o) ==
    /\ o.evidence # <<>>
    /\ o.cites # <<>> /\ ParsedIds(o.cites)
    /\ ParsedAuthority(o.authority)
    /\ \A n \in DOMAIN o.provenance : ParsedIds(o.provenance[n].cites)
    /\ ParsedFeePolicy(o.fee)
    /\ ParsedTrack(o.founder) /\ ParsedTrack(o.builder)
    /\ ParsedDeployment(o.deployment)
    /\ ParsedRouting(o)
    /\ ParsedIds(o.payout.cites)

---------------------------------------------------------------------------
(* Checks across the parts.                                                 *)

EvidenceOf(o) == {o.evidence[n] : n \in DOMAIN o.evidence}

KnownIds(o, ids) == \A n \in DOMAIN ids : \E item \in EvidenceOf(o) : item.id = ids[n]

OfKinds(o, ids, kinds) ==
    \A n \in DOMAIN ids : \E item \in EvidenceOf(o) : item.id = ids[n] /\ item.kind \in kinds

FreshEvidence(o, now) ==
    /\ o.observedAt < o.expiresAt
    /\ now < o.expiresAt /\ o.observedAt <= now
    /\ \A item \in EvidenceOf(o) : item.at <= o.observedAt /\ now - item.at <= MaxEvidenceAge

ApprovalEvidence(o) ==
    o.authority.kind = "approved" \/ o.authority.status = "ratified" =>
        o.authority.approval # <<>> /\ OfKinds(o, o.authority.approval, {"approval"})

(* The entries in an order of their start, which sort() leaves as they are    *)
(* where two start together: an overlap in any order is then refused.       *)
ByStart(entries) ==
    {order \in [DOMAIN entries -> DOMAIN entries] :
        /\ \A m \in DOMAIN entries : \E n \in DOMAIN entries : order[n] = m
        /\ \A n \in 1 .. Len(entries) - 1 : entries[order[n]].first <= entries[order[n + 1]].first}

ExactSchedule(track) ==
    /\ track.resolved /\ track.entries # <<>>
    /\ \A n \in DOMAIN track.entries : track.entries[n].exact
    /\ \E order \in ByStart(track.entries) :
        \A n \in 1 .. Len(track.entries) - 1 :
            track.entries[order[n]].last < track.entries[order[n + 1]].first

DeploymentEvidence(o) ==
    LET d == o.deployment IN
    /\ d.cites # <<>>
    /\ CASE d.stage \in Unproven ->
              /\ ~d.broadcast /\ d.confirmed = NoHeight /\ d.interface = <<>>
              /\ OfKinds(o, d.cites, {CASE d.stage = "source-only" -> "source"
                                        [] d.stage = "plan" -> "deployment-plan"
                                        [] OTHER -> "deployment-preflight"})
         [] d.stage = "broadcast" ->
              /\ d.broadcast /\ d.confirmed = NoHeight /\ d.interface = <<>>
              /\ OfKinds(o, d.cites, {"deployment-broadcast"})
         [] OTHER ->
              /\ d.broadcast /\ d.confirmed # NoHeight
              /\ OfKinds(o, d.cites, {"deployment-confirmation"})
              /\ d.stage = "confirmed" => d.interface = <<>>
              /\ d.stage = "live-interface-verified" =>
                    d.interface # <<>> /\ OfKinds(o, d.interface, {"interface-verification", "source"})

RoleFor(kind) ==
    CASE kind = "approved" -> "governance-approval"
      [] kind = "proposal" -> "governance-proposal"
      [] OTHER -> "protocol-source"

ProvenanceHolds(o) ==
    /\ \A m, n \in DOMAIN o.provenance : o.provenance[m].id = o.provenance[n].id => m = n
    /\ \A n \in DOMAIN o.provenance : KnownIds(o, o.provenance[n].cites)
    /\ \E n \in DOMAIN o.provenance :
        o.provenance[n].id = o.authority.provenance /\ o.provenance[n].role = RoleFor(o.authority.kind)
    /\ \E n \in DOMAIN o.provenance :
        o.provenance[n].id = o.deployment.source /\ o.provenance[n].role = "protocol-source"

EndpointEvidence(o, endpoint, kinds) ==
    endpoint.authorization = "verified" => endpoint.cites # <<>> /\ OfKinds(o, endpoint.cites, kinds)

Ratified(o) == o.authority.kind = "approved" /\ o.authority.status = "ratified"

(* A reference is looked up only when it is said to be that of evidence; a path, *)
(* a record and a place on a chain are taken as they are given.              *)
CompensationGate(o, track) ==
    /\ track.status \in {"active", "approved"} => Ratified(o)
    /\ track.status = "active" =>
        /\ ExactSchedule(track)
        /\ track.route = "verified" /\ track.disclosed = "disclosed"
        /\ track.kind = "evidence-id" => KnownIds(o, <<track.reference>>)

PayoutGate(o) ==
    o.payout.enabled =>
        /\ o.deployment.stage = "live-interface-verified"
        /\ Ratified(o)
        /\ o.fee.status = "resolved" /\ \A n \in DOMAIN o.fee.rates : o.fee.rates[n].exact
        /\ o.payout.route = "verified"
        /\ "active" \in {o.founder.status, o.builder.status}
        /\ o.collector.authorization = "verified" /\ o.distributor.authorization = "verified"
        /\ \A n \in DOMAIN o.sources : o.sources[n].authorization = "verified"
        /\ o.payout.cites # <<>>
        /\ OfKinds(o, o.payout.cites, {"route-verification", "interface-verification", "approval"})

ReferencesKnown(o) ==
    /\ \A ids \in {o.cites, <<o.anchor>>, o.authority.approval, o.deployment.cites, o.deployment.interface,
                   o.collector.cites, o.distributor.cites, o.payout.cites} : KnownIds(o, ids)
    /\ \A n \in DOMAIN o.sources : KnownIds(o, o.sources[n].cites)

AcceptedObservation(o, now) ==
    /\ ParsedRoot(o)
    /\ \A m, n \in DOMAIN o.evidence : o.evidence[m].id = o.evidence[n].id => m = n
    /\ ReferencesKnown(o)
    /\ FreshEvidence(o, now)
    /\ ApprovalEvidence(o)
    /\ ProvenanceHolds(o)
    /\ DeploymentEvidence(o)
    /\ EndpointEvidence(o, o.collector, {"collector-authorization", "route-verification", "interface-verification"})
    /\ EndpointEvidence(o, o.distributor, {"route-verification", "interface-verification"})
    /\ \A n \in DOMAIN o.sources :
        EndpointEvidence(o, o.sources[n], {"source-authorization", "route-verification", "interface-verification"})
    /\ CompensationGate(o, o.founder) /\ CompensationGate(o, o.builder)
    /\ PayoutGate(o)

---------------------------------------------------------------------------
RoInit ==
    /\ roDocument = CompleteDocument
    /\ roNow = 0 /\ roRevisions = 0
    /\ roVerdict = [accepted |-> FALSE, at |-> -1]

IdLists == {<<>>, <<"source">>, <<"unknown">>, <<"approval", "approval">>}

WindowLists == {<<>>, <<OpenWindow>>, <<Window(2, 3), Window(0, 1)>>, <<Window(0, 2), Window(2, 3)>>,
                <<Window(1, 2), Window(1, 3)>>, <<Window(2, 1)>>}

ReferenceKinds ==
    {"evidence-id", "repository-path", "governance-record", "on-chain-reference", "not-applicable"}

(* One field of the document, of any part, with another value of its type.  *)
RevisedItem(item) ==
    {[item EXCEPT !.kind = kind] : kind \in {"source", "deployment-plan"}}
    \cup {[item EXCEPT !.at = day] : day \in {0, 2}}

RevisedEvidence(o) ==
    {[o EXCEPT !.evidence = SubSeq(@, 2, Len(@))]}
    \cup {[o EXCEPT !.evidence = Append(@, o.evidence[n])] : n \in DOMAIN o.evidence}
    \cup UNION {{[o EXCEPT !.evidence[n] = item] : item \in RevisedItem(o.evidence[n])} : n \in DOMAIN o.evidence}

RevisedAuthority(o) ==
    {[o EXCEPT !.authority.kind = kind] : kind \in {"source", "proposal", "approved"}}
    \cup {[o EXCEPT !.authority.status = status] :
            status \in {"not-applicable", "unratified", "ratified", "revoked", "unresolved"}}
    \cup {[o EXCEPT !.authority.provenance = p] : p \in {"p1", "p2", "p3"}}
    \cup {[o EXCEPT !.authority.approval = ids] : ids \in IdLists}
    \cup {[o EXCEPT !.provenance = SubSeq(@, 2, Len(@))]}
    \cup {[o EXCEPT !.provenance = Append(@, o.provenance[n])] : n \in DOMAIN o.provenance}
    \cup UNION {{[o EXCEPT !.provenance[n].role = role] : role \in {"protocol-source", "governance-proposal"}} :
                    n \in DOMAIN o.provenance}

RevisedDeployment(o) ==
    {[o EXCEPT !.deployment.stage = stage] :
        stage \in Unproven \cup {"broadcast", "confirmed", "live-interface-verified"}}
    \cup {[o EXCEPT !.deployment.broadcast = ~@], [o EXCEPT !.deployment.confirmed = NoHeight]}
    \cup {[o EXCEPT !.deployment.cites = ids] : ids \in IdLists}
    \cup {[o EXCEPT !.deployment.interface = ids] : ids \in IdLists}

RevisedTrack(track) ==
    {[track EXCEPT !.status = status] : status \in {"none-observed", "proposed", "approved", "active"}}
    \cup {[track EXCEPT !.entries = list] : list \in WindowLists}
    \cup {[track EXCEPT !.resolved = ~@], [track EXCEPT !.route = "declared"]}
    \cup {[track EXCEPT !.disclosed = d] : d \in {"disclosed", "not-disclosed", "unresolved"}}
    \cup {[track EXCEPT !.kind = kind] : kind \in ReferenceKinds}
    \cup {[track EXCEPT !.reference = id] : id \in {"none", "unknown", "source"}}

RevisedRouting(o) ==
    {[o EXCEPT !.collector.authorization = "declared"], [o EXCEPT !.distributor.authorization = "missing"],
     [o EXCEPT !.sources = <<>>], [o EXCEPT !.sources = Append(@, [authorization |-> "declared", cites |-> <<>>])]}
    \cup {[o EXCEPT !.collector.cites = ids] : ids \in IdLists}
    \cup {[o EXCEPT !.distributor.cites = ids] : ids \in IdLists}

RevisedTerms(o) ==
    {[o EXCEPT !.observedAt = day] : day \in {0, 2}} \cup {[o EXCEPT !.expiresAt = day] : day \in {1, 2}}
    \cup {[o EXCEPT !.cites = ids] : ids \in IdLists} \cup {[o EXCEPT !.anchor = "unknown"]}
    \cup {[o EXCEPT !.fee.status = s] : s \in {"observed", "resolved"}}
    \cup {[o EXCEPT !.fee.rates = list] : list \in WindowLists}
    \cup {[o EXCEPT !.payout.enabled = ~@], [o EXCEPT !.payout.route = "declared"]}
    \cup {[o EXCEPT !.payout.cites = ids] : ids \in IdLists}

Revise ==
    /\ roRevisions < MaxRevisions
    /\ roRevisions' = roRevisions + 1
    /\ roDocument' \in
        RevisedEvidence(roDocument) \cup RevisedAuthority(roDocument) \cup RevisedDeployment(roDocument)
        \cup RevisedRouting(roDocument) \cup RevisedTerms(roDocument)
        \cup {[roDocument EXCEPT !.founder = t] : t \in RevisedTrack(roDocument.founder)}
        \cup {[roDocument EXCEPT !.builder = t] : t \in RevisedTrack(roDocument.builder)}
    /\ roVerdict' = [accepted |-> FALSE, at |-> -1]
    /\ UNCHANGED roNow

ValidateObservation ==
    /\ roVerdict' = [accepted |-> AcceptedObservation(roDocument, roNow), at |-> roNow]
    /\ UNCHANGED <<roDocument, roNow, roRevisions>>

RoTick ==
    /\ roNow < MaxRevenueTime /\ roNow' = roNow + 1
    /\ UNCHANGED <<roDocument, roRevisions, roVerdict>>

RoNext == Revise \/ ValidateObservation \/ RoTick

---------------------------------------------------------------------------
RoTypeOK ==
    /\ roNow \in RevenueDays /\ roRevisions \in 0 .. MaxRevisions
    /\ roVerdict.accepted \in BOOLEAN /\ roVerdict.at \in -1 .. roNow

(* What a reader of an accepted document with its payout enabled relies on,  *)
(* in terms of the evidence and of the heights: each thing that is cited for   *)
(* the payout is one item that was no older than its age and no newer than     *)
(* the document at the time; approval, deployment and interface were seen;     *)
(* somebody is paid, by one rate at a height, and is referred to: by evidence   *)
(* that is there, or by something outside the document.                     *)
PayoutJustified(o, at) ==
    LET ids == {o.authority.approval[n] : n \in DOMAIN o.authority.approval}
               \cup {o.deployment.cites[n] : n \in DOMAIN o.deployment.cites}
               \cup {o.deployment.interface[n] : n \in DOMAIN o.deployment.interface}
               \cup {o.payout.cites[n] : n \in DOMAIN o.payout.cites}
        about(id) == {n \in DOMAIN o.evidence : o.evidence[n].id = id}
        seen(kind) == \E n \in DOMAIN o.evidence : o.evidence[n].kind = kind /\ o.evidence[n].id \in ids
        paying == {track \in {o.founder, o.builder} : track.status = "active"}
    IN
    /\ \A id \in ids : Cardinality(about(id)) = 1
    /\ \A id \in ids : \A n \in about(id) : o.evidence[n].at \in (at - MaxEvidenceAge) .. o.observedAt
    /\ seen("approval") /\ seen("deployment-confirmation")
    /\ seen("interface-verification") \/ seen("source")
    /\ paying # {}
    /\ \A track \in paying :
        /\ track.reference # "none" /\ track.kind # "not-applicable"
        /\ track.kind = "evidence-id" =>
            \E n \in DOMAIN o.evidence : o.evidence[n].id = track.reference
        /\ \A height \in 0 .. 3 :
            Cardinality({n \in DOMAIN track.entries :
                height \in track.entries[n].first .. track.entries[n].last}) <= 1

RoSound ==
    /\ roVerdict.accepted => roVerdict.at \in roDocument.observedAt .. roDocument.expiresAt - 1
    /\ roVerdict.accepted /\ roDocument.payout.enabled => PayoutJustified(roDocument, roVerdict.at)

(* A document that is refused on or after the day it was observed is refused   *)
(* for good unless it is revised: time alone never makes it acceptable.     *)
RoFinal ==
    roDocument' = roDocument /\ roVerdict'.accepted =>
        roVerdict.accepted \/ roVerdict.at < roDocument.observedAt
=============================================================================
