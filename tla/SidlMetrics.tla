------------------------------- MODULE SidlMetrics -------------------------------
(***************************************************************************)
(* The metrics of the dashboard (lib/sidl/observability.ts): one store in the *)
(* process, of counters, histograms and gauges by their labels.  The SIDL     *)
(* routes count the requests they answer, and the service-key registry         *)
(* exports the document it has read or written.  Every operation on the store  *)
(* runs without an await; but a document is read from the database at one      *)
(* moment and exported at another, and other requests export in between.      *)
(***************************************************************************)
EXTENDS Integers, Sequences, FiniteSetsExt

CONSTANTS
    RouteCalls,     \* calls of the SIDL routes: [route, auth, valid, header, fails]
    Latencies,      \* what the timer of a call may show
    MeteredServices,    \* sets of service keys a registry may be bootstrapped with
    KeyTerms,       \* [active, previous] deadlines of a service key; 0 is null
    Exporters,      \* requests that export what they read of the registry
    Outcomes,       \* labels of the counters of rotations, validations, crossings, write failures
    MaxObserved,    \* bound on the observations and outcomes
    MaxExported     \* bound on the revisions of the registry

MxRoutes == {"votes", "tally", "mandate", "checkout", "frame-vote", "frame-sbtc"}

(* A call is admitted (200) or answered as its authorization says; the         *)
(* counters that other parts of the dashboard name are not those of the routes. *)
ASSUME MetricsAssumption ==
    /\ RouteCalls \subseteq
        [route : MxRoutes, auth : {200} \cup 400 .. 599, valid : BOOLEAN,
         header : {"missing", "invalid", "accepted"}, fails : {"no", "read", "write"}]
    /\ Latencies \subseteq Int
    /\ \A labels \in Outcomes : labels.metric \notin {"requests", "failures", "payments"}
    /\ MaxObserved \in Nat

VARIABLES
    mxCounters,     \* labels -> value: every counter of the store
    mxHistograms,   \* labels -> buckets and count
    mxGauges,       \* labels -> value
    mxReady, mxRevision,    \* the two scalars; revision 0 is null
    mxDocuments,    \* the registry: what was committed, by revision
    mxRead,         \* per exporter, the revision it has read and not exported
    mxObserved      \* counts the observations

mxStore == <<mxCounters, mxHistograms, mxGauges, mxReady, mxRevision>>
mxVars == <<mxStore, mxDocuments, mxRead, mxObserved>>

Buckets == <<1, 2>>

(* A registry starts with the services of its bootstrap.                     *)
FirstDocuments ==
    {<<[s \in services |-> [generation |-> 1, active |-> 0, previous |-> 0]]>> : services \in MeteredServices}

MxInit ==
    /\ mxCounters = <<>> /\ mxHistograms = <<>> /\ mxGauges = <<>>
    /\ mxReady = 0 /\ mxRevision = 0
    /\ mxDocuments \in FirstDocuments
    /\ mxRead = [x \in Exporters |-> 0]
    /\ mxObserved = 0

---------------------------------------------------------------------------
ValueOf(store, labels, none) == IF labels \in DOMAIN store THEN store[labels] ELSE none

SetGauge(store, labels, value) ==
    [l \in DOMAIN store \cup {labels} |-> IF l = labels THEN value ELSE store[l]]

IncrementCounter(store, labels) == SetGauge(store, labels, ValueOf(store, labels, 0) + 1)

IncrementAll(store, labels) ==
    [l \in DOMAIN store \cup labels |-> ValueOf(store, l, 0) + IF l \in labels THEN 1 ELSE 0]

NoHistogram == [buckets |-> [b \in DOMAIN Buckets |-> 0], count |-> 0]

ObserveHistogram(store, labels, latency) ==
    LET before == ValueOf(store, labels, NoHistogram) IN
    SetGauge(store, labels,
        [buckets |-> [b \in DOMAIN Buckets |->
                        before.buckets[b] + IF latency <= Buckets[b] THEN 1 ELSE 0],
         count |-> before.count + 1])

ClassifyOutcome(status) ==
    IF status >= 500 THEN "server_error" ELSE IF status >= 400 THEN "client_error" ELSE "success"

FallbackCategory(status) ==
    IF status >= 500 THEN "server-error" ELSE IF status >= 400 THEN "client-error" ELSE "none"

---------------------------------------------------------------------------
(* What a route tells the store of an answer; "none" where it passes nothing. *)
Answer(status, category, payment) == [status |-> status, category |-> category, payment |-> payment]

Plain(status) == Answer(status, "none", "none")

(* observeSidlException; the route throws on.                               *)
Thrown == Answer(500, "unhandled-exception", "none")

Attempt(q, answer) == IF q.fails = "no" THEN answer ELSE Thrown

VoteAnswer(q) == IF q.valid THEN Attempt(q, Plain(200)) ELSE Answer(400, "invalid-body", "none")

MandateAnswer(q) ==
    IF q.fails = "read" THEN Thrown ELSE IF q.valid THEN Plain(200) ELSE Answer(404, "not-found", "none")

(* Only the challenge and the attempt are written down, and may fail there.  *)
CheckoutAnswer(q) ==
    IF q.fails = "read" THEN Thrown
    ELSE IF ~q.valid THEN Answer(404, "not-found", "none")
    ELSE CASE q.header = "missing" -> Attempt(q, Answer(402, "payment-required", "missing"))
           [] q.header = "invalid" -> Answer(400, "invalid-payment-signature", "invalid")
           [] q.header = "accepted" -> Attempt(q, Answer(200, "none", "accepted"))

(* Two routes answer who is not admitted without a word to the store.        *)
Silent(q) == q.auth # 200 /\ q.route \in {"tally", "mandate"}

RouteAnswer(q) ==
    IF q.auth # 200 /\ q.route \notin {"frame-vote", "frame-sbtc"} THEN Answer(q.auth, "unauthorized", "none")
    ELSE CASE q.route = "votes" -> VoteAnswer(q)
           [] q.route \in {"tally", "frame-vote", "frame-sbtc"} -> Attempt(q, Plain(200))
           [] q.route = "mandate" -> MandateAnswer(q)
           [] q.route = "checkout" -> CheckoutAnswer(q)

RequestLabels(route, status) ==
    [metric |-> "requests", route |-> route, outcome |-> ClassifyOutcome(status), status |-> status]

FailureLabels(route, answer) ==
    LET category == IF answer.category # "none" THEN answer.category ELSE FallbackCategory(answer.status)
    IN  IF category = "none" THEN {} ELSE {[metric |-> "failures", route |-> route, category |-> category]}

PaymentLabels(route, payment) ==
    IF payment = "none" THEN {} ELSE {[metric |-> "payments", route |-> route, category |-> payment]}

(* observe: what an answered call adds to the store.                         *)
ObserveCall(q, latency) ==
    LET answer == RouteAnswer(q) IN
    /\ ~Silent(q) /\ mxObserved < MaxObserved
    /\ mxCounters' = IncrementAll(mxCounters, {RequestLabels(q.route, answer.status)}
                        \cup FailureLabels(q.route, answer) \cup PaymentLabels(q.route, answer.payment))
    /\ mxHistograms' = ObserveHistogram(mxHistograms,
                        [route |-> q.route, outcome |-> ClassifyOutcome(answer.status)], latency)
    /\ mxObserved' = mxObserved + 1
    /\ UNCHANGED <<mxGauges, mxReady, mxRevision, mxDocuments, mxRead>>

(* record...Outcome, recordM2MExpiryThresholdCrossed, ...WriteFailure.        *)
RecordOutcome(labels) ==
    /\ mxObserved < MaxObserved
    /\ mxCounters' = IncrementCounter(mxCounters, labels)
    /\ mxObserved' = mxObserved + 1
    /\ UNCHANGED <<mxHistograms, mxGauges, mxReady, mxRevision, mxDocuments, mxRead>>

---------------------------------------------------------------------------
(* The registry commits another generation or another deadline of one of its  *)
(* services; it has the services of its bootstrap for ever.                  *)
CommitDocument(s, terms) ==
    LET last == mxDocuments[Len(mxDocuments)] IN
    /\ Len(mxDocuments) < MaxExported /\ s \in DOMAIN last
    /\ mxDocuments' = Append(mxDocuments, [last EXCEPT ![s] =
                        [generation |-> @.generation + 1, active |-> terms.active, previous |-> terms.previous]])
    /\ UNCHANGED <<mxStore, mxRead, mxObserved>>

ReadDocument(x) ==
    /\ mxRead[x] = 0
    /\ mxRead' = [mxRead EXCEPT ![x] = Len(mxDocuments)]
    /\ UNCHANGED <<mxStore, mxDocuments, mxObserved>>

GenerationLabels(s) == [gauge |-> "generation", service |-> s]

ExpiryLabels(s, role) == [gauge |-> "expiry", service |-> s, role |-> role]

(* The gauges a document sets, and those it deletes.                         *)
GaugesOf(document) ==
    LET finite == {k \in (DOMAIN document) \X {"active", "previous"} : document[k[1]][k[2]] # 0}
        Value(l) == IF l.gauge = "generation" THEN document[l.service].generation
                    ELSE document[l.service][l.role]
    IN  [l \in {GenerationLabels(s) : s \in DOMAIN document} \cup {ExpiryLabels(k[1], k[2]) : k \in finite}
            |-> Value(l)]

GaugesWithout(document) ==
    {ExpiryLabels(k[1], k[2]) : k \in (DOMAIN document) \X {"active", "previous"}} \ DOMAIN GaugesOf(document)

(* recordM2MRegistryState: gauges are set and deleted one by one, and what the *)
(* document does not name is left as it is.                                  *)
RecordRegistryState(x) ==
    LET document == mxDocuments[mxRead[x]]
        set == GaugesOf(document)
    IN  /\ mxRead[x] # 0
        /\ mxReady' = 1 /\ mxRevision' = mxRead[x]
        /\ mxGauges' = [l \in (DOMAIN mxGauges \cup DOMAIN set) \ GaugesWithout(document)
                            |-> ValueOf(set, l, ValueOf(mxGauges, l, 0))]
        /\ mxRead' = [mxRead EXCEPT ![x] = 0]
        /\ UNCHANGED <<mxCounters, mxHistograms, mxDocuments, mxObserved>>

(* recordM2MRegistryUnavailable, also of a request that read nothing.        *)
RecordRegistryUnavailable(x) ==
    /\ mxReady' = 0 /\ mxRevision' = 0 /\ mxGauges' = <<>>
    /\ mxRead' = [mxRead EXCEPT ![x] = 0]
    /\ UNCHANGED <<mxCounters, mxHistograms, mxDocuments, mxObserved>>

MxNext ==
    \/ \E q \in RouteCalls, latency \in Latencies : ObserveCall(q, latency)
    \/ \E labels \in Outcomes : RecordOutcome(labels)
    \/ \E s \in UNION MeteredServices, terms \in KeyTerms : CommitDocument(s, terms)
    \/ \E x \in Exporters : ReadDocument(x) \/ RecordRegistryState(x) \/ RecordRegistryUnavailable(x)

---------------------------------------------------------------------------
(* renderHistogramMetric: the buckets, and the count as the last of them.     *)
Rendered(histogram) == Append(histogram.buckets, histogram.count)

(* sidlMetricsSnapshot: a revision is shown only when there is one.           *)
MetricsSnapshot ==
    [counters |-> mxCounters, gauges |-> mxGauges, ready |-> mxReady,
     histograms |-> [l \in DOMAIN mxHistograms |-> Rendered(mxHistograms[l])],
     revisions |-> IF mxRevision = 0 THEN {} ELSE {mxRevision}]

MxTypeOK ==
    /\ \A l \in DOMAIN mxCounters : mxCounters[l] \in Nat
    /\ \A l \in DOMAIN mxHistograms :
        mxHistograms[l].count \in Nat /\ mxHistograms[l].buckets \in [DOMAIN Buckets -> Nat]
    /\ mxReady \in {0, 1} /\ mxRevision \in 0 .. Len(mxDocuments)
    /\ mxRead \in [Exporters -> 0 .. Len(mxDocuments)] /\ mxObserved \in 0 .. MaxObserved

CountOf(labels) == LET Value(l) == mxCounters[l] IN MapThenSumSet(Value, labels)

(* The counters a scrape shows of a route.                                   *)
RequestsOf(route) == {l \in DOMAIN mxCounters : l.metric = "requests" /\ l.route = route}

FailedOf(route) == {l \in RequestsOf(route) : l.status >= 400}

FailuresOf(route) == {l \in DOMAIN mxCounters : l.metric = "failures" /\ l.route = route}

AcceptedOf(route) == {l \in DOMAIN mxCounters : l.metric = "payments" /\ l.route = route /\ l.category = "accepted"}

SettledOf(route) == {l \in RequestsOf(route) : l.status = 200 /\ route = "checkout"}

CountedOf(h) == {l \in RequestsOf(h.route) : l.outcome = h.outcome}

(* What a scrape shows agrees with itself: a registry that is ready is shown   *)
(* as one of its documents in full, whatever was exported before and in        *)
(* whatever order, and one that is not ready with nothing; failures are the     *)
(* requests answered with an error, payments those of the checkout; the         *)
(* buckets of a histogram are cumulative, and it counts the requests of its     *)
(* labels.                                                                   *)
MxSound ==
    LET shown == MetricsSnapshot IN
    /\ shown.ready = 1 => \E r \in shown.revisions : shown.gauges = GaugesOf(mxDocuments[r])
    /\ shown.ready = 0 => shown.revisions = {} /\ shown.gauges = <<>>
    /\ \A route \in MxRoutes :
        /\ CountOf(FailedOf(route)) = CountOf(FailuresOf(route))
        /\ CountOf(AcceptedOf(route)) = CountOf(SettledOf(route))
    /\ \A h \in DOMAIN shown.histograms :
        LET line == shown.histograms[h] IN
        /\ \A b \in 1 .. Len(line) - 1 : line[b] <= line[b + 1]
        /\ line[Len(line)] = CountOf(CountedOf(h))

(* No counter and no bucket ever falls, and none disappears.                  *)
MxFinal ==
    /\ \A l \in DOMAIN mxCounters : l \in DOMAIN mxCounters' /\ mxCounters'[l] >= mxCounters[l]
    /\ \A l \in DOMAIN mxHistograms :
        l \in DOMAIN mxHistograms' /\ \A b \in DOMAIN Buckets :
            mxHistograms'[l].buckets[b] >= mxHistograms[l].buckets[b]
=============================================================================
