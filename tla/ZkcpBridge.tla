------------------------------- MODULE ZkcpBridge -------------------------------
(***************************************************************************)
(* ZKCPBridge of lib/support/zkcp.ts: intents of zero-knowledge contingent *)
(* payments, from "pending" over "verified" to "paid", held in memory with  *)
(* the evidence that moved them.  verifyProof and watchForPayment wait for  *)
(* adapters, so calls on one intent are queued; intents that are done are   *)
(* kept for a while and then purged, and their identifier may be used again. *)
(*                                                                         *)
(* A call is cut where it awaits something that lets others run: its place  *)
(* in the queue, the validation of the request, the adapter's answer.       *)
(***************************************************************************)
EXTENDS VerifierContract

CONSTANTS
    Intents,        \* intent identifiers
    Terms,          \* payment terms (address, amount, network, data hash, proof)
    ZkRequests,     \* verifier requests that callers submit
    ZkResults,      \* what the proof verifier may answer
    Payments,       \* what the payment observer may answer
    MaxActive,      \* maxActiveIntents
    MaxTotal,       \* maxTotalIntents
    Retention,      \* terminalRetentionMs
    MaxTime,        \* bound: the clock
    MaxBirths,      \* bound: intents created in a behaviour
    MaxAsks         \* bound: calls made in a behaviour

ASSUME ZkcpAssumption ==
    /\ MaxActive \in Nat \ {0} /\ MaxTotal \in Nat /\ MaxActive <= MaxTotal
    /\ Retention \in Nat
    /\ MaxTime \in Nat /\ MaxBirths \in Nat /\ MaxAsks \in Nat
    /\ \A q \in ZkRequests : q.kind \in {"verify", "watch"} /\ (q.kind = "verify" => RequestShape(q))
    /\ \A r \in ZkResults : ResultShape(r)
    /\ \A r \in Payments : {r.observation.exact, r.observation.bound} \subseteq BOOLEAN

VARIABLES
    zkNow,       \* what the injected clock would answer
    zkLast,      \* lastObservedTimeMs
    zkVerifier,  \* backendIdentity of the proof verifier
    zkObserver,  \* backendIdentity of the payment observer
    zkIntent,    \* intents: a record, or NoIntent
    zkGen,       \* lifecycleGenerations
    zkProof,     \* verificationEvidence
    zkPaid,      \* paymentEvidence
    zkTail, zkPrev,  \* lifecycleQueues
    zkCall,      \* the calls under way
    zkBirths, zkAsks

zkVars == <<zkNow, zkLast, zkVerifier, zkObserver, zkIntent, zkGen, zkProof, zkPaid,
            zkTail, zkPrev, zkCall, zkBirths, zkAsks>>

NoIntent == [status |-> "none"]

NoEvidence == [kind |-> "none"]

IdleCall == [pc |-> "idle"]

Present(i) == zkIntent[i] # NoIntent

\* Mutant: a verified intent is taken to be over.
IsActiveIntentPending(i) == zkIntent[i].status = "pending"

IsActiveIntent(i) == zkIntent[i].status \in {"pending", "verified"}

(* deriveZKCPBinding: what the statement and domain digests must cover.     *)
BindingDigest(purpose, i, terms) == <<purpose, i, terms>>

---------------------------------------------------------------------------
ZkInit ==
    /\ zkNow \in 0..MaxTime
    /\ zkLast = -1
    /\ \E wiring \in Wirings : zkVerifier = wiring[1] /\ zkObserver = wiring[2]
    /\ zkIntent = [i \in Intents |-> NoIntent]
    /\ zkGen = [i \in Intents |-> 0]
    /\ zkProof = [i \in Intents |-> NoEvidence]
    /\ zkPaid = [i \in Intents |-> NoEvidence]
    /\ zkTail = [i \in Intents |-> NoCall]
    /\ zkPrev = [c \in Calls |-> NoCall]
    /\ zkCall = [c \in Calls |-> IdleCall]
    /\ zkBirths = 0
    /\ zkAsks = 0

\* Mutant: calls under way are not looked for.
ExpiredUnderWay ==
    {i \in Intents :
        /\ ClockAccepted(zkNow, zkLast)
        /\ Present(i) /\ ~IsActiveIntent(i)
        /\ zkIntent[i].updatedAt <= zkNow - Retention}

(* cleanupExpiredTerminalRecords: what may go, if the clock can be read.    *)
Expired ==
    {i \in Intents :
        /\ ClockAccepted(zkNow, zkLast)
        /\ Present(i) /\ ~IsActiveIntent(i)
        /\ ~IsQueued(zkTail, i)
        /\ zkIntent[i].updatedAt <= zkNow - Retention}

Cleaned(f, empty) == [i \in Intents |-> IF i \in Expired THEN empty ELSE f[i]]

\* Mutant: only pending intents count.
ActiveIntentsPending == {i \in Intents : zkIntent[i].status = "pending"}

ActiveIntents == {i \in Intents : Present(i) /\ IsActiveIntent(i)}

Kept == {i \in Intents : Present(i)} \ Expired

InitializeIntent(i, terms) ==
    /\ zkBirths < MaxBirths
    /\ zkLast' = Observed(zkNow, zkLast)
    /\ LET accepted == /\ i \notin Kept
                       /\ Cardinality(ActiveIntents) < MaxActive
                       /\ Cardinality(Kept) < MaxTotal
                       /\ ClockAccepted(zkNow, zkLast)
           new == [status |-> "pending", terms |-> terms, updatedAt |-> zkNow,
                   incarnation |-> zkBirths + 1]
       IN  /\ zkIntent' = IF accepted THEN [Cleaned(zkIntent, NoIntent) EXCEPT ![i] = new]
                                      ELSE Cleaned(zkIntent, NoIntent)
           /\ zkGen' = IF accepted THEN [Cleaned(zkGen, 0) EXCEPT ![i] = 0] ELSE Cleaned(zkGen, 0)
           /\ zkBirths' = IF accepted THEN zkBirths + 1 ELSE zkBirths
    /\ zkProof' = Cleaned(zkProof, NoEvidence)
    /\ zkPaid' = Cleaned(zkPaid, NoEvidence)
    /\ UNCHANGED <<zkNow, zkVerifier, zkObserver, zkTail, zkPrev, zkCall, zkAsks>>

(* purgeExpiredTerminalRecords, and what a listing does before it reads.    *)
PurgeIntents ==
    /\ zkLast' = Observed(zkNow, zkLast)
    /\ zkIntent' = Cleaned(zkIntent, NoIntent)
    /\ zkGen' = Cleaned(zkGen, 0)
    /\ zkProof' = Cleaned(zkProof, NoEvidence)
    /\ zkPaid' = Cleaned(zkPaid, NoEvidence)
    /\ UNCHANGED <<zkNow, zkVerifier, zkObserver, zkTail, zkPrev, zkCall, zkBirths, zkAsks>>

(* The clock is not the bridge's own: it may stand, jump, or go back.       *)
MoveZkClock ==
    /\ zkNow' \in -1..MaxTime \ {zkNow}
    /\ UNCHANGED <<zkLast, zkVerifier, zkObserver, zkIntent, zkGen, zkProof, zkPaid,
                   zkTail, zkPrev, zkCall, zkBirths, zkAsks>>

---------------------------------------------------------------------------
(* withIntentLock: take a place, wait for it, give it up.                   *)
AskZk(c, i, request) ==
    /\ zkCall[c] = IdleCall /\ zkAsks < MaxAsks
    /\ zkCall' = [zkCall EXCEPT ![c] = [pc |-> "queued", id |-> i, request |-> request]]
    /\ zkTail' = JoinTail(zkTail, i, c)
    /\ zkPrev' = JoinPrev(zkPrev, zkTail, i, c)
    /\ zkAsks' = zkAsks + 1
    /\ UNCHANGED <<zkNow, zkLast, zkVerifier, zkObserver, zkIntent, zkGen, zkProof, zkPaid, zkBirths>>

LeaveZk(c) ==
    /\ zkCall' = [zkCall EXCEPT ![c] = IdleCall]
    /\ zkTail' = LeaveTail(zkTail, zkCall[c].id, c)
    /\ zkPrev' = LeavePrev(zkPrev, c)

GoZk(c, pc) ==
    /\ zkCall' = [zkCall EXCEPT ![c].pc = pc]
    /\ UNCHANGED <<zkTail, zkPrev>>

(* beginOperation: the intent as it is now, its generation and its status.  *)
BeginZk(c, pc) ==
    LET i == zkCall[c].id
    IN  /\ zkCall' = [zkCall EXCEPT ![c] =
                        [pc |-> pc, id |-> i, request |-> @.request, status |-> zkIntent[i].status,
                         gen |-> zkGen[i], incarnation |-> zkIntent[i].incarnation]]
        /\ UNCHANGED <<zkTail, zkPrev>>

IsCurrentOperation(c) ==
    LET op == zkCall[c]
    IN  /\ Present(op.id)
        /\ zkIntent[op.id].incarnation = op.incarnation
        /\ zkGen[op.id] = op.gen
        /\ zkIntent[op.id].status = op.status

(* commitOperation, where the clock could be read and the operation is      *)
(* still current; otherwise the call ends and changes nothing.              *)
CommitZk(c, status, proof, payment) ==
    LET i == zkCall[c].id
        done == ClockAccepted(zkNow, zkLast) /\ IsCurrentOperation(c)
    IN  /\ zkLast' = Observed(zkNow, zkLast)
        /\ IF done
           THEN /\ zkIntent' = [zkIntent EXCEPT ![i].status = status, ![i].updatedAt = zkNow]
                /\ zkGen' = [zkGen EXCEPT ![i] = @ + 1]
                /\ zkProof' = [zkProof EXCEPT ![i] = proof]
                /\ zkPaid' = [zkPaid EXCEPT ![i] = payment]
           ELSE UNCHANGED <<zkIntent, zkGen, zkProof, zkPaid>>
        /\ LeaveZk(c)

\* Mutant: the status of the answer becomes the status of the intent.
RecordFailureRaw(c, status) == CommitZk(c, status, NoEvidence, NoEvidence)

(* recordFailure: the intent is over, and its evidence is deleted.          *)
RecordFailure(c, status) ==
    CommitZk(c, IF status \in {"unavailable", "unsupported"} THEN "unsupported" ELSE "failed",
             NoEvidence, NoEvidence)

EnterZk(c) ==
    LET i == zkCall[c].id
    IN  /\ zkCall[c].pc = "queued" /\ MayEnter(zkPrev, c)
        /\ IF zkCall[c].request.kind = "verify"
           THEN IF zkIntent[i].status = "pending" THEN BeginZk(c, "binding") ELSE LeaveZk(c)
           ELSE IF zkIntent[i].status = "verified" THEN BeginZk(c, "revalidating")
                ELSE IF zkIntent[i].status = "paid" THEN GoZk(c, "replaying") ELSE LeaveZk(c)
        /\ UNCHANGED <<zkNow, zkLast, zkVerifier, zkObserver, zkIntent, zkGen, zkProof, zkPaid,
                       zkBirths, zkAsks>>

(* validateZKCPIntentBinding, after the proof hash of the intent.           *)
IntentBindingVerdict(q, i, terms) == FirstFailure(<<
    <<q.proofTerms # terms, "proof_digest_mismatch">>,
    <<q.inputTerms # terms, "public_input_mismatch">>,
    <<q.statement # BindingDigest("statement", i, terms), "statement_mismatch">>,
    <<q.domain # BindingDigest("domain", i, terms), "domain_mismatch">> >>)

RequestVerdict(q, i, terms) == FirstFailure(<<
    Unless(ValidateVerifierRequest(q)),
    Unless(IntentBindingVerdict(q, i, terms)),
    <<q.system = "other", "unsupported_backend">>,
    <<~IsBackendIdentity(zkVerifier), "backend_mismatch">>,
    <<zkVerifier # Unavailable /\ q.backend # zkVerifier, "backend_mismatch">> >>)

BindProof(c) ==
    LET i == zkCall[c].id
        verdict == RequestVerdict(zkCall[c].request, i, zkIntent[i].terms)
    IN  /\ zkCall[c].pc = "binding"
        /\ IF verdict # "ok"
           THEN RecordFailure(c, FailureStatus(verdict))
           ELSE /\ IF IsCurrentOperation(c) THEN GoZk(c, "verifying") ELSE LeaveZk(c)
                /\ UNCHANGED <<zkLast, zkIntent, zkGen, zkProof, zkPaid>>
        /\ UNCHANGED <<zkNow, zkVerifier, zkObserver, zkBirths, zkAsks>>

(* The verifier answers, or throws.  The validation of its answer awaits    *)
(* nothing that changes the intent, so answer and commit are one step.      *)
VerifierAnswers(c, r) ==
    LET q == zkCall[c].request
        judged == IF r.form = "thrown" THEN Failure("internal_error", q, zkVerifier)
                  ELSE Judge(r, q, zkVerifier)
    IN  /\ zkCall[c].pc = "verifying"
        /\ IF IsProductionVerified(judged, zkVerifier)
           THEN CommitZk(c, "verified", [kind |-> "proof", request |-> q, result |-> judged],
                         zkPaid[zkCall[c].id])
           ELSE RecordFailure(c, judged.status)
        /\ UNCHANGED <<zkNow, zkVerifier, zkObserver, zkBirths, zkAsks>>

(* revalidateProofEvidence: the retained evidence is judged once more.      *)
ProofRevalidates(i) ==
    /\ zkProof[i] # NoEvidence
    /\ ValidateVerifierRequest(zkProof[i].request) = "ok"
    /\ IntentBindingVerdict(zkProof[i].request, i, zkIntent[i].terms) = "ok"
    /\ IsBackendIdentity(zkVerifier)
    /\ IsProductionVerified(Judge(zkProof[i].result, zkProof[i].request, zkVerifier), zkVerifier)

RevalidateProof(c) ==
    /\ zkCall[c].pc = "revalidating"
    /\ IF ProofRevalidates(zkCall[c].id) /\ IsCurrentOperation(c) /\ IsBackendIdentity(zkObserver)
       THEN GoZk(c, "observing") ELSE LeaveZk(c)
    /\ UNCHANGED <<zkNow, zkLast, zkVerifier, zkObserver, zkIntent, zkGen, zkProof, zkPaid,
                   zkBirths, zkAsks>>

(* normalizePaymentResult: "ok", or the failure code the caller is given.   *)
PaymentVerdict(r, i, terms, authority) == FirstFailure(<<
    <<r.form = "malformed" \/ r.provenance \notin Provenances
      \/ (r.failure # "none" /\ r.failure \notin FailureCodes), "payment_mismatch">>,
    <<r.form = "long_error", "resource_limit_exceeded">>,
    <<r.status # "observed" /\ (r.detected \/ r.failure = "none"), "payment_mismatch">>,
    <<r.status # "observed", r.failure>>,
    <<r.failure # "none", "payment_mismatch">>,
    <<~r.detected, "payment_not_observed">>,
    Unless(ValidatePaymentObservation(r.observation, i, terms)),
    <<r.observation.observer # authority \/ r.observation.provenance # r.provenance, "payment_mismatch">>,
    <<~IsAuthoritative(authority), "payment_mismatch">>,
    <<r.provenance # "production", "simulated_result">> >>)

(* The observer answers.  A payment that is refused leaves the intent as it *)
(* is, and the caller may ask again.                                        *)
ObserverAnswers(c, r) ==
    LET i == zkCall[c].id
    IN  /\ zkCall[c].pc = "observing"
        /\ IF /\ r.form # "thrown"
              /\ IsCurrentOperation(c)
              /\ PaymentVerdict(r, i, zkIntent[i].terms, zkObserver) = "ok"
              /\ IsProductionPayment(r, zkObserver)
           THEN CommitZk(c, "paid", zkProof[i],
                         [kind |-> "payment", id |-> i, terms |-> zkIntent[i].terms,
                          observation |-> r.observation])
           ELSE LeaveZk(c) /\ UNCHANGED <<zkLast, zkIntent, zkGen, zkProof, zkPaid>>
        /\ UNCHANGED <<zkNow, zkVerifier, zkObserver, zkBirths, zkAsks>>

(* A paid intent answers from its evidence (revalidatePaymentEvidence).     *)
ReplayPayment(c) ==
    /\ zkCall[c].pc = "replaying"
    /\ LeaveZk(c)
    /\ UNCHANGED <<zkNow, zkLast, zkVerifier, zkObserver, zkIntent, zkGen, zkProof, zkPaid,
                   zkBirths, zkAsks>>

ZkCallStep(c) ==
    \/ EnterZk(c)
    \/ BindProof(c)
    \/ RevalidateProof(c)
    \/ ReplayPayment(c)
    \/ \E r \in ZkResults : VerifierAnswers(c, r)
    \/ \E r \in Payments : ObserverAnswers(c, r)

ZkNext ==
    \/ \E i \in Intents, terms \in Terms : InitializeIntent(i, terms)
    \/ \E c \in Calls, i \in Intents, q \in ZkRequests : AskZk(c, i, q)
    \/ \E c \in Calls : ZkCallStep(c)
    \/ PurgeIntents
    \/ MoveZkClock
---------------------------------------------------------------------------
CallsOn(i) == {c \in Calls : zkCall[c].pc # "idle" /\ zkCall[c].id = i}

CallsInside(i) == {c \in CallsOn(i) : zkCall[c].pc # "queued"}

ZkIntentRecords ==
    [status : {"pending", "verified", "paid", "failed", "unsupported"}, terms : Terms,
     updatedAt : 0..MaxTime, incarnation : 1..MaxBirths]

ZkTypeOK ==
    /\ zkNow \in -1..MaxTime /\ zkLast \in -1..MaxTime
    /\ {zkVerifier, zkObserver} \subseteq Backends \cup {NoIdentity}
    /\ \A i \in Intents : zkIntent[i] = NoIntent \/ zkIntent[i] \in ZkIntentRecords
    /\ zkGen \in [Intents -> 0..2]
    /\ \A c \in Calls :
         zkCall[c] # IdleCall =>
            /\ zkCall[c].pc \in {"queued", "binding", "verifying", "revalidating", "observing", "replaying"}
            /\ zkCall[c].id \in Intents /\ zkCall[c].request \in ZkRequests
    /\ zkTail \in [Intents -> Calls \cup {NoCall}]
    /\ zkPrev \in [Calls -> Calls \cup {NoCall}]
    /\ zkBirths \in 0..MaxBirths /\ zkAsks \in 0..MaxAsks

(* An intent is verified exactly while proof evidence is kept for it, and   *)
(* that evidence is a well-formed request for this intent and these terms    *)
(* with an answer the configured verifier is authorized to give; it is paid  *)
(* exactly while payment evidence is kept, from the configured observer, of  *)
(* the exact payment.  Neither refers to what the intent was before.         *)
ZkEvidenceSound ==
    \A i \in Intents :
        LET terms == zkIntent[i].terms
            proof == zkProof[i]
            payment == zkPaid[i].observation
        IN  /\ (proof # NoEvidence) <=> (Present(i) /\ zkIntent[i].status \in {"verified", "paid"})
            /\ proof # NoEvidence =>
                 /\ WellFormedRequest(proof.request)
                 /\ AuthorizedResult(proof.result, proof.request, zkVerifier)
                 /\ proof.request.proofTerms = terms /\ proof.request.inputTerms = terms
                 /\ proof.request.statement = BindingDigest("statement", i, terms)
                 /\ proof.request.domain = BindingDigest("domain", i, terms)
            /\ (zkPaid[i] # NoEvidence) <=> (Present(i) /\ zkIntent[i].status = "paid")
            /\ zkPaid[i] # NoEvidence =>
                 /\ payment.id = i /\ payment.terms = terms /\ payment.exact /\ payment.bound
                 /\ payment.observer = zkObserver /\ zkObserver \in Authoritative
                 /\ payment.provenance = "production"

(* A call that is let in sees the intent unchanged until it commits: what    *)
(* it read before it awaited an adapter is still true when it comes back.    *)
ZkOperationsCurrent ==
    \A c \in Calls :
        zkCall[c].pc \in {"binding", "verifying", "revalidating", "observing"} => IsCurrentOperation(c)

ZkCapacityHeld ==
    /\ Cardinality({i \in Intents : zkIntent[i].status \in {"pending", "verified"}}) <= MaxActive
    /\ Cardinality({i \in Intents : Present(i)}) <= MaxTotal

ZkLineSound ==
    LineSound(zkTail, zkPrev, [i \in Intents |-> CallsOn(i)], [i \in Intents |-> CallsInside(i)])

(* An intent disappears or is replaced only when it is over, nobody waits    *)
(* for it, and its retention has passed.                                     *)
ZkEvictionSafe ==
    \A i \in Intents :
        Present(i) /\ (zkIntent'[i] = NoIntent \/ zkIntent'[i].incarnation # zkIntent[i].incarnation) =>
            /\ zkIntent[i].status \in {"paid", "failed", "unsupported"}
            /\ CallsOn(i) = {}
            /\ zkNow >= zkIntent[i].updatedAt + Retention

(* What the bridge promises of an intent (IntentLedger).                     *)
Ledger == INSTANCE IntentLedger WITH
    intent <- [i \in Intents |->
                 IF Present(i) THEN [status |-> zkIntent[i].status, terms |-> zkIntent[i].terms]
                               ELSE [status |-> "none"]]
=============================================================================
