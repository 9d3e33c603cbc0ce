---------------------------- MODULE VerifierContract ----------------------------
(***************************************************************************)
(* The contract of lib/support/verifier-contract.ts between the admin     *)
(* dashboard and the proof verifiers and payment observers it is given:   *)
(* what makes a request, a verification result and a payment observation  *)
(* acceptable.  With it, the lock each bridge has a copy of.  Pure          *)
(* operators; the three bridges that use them (ZkcpBridge, BitVm2Bridge,    *)
(* BitVm3Orchestrator) extend this module.                                *)
(*                                                                        *)
(* A digest is modelled by what it binds: two digests are equal exactly   *)
(* when what was digested is equal.                                       *)
(***************************************************************************)
EXTENDS Integers, Sequences, FiniteSets

CONSTANTS
    Backends,        \* identities of configured verifiers and observers
    Authoritative,   \* those with authority = "authoritative"
    Unavailable,     \* UNAVAILABLE_BACKEND
    NoIdentity,      \* what is not a backend identity
    Wirings,         \* the identities a bridge's two adapters may be configured with, in pairs
    MaxInputCount,   \* maxPublicInputCount
    MaxInputsSize,   \* maxPublicInputsBytes, in units of MaxInputSize
    MaxInputSize,    \* maxPublicInputBytes
    Calls,           \* concurrent calls into a bridge
    NoCall           \* no entry in the map, or a promise that is resolved

ASSUME ContractAssumption ==
    /\ Unavailable \in Backends
    /\ Authoritative \subseteq Backends \ {Unavailable}
    /\ NoIdentity \notin Backends
    /\ Wirings \subseteq (Backends \cup {NoIdentity}) \X (Backends \cup {NoIdentity})
    /\ MaxInputCount \in Nat /\ MaxInputsSize \in Nat /\ MaxInputSize \in Nat

ASSUME QueueAssumption == NoCall \notin Calls

Provenances == {"production", "test", "simulated", "unknown"}

IsBackendIdentity(b) == b \in Backends

IsAuthoritative(b) == b \in Authoritative

---------------------------------------------------------------------------
(* A sequence of <<condition, failure code>>, looked at in order. *)
FirstFailure(checks) ==
    LET failing == {i \in DOMAIN checks : checks[i][1]}
    IN  IF failing = {} THEN "ok"
        ELSE checks[CHOOSE i \in failing : \A j \in failing : i <= j][2]

(* The verdict of a check that is made as part of another. *)
Unless(verdict) == <<verdict # "ok", verdict>>

FailureCodes == {
    "backend_unavailable", "unsupported_backend", "malformed_request",
    "resource_limit_exceeded", "malformed_encoding", "proof_digest_mismatch",
    "proof_invalid", "public_input_mismatch", "statement_mismatch",
    "domain_mismatch", "backend_mismatch", "simulated_result",
    "observer_unavailable", "payment_not_observed", "payment_mismatch",
    "internal_error"}

FailureStatus(code) ==
    CASE code \in {"backend_unavailable", "observer_unavailable"} -> "unavailable"
      [] code = "unsupported_backend" -> "unsupported"
      [] code \in {"malformed_request", "resource_limit_exceeded",
                   "malformed_encoding"} -> "malformed"
      [] OTHER -> "invalid"

---------------------------------------------------------------------------
(* A raw verifier request: `shape` says whether it is an object with       *)
(* canonical bindings, `proof` and `inputs` what is wrong with the encoded  *)
(* values, `bound` whether a digest is that of its value, and `digest`      *)
(* stands for everything the digest of the request covers.                 *)

InputRecords ==
    [name : STRING, index : Int, size : Nat, form : {"ok", "malformed", "undecodable"}, bound : BOOLEAN]

RequestShape(q) ==
    /\ q.shape \in {"ok", "not_object", "oversized", "malformed"}
    /\ q.proof \in [form : {"ok", "malformed", "oversized", "undecodable"}, bound : BOOLEAN]
    /\ q.inputs \in Seq(InputRecords) /\ q.inputsBound \in BOOLEAN

(* What is wrong with input i of the list, in the order of the loop: its   *)
(* own size, its form, its place and name, and the size of the list so far. *)
SizeUpTo(inputs, i) ==
    LET size[j \in 0..i] == IF j = 0 THEN 0 ELSE size[j - 1] + inputs[j].size
    IN  size[i]

InputVerdict(inputs, i) == FirstFailure(<<
    <<inputs[i].size > MaxInputSize, "resource_limit_exceeded">>,
    <<\/ inputs[i].form = "malformed"
      \/ inputs[i].index # i - 1
      \/ \E j \in 1..(i - 1) : inputs[j].name = inputs[i].name, "public_input_mismatch">>,
    <<SizeUpTo(inputs, i) > MaxInputsSize, "resource_limit_exceeded">> >>)

InputsVerdict(inputs) ==
    FirstFailure([i \in DOMAIN inputs |-> Unless(InputVerdict(inputs, i))])

(* The digests are recomputed only once every input has been looked at.    *)
DigestsVerdict(q) == FirstFailure(
    << <<q.proof.form = "undecodable", "malformed_encoding">>,
       <<~q.proof.bound, "proof_digest_mismatch">> >>
    \o [i \in DOMAIN q.inputs |->
          <<q.inputs[i].form = "undecodable" \/ ~q.inputs[i].bound,
            IF q.inputs[i].form = "undecodable" THEN "malformed_encoding"
                                                ELSE "public_input_mismatch">>]
    \o << <<~q.inputsBound, "public_input_mismatch">> >>)

ValidateVerifierRequest(q) == FirstFailure(<<
    <<q.shape = "not_object", "malformed_request">>,
    <<q.shape = "oversized", "resource_limit_exceeded">>,
    <<q.shape = "malformed" \/ ~IsBackendIdentity(q.backend) \/ q.provenance \notin Provenances,
      "malformed_request">>,
    <<q.proof.form = "malformed", "malformed_encoding">>,
    <<q.proof.form = "oversized", "resource_limit_exceeded">>,
    <<Len(q.inputs) > MaxInputCount, "resource_limit_exceeded">>,
    Unless(InputsVerdict(q.inputs)),
    Unless(DigestsVerdict(q)) >>)

---------------------------------------------------------------------------
(* A verification result: `form` is the shape of the answer, `digest` the  *)
(* request it says it answers, `failure` its failure code or "none".       *)
ResultShape(r) ==
    r.form \in {"ok", "malformed", "long_error", "thrown"} /\ r.verified \in BOOLEAN

Failure(code, q, authority) ==
    [form |-> "ok", digest |-> q.digest, status |-> FailureStatus(code), verified |-> FALSE,
     backend |-> authority, provenance |-> q.provenance, failure |-> code]

ValidateVerificationResult(r, q, authority) == FirstFailure(<<
    <<r.form = "malformed" \/ r.digest # q.digest \/ ~IsBackendIdentity(r.backend)
      \/ r.provenance \notin Provenances, "malformed_request">>,
    <<r.form = "long_error", "resource_limit_exceeded">>,
    <<(r.status = "valid") # r.verified, "malformed_request">>,
    <<r.status = "valid" /\ r.failure # "none", "malformed_request">>,
    <<r.status \in {"valid", "invalid"} /\ r.backend # q.backend, "backend_mismatch">>,
    <<r.status = "valid" /\ r.provenance = "production"
      /\ (~IsAuthoritative(r.backend) \/ ~IsAuthoritative(authority) \/ r.backend # authority),
      "backend_mismatch">>,
    <<r.failure # "none" /\ r.failure \notin FailureCodes, "malformed_request">>,
    <<r.status # "valid" /\ r.failure = "none", "malformed_request">> >>)

RejectNonProduction(r, q, authority) ==
    LET verdict == FirstFailure(<<
            <<r.status = "valid" /\ r.backend = Unavailable, "backend_unavailable">>,
            <<r.status = "valid" /\ r.provenance # "production", "simulated_result">>,
            <<r.status = "valid"
              /\ (~IsAuthoritative(authority) \/ ~IsAuthoritative(r.backend) \/ r.backend # authority),
              "backend_mismatch">> >>)
    IN  IF verdict = "ok" THEN r ELSE Failure(verdict, q, authority)

IsProductionVerified(r, authority) ==
    /\ r.status = "valid"
    /\ r.verified
    /\ r.provenance = "production"
    /\ r.failure = "none"
    /\ IsAuthoritative(r.backend)
    /\ IsAuthoritative(authority)
    /\ r.backend = authority

\* Mutant: the answer is not compared with the request.
JudgeTrusting(r, q, authority) == RejectNonProduction(r, q, authority)

(* What a bridge makes of the adapter's answer before it looks at it.      *)
Judge(r, q, authority) ==
    LET verdict == ValidateVerificationResult(r, q, authority)
    IN  IF verdict = "ok" THEN RejectNonProduction(r, q, authority)
                          ELSE Failure(verdict, q, authority)

(* What an accepted answer must be, whatever the order of the checks.      *)
AuthorizedResult(r, q, authority) ==
    /\ r.form = "ok" /\ r.digest = q.digest
    /\ r.status = "valid" /\ r.verified /\ r.failure = "none"
    /\ r.provenance = "production"
    /\ r.backend = q.backend /\ r.backend = authority
    /\ r.backend \in Authoritative
---------------------------------------------------------------------------
(* A payment observation is bound to the intent it was asked for; `exact`   *)
(* says that the amount paid is the amount expected.  Any number of         *)
(* confirmations is accepted, none included, so they are left out.          *)
ValidatePaymentObservation(o, intentId, terms) == FirstFailure(<<
    <<o.form = "oversized", "resource_limit_exceeded">>,
    <<o.form = "malformed" \/ o.id # intentId \/ o.terms # terms \/ ~o.exact
      \/ ~IsBackendIdentity(o.observer) \/ o.provenance \notin Provenances, "payment_mismatch">>,
    <<~o.bound, "payment_mismatch">> >>)

IsProductionPayment(r, authority) ==
    /\ r.status = "observed"
    /\ r.detected
    /\ r.failure = "none"
    /\ r.provenance = "production"
    /\ r.observation.provenance = "production"
    /\ IsAuthoritative(r.observation.observer)
    /\ IsAuthoritative(authority)
    /\ r.observation.observer = authority

(* safeTimestamp, of which each bridge has a copy: the clock may not be     *)
(* negative and may not go back behind what the bridge saw before.          *)
ClockAccepted(now, last) == now >= 0 /\ now >= last

Observed(now, last) == IF ClockAccepted(now, last) THEN now ELSE last
---------------------------------------------------------------------------
(* What an accepted request must be, whatever the order of the checks.     *)
WellFormedRequest(q) ==
    /\ q.shape = "ok" /\ q.backend \in Backends /\ q.provenance \in Provenances
    /\ q.proof = [form |-> "ok", bound |-> TRUE]
    /\ Len(q.inputs) <= MaxInputCount
    /\ \A i \in DOMAIN q.inputs :
         /\ q.inputs[i].form = "ok" /\ q.inputs[i].bound
         /\ q.inputs[i].size <= MaxInputSize /\ SizeUpTo(q.inputs, i) <= MaxInputsSize
         /\ q.inputs[i].index = i - 1
    /\ \A i, j \in DOMAIN q.inputs : q.inputs[i].name = q.inputs[j].name => i = j
    /\ q.inputsBound
---------------------------------------------------------------------------
(* The lock (withIntentLock, withAggregationLock, withProofLock): a map      *)
(* from an identifier to the promise of the last caller in line.  A caller   *)
(* takes its place behind that promise, waits for it, and removes the map    *)
(* entry on its way out if it is still last.                              *)

(* tail[k]: whose promise is in the map; prev[c]: whose promise c awaits.   *)
JoinTail(tail, k, c) == [tail EXCEPT ![k] = c]

JoinPrev(prev, tail, k, c) == [prev EXCEPT ![c] = tail[k]]

MayEnter(prev, c) == prev[c] = NoCall

\* Mutant: the entry is removed whoever is last.
LeaveTailAlways(tail, k, c) == [tail EXCEPT ![k] = NoCall]

LeaveTail(tail, k, c) == [tail EXCEPT ![k] = IF @ = c THEN NoCall ELSE @]

\* Mutant: the promise is never resolved.
LeavePrevUnresolved(prev, c) == prev

LeavePrev(prev, c) == [d \in Calls |-> IF prev[d] = c THEN NoCall ELSE prev[d]]

IsQueued(tail, k) == tail[k] # NoCall

(* The line is sound when the entry of k is its last caller, and every      *)
(* waiter stands behind another caller of the same k, no two behind one.    *)
(* in[k] is the set of the callers of k, inside[k] of those let in.         *)
LineSound(tail, prev, in, inside) ==
    \A k \in DOMAIN tail :
        /\ Cardinality(inside[k]) <= 1
        /\ IF in[k] = {} THEN tail[k] = NoCall ELSE tail[k] \in in[k]
        /\ \A c \in in[k] :
             /\ prev[c] # NoCall => prev[c] \in in[k] \ {c, tail[k]} /\ c \notin inside[k]
             /\ \A d \in in[k] : prev[c] # NoCall /\ prev[c] = prev[d] => c = d
        /\ in[k] # {} => Cardinality({c \in in[k] : prev[c] = NoCall}) = 1
=============================================================================
