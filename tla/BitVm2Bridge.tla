------------------------------ MODULE BitVm2Bridge ------------------------------
(***************************************************************************)
(* BitVMBridge of lib/support/bitvm.ts: verification floors, the signatures *)
(* aggregated on them, and challenges.  Floors, signatures and challenges   *)
(* of one proof are queued; the number of floors is limited, and a place is *)
(* reserved before the verifier is called.                                  *)
(*                                                                         *)
(* The maps states, aggregations and floorInitializations have the same     *)
(* life, but for floors without signatures; they are one record here.       *)
(***************************************************************************)
EXTENDS VerifierContract

CONSTANTS
    Floors,         \* proof identifiers
    Signers,        \* identifiers of partial signers
    FloorRequests,  \* requests to verify a floor
    FloorResults,   \* what the verifier may answer
    Signatures,     \* partial signatures that callers submit
    SignResults,    \* what the signature verifier may answer
    Taps,           \* tap indexes that challengers name
    MaxFloors,      \* maxRetainedFloors
    FloorTtl,       \* terminalTtlMs
    MaxFloorTime,   \* bound: the clock
    MaxFloorAsks    \* bound: calls made in a behaviour

ASSUME BitVm2Assumption ==
    /\ MaxFloors \in Nat \ {0} /\ FloorTtl \in Nat \ {0}
    /\ MaxFloorTime \in Nat /\ MaxFloorAsks \in Nat
    /\ \A q \in FloorRequests : q.kind = "verify" /\ RequestShape(q) /\ q.profile.required \in Nat
    /\ \A r \in FloorResults : ResultShape(r)

VARIABLES
    b2Now,       \* what the injected clock would answer
    b2Last,      \* lastObservedTimeMs
    b2Verifier,  \* backendIdentity of the floor verifier
    b2Signing,   \* backendIdentity of the signature verifier
    b2Floor,     \* states, aggregations, floorInitializations
    b2Reserved,  \* floorReservations
    b2Claimed,   \* reservedSigners
    b2Tail, b2Prev,  \* aggregationQueues
    b2Call, b2Asks

b2Vars == <<b2Now, b2Last, b2Verifier, b2Signing, b2Floor, b2Reserved, b2Claimed,
            b2Tail, b2Prev, b2Call, b2Asks>>

NoFloor == [status |-> "none"]

IdleFloorCall == [pc |-> "idle"]

Retained == {p \in Floors : b2Floor[p] # NoFloor}

Aggregates(p) == p \in Retained /\ b2Floor[p].profile.required > 0

SignedBy(p) == {s.signer : s \in b2Floor[p].signatures}

---------------------------------------------------------------------------
(* A request may name no profile: its floor has no taps and needs nobody.    *)
NoProfile == [taps |-> 0, required |-> 0, signers |-> {}]

(* validateTapProfile: at most one signature per tap, and enough signers.   *)
(* required = 0 stands for a profile without required_signatures.           *)
ValidTapProfile(profile) ==
    /\ profile.taps > 0
    /\ profile.required <= profile.taps
    /\ profile.required <= Cardinality(profile.signers)

UsableProfile(profile) == profile = NoProfile \/ ValidTapProfile(profile)

(* What verifyFloor looks at before it takes its place in the queue.        *)
FloorRequestVerdict(q) == FirstFailure(<<
    <<~UsableProfile(q.profile), "malformed_request">>,
    Unless(ValidateVerifierRequest(q)),
    <<~IsBackendIdentity(b2Verifier), "backend_mismatch">>,
    <<b2Verifier # Unavailable /\ q.backend # b2Verifier, "backend_mismatch">> >>)

B2Init ==
    /\ b2Now \in 0..MaxFloorTime
    /\ b2Last = -1
    /\ \E wiring \in Wirings : b2Verifier = wiring[1] /\ b2Signing = wiring[2]
    /\ b2Floor = [p \in Floors |-> NoFloor]
    /\ b2Reserved = {}
    /\ b2Claimed = [p \in Floors |-> {}]
    /\ b2Tail = [p \in Floors |-> NoCall]
    /\ b2Prev = [c \in Calls |-> NoCall]
    /\ b2Call = [c \in Calls |-> IdleFloorCall]
    /\ b2Asks = 0

(* isTerminalFloorStatus and cleanupExpiredTerminalRecords.  No operation   *)
(* gives a floor one of these statuses.                                     *)
IsTerminalFloor(status) == status \in {"failed", "unsupported", "disproved", "slashed"}

ExpiredFloors ==
    {p \in Retained :
        /\ ClockAccepted(b2Now, b2Last)
        /\ ~IsQueued(b2Tail, p) /\ p \notin b2Reserved /\ b2Claimed[p] = {}
        /\ IsTerminalFloor(b2Floor[p].status)
        /\ b2Now - b2Floor[p].updatedAt >= FloorTtl}

CleanedFloors == [p \in Floors |-> IF p \in ExpiredFloors THEN NoFloor ELSE b2Floor[p]]

(* purgeExpiredTerminalRecords and getRetentionSnapshot.                    *)
PurgeFloors ==
    /\ b2Last' = Observed(b2Now, b2Last)
    /\ b2Floor' = CleanedFloors
    /\ UNCHANGED <<b2Now, b2Verifier, b2Signing, b2Reserved, b2Claimed, b2Tail, b2Prev, b2Call, b2Asks>>

MoveFloorClock ==
    /\ b2Now' \in -1..MaxFloorTime \ {b2Now}
    /\ UNCHANGED <<b2Last, b2Verifier, b2Signing, b2Floor, b2Reserved, b2Claimed, b2Tail, b2Prev,
                   b2Call, b2Asks>>

---------------------------------------------------------------------------
AskFloor(c, p, request) ==
    /\ b2Call[c] = IdleFloorCall /\ b2Asks < MaxFloorAsks
    /\ b2Asks' = b2Asks + 1
    /\ IF request.kind = "verify" /\ FloorRequestVerdict(request) # "ok"
       THEN UNCHANGED <<b2Call, b2Tail, b2Prev>>
       ELSE /\ b2Call' = [b2Call EXCEPT ![c] = [pc |-> "queued", id |-> p, request |-> request]]
            /\ b2Tail' = JoinTail(b2Tail, p, c)
            /\ b2Prev' = JoinPrev(b2Prev, b2Tail, p, c)
    /\ UNCHANGED <<b2Now, b2Last, b2Verifier, b2Signing, b2Floor, b2Reserved, b2Claimed>>

LeaveFloor(c) ==
    /\ b2Call' = [b2Call EXCEPT ![c] = IdleFloorCall]
    /\ b2Tail' = LeaveTail(b2Tail, b2Call[c].id, c)
    /\ b2Prev' = LeavePrev(b2Prev, c)

AwaitFloor(c, pc) ==
    /\ b2Call' = [b2Call EXCEPT ![c] =
                    [pc |-> pc, id |-> @.id, request |-> @.request, at |-> b2Now]]
    /\ UNCHANGED <<b2Tail, b2Prev>>

(* The same request again is a replay that reads, another one a conflict;   *)
(* neither changes the floor.  A new floor needs a place.                   *)
EnterFloor(c) ==
    LET p == b2Call[c].id
        room == Cardinality({f \in Floors : CleanedFloors[f] # NoFloor}) + Cardinality(b2Reserved)
                  < MaxFloors
    IN  /\ b2Call[c].pc = "queued" /\ b2Call[c].request.kind = "verify" /\ MayEnter(b2Prev, c)
        /\ b2Last' = Observed(b2Now, b2Last)
        /\ b2Floor' = CleanedFloors
        /\ IF ClockAccepted(b2Now, b2Last) /\ CleanedFloors[p] = NoFloor /\ room
           THEN AwaitFloor(c, "verifying") /\ b2Reserved' = b2Reserved \cup {p}
           ELSE LeaveFloor(c) /\ UNCHANGED b2Reserved
        /\ UNCHANGED <<b2Now, b2Verifier, b2Signing, b2Claimed, b2Asks>>

(* The verifier answers or throws; only a production answer makes a floor,  *)
(* and every answer gives the reservation back.                             *)
FloorAnswered(c, r) ==
    LET p == b2Call[c].id
        q == b2Call[c].request
        judged == IF r.form = "thrown" THEN Failure("internal_error", q, b2Verifier)
                  ELSE Judge(r, q, b2Verifier)
        floor == [status |-> "verified", request |-> q, profile |-> q.profile, result |-> judged,
                  signatures |-> {}, complete |-> FALSE, challenges |-> {}, updatedAt |-> b2Call[c].at]
    IN  /\ b2Call[c].pc = "verifying"
        /\ b2Floor' = IF IsProductionVerified(judged, b2Verifier)
                      THEN [b2Floor EXCEPT ![p] = floor] ELSE b2Floor
        /\ b2Reserved' = b2Reserved \ {p}
        /\ LeaveFloor(c)
        /\ UNCHANGED <<b2Now, b2Last, b2Verifier, b2Signing, b2Claimed, b2Asks>>

(* submitSignature up to the call of the signature verifier.                *)
EnterSignature(c) ==
    LET p == b2Call[c].id
        signer == b2Call[c].request.signer
        admitted == /\ Aggregates(p)
                    /\ signer \in b2Floor[p].profile.signers
                    /\ signer \notin SignedBy(p)
                    /\ signer \notin b2Claimed[p]
        usable == IsBackendIdentity(b2Signing) /\ b2Signing # Unavailable
    IN  /\ b2Call[c].pc = "queued" /\ b2Call[c].request.kind = "sign" /\ MayEnter(b2Prev, c)
        /\ b2Last' = IF admitted /\ usable THEN Observed(b2Now, b2Last) ELSE b2Last
        /\ IF admitted /\ usable /\ ClockAccepted(b2Now, b2Last)
           THEN /\ AwaitFloor(c, "signing")
                /\ b2Claimed' = [b2Claimed EXCEPT ![p] = @ \cup {signer}]
           ELSE LeaveFloor(c) /\ UNCHANGED b2Claimed
        /\ UNCHANGED <<b2Now, b2Verifier, b2Signing, b2Floor, b2Reserved, b2Asks>>

\* Mutant: the value that was signed is not compared.
AttestsSigner(r, p, signature) == r.attestation.proof = p /\ r.attestation.signer = signature.signer

(* isCanonicalSignatureAttestation, and equality with the attestation that  *)
(* createSignatureAttestation makes of what was submitted.                  *)
Attests(r, p, signature) ==
    r.attestation = [proof |-> p, signer |-> signature.signer, value |-> signature.value,
                     backend |-> r.backend, provenance |-> r.provenance]

SignatureAccepted(r, p, signature) ==
    /\ r.form = "ok"
    /\ r.status = "valid" /\ r.verified /\ r.failure = "none"
    /\ r.backend = b2Signing
    /\ r.backend = b2Floor[p].result.backend
    /\ r.provenance \in {"test", "production"}
    /\ r.provenance = "production" => IsAuthoritative(r.backend)
    /\ Attests(r, p, signature)

SignatureAnswered(c, r) ==
    LET p == b2Call[c].id
        signature == b2Call[c].request
        floor == b2Floor[p]
        signed == floor.signatures \cup
                    {[signer |-> signature.signer, value |-> signature.value, attestation |-> r.attestation]}
    IN  /\ b2Call[c].pc = "signing"
        /\ b2Floor' =
             IF /\ Aggregates(p)
                /\ SignatureAccepted(r, p, signature)
                /\ signature.signer \notin SignedBy(p)
                /\ signature.signer \in b2Claimed[p]
             THEN [b2Floor EXCEPT ![p].signatures = signed,
                                  ![p].complete = Cardinality(signed) >= floor.profile.required]
             ELSE b2Floor
        /\ b2Claimed' = [b2Claimed EXCEPT ![p] = @ \ {signature.signer}]
        /\ LeaveFloor(c)
        /\ UNCHANGED <<b2Now, b2Last, b2Verifier, b2Signing, b2Reserved, b2Asks>>

ChallengeTap(c) ==
    LET p == b2Call[c].id
        tap == b2Call[c].request.tap
        open == p \in Retained /\ b2Floor[p].status = "verified" /\ tap \in 0..(b2Floor[p].profile.taps - 1)
    IN  /\ b2Call[c].pc = "queued" /\ b2Call[c].request.kind = "challenge" /\ MayEnter(b2Prev, c)
        /\ b2Last' = IF open THEN Observed(b2Now, b2Last) ELSE b2Last
        /\ b2Floor' = IF open /\ ClockAccepted(b2Now, b2Last)
                      THEN [b2Floor EXCEPT ![p].status = "challenged", ![p].updatedAt = b2Now,
                                           ![p].challenges = @ \cup {tap}]
                      ELSE b2Floor
        /\ LeaveFloor(c)
        /\ UNCHANGED <<b2Now, b2Verifier, b2Signing, b2Reserved, b2Claimed, b2Asks>>

B2CallStep(c) ==
    \/ EnterFloor(c)
    \/ EnterSignature(c)
    \/ ChallengeTap(c)
    \/ \E r \in FloorResults : FloorAnswered(c, r)
    \/ \E r \in SignResults : SignatureAnswered(c, r)

B2Requests(p) ==
    FloorRequests \cup [kind : {"sign"}, signer : Signers, value : Signatures]
                  \cup [kind : {"challenge"}, tap : Taps]

B2Next ==
    \/ \E c \in Calls, p \in Floors : \E q \in B2Requests(p) : AskFloor(c, p, q)
    \/ \E c \in Calls : B2CallStep(c)
    \/ PurgeFloors
    \/ MoveFloorClock
---------------------------------------------------------------------------
FloorCallsOn(p) == {c \in Calls : b2Call[c].pc # "idle" /\ b2Call[c].id = p}

FloorCallsAt(p, pc) == {c \in FloorCallsOn(p) : b2Call[c].pc = pc}

B2TypeOK ==
    /\ b2Now \in -1..MaxFloorTime /\ b2Last \in -1..MaxFloorTime
    /\ {b2Verifier, b2Signing} \subseteq Backends \cup {NoIdentity}
    /\ \A p \in Retained :
         /\ b2Floor[p].status \in {"verified", "challenged"}
         /\ b2Floor[p].request \in FloorRequests
         /\ b2Floor[p].updatedAt \in 0..MaxFloorTime
         /\ b2Floor[p].complete \in BOOLEAN
    /\ b2Reserved \subseteq Floors
    /\ b2Claimed \in [Floors -> SUBSET Signers]
    /\ \A c \in Calls :
         b2Call[c] # IdleFloorCall =>
            b2Call[c].pc \in {"queued", "verifying", "signing"} /\ b2Call[c].id \in Floors
    /\ b2Tail \in [Floors -> Calls \cup {NoCall}]
    /\ b2Prev \in [Calls -> Calls \cup {NoCall}]
    /\ b2Asks \in 0..MaxFloorAsks

(* A retained floor rests on a well-formed request with a usable profile and *)
(* an answer the configured verifier is authorized to give.                  *)
B2EvidenceSound ==
    \A p \in Retained :
        /\ WellFormedRequest(b2Floor[p].request)
        /\ AuthorizedResult(b2Floor[p].result, b2Floor[p].request, b2Verifier)
        /\ b2Floor[p].profile = b2Floor[p].request.profile
        /\ UsableProfile(b2Floor[p].profile)

(* The signatures of a floor come from distinct signers of its profile, each *)
(* attested for this floor and this value by the backend that verified the   *)
(* floor; they are complete exactly when as many signers as required signed. *)
B2SignaturesSound ==
    \A p \in Retained :
        LET floor == b2Floor[p]
        IN  /\ \A s, t \in floor.signatures : s.signer = t.signer => s = t
            /\ \A s \in floor.signatures :
                 /\ s.signer \in floor.profile.signers
                 /\ s.attestation.proof = p /\ s.attestation.signer = s.signer
                 /\ s.attestation.value = s.value /\ s.attestation.backend = floor.result.backend
            /\ floor.complete =>
                 /\ floor.profile.required > 0
                 /\ Cardinality(SignedBy(p)) >= floor.profile.required
            /\ floor.profile.required > 0 /\ Cardinality(SignedBy(p)) >= floor.profile.required
                 => floor.complete
            /\ floor.challenges \subseteq 0..(floor.profile.taps - 1)
            /\ (floor.status = "challenged") <=> (floor.challenges # {})

(* A place and a signer are reserved exactly while the call that reserved    *)
(* them waits for its verifier.                                              *)
B2ReservationsHeld ==
    /\ b2Reserved = {p \in Floors : FloorCallsAt(p, "verifying") # {}}
    /\ \A p \in Floors : b2Claimed[p] = {b2Call[c].request.signer : c \in FloorCallsAt(p, "signing")}

B2CapacityHeld == Cardinality(Retained \cup b2Reserved) <= MaxFloors /\ Retained \cap b2Reserved = {}

B2LineSound ==
    LineSound(b2Tail, b2Prev, [p \in Floors |-> FloorCallsOn(p)],
              [p \in Floors |-> FloorCallsOn(p) \ FloorCallsAt(p, "queued")])

(* A floor is never given up, its request never replaced, its signatures     *)
(* and challenges never withdrawn.                                           *)
B2EvictionSafe ==
    \A p \in Retained :
        /\ b2Floor'[p] # NoFloor
        /\ b2Floor'[p].request = b2Floor[p].request
        /\ b2Floor[p].signatures \subseteq b2Floor'[p].signatures
        /\ b2Floor[p].challenges \subseteq b2Floor'[p].challenges
        /\ b2Floor[p].complete => b2Floor'[p].complete
=============================================================================
