--------------------------- MODULE BitVm3Orchestrator ---------------------------
(***************************************************************************)
(* BitVM3Orchestrator of lib/support/bitvm3.ts: verified recursive proofs,  *)
(* kept for a while, then replaced by a tombstone that remembers for a      *)
(* while longer which request the identifier belonged to.  Requests for one *)
(* proof are queued, a place is reserved before the backend is called, and  *)
(* the registry of places is changed under a second lock, whose sections     *)
(* await nothing and are therefore single steps.                            *)
(*                                                                         *)
(* The maps states, initializations and generations gain and lose their      *)
(* keys together; they are one record here.                                 *)
(***************************************************************************)
EXTENDS VerifierContract

CONSTANTS
    Proofs,          \* proof identifiers
    ProofRequests,   \* requests that callers submit
    ProofResults,    \* what the backend may answer
    MaxHeight,       \* maxRecursiveHeight
    MaxRetained,     \* maxRetainedStates
    MaxTombstones,   \* maxTombstones
    ProofTtl,        \* terminalTtlMs
    TombstoneTtl,    \* ttlMs of a tombstone
    MaxProofTime,    \* bound: the clock
    MaxProofAsks     \* bound: calls made in a behaviour

ASSUME BitVm3Assumption ==
    /\ MaxRetained \in Nat \ {0} /\ MaxTombstones \in Nat \ {0}
    /\ ProofTtl \in Nat \ {0} /\ TombstoneTtl \in Nat \ {0}
    /\ MaxHeight \in Nat /\ MaxProofTime \in Nat /\ MaxProofAsks \in Nat
    /\ \A q \in ProofRequests : RequestShape(q) /\ q.height \in Int
    /\ \A r \in ProofResults : ResultShape(r)

VARIABLES
    b3Now,       \* what the injected clock would answer
    b3Last,      \* lastObservedTimeMs
    b3Verifier,  \* backendIdentity of the verifier
    b3State,     \* states, initializations, generations
    b3Tomb,      \* tombstones
    b3Reserved,  \* retainedReservations
    b3Tail, b3Prev,  \* proofQueues
    b3Call, b3Asks,
    b3Bound      \* history: the request each identifier was last given to, and when

b3Vars == <<b3Now, b3Last, b3Verifier, b3State, b3Tomb, b3Reserved, b3Tail, b3Prev,
            b3Call, b3Asks, b3Bound>>

Absent == [at |-> -1]

IdleProofCall == [pc |-> "idle"]

KeptProofs == {p \in Proofs : b3State[p] # Absent}

Tombs == {p \in Proofs : b3Tomb[p] # Absent}

(* validateRecursiveRequest, and the check of the adapter's identity.       *)
ProofRequestVerdict(q) == FirstFailure(<<
    <<q.height < 0, "malformed_request">>,
    <<q.height > MaxHeight, "resource_limit_exceeded">>,
    Unless(ValidateVerifierRequest(q)),
    <<~IsBackendIdentity(b3Verifier), "backend_mismatch">>,
    <<b3Verifier # Unavailable /\ q.backend # b3Verifier, "backend_mismatch">> >>)

(* What a replay must repeat: request digest, height and backend.           *)
SameRequest(record, q) ==
    /\ record.digest = q.digest
    /\ record.height = q.height
    /\ record.backend = b3Verifier
    /\ record.backend = q.backend

B3Init ==
    /\ b3Now \in 0..MaxProofTime
    /\ b3Last = -1
    /\ \E wiring \in Wirings : b3Verifier = wiring[1]
    /\ b3State = [p \in Proofs |-> Absent]
    /\ b3Tomb = [p \in Proofs |-> Absent]
    /\ b3Reserved = {}
    /\ b3Tail = [p \in Proofs |-> NoCall]
    /\ b3Prev = [c \in Calls |-> NoCall]
    /\ b3Call = [c \in Calls |-> IdleProofCall]
    /\ b3Asks = 0
    /\ b3Bound = [p \in Proofs |-> Absent]

---------------------------------------------------------------------------
(* cleanupExpiredTerminalStates.  Tombstones that are over go first; then   *)
(* idle states whose time is up become tombstones while there is room for   *)
(* them, in the order of the maps, which is any order here.                 *)
LiveTombs == {p \in Tombs : b3Now < b3Tomb[p].expiresAt}

DueProofs ==
    {p \in KeptProofs :
        /\ ~IsQueued(b3Tail, p) /\ p \notin b3Reserved /\ p \notin LiveTombs
        /\ b3Now - b3State[p].at >= ProofTtl}

Buriable ==
    IF ~ClockAccepted(b3Now, b3Last) THEN {{}}
    ELSE {S \in SUBSET DueProofs :
            /\ Cardinality(S) + Cardinality(LiveTombs) <= MaxTombstones
            /\ S = DueProofs \/ Cardinality(S) + Cardinality(LiveTombs) = MaxTombstones}

Tombstone(p) ==
    [at |-> b3Now, digest |-> b3State[p].digest, height |-> b3State[p].height,
     backend |-> b3State[p].backend, expiresAt |-> b3Now + TombstoneTtl]

StateAfter(buried) == [p \in Proofs |-> IF p \in buried THEN Absent ELSE b3State[p]]

\* Mutant: a proof whose retention is over leaves no tombstone.
TombAfterForgotten(buried) ==
    [p \in Proofs |-> IF ClockAccepted(b3Now, b3Last) /\ p \notin LiveTombs THEN Absent ELSE b3Tomb[p]]

TombAfter(buried) ==
    [p \in Proofs |->
        IF p \in buried THEN Tombstone(p)
        ELSE IF ClockAccepted(b3Now, b3Last) /\ p \notin LiveTombs THEN Absent ELSE b3Tomb[p]]

(* getState and getRetentionSnapshot.                                       *)
CleanupProofs ==
    /\ \E buried \in Buriable : b3State' = StateAfter(buried) /\ b3Tomb' = TombAfter(buried)
    /\ b3Last' = Observed(b3Now, b3Last)
    /\ UNCHANGED <<b3Now, b3Verifier, b3Reserved, b3Tail, b3Prev, b3Call, b3Asks, b3Bound>>

MoveProofClock ==
    /\ b3Now' \in -1..MaxProofTime \ {b3Now}
    /\ UNCHANGED <<b3Last, b3Verifier, b3State, b3Tomb, b3Reserved, b3Tail, b3Prev, b3Call, b3Asks, b3Bound>>

---------------------------------------------------------------------------
AskProof(c, p, q) ==
    /\ b3Call[c] = IdleProofCall /\ b3Asks < MaxProofAsks
    /\ b3Asks' = b3Asks + 1
    /\ IF ProofRequestVerdict(q) # "ok"
       THEN UNCHANGED <<b3Call, b3Tail, b3Prev>>
       ELSE /\ b3Call' = [b3Call EXCEPT ![c] = [pc |-> "queued", id |-> p, request |-> q]]
            /\ b3Tail' = JoinTail(b3Tail, p, c)
            /\ b3Prev' = JoinPrev(b3Prev, b3Tail, p, c)
    /\ UNCHANGED <<b3Now, b3Last, b3Verifier, b3State, b3Tomb, b3Reserved, b3Bound>>

AnswerProof(c, pc, verified) ==
    b3Call' = [b3Call EXCEPT ![c] =
                [pc |-> pc, id |-> @.id, request |-> @.request, verified |-> verified]]

(* prepareRetention: replay, conflict, no room, no clock, or a reservation. *)
PrepareRetention(c) ==
    LET p == b3Call[c].id
        q == b3Call[c].request
    IN  /\ b3Call[c].pc = "queued" /\ MayEnter(b3Prev, c)
        /\ b3Last' = Observed(b3Now, b3Last)
        /\ \E buried \in Buriable :
             LET state == StateAfter(buried)
                 tomb == TombAfter(buried)
                 full == \/ tomb[p] = Absent
                            /\ Cardinality({x \in Proofs : tomb[x] # Absent}) >= MaxTombstones
                         \/ Cardinality({x \in Proofs : state[x] # Absent}) + Cardinality(b3Reserved)
                              >= MaxRetained
                 reserve == /\ ClockAccepted(b3Now, b3Last)
                            /\ state[p] = Absent
                            /\ tomb[p] # Absent => SameRequest(tomb[p], q)
                            /\ ~full
                 replay == ClockAccepted(b3Now, b3Last) /\ state[p] # Absent /\ SameRequest(state[p], q)
             IN  /\ b3State' = state
                 /\ b3Tomb' = tomb
                 /\ b3Reserved' = IF reserve THEN b3Reserved \cup {p} ELSE b3Reserved
                 /\ IF reserve THEN b3Call' = [b3Call EXCEPT ![c].pc = "verifying"]
                               ELSE AnswerProof(c, "leaving", replay)
        /\ UNCHANGED <<b3Now, b3Verifier, b3Tail, b3Prev, b3Asks, b3Bound>>

(* commitVerifiedState: the reservation becomes a retained proof.           *)
CommitVerified(c, judged) ==
    LET p == b3Call[c].id
        q == b3Call[c].request
    IN  /\ b3State' = [b3State EXCEPT ![p] = [at |-> b3Now, digest |-> q.digest, height |-> q.height,
                                              backend |-> b3Verifier, result |-> judged]]
        /\ b3Tomb' = [b3Tomb EXCEPT ![p] = Absent]
        /\ b3Reserved' = b3Reserved \ {p}
        /\ b3Bound' = [b3Bound EXCEPT ![p] = [at |-> b3Now, digest |-> q.digest]]
        /\ AnswerProof(c, "leaving", TRUE)

(* The backend answers or throws.                                           *)
ProofAnswered(c, r) ==
    LET p == b3Call[c].id
        q == b3Call[c].request
        judged == IF r.form = "thrown" THEN Failure("internal_error", q, b3Verifier)
                  ELSE Judge(r, q, b3Verifier)
        current == p \in b3Reserved /\ b3State[p] = Absent
        verified == IsProductionVerified(judged, b3Verifier)
    IN  /\ b3Call[c].pc = "verifying"
        /\ b3Last' = IF verified /\ current THEN Observed(b3Now, b3Last) ELSE b3Last
        /\ IF verified /\ current /\ ClockAccepted(b3Now, b3Last)
           THEN CommitVerified(c, judged)
           ELSE /\ AnswerProof(c, "releasing", FALSE)
                /\ UNCHANGED <<b3State, b3Tomb, b3Reserved, b3Bound>>
        /\ UNCHANGED <<b3Now, b3Verifier, b3Tail, b3Prev, b3Asks>>

\* Mutant: a failed call keeps its place.
ReleaseReservationForgotten(c) ==
    /\ b3Call[c].pc = "releasing"
    /\ b3Call' = [b3Call EXCEPT ![c].pc = "leaving"]
    /\ UNCHANGED <<b3Now, b3Last, b3Verifier, b3State, b3Tomb, b3Reserved, b3Tail, b3Prev, b3Asks, b3Bound>>

(* releaseRetentionReservation, in a later turn of the second lock.         *)
ReleaseReservation(c) ==
    /\ b3Call[c].pc = "releasing"
    /\ b3Reserved' = b3Reserved \ {b3Call[c].id}
    /\ b3Call' = [b3Call EXCEPT ![c].pc = "leaving"]
    /\ UNCHANGED <<b3Now, b3Last, b3Verifier, b3State, b3Tomb, b3Tail, b3Prev, b3Asks, b3Bound>>

LeaveProof(c) ==
    /\ b3Call[c].pc = "leaving"
    /\ b3Call' = [b3Call EXCEPT ![c] = IdleProofCall]
    /\ b3Tail' = LeaveTail(b3Tail, b3Call[c].id, c)
    /\ b3Prev' = LeavePrev(b3Prev, c)
    /\ UNCHANGED <<b3Now, b3Last, b3Verifier, b3State, b3Tomb, b3Reserved, b3Asks, b3Bound>>

B3CallStep(c) ==
    \/ PrepareRetention(c)
    \/ ReleaseReservation(c)
    \/ LeaveProof(c)
    \/ \E r \in ProofResults : ProofAnswered(c, r)

B3Next ==
    \/ \E c \in Calls, p \in Proofs, q \in ProofRequests : AskProof(c, p, q)
    \/ \E c \in Calls : B3CallStep(c)
    \/ CleanupProofs
    \/ MoveProofClock
---------------------------------------------------------------------------
ProofCallsOn(p) == {c \in Calls : b3Call[c].pc # "idle" /\ b3Call[c].id = p}

ProofCallsAt(p, pcs) == {c \in ProofCallsOn(p) : b3Call[c].pc \in pcs}

B3TypeOK ==
    /\ b3Now \in -1..MaxProofTime /\ b3Last \in -1..MaxProofTime
    /\ b3Verifier \in Backends \cup {NoIdentity}
    /\ \A p \in KeptProofs : b3State[p].at \in 0..MaxProofTime /\ b3State[p].backend \in Backends
    /\ \A p \in Tombs : b3Tomb[p].at \in 0..MaxProofTime /\ b3Tomb[p].expiresAt \in Nat
    /\ b3Reserved \subseteq Proofs
    /\ \A c \in Calls :
         b3Call[c] # IdleProofCall =>
            /\ b3Call[c].pc \in {"queued", "verifying", "releasing", "leaving"}
            /\ b3Call[c].id \in Proofs /\ b3Call[c].request \in ProofRequests
    /\ b3Tail \in [Proofs -> Calls \cup {NoCall}]
    /\ b3Prev \in [Calls -> Calls \cup {NoCall}]
    /\ b3Asks \in 0..MaxProofAsks

(* A retained proof carries the answer of an authorized verifier to the      *)
(* request it is retained for, and a caller is told "verified" only of a      *)
(* proof that is retained for the request it made.                           *)
B3EvidenceSound ==
    /\ \A p \in KeptProofs :
         LET r == b3State[p].result
         IN  /\ r.digest = b3State[p].digest /\ r.status = "valid" /\ r.failure = "none"
             /\ r.backend = b3Verifier /\ r.backend \in Authoritative /\ r.provenance = "production"
             /\ b3State[p].height \in 0..MaxHeight
             /\ \E q \in ProofRequests :
                   WellFormedRequest(q) /\ SameRequest(b3State[p], q)
    /\ \A c \in Calls :
         b3Call[c].pc = "leaving" /\ b3Call[c].verified =>
            b3Call[c].id \in KeptProofs /\ SameRequest(b3State[b3Call[c].id], b3Call[c].request)

(* A place is reserved exactly while the call that reserved it is between    *)
(* its reservation and its commit or release, and nothing is retained yet.   *)
B3ReservationsHeld ==
    b3Reserved = {p \in Proofs : ProofCallsAt(p, {"verifying", "releasing"}) # {}}

B3CapacityHeld ==
    /\ Cardinality(KeptProofs \cup b3Reserved) <= MaxRetained
    /\ KeptProofs \cap b3Reserved = {}
    /\ Cardinality(Tombs) <= MaxTombstones
    /\ KeptProofs \cap Tombs = {}

B3LineSound ==
    LineSound(b3Tail, b3Prev, [p \in Proofs |-> ProofCallsOn(p)],
              [p \in Proofs |-> ProofCallsOn(p) \ ProofCallsAt(p, {"queued"})])

(* An identifier is given to another request only when the retention of its  *)
(* proof and then that of its tombstone have passed.                         *)
B3IdentityHeld ==
    \A p \in Proofs :
        b3Bound[p] # Absent /\ b3Bound'[p].digest # b3Bound[p].digest =>
            b3Bound'[p].at >= b3Bound[p].at + ProofTtl + TombstoneTtl

(* A retained proof becomes a tombstone of its own, when its retention has   *)
(* passed and nobody waits for it.                                           *)
B3EvictionSafe ==
    \A p \in KeptProofs :
        b3State'[p] # b3State[p] =>
            /\ b3State'[p] = Absent
            /\ ProofCallsOn(p) = {}
            /\ b3Now >= b3State[p].at + ProofTtl
            /\ b3Tomb'[p].digest = b3State[p].digest /\ b3Tomb'[p].expiresAt >= b3Now + TombstoneTtl
=============================================================================
