----------------------------- MODULE MuSig2Sessions -----------------------------
(***************************************************************************)
(* The MuSig2 engine: signing sessions that collect one public nonce of       *)
(* every participant, then partial signatures until as many have come as       *)
(* there are participants.  A nonce or a signature of the right length that     *)
(* is not hexadecimal is kept, and makes the aggregation throw after that.     *)
(***************************************************************************)
EXTENDS EngineBounds, Sequences

CONSTANTS
    Signatories,        \* identifiers of participants, and of others
    SessionMembers,     \* sequences of participants that callers open a session with
    SessionTtl,         \* MUSIG2_SESSION_TTL_MS
    NonceValues, PartialValues, Malformed       \* Malformed is of the right length only

ASSUME MuSig2Assumption ==
    /\ SessionMembers \subseteq Seq(Signatories)
    /\ Malformed \in NonceValues \cap PartialValues

VARIABLES muSessions, muNow

muVars == <<muSessions, muNow>>

MuInit == muSessions = [s \in EngineIds |-> Nothing] /\ muNow = 0

IsExpiredSession(s) == muSessions[s] # Nothing /\ muNow - muSessions[s].created > SessionTtl

WithoutExpired(gone) == [s \in EngineIds |-> IF s \in gone /\ IsExpiredSession(s) THEN Nothing ELSE muSessions[s]]

(* Expired sessions are purged before anything is looked at, also by a call  *)
(* that is then refused.  A session may name a participant twice.            *)
CreateSession(s, members, hash) ==
    LET kept == WithoutExpired(EngineIds) IN
    /\ muSessions' =
        IF HasRoom(kept) /\ kept[s] = Nothing /\ Len(members) >= 2 /\ hash # "short"
        THEN [kept EXCEPT ![s] =
                [state |-> "nonce_exchange", members |-> members, hash |-> hash, created |-> muNow,
                 nonces |-> <<>>, aggregate |-> <<>>, partials |-> <<>>, final |-> FALSE]]
        ELSE kept
    /\ UNCHANGED muNow

(* Every access finds an expired session gone, and removes it.               *)
AccessExpired(s) ==
    /\ IsExpiredSession(s)
    /\ muSessions' = WithoutExpired({s})
    /\ UNCHANGED muNow

PurgeExpiredSessions == muSessions' = WithoutExpired(EngineIds) /\ UNCHANGED muNow

Accepts(s, state) == InState(muSessions, s, {state}) /\ ~IsExpiredSession(s)

Put(f, p, value) == [x \in DOMAIN f \cup {p} |-> IF x = p THEN value ELSE f[x]]

Complete(r, f) == Cardinality(DOMAIN f) = Len(r.members)

AllWellFormed(f) == \A p \in DOMAIN f : f[p] # Malformed

(* A participant may replace its nonce as long as one is missing.            *)
SubmitPublicNonce(s, p, nonce) ==
    LET r == muSessions[s]  nonces == Put(r.nonces, p, nonce) IN
    /\ Accepts(s, "nonce_exchange")
    /\ \E i \in DOMAIN r.members : r.members[i] = p
    /\ muSessions' = [muSessions EXCEPT ![s] =
        IF Complete(r, nonces) /\ AllWellFormed(nonces) /\ r.hash # Malformed
        THEN [r EXCEPT !.nonces = nonces, !.aggregate = nonces, !.state = "signing"]
        ELSE [r EXCEPT !.nonces = nonces]]
    /\ UNCHANGED muNow

(* Anybody's signature is taken; they are complete when they are exactly as   *)
(* many as the participants.                                                *)
SubmitPartialSignature(s, p, partial) ==
    LET r == muSessions[s]  partials == Put(r.partials, p, partial) IN
    /\ Accepts(s, "signing")
    /\ muSessions' = [muSessions EXCEPT ![s] =
        IF Complete(r, partials) /\ AllWellFormed(partials)
        THEN [r EXCEPT !.partials = partials, !.final = TRUE, !.state = "completed"]
        ELSE [r EXCEPT !.partials = partials]]
    /\ UNCHANGED muNow

MuTick == muNow < MaxEngineTime /\ muNow' = muNow + 1 /\ UNCHANGED muSessions

MuNext ==
    \/ \E s \in EngineIds :
        \/ \E members \in SessionMembers, hash \in {"short", "hash", Malformed} :
            CreateSession(s, members, hash)
        \/ AccessExpired(s)
        \/ \E p \in Signatories :
            \/ \E nonce \in NonceValues : SubmitPublicNonce(s, p, nonce)
            \/ \E partial \in PartialValues : SubmitPartialSignature(s, p, partial)
    \/ PurgeExpiredSessions \/ MuTick

---------------------------------------------------------------------------
MuTypeOK ==
    /\ muNow \in Moments
    /\ \A s \in Stored(muSessions) : LET r == muSessions[s] IN
        /\ r.state \in {"nonce_exchange", "signing", "completed"}
        /\ r.members \in SessionMembers /\ r.created \in Moments /\ r.final \in BOOLEAN
        /\ DOMAIN r.nonces \subseteq Signatories /\ DOMAIN r.partials \subseteq Signatories

(* Signing rests on one well-formed nonce of every participant, those that     *)
(* were aggregated, and on nobody else's; a completed session has as many      *)
(* well-formed signatures as participants, and no other session a final one.   *)
MuSound ==
    \A s \in Stored(muSessions) : LET r == muSessions[s]
                                      named == {r.members[i] : i \in DOMAIN r.members} IN
        /\ DOMAIN r.nonces \subseteq named
        /\ r.state = "nonce_exchange" => r.aggregate = <<>> /\ r.partials = <<>>
        /\ r.state # "nonce_exchange" =>
            /\ DOMAIN r.nonces = named /\ r.aggregate = r.nonces
            /\ Len(r.members) = Cardinality(named)
            /\ \A p \in named : r.nonces[p] # Malformed
        /\ r.final <=> r.state = "completed"
        /\ r.final =>
            Cardinality(DOMAIN r.partials) = Len(r.members) /\ \A p \in DOMAIN r.partials : r.partials[p] # Malformed

(* Whom a session asks and what it aggregated are fixed; a completed session   *)
(* does not change; none is dropped, or its identifier used again, before it    *)
(* has expired.                                                             *)
MuFinal ==
    \A s \in Stored(muSessions) : LET r == muSessions[s]  q == muSessions'[s] IN
        \/ IsExpiredSession(s)
        \/ /\ q # Nothing /\ q.members = r.members /\ q.hash = r.hash
           /\ r.state # "nonce_exchange" => q.nonces = r.nonces /\ q.aggregate = r.aggregate
           /\ r.final => q = r
=============================================================================
