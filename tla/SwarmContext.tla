------------------------------ MODULE SwarmContext ------------------------------
(***************************************************************************)
(* Context snapshots and handovers (scripts/agent-coordination.ts): context   *)
(* entries are packaged under an allowlist, snapshots are merged later and     *)
(* elsewhere, a snapshot is handed over with the work, and whoever takes it    *)
(* up asks whether it can still be resumed.  Entries grow stale and expire    *)
(* between any two of these steps.                                           *)
(*                                                                           *)
(* Digests are taken to tell documents apart: whatever was changed on the     *)
(* way is refused, so only what these steps made exists.  Keys are numbered    *)
(* in their order; identifiers too, and stand for the digests that break ties.*)
(***************************************************************************)
EXTENDS Integers, FiniteSetsExt

CONSTANTS
    ContextEntries,   \* [id, key, token, precedence, captured, stale, expires]; 0: no such time
    ContextPackages,  \* the sets of entries to package
    Allowed,          \* the tokens of the sources on the allowlist
    RequiredTokens,   \* the sets of required tokens a package may name
    MaxItems,
    Lifetimes,        \* how long a handover may be valid
    MaxSnapshots, MaxContextTime

ASSUME SwarmContextAssumption ==
    /\ MaxItems \in Nat /\ MaxSnapshots \in Nat /\ MaxContextTime \in Nat
    /\ Lifetimes \subseteq Nat \ {0}
    /\ \A e \in ContextEntries :
        /\ e.id \in Nat /\ e.key \in Nat /\ e.precedence \in Nat
        /\ e.captured \in Nat /\ e.stale \in Nat /\ e.expires \in Nat
    /\ \A d, e \in ContextEntries : d.id = e.id => d = e
    /\ \A inputs \in ContextPackages : inputs \subseteq ContextEntries /\ IsFiniteSet(inputs)

VARIABLES
    scNow,
    scSnapshots,    \* [inputs, entries, required, moments, evaluated]; inputs and
                    \* moments are history: what went in, and when it was resolved
    scHandover      \* [snapshot, expires, undecided], or NoHandover

scVars == <<scNow, scSnapshots, scHandover>>

NoHandover == [expires |-> 0]

ScInit == scNow = 0 /\ scSnapshots = {} /\ scHandover = NoHandover

---------------------------------------------------------------------------
ExpiredAt(e, now) == e.expires # 0 /\ e.expires <= now

StaleAt(e, now) == e.stale # 0 /\ e.stale <= now

(* What is current goes before what is preferred, and that before the newest.*)
EntryRank(e, now) ==
    <<IF ExpiredAt(e, now) THEN 0 ELSE 1, IF StaleAt(e, now) THEN 0 ELSE 1,
      e.precedence, e.captured, -e.id>>

Above(d, e, now) ==
    LET p == EntryRank(d, now)  q == EntryRank(e, now) IN
    \E i \in 1 .. 5 : p[i] > q[i] /\ \A j \in 1 .. i - 1 : p[j] = q[j]

(* One entry for each key.                                                   *)
Resolved(entries, now) ==
    {e \in entries : \A d \in entries : d.key = e.key => ~Above(d, e, now)}

For(token, entries) == {e \in entries : e.token = token}

(* Several entries of one source are told apart by their key: the status      *)
(* lists are made from the last and checked against the first.               *)
LastFor(token, entries) ==
    CHOOSE e \in For(token, entries) : \A d \in For(token, entries) : d.key <= e.key

FirstFor(token, entries) ==
    CHOOSE e \in For(token, entries) : \A d \in For(token, entries) : d.key >= e.key

Present(token, entries) == For(token, entries) # {}

ListsAgree(entries, required, now) ==
    \A t \in required : Present(t, entries) =>
        /\ StaleAt(FirstFor(t, entries), now) <=> StaleAt(LastFor(t, entries), now)
        /\ ExpiredAt(FirstFor(t, entries), now) <=> ExpiredAt(LastFor(t, entries), now)

Valid(s, now) ==
    \A t \in s.required :
        /\ Present(t, s.entries)
        /\ ~ExpiredAt(FirstFor(t, s.entries), now) /\ ~StaleAt(FirstFor(t, s.entries), now)

---------------------------------------------------------------------------
Keep(s) ==
    /\ Cardinality(scSnapshots) < MaxSnapshots
    /\ scSnapshots' = scSnapshots \cup {s}
    /\ UNCHANGED <<scNow, scHandover>>

(* An entry does not outlive its freshness before it begins, and its source is *)
(* on the allowlist.                                                         *)
Admitted(e) ==
    /\ e.stale = 0 \/ e.stale > e.captured
    /\ e.expires = 0 \/ e.expires > e.captured
    /\ e.token \in Allowed

(* Entries are captured before they are packaged.  What is required must be   *)
(* there and not expired, and not stale either unless that is allowed.       *)
PackageContext(inputs, required, allowStale) ==
    LET entries == Resolved(inputs, scNow) IN
    /\ \A e \in inputs : e.captured <= scNow /\ Admitted(e)
    /\ Cardinality(inputs) <= MaxItems
    /\ \A t \in required :
        /\ Present(t, entries)
        /\ ~ExpiredAt(LastFor(t, entries), scNow)
        /\ allowStale \/ ~StaleAt(LastFor(t, entries), scNow)
    /\ ListsAgree(entries, required, scNow)
    /\ Keep([inputs |-> inputs, entries |-> entries, required |-> required,
             moments |-> {scNow}, evaluated |-> scNow])

(* A merge fails for nothing that is missing, stale or expired: it says so.   *)
MergeSnapshots(r, s) ==
    LET entries == Resolved(r.entries \cup s.entries, scNow)
        required == r.required \cup s.required
    IN
    /\ Cardinality(entries) <= MaxItems
    /\ ListsAgree(entries, required, scNow)
    /\ Keep([inputs |-> r.inputs \cup s.inputs, entries |-> entries, required |-> required,
             moments |-> r.moments \cup s.moments \cup {scNow}, evaluated |-> scNow])

(* The context must be current when the handover is made.                    *)
CreateHandover(s, lifetime, undecided) ==
    /\ scHandover = NoHandover
    /\ Valid(s, scNow)
    /\ scHandover' = [snapshot |-> s, expires |-> scNow + lifetime, undecided |-> undecided]
    /\ UNCHANGED <<scNow, scSnapshots>>

Resumable ==
    /\ scHandover # NoHandover /\ scHandover.expires > scNow
    /\ Valid(scHandover.snapshot, scNow)
    /\ ~scHandover.undecided

(* The work is taken up: a handover that cannot be resumed stays as it is.    *)
Resume ==
    /\ Resumable
    /\ scHandover' = NoHandover
    /\ UNCHANGED <<scNow, scSnapshots>>

ScTick ==
    /\ scNow < MaxContextTime /\ scNow' = scNow + 1
    /\ UNCHANGED <<scSnapshots, scHandover>>

ScNext ==
    \/ \E inputs \in ContextPackages, required \in RequiredTokens, allowStale \in BOOLEAN :
        PackageContext(inputs, required, allowStale)
    \/ \E r, s \in scSnapshots : MergeSnapshots(r, s)
    \/ \E s \in scSnapshots, lifetime \in Lifetimes, undecided \in BOOLEAN :
        CreateHandover(s, lifetime, undecided)
    \/ Resume
    \/ ScTick

---------------------------------------------------------------------------
(* Every variable has its type. *)
ScTypeOK ==
    /\ scNow \in 0 .. MaxContextTime
    /\ \A s \in scSnapshots :
        /\ s.entries \subseteq ContextEntries /\ s.inputs \subseteq ContextEntries
        /\ s.evaluated \in 0 .. scNow
    /\ scHandover # NoHandover => scHandover.expires \in Nat \ {0}

Current(e, now) == ~ExpiredAt(e, now) /\ ~StaleAt(e, now)

(* Merges, however many, keep one entry for each key of all the inputs, all   *)
(* of allowed sources.  Made at one moment they are what one package of all   *)
(* the inputs is.  Made at several they may keep an entry that is outdated     *)
(* where an input was current, but only when that input had lost to one that  *)
(* was current as well and ranked above it (resolveEntries, lines 1979-1999). *)
ScSound ==
    \A s \in scSnapshots :
        /\ {e.key : e \in s.entries} = {e.key : e \in s.inputs}
        /\ \A w, x \in s.entries : w.key = x.key => w = x
        /\ \A w \in s.entries : w.token \in Allowed
        /\ Cardinality(s.moments) = 1 => s.entries = Resolved(s.inputs, s.evaluated)
        /\ \A w \in s.entries, e \in s.inputs :
            w.key = e.key /\ ~Current(w, s.evaluated) /\ Current(e, s.evaluated) =>
                \E now \in s.moments, d \in s.inputs :
                    d.key = e.key /\ Current(d, now) /\ Above(d, e, now)

(* Time only takes away: a handover that was not resumable never becomes so,  *)
(* and of a snapshot that was valid nothing is missing later.                *)
ScFinal ==
    /\ scHandover # NoHandover /\ scHandover' = scHandover => (Resumable' => Resumable)
    /\ \A s \in scSnapshots : s \in scSnapshots' /\ (Valid(s, scNow') => Valid(s, scNow))
=============================================================================
