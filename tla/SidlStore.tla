------------------------------- MODULE SidlStore -------------------------------
(***************************************************************************)
(* The SIDL state store (lib/sidl/stateStore.ts): one JSON file with the     *)
(* proposals, the votes and their tallies, and the checkouts of the cart     *)
(* mandates, changed by load, mutate and save.  The save writes a temporary  *)
(* file and renames it.  The write lock is a flag of the process, so within  *)
(* one process nothing comes between load and save, and between two          *)
(* processes anything does.  A process may die at any point.                 *)
(*                                                                           *)
(* The vote events are counted by what they say: nothing reads their order.   *)
(***************************************************************************)
EXTENDS Integers, Sequences, FiniteSets

CONSTANTS
    Proposals, SeedProposals,   \* DEFAULT_SIDL_PROPOSALS, and those voted on by name
    Mandates,                   \* DEFAULT_CART_MANDATES: no operation adds one
    WorkerSets,                    \* sets of processes that may share the file
    SidlRequests,               \* the requests to look at
    MaxRequests                 \* how many of them a behaviour has

VARIABLES
    siFile,      \* the state in the file, or Absent
    siWork,      \* what each process is doing
    siWorkers,   \* the processes there are
    siAcked,     \* history: the votes and settlements that were confirmed
    siRequests   \* history: how many requests there were

siVars == <<siFile, siWork, siWorkers, siAcked, siRequests>>

Processes == UNION WorkerSets

VoteChoices == {"yes", "no"}

Absent == [saved |-> FALSE]

Rest == [at |-> "rest"]

NoVotes == [c \in VoteChoices |-> 0]

VoteEvents == [proposal : Proposals, choice : VoteChoices, finite : BOOLEAN]

NotStarted == [status |-> "not-started", challenges |-> 0, attempts |-> 0, settled |-> 0,
               events |-> <<>>]

(* createDefaultState.                                                       *)
Seeded ==
    [saved |-> TRUE, proposals |-> SeedProposals, votes |-> [v \in VoteEvents |-> 0],
     tallies |-> [p \in SeedProposals |-> NoVotes],
     checkouts |-> [m \in Mandates |-> NotStarted]]

(* JSON writes a number that is not finite as null, and the parser of vote   *)
(* events drops an event whose fid is no number.  Of what the program itself *)
(* saved, nothing else is dropped or defaulted.                              *)
Hydrate(file) == [file EXCEPT !.votes = [v \in VoteEvents |-> IF v.finite THEN @[v] ELSE 0]]

EnsureProposal(state, p) ==
    IF p \in state.proposals THEN state
    ELSE [state EXCEPT !.proposals = @ \cup {p},
             !.tallies = [q \in state.proposals \cup {p} |-> IF q = p THEN NoVotes ELSE @[q]]]

---------------------------------------------------------------------------
(* The requests: a vote, a look at a tally, a checkout without a payment     *)
(* signature and one with it.  A malformed body or signature, and a mandate  *)
(* that is not there, change nothing.                                        *)
Requests ==
    [kind : {"vote"}, proposal : Proposals, choice : VoteChoices, finite : BOOLEAN]
    \cup [kind : {"tally"}, proposal : Proposals]
    \cup [kind : {"challenge", "pay"}, mandate : Mandates]

ASSUME SidlAssumption ==
    SeedProposals \subseteq Proposals /\ SidlRequests \subseteq Requests /\ MaxRequests \in Nat

RecordVote(state, r) ==
    LET ready == EnsureProposal(state, r.proposal) IN
    [ready EXCEPT !.tallies[r.proposal][r.choice] = @ + 1,
        !.votes[[proposal |-> r.proposal, choice |-> r.choice, finite |-> r.finite]] = @ + 1]

(* A challenge of a settled checkout reopens it.                             *)
RecordChallenge(state, r) ==
    LET k == state.checkouts[r.mandate] IN
    [state EXCEPT !.checkouts[r.mandate] =
        [k EXCEPT !.status = "payment-required", !.challenges = @ + 1,
            !.events = Append(@, "payment-required")]]

(* Any well-formed signature settles, however often it was seen before.      *)
RecordPayment(state, r) ==
    LET k == state.checkouts[r.mandate] IN
    [state EXCEPT !.checkouts[r.mandate] =
        [k EXCEPT !.status = "settled", !.attempts = @ + 1, !.settled = @ + 1,
            !.events = Append(Append(@, "payment-attempted"), "payment-settled")]]

Mutated(state, r) ==
    CASE r.kind = "vote" -> RecordVote(state, r)
      [] r.kind = "tally" -> EnsureProposal(state, r.proposal)
      [] r.kind = "challenge" -> RecordChallenge(state, r)
      [] r.kind = "pay" -> RecordPayment(state, r)

---------------------------------------------------------------------------
NothingAcked ==
    [votes |-> [p \in Proposals |-> NoVotes], settled |-> [m \in Mandates |-> 0]]

SidlInit ==
    /\ siFile = Absent
    /\ siWorkers \in WorkerSets
    /\ siWork = [p \in Processes |-> Rest]
    /\ siAcked = NothingAcked /\ siRequests = 0

WorkAt(p, at) == siWork[p].at = at

(* The file is read, or found missing: then the defaults are saved first.    *)
Load(p, r) ==
    /\ WorkAt(p, "rest") /\ p \in siWorkers /\ siRequests < MaxRequests
    /\ siWork' = [siWork EXCEPT ![p] =
          IF siFile = Absent THEN [at |-> "seed", request |-> r, state |-> Seeded]
          ELSE [at |-> "loaded", request |-> r, state |-> Hydrate(siFile)]]
    /\ siRequests' = siRequests + 1
    /\ UNCHANGED <<siFile, siWorkers, siAcked>>

SaveSeed(p) ==
    /\ WorkAt(p, "seed")
    /\ siFile' = siWork[p].state
    /\ siWork' = [siWork EXCEPT ![p].at = "loaded"]
    /\ UNCHANGED <<siWorkers, siAcked, siRequests>>

(* Looking at a tally saves only when it found the proposal unknown.         *)
Save(p) ==
    LET w == siWork[p] IN
    /\ WorkAt(p, "loaded")
    /\ siFile' = IF w.request.kind = "tally" /\ Mutated(w.state, w.request) = w.state THEN siFile
                 ELSE Mutated(w.state, w.request)
    /\ siWork' = [siWork EXCEPT ![p].at = "saved"]
    /\ UNCHANGED <<siWorkers, siAcked, siRequests>>

Acknowledge(p) ==
    LET r == siWork[p].request IN
    /\ WorkAt(p, "saved")
    /\ siAcked' = CASE r.kind = "vote" -> [siAcked EXCEPT !.votes[r.proposal][r.choice] = @ + 1]
                    [] r.kind = "pay" -> [siAcked EXCEPT !.settled[r.mandate] = @ + 1]
                    [] OTHER -> siAcked
    /\ siWork' = [siWork EXCEPT ![p] = Rest]
    /\ UNCHANGED <<siFile, siWorkers, siRequests>>

(* The process dies and is started again; a temporary file is never read.    *)
Die(p) ==
    /\ ~WorkAt(p, "rest")
    /\ siWork' = [siWork EXCEPT ![p] = Rest]
    /\ UNCHANGED <<siFile, siWorkers, siAcked, siRequests>>

SidlNext ==
    \E p \in Processes :
        \/ \E r \in SidlRequests : Load(p, r)
        \/ SaveSeed(p)
        \/ Save(p)
        \/ Acknowledge(p)
        \/ Die(p)

---------------------------------------------------------------------------
Saved == siFile # Absent

(* Every variable of the store has its type. *)
SidlTypeOK ==
    /\ Saved =>
        /\ SeedProposals \subseteq siFile.proposals /\ siFile.proposals \subseteq Proposals
        /\ siFile.tallies \in [siFile.proposals -> [VoteChoices -> Nat]]
        /\ siFile.votes \in [VoteEvents -> Nat]
        /\ DOMAIN siFile.checkouts = Mandates
    /\ \A p \in Processes : siWork[p].at \in {"rest", "seed", "loaded", "saved"}
    /\ siWorkers \in WorkerSets /\ siRequests \in 0 .. MaxRequests

VotesOf(state, p, c) ==
    state.votes[[proposal |-> p, choice |-> c, finite |-> TRUE]]
        + state.votes[[proposal |-> p, choice |-> c, finite |-> FALSE]]

Occurrences(events, event) == Cardinality({i \in DOMAIN events : events[i] = event})

StatusAfter(event) == IF event = "payment-settled" THEN "settled" ELSE event

TalliesExplained(state) ==
    /\ \A p \in state.proposals, c \in VoteChoices : state.tallies[p][c] >= VotesOf(state, p, c)
    /\ \A v \in VoteEvents : state.votes[v] > 0 => v.proposal \in state.proposals

CheckoutExplained(k) ==
    /\ k.challenges = Occurrences(k.events, "payment-required")
    /\ k.attempts = Occurrences(k.events, "payment-attempted")
    /\ k.settled = Occurrences(k.events, "payment-settled")
    /\ k.status = IF k.events = <<>> THEN "not-started" ELSE StatusAfter(k.events[Len(k.events)])

(* The tallies, and the status and counters of a checkout, are what the       *)
(* recorded events say, whichever process overwrote the file last.  A tally  *)
(* is more than its events only where a fid was not finite.                  *)
SidlTrailExplains ==
    Saved => TalliesExplained(siFile) /\ \A m \in Mandates : CheckoutExplained(siFile.checkouts[m])

(* One process: what was confirmed is in the file, whenever it died.  (The    *)
(* client that heard nothing may find its vote counted as well.)             *)
SidlAckedKept ==
    siWorkers \in {{p} : p \in Processes} /\ Saved =>
        /\ \A p \in Proposals, c \in VoteChoices :
            siAcked.votes[p][c] > 0 =>
                p \in siFile.proposals /\ siFile.tallies[p][c] >= siAcked.votes[p][c]
        /\ \A m \in Mandates : siFile.checkouts[m].settled >= siAcked.settled[m]

(* The file is never lost, and with one process no count ever goes back.     *)
SidlNothingLost ==
    Saved =>
        /\ siFile' # Absent
        /\ siWorkers \in {{p} : p \in Processes} =>
            /\ siFile.proposals \subseteq siFile'.proposals
            /\ \A p \in siFile.proposals, c \in VoteChoices :
                siFile'.tallies[p][c] >= siFile.tallies[p][c]
            /\ \A m \in Mandates : siFile'.checkouts[m].settled >= siFile.checkouts[m].settled
=============================================================================
