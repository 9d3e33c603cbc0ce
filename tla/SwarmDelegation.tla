----------------------------- MODULE SwarmDelegation -----------------------------
(***************************************************************************)
(* A task given to an agent (scripts/agent-coordination.ts): the candidates   *)
(* whose capabilities match, then the lifecycle of the task as the agent's     *)
(* envelopes report it.  The network loses, repeats and reorders envelopes;    *)
(* each has an expiry and its authentication one of its own, and the agent     *)
(* may report the same state again in a fresh one.  A version is a sequence    *)
(* of three numbers.  Agents are numbered in the order of their identifiers.   *)
(***************************************************************************)
EXTENDS Integers, FiniteSets

CONSTANTS
    AgentOffers,       \* [agent -> [priority, offers: [capability -> [version, traits]]]]
    TaskRequirements,  \* sets of [capability, ranges, traits]
    EnvelopeTtl, AuthenticationTtl,
    MaxSequence, MaxDelegationTime

ASSUME SwarmDelegationAssumption ==
    /\ EnvelopeTtl \in Nat /\ AuthenticationTtl \in Nat
    /\ MaxSequence \in Nat /\ MaxDelegationTime \in Nat
    /\ DOMAIN AgentOffers \subseteq Nat
    /\ \A a \in DOMAIN AgentOffers : \A c \in DOMAIN AgentOffers[a].offers :
        AgentOffers[a].offers[c].version \in Nat \X Nat \X Nat
    /\ \A task \in TaskRequirements : \A q \in task : \A range \in q.ranges :
        range.op # "*" => range.version \in Nat \X Nat \X Nat

VARIABLES
    sdRequirements,   \* what the task asks for
    sdAgent,          \* the agent it was given to, or NoAgent
    sdReported,       \* [state, sequence]: what the agent is at
    sdSent,           \* the envelopes it ever sent
    sdKnown,          \* [state, sequence]: what the coordinator has accepted
    sdNow

sdVars == <<sdRequirements, sdAgent, sdReported, sdSent, sdKnown, sdNow>>

NoAgent == -1

Proposed == [state |-> "PROPOSED", sequence |-> 0]

SdInit ==
    /\ sdRequirements \in TaskRequirements
    /\ sdAgent = NoAgent /\ sdSent = {}
    /\ sdReported = Proposed /\ sdKnown = Proposed /\ sdNow = 0

---------------------------------------------------------------------------
(* Versions and ranges.                                                      *)
AtLeast(v, w) ==
    \/ v[1] > w[1]
    \/ v[1] = w[1] /\ v[2] > w[2]
    \/ v[1] = w[1] /\ v[2] = w[2] /\ v[3] >= w[3]

CaretCeiling(v) ==
    IF v[1] > 0 THEN <<v[1] + 1, 0, 0>>
    ELSE IF v[2] > 0 THEN <<0, v[2] + 1, 0>>
    ELSE <<0, 0, v[3] + 1>>

TildeCeiling(v) == <<v[1], v[2] + 1, 0>>

Satisfies(v, range) ==
    CASE range.op = "*" -> TRUE
      [] range.op = "=" -> v = range.version
      [] range.op = ">" -> ~AtLeast(range.version, v)
      [] range.op = ">=" -> AtLeast(v, range.version)
      [] range.op = "<" -> ~AtLeast(v, range.version)
      [] range.op = "<=" -> AtLeast(range.version, v)
      [] range.op = "^" -> AtLeast(v, range.version) /\ ~AtLeast(v, CaretCeiling(range.version))
      [] range.op = "~" -> AtLeast(v, range.version) /\ ~AtLeast(v, TildeCeiling(range.version))

(* A requirement has several ranges, all of which must hold.                 *)
Meets(agent, q) ==
    LET offers == AgentOffers[agent].offers IN
    /\ q.capability \in DOMAIN offers
    /\ \A range \in q.ranges : Satisfies(offers[q.capability].version, range)
    /\ q.traits \subseteq offers[q.capability].traits

Met(agent) == {q \in sdRequirements : Meets(agent, q)}

ExactlyMet(agent) ==
    {q \in Met(agent) : q.ranges = {[op |-> "=", version |-> AgentOffers[agent].offers[q.capability].version]}}

CandidateRank(agent) ==
    <<Cardinality(Met(agent)), Cardinality(ExactlyMet(agent)), -AgentOffers[agent].priority, -agent>>

Before(a, b) ==
    \E i \in 1 .. 4 :
        /\ CandidateRank(a)[i] > CandidateRank(b)[i]
        /\ \A j \in 1 .. i - 1 : CandidateRank(a)[j] = CandidateRank(b)[j]

SelectedCandidates == {a \in DOMAIN AgentOffers : Met(a) = sdRequirements}

(* The caller gives the task to the first candidate, if there is one.        *)
Delegate(a) ==
    /\ sdAgent = NoAgent
    /\ a \in SelectedCandidates /\ \A b \in DOMAIN AgentOffers \ {a} : Before(a, b)
    /\ sdAgent' = a
    /\ UNCHANGED <<sdRequirements, sdReported, sdSent, sdKnown, sdNow>>

---------------------------------------------------------------------------
LifecycleStates ==
    {"PROPOSED", "ACCEPTED", "STARTED", "COMPLETED", "FAILED", "BLOCKED", "CANCELLED", "REJECTED",
     "EXPIRED"}

Successors ==
    [s \in LifecycleStates |->
        CASE s = "PROPOSED" -> {"ACCEPTED", "REJECTED", "EXPIRED"}
          [] s = "ACCEPTED" -> {"STARTED", "CANCELLED", "EXPIRED"}
          [] s = "STARTED" -> {"COMPLETED", "FAILED", "BLOCKED", "CANCELLED", "EXPIRED"}
          [] s = "BLOCKED" -> {"STARTED"}
          [] OTHER -> {}]

ValidTransition(from, to) ==
    to.state \in Successors[from.state] /\ to.sequence = from.sequence + 1

Envelope(report) ==
    [report |-> report, expires |-> sdNow + EnvelopeTtl, verified |-> sdNow + AuthenticationTtl]

ReportLifecycle(to) ==
    LET next == [state |-> to, sequence |-> sdReported.sequence + 1] IN
    /\ sdAgent # NoAgent /\ sdReported.sequence < MaxSequence
    /\ ValidTransition(sdReported, next)
    /\ sdReported' = next
    /\ sdSent' = sdSent \cup {Envelope(next)}
    /\ UNCHANGED <<sdRequirements, sdAgent, sdKnown, sdNow>>

(* The last report once more, with a new expiry.                             *)
ReportAgain ==
    /\ sdReported # Proposed
    /\ sdSent' = sdSent \cup {Envelope(sdReported)}
    /\ UNCHANGED <<sdRequirements, sdAgent, sdReported, sdKnown, sdNow>>

ValidEnvelope(m) == m.expires > sdNow /\ m.verified > sdNow

(* Any envelope ever sent may arrive, now or later, again or never.          *)
Accept(m) ==
    /\ ValidEnvelope(m)
    /\ ValidTransition(sdKnown, m.report)
    /\ sdKnown' = m.report
    /\ UNCHANGED <<sdRequirements, sdAgent, sdReported, sdSent, sdNow>>

SdTick ==
    /\ sdNow < MaxDelegationTime /\ sdNow' = sdNow + 1
    /\ UNCHANGED <<sdRequirements, sdAgent, sdReported, sdSent, sdKnown>>

SdNext ==
    \/ \E a \in DOMAIN AgentOffers : Delegate(a)
    \/ \E to \in LifecycleStates : ReportLifecycle(to)
    \/ ReportAgain
    \/ \E m \in sdSent : Accept(m)
    \/ SdTick

---------------------------------------------------------------------------
Reports == [state : LifecycleStates, sequence : 0 .. MaxSequence]

(* Every variable has its type. *)
SdTypeOK ==
    /\ sdRequirements \in TaskRequirements
    /\ sdAgent \in DOMAIN AgentOffers \cup {NoAgent}
    /\ sdReported \in Reports /\ sdKnown \in Reports
    /\ \A m \in sdSent : m.report \in Reports
    /\ sdNow \in 0 .. MaxDelegationTime

Compatible(v, range) ==
    range.op = "^" =>
        LET leading == CHOOSE i \in 1 .. 3 :
                /\ range.version[i] > 0 \/ i = 3
                /\ \A j \in 1 .. i - 1 : range.version[j] = 0
        IN \A i \in 1 .. leading : v[i] = range.version[i]

(* The coordinator knows what the agent was at, however envelopes were lost,   *)
(* repeated, reordered or late: each report it took, the agent made, and it    *)
(* agrees with the agent when it knows the agent's last.  The agent at work    *)
(* offers, for every "^" range, what agrees in the first number that is not 0.*)
SdSound ==
    /\ sdKnown = Proposed \/ \E m \in sdSent : m.report = sdKnown
    /\ sdKnown.sequence <= sdReported.sequence
    /\ sdKnown.sequence = sdReported.sequence => sdKnown = sdReported
    /\ sdAgent # NoAgent => \A q \in sdRequirements, range \in UNION {r.ranges : r \in sdRequirements} :
        range \in q.ranges => Compatible(AgentOffers[sdAgent].offers[q.capability].version, range)

Terminal == {s \in LifecycleStates : Successors[s] = {}}

(* What is over stays over on both sides, and the coordinator skips no report.*)
SdFinal ==
    /\ sdKnown.state \in Terminal => sdKnown' = sdKnown
    /\ sdReported.state \in Terminal => sdReported' = sdReported
    /\ sdKnown' = sdKnown \/ sdKnown'.sequence = sdKnown.sequence + 1
    /\ sdAgent # NoAgent => sdAgent' = sdAgent
=============================================================================
