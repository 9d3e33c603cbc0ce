------------------------------ MODULE SwarmResults ------------------------------
(***************************************************************************)
(* Task graphs, and what becomes of the results agents send for their tasks  *)
(* (scripts/agent-coordination.ts): validation of the graph, deduplication    *)
(* of envelopes and results, aggregation.  The library is pure; its caller    *)
(* collects what a network delivers late, twice or in another order, and      *)
(* aggregates what it has.  The code sorts whatever it groups, so deliveries  *)
(* are a set.                                                                *)
(***************************************************************************)
EXTENDS Integers, FiniteSetsExt

CONSTANTS
    TaskGraphs,      \* [id, root, nodes, limits]: candidates, valid or not
    SwarmResultSet,  \* [graph, task, attempt, status, answer, error, digest]
    DeliveryIds,     \* result identifiers: one result may be sent under several
    IdempotencyKeys,
    MaxDeliveries

ASSUME SwarmResultsAssumption ==
    /\ DeliveryIds \subseteq Int /\ MaxDeliveries \in Nat
    /\ \A g \in TaskGraphs : g.limits.depth \in Nat
    /\ \A r \in SwarmResultSet : r.attempt \in Nat /\ r.error \in BOOLEAN /\ r.digest \in BOOLEAN

VARIABLES
    swGraph,        \* the graph that is worked on
    swDelivered,    \* the deliveries so far: [key, id, result]
    swCancelled     \* has the coordinator a reason to cancel?

swVars == <<swGraph, swDelivered, swCancelled>>

ResultStatuses == {"SUCCEEDED", "FAILED", "BLOCKED", "CANCELLED", "EXPIRED"}

---------------------------------------------------------------------------
(* The task graph.                                                           *)
Tasks(g) == DOMAIN g.nodes

(* The topological order has every task when each can be given a depth above   *)
(* the depths of what it depends on; the least such depths are those the code   *)
(* gives, and holds against the limit.                                      *)
Depths(g) ==
    {depth \in [Tasks(g) -> 1 .. g.limits.depth] :
        \A t \in Tasks(g) : \A d \in g.nodes[t].dependsOn : depth[d] < depth[t]}

Retries(g) ==
    LET Extra(t) == g.nodes[t].attempts - 1 IN MapThenSumSet(Extra, Tasks(g))

ValidGraph(g) ==
    /\ Cardinality(Tasks(g)) \in 1 .. g.limits.nodes
    /\ \A t \in Tasks(g) :
        /\ g.nodes[t].dependsOn \subseteq Tasks(g) \ {t}
        /\ g.nodes[t].timeout <= g.limits.timeout
    /\ g.root \in Tasks(g)
    /\ Retries(g) <= g.limits.retries
    /\ Depths(g) # {}

---------------------------------------------------------------------------
(* Results.                                                                  *)
ValidResult(r) ==
    /\ r.status \in ResultStatuses /\ r.attempt \in 1 .. 64
    /\ r.digest
    /\ r.error <=> r.status # "SUCCEEDED"

Fits(r, g) ==
    r.task \in Tasks(g) /\ r.graph = g.id /\ r.attempt <= g.nodes[r.task].attempts

(* Two envelopes under one key are one message when their payloads, result   *)
(* identifier included, are the same; otherwise neither is used.             *)
UniqueEnvelopes(delivered) ==
    {d \in delivered : \A e \in delivered : e.key = d.key => e = d}

EnvelopeConflicts(delivered) ==
    {d.key : d \in {d \in delivered : \E e \in delivered : e.key = d.key /\ e # d}}

ReplayKey(r) == <<r.graph, r.task, r.attempt>>

(* One delivery of each result that is the same up to its identifier.        *)
UniqueResults(delivered) == {d.result : d \in delivered}

ResultConflicts(delivered) ==
    LET unique == UniqueResults(delivered)
    IN {ReplayKey(r) : r \in {r \in unique : \E s \in unique : ReplayKey(s) = ReplayKey(r) /\ s # r}}

---------------------------------------------------------------------------
(* Aggregation: the tasks in topological order, each judged by its results    *)
(* and by the states of what it depends on.                                  *)
ResultsOf(t) == {r \in UniqueResults(swDelivered) : r.task = t}

InConflict(t) == \E k \in ResultConflicts(swDelivered) : k[2] = t

Earliest(results) == CHOOSE r \in results : \A s \in results : r.attempt <= s.attempt

Successes(results) == {r \in results : r.status = "SUCCEEDED"}

\* Mutant: the last attempt counts.
SelectedLast(results) == CHOOSE r \in results : \A s \in results : r.attempt >= s.attempt

Selected(results) ==
    IF Successes(results) # {} THEN Earliest(Successes(results)) ELSE Earliest(results)

Judged(t, states) ==
    IF InConflict(t) THEN "CONFLICT"
    ELSE IF \E d \in swGraph.nodes[t].dependsOn : states[d] # "SUCCEEDED" THEN "BLOCKED"
    ELSE IF ResultsOf(t) = {} THEN "PENDING"
    ELSE Selected(ResultsOf(t)).status

(* The order is topological: a task is judged after what it depends on.       *)
TaskStates == LET states[t \in Tasks(swGraph)] == Judged(t, states) IN states

Required == {t \in Tasks(swGraph) : swGraph.nodes[t].required}

Optional == Tasks(swGraph) \ Required

Some(tasks, states, which) == \E t \in tasks : states[t] \in which

Status(states) ==
    IF ResultConflicts(swDelivered) # {} THEN "CONFLICT"
    ELSE IF swCancelled \/ Some(Tasks(swGraph), states, {"CANCELLED"}) THEN "CANCELLED"
    ELSE IF Some(Required, states, {"FAILED", "EXPIRED"}) THEN "FAILED"
    ELSE IF Some(Required, states, {"BLOCKED", "PENDING"}) THEN "BLOCKED"
    ELSE IF \A t \in Optional : states[t] = "SUCCEEDED" THEN "COMPLETE" ELSE "PARTIAL"

(* A result of another graph, of an unknown task or of an attempt too many    *)
(* makes every aggregation throw.                                            *)
AggregateRefused == \E d \in swDelivered : ~Fits(d.result, swGraph)

NoReport == [status |-> "REFUSED", states |-> <<>>]

Aggregate ==
    IF AggregateRefused THEN NoReport ELSE [status |-> Status(TaskStates), states |-> TaskStates]

---------------------------------------------------------------------------
SwInit ==
    /\ swGraph \in {g \in TaskGraphs : ValidGraph(g)}
    /\ swDelivered = {} /\ swCancelled = FALSE

(* An invalid result does not come through the validation of its envelope.   *)
Receive(delivery) ==
    /\ Cardinality(swDelivered) < MaxDeliveries
    /\ ValidResult(delivery.result)
    /\ swDelivered' = swDelivered \cup {delivery}
    /\ UNCHANGED <<swGraph, swCancelled>>

Cancel ==
    /\ ~swCancelled
    /\ swCancelled' = TRUE
    /\ UNCHANGED <<swGraph, swDelivered>>

Deliveries == [key : IdempotencyKeys, id : DeliveryIds, result : SwarmResultSet]

SwNext == (\E delivery \in Deliveries : Receive(delivery)) \/ Cancel

---------------------------------------------------------------------------
(* Every variable has its type. *)
SwTypeOK ==
    swGraph \in TaskGraphs /\ swDelivered \subseteq Deliveries /\ swCancelled \in BOOLEAN

(* The sets of tasks with all that their tasks depend on.                     *)
Rested == {tasks \in SUBSET Tasks(swGraph) : \A t \in tasks : swGraph.nodes[t].dependsOn \subseteq tasks}

(* What a task rests on, itself included, whatever the order of the nodes.   *)
Below(t) == {u \in Tasks(swGraph) : \A tasks \in Rested : t \in tasks => u \in tasks}

Answers(t) == {d.result : d \in {d \in swDelivered : d.result.task = t}}

Done(t) ==
    \A u \in Below(t) :
        /\ \E r \in Answers(u) : r.status = "SUCCEEDED"
        /\ \A r, s \in Answers(u) : r.attempt = s.attempt => r = s

(* The report is what the results say and no more: a task is reported        *)
(* SUCCEEDED exactly when it and all it rests on, however deep, have a        *)
(* successful result and none in conflict; COMPLETE and PARTIAL follow       *)
(* (aggregateResults, lines 2283-2325).                                      *)
SwSound ==
    Aggregate.status # "REFUSED" =>
        /\ \A t \in Tasks(swGraph) : Aggregate.states[t] = "SUCCEEDED" <=> Done(t)
        /\ Aggregate.status = "COMPLETE" <=> ~swCancelled /\ \A t \in Tasks(swGraph) : Done(t)
        /\ Aggregate.status = "PARTIAL" => \A t \in Required : Done(t)
        /\ Aggregate.status = "FAILED" =>
            \E t \in Required : Answers(t) # {} /\ ~Done(t)

(* What arrives late changes nothing for the worse but by a conflict: a task  *)
(* that succeeded stays so unless it or what it rests on is in conflict, and  *)
(* a conflict, a cancellation and a refusal last.  An envelope that was used  *)
(* stays so unless its key is found in conflict.                             *)
SwFinal ==
    /\ UniqueEnvelopes(swDelivered) \subseteq
        UniqueEnvelopes(swDelivered') \cup {d \in swDelivered : d.key \in EnvelopeConflicts(swDelivered')}
    /\ EnvelopeConflicts(swDelivered) \subseteq EnvelopeConflicts(swDelivered')
    /\ Aggregate.status = "REFUSED" => Aggregate'.status = "REFUSED"
    /\ Aggregate.status = "CONFLICT" => Aggregate'.status \in {"CONFLICT", "REFUSED"}
    /\ Aggregate.status = "CANCELLED" /\ swCancelled => Aggregate'.status # "COMPLETE"
    /\ Aggregate.status # "REFUSED" /\ Aggregate'.status # "REFUSED" =>
        \A t \in Tasks(swGraph) : Aggregate.states[t] = "SUCCEEDED" =>
            Aggregate'.states[t] = "SUCCEEDED" \/ \E u \in Below(t) : InConflict(u)'
=============================================================================
