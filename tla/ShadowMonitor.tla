------------------------------ MODULE ShadowMonitor ------------------------------
(***************************************************************************)
(* The shadow monitor of the rollups: one poller per adapter asks for the       *)
(* latest block, and emits an event for a block whose number it has not seen,  *)
(* then one for each of its transactions, which it asks the first adapter of    *)
(* the same rollup for.  Two adapters of one rollup share the numbers seen.    *)
(* The chain may move between two calls, also to another block of the same      *)
(* number.  A block that cannot be fetched changes nothing and is no step.     *)
(***************************************************************************)
EXTENDS Integers, Sequences, FiniteSets

CONSTANTS
    Adapters,           \* pollers, all of one rollup
    ShadowBlocks,       \* [number, fork, txs] of the blocks the rollup may show
    MaxShadowPolls,     \* bound on the blocks fetched in one behaviour
    MaxStarts           \* bound on the starts of the monitor

ASSUME ShadowAssumption ==
    /\ \A b \in ShadowBlocks : b.number \in Nat /\ b.txs \in Nat
    /\ MaxShadowPolls \in Nat /\ MaxStarts \in Nat

VARIABLES
    shChain,        \* what get_block("latest") answers now
    shSeen,         \* _seen_blocks of the rollup
    shQueue,        \* _queue
    shTaken,        \* history: the events the consumer got, in order
    shPoll,         \* per poller, what it does next
    shRunning,      \* _running
    shPolls, shStarts,
    shCut           \* history: numbers whose transactions a failure or a stop cut off

shVars == <<shChain, shSeen, shQueue, shTaken, shPoll, shRunning, shPolls, shStarts, shCut>>

ShInit ==
    /\ shChain \in ShadowBlocks
    /\ shSeen = {} /\ shQueue = <<>> /\ shTaken = <<>>
    /\ shPoll = [a \in Adapters |-> <<>>]
    /\ shRunning = FALSE /\ shPolls = 0 /\ shStarts = 0 /\ shCut = {}

MoveRollup ==
    /\ shChain' \in ShadowBlocks
    /\ UNCHANGED <<shSeen, shQueue, shTaken, shPoll, shRunning, shPolls, shStarts, shCut>>

(* What was seen before the monitor was stopped stays seen.                  *)
StartMonitor ==
    /\ ~shRunning /\ shStarts < MaxStarts
    /\ shRunning' = TRUE /\ shStarts' = shStarts + 1
    /\ shPoll' = [a \in Adapters |-> <<"block">>]
    /\ UNCHANGED <<shChain, shSeen, shQueue, shTaken, shPolls, shCut>>

(* Every poller is cancelled where it awaits; the queue is left as it is.     *)
StopMonitor ==
    /\ shRunning
    /\ shRunning' = FALSE
    /\ shPoll' = [a \in Adapters |-> <<>>]
    /\ shCut' = shCut \cup {n \in shSeen : <<"transactions", n>> \in {shPoll[a] : a \in Adapters}}
    /\ UNCHANGED <<shChain, shSeen, shQueue, shTaken, shPolls, shStarts>>

IsNew(b) == b.number \notin shSeen

(* From the answer to the next await: the queue has no limit.                *)
PollBlock(a) ==
    /\ shPoll[a] = <<"block">> /\ shPolls < MaxShadowPolls
    /\ shPolls' = shPolls + 1
    /\ IF IsNew(shChain)
       THEN /\ shSeen' = shSeen \cup {shChain.number}
            /\ shQueue' = Append(shQueue, [number |-> shChain.number, tx |-> 0])
            /\ shPoll' = [shPoll EXCEPT ![a] =
                IF shChain.txs = 0 THEN <<"block">> ELSE <<"transactions", shChain.number>>]
       ELSE UNCHANGED <<shSeen, shQueue, shPoll>>
    /\ UNCHANGED <<shChain, shTaken, shRunning, shStarts, shCut>>

(* Those of the block that has this number by now.                           *)
EmitTransactions(a, b) ==
    /\ shPoll[a] = <<"transactions", b.number>>
    /\ shChain.number = b.number => shChain = b
    /\ shQueue' = shQueue \o [i \in 1 .. b.txs |-> [number |-> b.number, tx |-> i]]
    /\ shPoll' = [shPoll EXCEPT ![a] = <<"block">>]
    /\ UNCHANGED <<shChain, shSeen, shTaken, shRunning, shPolls, shStarts, shCut>>

(* A failure is logged; the number stays seen.                               *)
LoseTransactions(a, n) ==
    /\ shPoll[a] = <<"transactions", n>>
    /\ shPoll' = [shPoll EXCEPT ![a] = <<"block">>]
    /\ shCut' = shCut \cup {n}
    /\ UNCHANGED <<shChain, shSeen, shQueue, shTaken, shRunning, shPolls, shStarts>>

(* The consumer goes on after the stop until the queue is empty.             *)
TakeEvent ==
    /\ shQueue # <<>>
    /\ shTaken' = Append(shTaken, Head(shQueue)) /\ shQueue' = Tail(shQueue)
    /\ UNCHANGED <<shChain, shSeen, shPoll, shRunning, shPolls, shStarts, shCut>>

ShNext ==
    \/ MoveRollup \/ StartMonitor \/ StopMonitor \/ TakeEvent
    \/ \E a \in Adapters :
        \/ PollBlock(a)
        \/ \E b \in ShadowBlocks : EmitTransactions(a, b)
        \/ \E n \in shSeen : LoseTransactions(a, n)

---------------------------------------------------------------------------
Events == shTaken \o shQueue

ShTypeOK ==
    /\ shChain \in ShadowBlocks /\ shSeen \subseteq {b.number : b \in ShadowBlocks}
    /\ shRunning \in BOOLEAN /\ shPolls \in 0 .. MaxShadowPolls /\ shStarts \in 0 .. MaxStarts
    /\ \A a \in Adapters : shPoll[a] \in {<<>>, <<"block">>} \cup {<<"transactions", n>> : n \in shSeen}

Places(event) == {i \in DOMAIN Events : Events[i] = event}

(* Each number seen is announced once, no transaction of it twice, and none     *)
(* before it; and when nobody is about to ask for its transactions any more,    *)
(* they are those of one block of that number, none missing, unless a failure   *)
(* or a stop cut them off.                                                  *)
ShSound ==
    /\ \A n \in {b.number : b \in ShadowBlocks} :
        Cardinality(Places([number |-> n, tx |-> 0])) = IF n \in shSeen THEN 1 ELSE 0
    /\ \A i, j \in DOMAIN Events : Events[i] = Events[j] => i = j
    /\ \A i \in DOMAIN Events : \E j \in 1 .. i : Events[j] = [number |-> Events[i].number, tx |-> 0]
    /\ \A n \in shSeen \ shCut :
        <<"transactions", n>> \in {shPoll[a] : a \in Adapters} \/
        \E b \in ShadowBlocks : b.number = n /\
            {Events[i].tx : i \in {j \in DOMAIN Events : Events[j].number = n}} = 0 .. b.txs

(* No event is lost or overtaken between the monitor and its consumer, and a    *)
(* stopped monitor adds none.                                               *)
ShFinal ==
    /\ SubSeq(shTaken' \o shQueue', 1, Len(Events)) = Events
    /\ ~shRunning => Len(shTaken' \o shQueue') = Len(Events)
    /\ shSeen \subseteq shSeen'
=============================================================================
