------------------------------ MODULE EngineBounds ------------------------------
(***************************************************************************)
(* What the settlement engines of lib/support have in common: each keeps a  *)
(* Map from identifiers to records in memory, refuses a new record when the *)
(* Map is full, and runs every operation without an await before its        *)
(* effects, so an operation is one step.  A call that is refused throws or   *)
(* returns before it changes anything and is not a step.                    *)
(***************************************************************************)
EXTENDS Integers, FiniteSets

CONSTANTS
    EngineIds,          \* identifiers callers use
    EngineCapacity,     \* MAX_..., maxCapacity, maxActiveIntents
    MaxEngineTime,      \* bound on the clock, in units of the smallest lifetime
    EngineTtl,          \* a lifetime an engine counts from the creation of a record
    MaxBlockHeight      \* bound on the height of the chain that callers report

ASSUME EngineAssumption ==
    /\ EngineCapacity \in Nat /\ MaxEngineTime \in Nat
    /\ EngineTtl \in Nat /\ MaxBlockHeight \in Nat

Moments == 0 .. MaxEngineTime

Heights == 0 .. MaxBlockHeight

(* A Map of an engine: Nothing stands for a missing key.                    *)
Nothing == [state |-> "nothing"]

Stored(map) == {x \in EngineIds : map[x] # Nothing}

HasRoom(map) == Cardinality(Stored(map)) < EngineCapacity

InState(map, x, states) == map[x].state \in states
=============================================================================
