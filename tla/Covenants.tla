-------------------------------- MODULE Covenants --------------------------------
(***************************************************************************)
(* The OP_CAT engine: covenants whose state moves on, each new state          *)
(* concatenated with the old one within the stack limit, until the depth is    *)
(* used up or the covenant is finalized.  A state is told apart by its size.   *)
(***************************************************************************)
EXTENDS EngineBounds, Sequences

CONSTANTS
    StateSizes,         \* the sizes of state hashes callers submit
    MaxStackSize,       \* MAX_STACK_ELEMENT_SIZE_BYTES
    CovenantDepths,     \* the depths callers ask for, out of range included
    MaxCovenantDepth    \* 256 in the code

ASSUME CovenantAssumption == StateSizes \subseteq Nat /\ MaxStackSize \in Nat /\ CovenantDepths \subseteq Int

VARIABLE coCovenants

coVars == <<coCovenants>>

CoInit == coCovenants = [c \in EngineIds |-> Nothing]

(* OP_CAT as the code evaluates it, the count of evaluations under way being  *)
(* back at zero whenever it returns.                                        *)
ExecuteCat(a, b) == a + b <= MaxStackSize

FitsStack(state, next) == ExecuteCat(state, next)

CreateCovenant(c, size, depth) ==
    /\ size > 0 /\ depth \in 1 .. MaxCovenantDepth
    /\ coCovenants[c] = Nothing
    /\ coCovenants' = [coCovenants EXCEPT ![c] =
        [state |-> size, depth |-> 0, maxDepth |-> depth, finalized |-> FALSE, history |-> <<size>>]]

TransitionCovenant(c, size) ==
    LET r == coCovenants[c] IN
    /\ r # Nothing /\ ~r.finalized
    /\ r.depth < r.maxDepth
    /\ size > 0
    /\ FitsStack(r.state, size)
    /\ coCovenants' = [coCovenants EXCEPT ![c] =
        [r EXCEPT !.state = size, !.depth = @ + 1, !.history = Append(@, size)]]

FinalizeCovenant(c) ==
    /\ coCovenants[c] # Nothing
    /\ coCovenants' = [coCovenants EXCEPT ![c].finalized = TRUE]

CoNext ==
    \E c \in EngineIds :
        \/ \E size \in StateSizes, depth \in CovenantDepths : CreateCovenant(c, size, depth)
        \/ \E size \in StateSizes : TransitionCovenant(c, size)
        \/ FinalizeCovenant(c)

---------------------------------------------------------------------------
CoTypeOK ==
    \A c \in Stored(coCovenants) : LET r == coCovenants[c] IN
        /\ r.state \in StateSizes /\ r.depth \in Nat /\ r.maxDepth \in 1 .. MaxCovenantDepth
        /\ r.finalized \in BOOLEAN /\ r.history \in Seq(StateSizes)

(* The history is the whole way of the covenant to its state, within its       *)
(* depth, and every two neighbours of it fit the stack together.             *)
CoSound ==
    \A c \in Stored(coCovenants) : LET r == coCovenants[c] IN
        /\ Len(r.history) = r.depth + 1 /\ r.depth <= r.maxDepth
        /\ r.history[Len(r.history)] = r.state
        /\ \A n \in 1 .. r.depth : r.history[n] + r.history[n + 1] <= MaxStackSize

(* A finalized covenant does not change, and no covenant loses its past.      *)
CoFinal ==
    \A c \in Stored(coCovenants) : LET r == coCovenants[c]  s == coCovenants'[c] IN
        /\ r.finalized => s = r
        /\ SubSeq(s.history, 1, Len(r.history)) = r.history
        /\ s.maxDepth = r.maxDepth
=============================================================================
