-------------------------------- MODULE ArkVutxos --------------------------------
(***************************************************************************)
(* The Ark adapter: V-UTXOs that are boarded, spent off chain, taken back to  *)
(* the chain with or without the provider's help, forfeited, swept when they  *)
(* expire, or tombstoned.                                                   *)
(***************************************************************************)
EXTENDS EngineBounds

CONSTANT ExitTimelock      \* DEFAULT_EXIT_TIMELOCK_BLOCKS

VARIABLES arVutxos, arNow, arHeight

arVars == <<arVutxos, arNow, arHeight>>

ArInit == arVutxos = [u \in EngineIds |-> Nothing] /\ arNow = 0 /\ arHeight = 0

(* The identifier is generated: no V-UTXO is boarded under a used one.       *)
BoardVutxo(u) ==
    /\ HasRoom(arVutxos) /\ arVutxos[u] = Nothing
    /\ arVutxos' = [arVutxos EXCEPT ![u] =
        [state |-> "available", expires |-> arNow + EngineTtl, forfeitHeight |-> -1, unboardTx |-> FALSE]]
    /\ UNCHANGED <<arNow, arHeight>>

(* Registering again replaces the height the exit timelock counts from.      *)
RegisterForfeit(u) ==
    /\ InState(arVutxos, u, {"available"})
    /\ arVutxos' = [arVutxos EXCEPT ![u].forfeitHeight = arHeight]
    /\ UNCHANGED <<arNow, arHeight>>

SpendVutxo(u) ==
    /\ InState(arVutxos, u, {"available"})
    /\ arVutxos' = [arVutxos EXCEPT ![u].state = "spent"]
    /\ UNCHANGED <<arNow, arHeight>>

(* Also for a V-UTXO that was spent or went back to the chain.               *)
ClaimForfeit(u) ==
    /\ arVutxos[u] # Nothing /\ arVutxos[u].forfeitHeight # -1
    /\ ~InState(arVutxos, u, {"forfeited", "tombstoned"})
    /\ arVutxos' = [arVutxos EXCEPT ![u].state = "forfeited"]
    /\ UNCHANGED <<arNow, arHeight>>

(* Without a forfeit the blocks elapsed are counted from height 0.           *)
ExitMatured(u) ==
    LET since == IF arVutxos[u].forfeitHeight = -1 THEN 0 ELSE arVutxos[u].forfeitHeight IN
    arHeight - since >= ExitTimelock

UnboardVutxo(u, collaborative) ==
    /\ InState(arVutxos, u, {"available"})
    /\ collaborative \/ ExitMatured(u)
    /\ arVutxos' = [arVutxos EXCEPT ![u].state = "unboarded", ![u].unboardTx = TRUE]
    /\ UNCHANGED <<arNow, arHeight>>

Sweepable(u) == InState(arVutxos, u, {"available"}) /\ arVutxos[u].expires <= arNow

SweepExpired ==
    /\ arVutxos' = [u \in EngineIds |->
        IF Sweepable(u) THEN [arVutxos[u] EXCEPT !.state = "expired"] ELSE arVutxos[u]]
    /\ UNCHANGED <<arNow, arHeight>>

TombstoneVutxo(u) ==
    /\ arVutxos[u] # Nothing
    /\ arVutxos' = [arVutxos EXCEPT ![u].state = "tombstoned"]
    /\ UNCHANGED <<arNow, arHeight>>

ArTick == arNow < MaxEngineTime /\ arNow' = arNow + 1 /\ UNCHANGED <<arVutxos, arHeight>>

ArBlock == arHeight < MaxBlockHeight /\ arHeight' = arHeight + 1 /\ UNCHANGED <<arVutxos, arNow>>

ArNext ==
    \/ \E u \in EngineIds :
        \/ BoardVutxo(u) \/ RegisterForfeit(u) \/ SpendVutxo(u) \/ ClaimForfeit(u)
        \/ \E collaborative \in BOOLEAN : UnboardVutxo(u, collaborative)
        \/ TombstoneVutxo(u)
    \/ SweepExpired \/ ArTick \/ ArBlock

---------------------------------------------------------------------------
ArTypeOK ==
    /\ arNow \in Moments /\ arHeight \in Heights
    /\ \A u \in Stored(arVutxos) : LET r == arVutxos[u] IN
        /\ r.state \in {"available", "spent", "forfeited", "unboarded", "expired", "tombstoned"}
        /\ r.forfeitHeight \in Heights \cup {-1} /\ r.unboardTx \in BOOLEAN

(* What went back to the chain is not available off chain; a forfeit rests    *)
(* on a registered transaction; nothing expires before its time.             *)
ArSound ==
    \A u \in Stored(arVutxos) : LET r == arVutxos[u] IN
        /\ r.unboardTx => r.state \in {"unboarded", "forfeited", "tombstoned"}
        /\ r.state = "unboarded" => r.unboardTx
        /\ r.state = "forfeited" => r.forfeitHeight # -1
        /\ r.state = "expired" => r.expires <= arNow

(* A V-UTXO that left "available" by being spent, taken out, forfeited or     *)
(* swept never comes back, is never spent or taken out again, and moves on     *)
(* only by a forfeit claim or to its tombstone.                              *)
ArFinal ==
    \A u \in Stored(arVutxos) : LET r == arVutxos[u]  s == arVutxos'[u] IN
        r.state # "available" /\ s # r =>
            /\ s.state \in {"forfeited", "tombstoned"}
            /\ s.unboardTx = r.unboardTx /\ s.forfeitHeight = r.forfeitHeight
            /\ r.state \in {"forfeited", "tombstoned"} => s.state = "tombstoned"
=============================================================================
