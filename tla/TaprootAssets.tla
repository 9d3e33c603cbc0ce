------------------------------ MODULE TaprootAssets ------------------------------
(***************************************************************************)
(* The local model of Taproot assets: minted once per identifier, which the   *)
(* genesis outpoint, the name and the type determine, transferred, burned and  *)
(* tombstoned.  The engine the dashboard exports refuses every operation.     *)
(***************************************************************************)
EXTENDS EngineBounds

CONSTANTS Supplies, MaxTransfers    \* amounts callers name; bound on the transfers of an asset

ASSUME TaprootAssumption == Supplies \subseteq Int /\ MaxTransfers \in Nat

VARIABLE taAssets

taVars == <<taAssets>>

TaInit == taAssets = [a \in EngineIds |-> Nothing]

MintAsset(a, supply) ==
    /\ supply > 0
    /\ HasRoom(taAssets) /\ taAssets[a] = Nothing
    /\ taAssets' = [taAssets EXCEPT ![a] = [state |-> "minted", minted |-> supply, supply |-> supply, root |-> 0]]

\* Mutant: more than is left may be named.
AffordableEver(r, amount) == amount > 0

Affordable(r, amount) == amount > 0 /\ amount <= r.supply

(* The root stands for the chain of transfers hashed into it.  The state       *)
(* "transferring" does not outlive the call.                                *)
TransferAsset(a, amount) ==
    LET r == taAssets[a] IN
    /\ r # Nothing /\ ~InState(taAssets, a, {"burned", "tombstoned"})
    /\ Affordable(r, amount)
    /\ r.root < MaxTransfers
    /\ taAssets' = [taAssets EXCEPT ![a].state = "transferred", ![a].root = @ + 1]

StateBurned(state, left) == IF left = 0 THEN "burned" ELSE state

BurnAsset(a, amount) ==
    LET r == taAssets[a] IN
    /\ r # Nothing /\ ~InState(taAssets, a, {"tombstoned"})
    /\ Affordable(r, amount)
    /\ taAssets' = [taAssets EXCEPT ![a].supply = r.supply - amount,
                                    ![a].state = StateBurned(r.state, r.supply - amount)]

TombstoneAsset(a) ==
    /\ taAssets[a] # Nothing
    /\ taAssets' = [taAssets EXCEPT ![a].state = "tombstoned"]

TaNext ==
    \E a \in EngineIds :
        \/ \E n \in Supplies : MintAsset(a, n) \/ TransferAsset(a, n) \/ BurnAsset(a, n)
        \/ TombstoneAsset(a)

---------------------------------------------------------------------------
TaTypeOK ==
    \A a \in Stored(taAssets) : LET r == taAssets[a] IN
        /\ r.state \in {"minted", "transferred", "burned", "tombstoned"}
        /\ r.minted \in Nat /\ r.supply \in 0 .. r.minted /\ r.root \in 0 .. MaxTransfers

(* An asset is burned exactly when nothing is left of it, its tombstone aside, *)
(* and it was transferred exactly when it says so.                           *)
TaSound ==
    \A a \in Stored(taAssets) : LET r == taAssets[a] IN
        /\ r.state = "burned" => r.supply = 0
        /\ r.supply = 0 => r.state \in {"burned", "tombstoned"}
        /\ r.state = "minted" => r.root = 0
        /\ r.state = "transferred" => r.root > 0

(* The supply only falls; a burned or tombstoned asset is not transferred; an  *)
(* asset is not minted twice.                                               *)
TaFinal ==
    \A a \in Stored(taAssets) : LET r == taAssets[a]  s == taAssets'[a] IN
        /\ s # Nothing /\ s.minted = r.minted /\ s.supply <= r.supply
        /\ r.state \in {"burned", "tombstoned"} => s.root = r.root /\ s.supply = r.supply
        /\ r.state = "tombstoned" => s = r
=============================================================================
