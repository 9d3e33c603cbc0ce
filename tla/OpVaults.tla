-------------------------------- MODULE OpVaults --------------------------------
(***************************************************************************)
(* The OP_VAULT engine: a vault is locked, starts to unvault at the height   *)
(* its caller reports, and after its delay can be withdrawn unless it was    *)
(* recovered first.  Heights come from the callers, and a reorganisation of  *)
(* the chain may report a lower one than before.                            *)
(***************************************************************************)
EXTENDS EngineBounds

CONSTANTS UnvaultDelays, VaultDeposits     \* what callers ask for, out of range included

ASSUME OpVaultAssumption == UnvaultDelays \subseteq Int /\ VaultDeposits \subseteq Int

VARIABLES
    ovVaults,       \* vaults
    ovHeight        \* the height a caller would report now

ovVars == <<ovVaults, ovHeight>>

NewVault(delay) ==
    [state |-> "locked", delay |-> delay, started |-> -1, matures |-> -1,
     recoveryTx |-> FALSE, withdrawalTx |-> FALSE]

OvInit == ovVaults = [v \in EngineIds |-> Nothing] /\ ovHeight = 0

CreateOpVault(v, deposit, delay) ==
    /\ deposit > 0 /\ delay > 0
    /\ HasRoom(ovVaults) /\ ovVaults[v] = Nothing
    /\ ovVaults' = [ovVaults EXCEPT ![v] = NewVault(delay)]
    /\ UNCHANGED ovHeight

(* The maturity is fixed by the height of the trigger.                      *)
TriggerUnvault(v) ==
    /\ InState(ovVaults, v, {"locked"})
    /\ ovVaults' = [ovVaults EXCEPT ![v].state = "unvaulting", ![v].started = ovHeight,
                                    ![v].matures = ovHeight + ovVaults[v].delay]
    /\ UNCHANGED ovHeight

TriggerRecovery(v) ==
    /\ ovVaults[v] # Nothing
    /\ ~InState(ovVaults, v, {"recovered", "withdrawn"})
    /\ ovVaults' = [ovVaults EXCEPT ![v].state = "recovered", ![v].recoveryTx = TRUE]
    /\ UNCHANGED ovHeight

Unvaulting(v) == InState(ovVaults, v, {"unvaulting"})

CompleteWithdrawal(v) ==
    /\ Unvaulting(v)
    /\ ovHeight >= ovVaults[v].matures
    /\ ovVaults' = [ovVaults EXCEPT ![v].state = "withdrawn", ![v].withdrawalTx = TRUE]
    /\ UNCHANGED ovHeight

(* The chain grows, or a reorganisation takes a block away.                  *)
MoveChain ==
    /\ ovHeight' \in {ovHeight - 1, ovHeight + 1} \cap Heights
    /\ UNCHANGED ovVaults

OvNext ==
    \/ \E v \in EngineIds :
        \/ \E deposit \in VaultDeposits, delay \in UnvaultDelays : CreateOpVault(v, deposit, delay)
        \/ TriggerUnvault(v) \/ TriggerRecovery(v) \/ CompleteWithdrawal(v)
    \/ MoveChain

---------------------------------------------------------------------------
OvTypeOK ==
    /\ ovHeight \in Heights
    /\ \A v \in Stored(ovVaults) : LET r == ovVaults[v] IN
        /\ r.state \in {"locked", "unvaulting", "recovered", "withdrawn"}
        /\ r.delay \in UnvaultDelays /\ r.started \in Heights \cup {-1} /\ r.matures \in Int
        /\ r.recoveryTx \in BOOLEAN /\ r.withdrawalTx \in BOOLEAN

(* The deposit of a vault leaves it at most once, by the transaction its     *)
(* state names.                                                             *)
OvSound ==
    \A v \in Stored(ovVaults) : LET r == ovVaults[v] IN
        /\ r.recoveryTx <=> r.state = "recovered"
        /\ r.withdrawalTx <=> r.state = "withdrawn"

(* A withdrawal comes no earlier than the vault's delay after the height of   *)
(* its one trigger, a vault is never unlocked twice, and a vault that gave    *)
(* its deposit away stays as it is.                                         *)
OvFinal ==
    \A v \in Stored(ovVaults) : LET r == ovVaults[v] IN
        /\ r.state \in {"recovered", "withdrawn"} => ovVaults'[v] = r
        /\ r.state = "unvaulting" => ovVaults'[v].matures = r.matures
        /\ r.state # "withdrawn" /\ ovVaults'[v].state = "withdrawn"
            => r.started # -1 /\ ovHeight - r.started >= r.delay
=============================================================================
