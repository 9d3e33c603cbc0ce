------------------------------ MODULE SilentPayments ------------------------------
(***************************************************************************)
(* The silent payments engine: outputs are scanned against the scan keys that  *)
(* are registered at that moment and kept until they are cleared, also when     *)
(* their key is not registered any more.                                     *)
(***************************************************************************)
EXTENDS EngineBounds

CONSTANTS ScanKeys, MaxMatches      \* bound on the outputs matched in one behaviour

VARIABLES
    spKeys,         \* registeredScanKeys
    spOutputs,      \* matchedOutputs: generated identifier -> key
    spEver          \* history: the keys that were ever registered

spVars == <<spKeys, spOutputs, spEver>>

SpInit == spKeys = {} /\ spOutputs = <<>> /\ spEver = {}

RegisterScanKey(k) ==
    /\ spKeys' = spKeys \cup {k} /\ spEver' = spEver \cup {k}
    /\ UNCHANGED spOutputs

UnregisterScanKey(k) == spKeys' = spKeys \ {k} /\ UNCHANGED <<spOutputs, spEver>>

Scans(k) == k \in spKeys

(* The same output may be matched again, under another identifier.           *)
ScanOutput(id, k) ==
    /\ Scans(k)
    /\ id \notin DOMAIN spOutputs
    /\ spOutputs' = [x \in DOMAIN spOutputs \cup {id} |-> IF x = id THEN k ELSE spOutputs[x]]
    /\ UNCHANGED <<spKeys, spEver>>

ClearMatchedOutputs(keys) ==
    /\ spOutputs' = [x \in {y \in DOMAIN spOutputs : spOutputs[y] \notin keys} |-> spOutputs[x]]
    /\ UNCHANGED <<spKeys, spEver>>

SpNext ==
    \/ \E k \in ScanKeys :
        \/ RegisterScanKey(k) \/ UnregisterScanKey(k)
        \/ \E id \in 1 .. MaxMatches : ScanOutput(id, k)
        \/ ClearMatchedOutputs({k})
    \/ ClearMatchedOutputs(ScanKeys)

---------------------------------------------------------------------------
SpTypeOK == spKeys \subseteq ScanKeys /\ DOMAIN spOutputs \subseteq 1 .. MaxMatches

(* Nothing is ever attributed to a key that nobody registered.                *)
SpSound == \A id \in DOMAIN spOutputs : spOutputs[id] \in spEver

(* A match is attributed once, and outlives the registration of its key.      *)
SpFinal ==
    /\ \A id \in DOMAIN spOutputs \cap DOMAIN spOutputs' : spOutputs'[id] = spOutputs[id]
    /\ spKeys' # spKeys => spOutputs' = spOutputs
=============================================================================
