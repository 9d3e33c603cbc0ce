----------------------------- MODULE VerifierBridges -----------------------------
(***************************************************************************)
(* The three bridges that stand between the admin dashboard and its proof   *)
(* verifiers, with the properties they have in common.  They share no       *)
(* variable and never call each other, so an execution of the process is an  *)
(* interleaving of one execution of each: a property of one bridge holds in   *)
(* the process when it holds in the executions of that bridge alone.  The    *)
(* initial state therefore chooses the bridge that runs.                     *)
(***************************************************************************)
EXTENDS ZkcpBridge, BitVm2Bridge, BitVm3Orchestrator

VARIABLE bridge

vars == <<bridge, zkVars, b2Vars, b3Vars>>

(* What a bridge that does not run starts with is of no importance.          *)
Init ==
    /\ bridge \in {"zkcp", "bitvm2", "bitvm3"}
    /\ ZkInit /\ B2Init /\ B3Init
    /\ bridge # "zkcp" => zkNow = 0 /\ zkVerifier = Unavailable
    /\ bridge # "bitvm2" => b2Now = 0 /\ b2Verifier = Unavailable
    /\ bridge # "bitvm3" => b3Now = 0 /\ b3Verifier = Unavailable

InZkcp(A) == bridge = "zkcp" /\ A /\ UNCHANGED <<bridge, b2Vars, b3Vars>>

InBitVm2(A) == bridge = "bitvm2" /\ A /\ UNCHANGED <<bridge, zkVars, b3Vars>>

InBitVm3(A) == bridge = "bitvm3" /\ A /\ UNCHANGED <<bridge, zkVars, b2Vars>>

Next == InZkcp(ZkNext) \/ InBitVm2(B2Next) \/ InBitVm3(B3Next)

(* A call that may go on does so: the event loop runs every resolved         *)
(* promise, and the adapters are taken to answer or to throw (the bridges     *)
(* set no time limit).  Nobody has to call, to purge or to move the clock.   *)
CallStep(c) == InZkcp(ZkCallStep(c)) \/ InBitVm2(B2CallStep(c)) \/ InBitVm3(B3CallStep(c))

Spec == Init /\ [][Next]_vars

FairSpec == Spec /\ \A c \in Calls : WF_vars(CallStep(c))

---------------------------------------------------------------------------
(* Every variable has its type. *)
TypeOK == ZkTypeOK /\ B2TypeOK /\ B3TypeOK

(* No intent is verified or paid, no floor and no proof retained, and nobody *)
(* told so, without the evidence of an authorized backend for exactly that.  *)
EvidenceSound == ZkEvidenceSound /\ B2EvidenceSound /\ B3EvidenceSound

(* The signatures aggregated on a BitVM2 floor: one per authorized signer,   *)
(* each attested, complete exactly at the threshold.                         *)
SignaturesSound == B2SignaturesSound

(* The queues let one call per identifier in, and forget nobody who waits.   *)
LinesSound == ZkLineSound /\ B2LineSound /\ B3LineSound

(* What a call has claimed or read before it awaited an adapter is its own   *)
(* until it comes back, and is given back on every path.                     *)
ClaimsHeld == ZkOperationsCurrent /\ B2ReservationsHeld /\ B3ReservationsHeld

(* The limits hold with the calls in flight counted.                         *)
CapacityHeld == ZkCapacityHeld /\ B2CapacityHeld /\ B3CapacityHeld

(* Nothing is dropped that is in use, under way, or not old enough.          *)
EvictionSafe == [][ZkEvictionSafe /\ B2EvictionSafe /\ B3EvictionSafe]_vars

(* A BitVM3 identifier stays with its request for both retentions.           *)
IdentityHeld == [][B3IdentityHeld]_vars

(* The ZKCP bridge implements the ledger of its promises.                    *)
ImplementsIntentLedger == Ledger!Spec

(* Every call returns: nobody waits for ever in a queue or for a release.    *)
Idle(c) == zkCall[c] = IdleCall /\ b2Call[c] = IdleFloorCall /\ b3Call[c] = IdleProofCall

CallsReturn == \A c \in Calls : ~Idle(c) ~> Idle(c)
=============================================================================
