------------------------------ MODULE BitVmxIntents ------------------------------
(***************************************************************************)
(* The BitVMX bridge: a program is executed, its proof submitted and either   *)
(* finalized or challenged, round by round, to the depth at which it counts   *)
(* as disproved.  Old outcomes are pruned when a new intent is made.          *)
(***************************************************************************)
EXTENDS EngineBounds

CONSTANT MaxChallengeDepth

VARIABLES bxIntents, bxNow

bxVars == <<bxIntents, bxNow>>

BxInit == bxIntents = [i \in EngineIds |-> Nothing] /\ bxNow = 0

StaleIntents ==
    {i \in Stored(bxIntents) :
        /\ bxIntents[i].finalizedAt # -1
        /\ bxNow - bxIntents[i].finalizedAt >= EngineTtl}

PrunedIntents == [i \in EngineIds |-> IF i \in StaleIntents THEN Nothing ELSE bxIntents[i]]

(* Pruning comes before every check, also of a call that is then refused.    *)
InitializeBitVmx(i, valid) ==
    LET kept == PrunedIntents IN
    /\ bxIntents' =
        IF valid /\ kept[i] = Nothing /\ HasRoom(kept)
        THEN [kept EXCEPT ![i] = [state |-> "executing", round |-> 0, finalizedAt |-> -1]]
        ELSE kept
    /\ UNCHANGED bxNow

SubmitBitVmxProof(i) ==
    /\ InState(bxIntents, i, {"executing"})
    /\ bxIntents' = [bxIntents EXCEPT ![i].state = "proving"]
    /\ UNCHANGED bxNow

FinalizeBitVmxProof(i) ==
    /\ InState(bxIntents, i, {"proving"})
    /\ bxIntents' = [bxIntents EXCEPT ![i].state = "finalized", ![i].finalizedAt = bxNow]
    /\ UNCHANGED bxNow

InitiateChallenge(i) ==
    /\ InState(bxIntents, i, {"proving"})
    /\ bxIntents' = [bxIntents EXCEPT ![i].state = "challenged", ![i].round = 1]
    /\ UNCHANGED bxNow

AdvanceChallenge(i) ==
    /\ InState(bxIntents, i, {"challenged"})
    /\ LET round == bxIntents[i].round + 1 IN
        bxIntents' = [bxIntents EXCEPT ![i] =
            IF round >= MaxChallengeDepth
            THEN [state |-> "disproved", round |-> round, finalizedAt |-> bxNow]
            ELSE [@ EXCEPT !.round = round]]
    /\ UNCHANGED bxNow

BxTick == bxNow < MaxEngineTime /\ bxNow' = bxNow + 1 /\ UNCHANGED bxIntents

BxNext ==
    \/ \E i \in EngineIds :
        \/ \E valid \in BOOLEAN : InitializeBitVmx(i, valid)
        \/ SubmitBitVmxProof(i) \/ FinalizeBitVmxProof(i)
        \/ InitiateChallenge(i) \/ AdvanceChallenge(i)
    \/ BxTick

---------------------------------------------------------------------------
BxTypeOK ==
    /\ bxNow \in Moments
    /\ \A i \in Stored(bxIntents) : LET r == bxIntents[i] IN
        /\ r.state \in {"executing", "proving", "challenged", "disproved", "finalized"}
        /\ r.round \in Nat /\ r.finalizedAt \in Moments \cup {-1}

(* No proof that was challenged is ever finalized, none is disproved before    *)
(* the last round, and an outcome has its time.                              *)
BxSound ==
    \A i \in Stored(bxIntents) : LET r == bxIntents[i] IN
        /\ r.state = "finalized" => r.round = 0
        /\ r.state = "disproved" => r.round >= MaxChallengeDepth
        /\ r.state = "challenged" => r.round >= 1
        /\ r.state \in {"finalized", "disproved"} <=> r.finalizedAt # -1

(* An outcome is final until it is as old as its retention, and no intent is     *)
(* dropped before that; no round is skipped or taken back.                   *)
BxFinal ==
    \A i \in Stored(bxIntents) : LET r == bxIntents[i]  s == bxIntents'[i] IN
        IF r.state \in {"finalized", "disproved"}
        THEN s = r \/ bxNow - r.finalizedAt >= EngineTtl
        ELSE s # Nothing /\ s.round \in {r.round, r.round + 1}
=============================================================================
