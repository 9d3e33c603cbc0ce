------------------------------- MODULE CtUsdVaults -------------------------------
(***************************************************************************)
(* The ctUSD engine: over-collateralized vaults with oracle prices,          *)
(* liquidation and a stability fee that is only computed when a price comes. *)
(* Money is counted in fortieths of a ctUSD, so that a year's fee of 2.5% is  *)
(* one unit per ctUSD minted.                                               *)
(***************************************************************************)
EXTENDS EngineBounds, Sequences

CONSTANTS
    CtUsdConfigs,       \* [collateral, minted, price] of the vaults callers ask for
    AttestationLists    \* sequences of [oracle, price, signed] that callers submit

Attestation == [oracle : BOOLEAN, price : Int, signed : BOOLEAN]

ASSUME CtUsdAssumption ==
    /\ CtUsdConfigs \subseteq [collateral : Int, minted : Int, price : Int]
    /\ AttestationLists \subseteq Seq(Attestation)

VARIABLES cuVaults, cuNow

cuVars == <<cuVaults, cuNow>>

(* ratio >= 150%, ratio < 130%; the ratio is collateral * price / minted.    *)
WellCollateralized(c, p, m) == 2 * c * p >= 3 * m

BelowThreshold(c, p, m) == 10 * c * p < 13 * m

CuInit == cuVaults = [v \in EngineIds |-> Nothing] /\ cuNow = 0

CreateCtUsdVault(v, config) ==
    /\ config.collateral > 0 /\ config.minted > 0 /\ config.price > 0
    /\ HasRoom(cuVaults) /\ cuVaults[v] = Nothing
    /\ WellCollateralized(config.collateral, config.price, config.minted)
    /\ cuVaults' = [cuVaults EXCEPT ![v] =
        [state |-> "created", collateral |-> config.collateral, minted |-> config.minted,
         price |-> config.price, fee |-> 0, attestations |-> <<>>, created |-> cuNow]]
    /\ UNCHANGED cuNow

ActivateVault(v) ==
    /\ InState(cuVaults, v, {"created"})
    /\ cuVaults' = [cuVaults EXCEPT ![v].state = "active"]
    /\ UNCHANGED cuNow

(* The prices of the attestations that are valid, by their places in the list. *)
ValidAttestations(list) ==
    LET valid == {i \in DOMAIN list : list[i].oracle /\ list[i].price > 0 /\ list[i].signed}
    IN  [i \in valid |-> list[i].price]

PricesBelow(prices, p) == {i \in DOMAIN prices : prices[i] < p}

PricesUpTo(prices, p) == {i \in DOMAIN prices : prices[i] <= p}

(* The price at the middle of the sorted list: of an even number the upper of  *)
(* the two.                                                                  *)
MedianPrice(prices) ==
    LET middle == Cardinality(DOMAIN prices) \div 2 IN
    CHOOSE p \in {prices[i] : i \in DOMAIN prices} :
        Cardinality(PricesBelow(prices, p)) <= middle /\ middle < Cardinality(PricesUpTo(prices, p))

StateAtPrice(r, price) ==
    IF r.state = "active" /\ BelowThreshold(r.collateral, price, r.minted)
    THEN "liquidating" ELSE r.state

(* Three valid attestations are asked for, not three oracles.                *)
UpdatePrice(v, list) ==
    LET valid == ValidAttestations(list)  r == cuVaults[v] IN
    /\ InState(cuVaults, v, {"created", "active", "liquidating"})
    /\ Cardinality(DOMAIN valid) >= 3
    /\ LET price == MedianPrice(valid) IN
        cuVaults' = [cuVaults EXCEPT ![v] =
            [r EXCEPT !.price = price, !.attestations = valid,
                      !.fee = r.minted * (cuNow - r.created),
                      !.state = StateAtPrice(r, price)]]
    /\ UNCHANGED cuNow

ExecuteLiquidation(v) ==
    /\ InState(cuVaults, v, {"liquidating"})
    /\ cuVaults' = [cuVaults EXCEPT ![v].state = "liquidated"]
    /\ UNCHANGED cuNow

(* What is owed is the fee of the last price, however long ago that was.     *)
CloseVault(v, repaid) ==
    /\ InState(cuVaults, v, {"active"})
    /\ repaid >= 40 * cuVaults[v].minted + cuVaults[v].fee
    /\ cuVaults' = [cuVaults EXCEPT ![v].state = "closed"]
    /\ UNCHANGED cuNow

Repayments == {40 * config.minted + config.minted * late : config \in CtUsdConfigs, late \in Moments}

TombstoneVault(v) ==
    /\ cuVaults[v] # Nothing
    /\ cuVaults' = [cuVaults EXCEPT ![v].state = "tombstoned"]
    /\ UNCHANGED cuNow

CuTick == cuNow < MaxEngineTime /\ cuNow' = cuNow + 1 /\ UNCHANGED cuVaults

CuNext ==
    \/ \E v \in EngineIds :
        \/ \E config \in CtUsdConfigs : CreateCtUsdVault(v, config)
        \/ ActivateVault(v) \/ ExecuteLiquidation(v) \/ TombstoneVault(v)
        \/ \E list \in AttestationLists : UpdatePrice(v, list)
        \/ \E repaid \in Repayments : CloseVault(v, repaid)
    \/ CuTick

---------------------------------------------------------------------------
CuTypeOK ==
    /\ cuNow \in Moments
    /\ \A v \in Stored(cuVaults) : LET r == cuVaults[v] IN
        /\ r.state \in {"created", "active", "liquidating", "liquidated", "closed", "tombstoned"}
        /\ r.price > 0 /\ r.fee \in Nat /\ r.created \in Moments

(* The price of a vault is that of its opening or one that at least half of   *)
(* three or more attestations reach, and the other half does not exceed.     *)
CuSound ==
    \A v \in Stored(cuVaults) :
        LET r == cuVaults[v]  given == r.attestations  n == Cardinality(DOMAIN given) IN
        IF n = 0 THEN r.fee = 0 /\ WellCollateralized(r.collateral, r.price, r.minted)
        ELSE /\ n >= 3
             /\ 2 * Cardinality({i \in DOMAIN given : given[i] >= r.price}) >= n
             /\ 2 * Cardinality({i \in DOMAIN given : given[i] <= r.price}) > n

(* A vault is liquidated only if, while it was active, a price put it below   *)
(* the threshold; a liquidation once begun is not called off; a vault that    *)
(* has ended changes only by being tombstoned; the fee never falls.          *)
CuFinal ==
    \A v \in Stored(cuVaults) : LET r == cuVaults[v]  s == cuVaults'[v] IN
        /\ s.state = "liquidated" => r.state \in {"liquidating", "liquidated"}
        /\ r.state # "liquidating" /\ s.state = "liquidating"
            => r.state = "active" /\ BelowThreshold(s.collateral, s.price, s.minted)
        /\ r.state = "liquidating" => s.state \in {"liquidating", "liquidated", "tombstoned"}
        /\ r.state \in {"liquidated", "closed", "tombstoned"} => s \in {r, [r EXCEPT !.state = "tombstoned"]}
        /\ s.fee >= r.fee /\ s.collateral = r.collateral /\ s.minted = r.minted
=============================================================================
