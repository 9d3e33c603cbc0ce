------------------------------- MODULE EngineProofs -------------------------------
(***************************************************************************)
(* Proofs about the settlement engines, the gates before a privileged effect   *)
(* and the agents, for every identifiers, capacities, lifetimes, heights,      *)
(* clocks, graphs, repositories and arguments of the callers.                *)
(*                                                                         *)
(* Every engine keeps a Map of records, so every proof of one goes the same     *)
(* way: the records have a shape (XxRecord) and tell the truth about what        *)
(* happened to them (XxFaithful), no step stores one that does not (XxStepInv), *)
(* and the property of the engine follows from that.  The gates keep what they  *)
(* know of the thing they let through: when a token was issued, where a commit  *)
(* came from, what the checks say of a document.  The agents are about what is   *)
(* computed of what they were given: a lifecycle from envelopes, a snapshot      *)
(* from packages, a report from results, a discovery from files.              *)
(***************************************************************************)
EXTENDS
    OpVaults, CtUsdVaults, ArkVutxos, HoldInvoices, BitVmxIntents, Covenants, TaprootAssets, SilentPayments,
    MuSig2Sessions, M2MTokens, RevenueObservation, BranchPromotion,
    SwarmDelegation, DiscoveryTrust, SwarmContext, SwarmResults, AgentDiscovery,
    FiniteSetTheorems, SequenceTheorems, WellFoundedInduction, TLAPS

(* A set of natural numbers that is not empty has a least element.           *)
LEMMA LeastElement ==
    ASSUME NEW S, S \subseteq Nat, S # {}
    PROVE  \E m \in S : \A n \in S : m <= n
  <1>1. PICK m \in S : \A n \in S : <<n, m>> \notin OpToRel(<, Nat)
    BY NatLessThanWellFounded, WFMin, Zenon
  <1>2. \A n \in S : ~(n < m)
    BY <1>1, Zenon DEF OpToRel
  <1> QED
    BY <1>2

(* What is true of a set when it is true of all smaller parts of it is true of *)
(* every part of a finite set.  Good is the set of the parts it is true of.     *)
LEMMA EveryPart ==
    ASSUME NEW S, IsFiniteSet(S), NEW Good,
           \A T \in SUBSET S : (\A U \in SUBSET T : U # T => U \in Good) => T \in Good
    PROVE  SUBSET S \subseteq Good
  <1> DEFINE Bad == {T \in SUBSET S : T \notin Good}
             Sizes == {Cardinality(T) : T \in Bad}
  <1> SUFFICES ASSUME Bad # {} PROVE FALSE
    OBVIOUS
  <1>1. \A T \in SUBSET S : IsFiniteSet(T) /\ Cardinality(T) \in Nat
    BY FS_Subset, FS_CardinalityType
  <1>2. Sizes \subseteq Nat /\ Sizes # {}
    BY <1>1
  <1>3. PICK m \in Sizes : \A n \in Sizes : m <= n
    BY <1>2, LeastElement, Zenon
  <1>4. PICK T \in Bad : m = Cardinality(T)
    BY <1>3
  <1>5. ASSUME NEW U \in SUBSET T, U # T PROVE U \in Good
    <2>1. Cardinality(U) < Cardinality(T)
      <3>1. Cardinality(U) <= Cardinality(T) /\ Cardinality(U) # Cardinality(T)
        BY <1>1, <1>5, FS_Subset
      <3>2. U \in SUBSET S
        OBVIOUS
      <3> QED
        BY <1>1, <3>1, <3>2
    <2>2. U \in Bad => Cardinality(U) \in Sizes
      OBVIOUS
    <2>3. U \notin Bad
      <3> HIDE DEF Bad, Sizes
      <3>1. U \in SUBSET S
        BY DEF Bad
      <3> QED
        BY <1>1, <1>3, <1>4, <2>1, <2>2, <3>1 DEF Bad
    <2> QED
      BY <2>3
  <1> QED
    BY <1>4, <1>5

(***************************************************************************)
(* OP_VAULT.                                                                *)
(***************************************************************************)

OvRecord ==
    [state : {"locked", "unvaulting", "recovered", "withdrawn"}, delay : UnvaultDelays,
     started : Heights \cup {-1}, matures : Int, recoveryTx : BOOLEAN, withdrawalTx : BOOLEAN]

OvFaithful(r) ==
    /\ r.recoveryTx <=> r.state = "recovered"
    /\ r.withdrawalTx <=> r.state = "withdrawn"
    /\ r.state = "unvaulting" => r.started \in Heights /\ r.matures = r.started + r.delay

OvInv ==
    /\ ovHeight \in Heights
    /\ ovVaults \in [EngineIds -> {Nothing} \cup OvRecord]
    /\ \A v \in EngineIds : ovVaults[v] # Nothing => OvFaithful(ovVaults[v])

LEMMA OvInitInv == OvInit => OvInv
  BY EngineAssumption DEF OvInit, OvInv, Heights

OvTriggered(r, h) == [r EXCEPT !.state = "unvaulting", !.started = h, !.matures = h + r.delay]

LEMMA OvTriggeredFaithful ==
    ASSUME NEW r \in OvRecord, OvFaithful(r), r.state = "locked", NEW h \in Heights
    PROVE  OvTriggered(r, h) \in OvRecord /\ OvFaithful(OvTriggered(r, h))
  <1>1. r.delay \in Int
    <2>1. r.delay \in UnvaultDelays
      BY DEF OvRecord
    <2> QED
      BY <2>1, OpVaultAssumption, Zenon
  <1>2. h \in Int
    BY EngineAssumption DEF Heights
  <1>3. h + r.delay \in Int
    BY <1>1, <1>2
  <1> QED
    BY <1>1, <1>2, <1>3, Zenon DEF OvRecord, OvFaithful, OvTriggered

LEMMA OvStepInv == OvInv /\ [OvNext]_ovVars => OvInv'
  <1> SUFFICES ASSUME OvInv, [OvNext]_ovVars PROVE OvInv'
    OBVIOUS
  <1> USE EngineAssumption, OpVaultAssumption DEF OvInv
  <1>1. ASSUME NEW v \in EngineIds, NEW deposit \in VaultDeposits, NEW delay \in UnvaultDelays,
               CreateOpVault(v, deposit, delay)
        PROVE  OvInv'
    <2>1. NewVault(delay) \in OvRecord /\ OvFaithful(NewVault(delay))
      BY DEF NewVault, OvRecord, OvFaithful
    <2> QED
      BY <1>1, <2>1 DEF CreateOpVault
  <1>2. ASSUME NEW v \in EngineIds, TriggerUnvault(v)
        PROVE  OvInv'
    <2>1. ovVaults[v] \in OvRecord /\ OvFaithful(ovVaults[v]) /\ ovVaults[v].state = "locked"
      BY <1>2 DEF TriggerUnvault, InState, Nothing
    <2>2. OvTriggered(ovVaults[v], ovHeight) \in OvRecord /\ OvFaithful(OvTriggered(ovVaults[v], ovHeight))
      BY <2>1, OvTriggeredFaithful
    <2>3. /\ ovVaults' = [ovVaults EXCEPT ![v] = OvTriggered(ovVaults[v], ovHeight)]
          /\ ovHeight' = ovHeight
      BY <1>2, <2>1, Zenon DEF TriggerUnvault, OvTriggered
    <2> HIDE DEF OvInv
    <2> QED
      BY <2>2, <2>3 DEF OvInv
  <1>3. ASSUME NEW v \in EngineIds, TriggerRecovery(v)
        PROVE  OvInv'
    BY <1>3 DEF TriggerRecovery, InState, OvRecord, OvFaithful, Heights, Nothing
  <1>4. ASSUME NEW v \in EngineIds, CompleteWithdrawal(v)
        PROVE  OvInv'
    BY <1>4 DEF CompleteWithdrawal, Unvaulting, InState, OvRecord, OvFaithful, Heights, Nothing
  <1>5. CASE MoveChain
    BY <1>5 DEF MoveChain
  <1>6. CASE UNCHANGED ovVars
    BY <1>6 DEF ovVars
  <1> QED
    BY <1>1, <1>2, <1>3, <1>4, <1>5, <1>6 DEF OvNext

LEMMA OvInvSound == OvInv => OvSound
  BY DEF OvInv, OvSound, OvFaithful, Stored

(* Theorem: a vault is emptied by the transaction its state names and by no    *)
(* other, whatever heights, delays and orders of calls (OvSound).             *)
THEOREM OpVaultsSound == OvInit /\ [][OvNext]_ovVars => []OvSound
  BY OvInitInv, OvStepInv, OvInvSound, PTL

LEMMA OvStepFinal == OvInv /\ OvNext => OvFinal
  <1> SUFFICES ASSUME OvInv, OvNext, NEW v \in EngineIds, ovVaults[v] # Nothing
               PROVE  LET r == ovVaults[v] IN
                      /\ r.state \in {"recovered", "withdrawn"} => ovVaults'[v] = r
                      /\ r.state = "unvaulting" => ovVaults'[v].matures = r.matures
                      /\ r.state # "withdrawn" /\ ovVaults'[v].state = "withdrawn"
                          => r.started # -1 /\ ovHeight - r.started >= r.delay
    BY DEF OvFinal, Stored
  <1>1. ovVaults[v] \in OvRecord /\ OvFaithful(ovVaults[v]) /\ ovHeight \in Heights
    BY DEF OvInv
  <1> USE EngineAssumption, OpVaultAssumption DEF OvInv
  <1>2. ASSUME NEW w \in EngineIds, NEW deposit \in VaultDeposits, NEW delay \in UnvaultDelays,
               CreateOpVault(w, deposit, delay)
        PROVE  ovVaults'[v] = ovVaults[v]
    BY <1>2 DEF CreateOpVault
  <1>3. ASSUME NEW w \in EngineIds, TriggerUnvault(w) \/ TriggerRecovery(w) \/ CompleteWithdrawal(w),
               w # v
        PROVE  ovVaults'[v] = ovVaults[v]
    BY <1>3 DEF TriggerUnvault, TriggerRecovery, CompleteWithdrawal
  <1>4. CASE MoveChain
    BY <1>1, <1>4 DEF MoveChain, OvRecord
  <1>5. CASE TriggerUnvault(v)
    BY <1>1, <1>5 DEF TriggerUnvault, InState, OvRecord
  <1>6. CASE TriggerRecovery(v)
    BY <1>1, <1>6 DEF TriggerRecovery, InState, OvRecord
  <1>7. CASE CompleteWithdrawal(v)
    BY <1>1, <1>7 DEF CompleteWithdrawal, Unvaulting, InState, OvRecord, OvFaithful, Heights
  <1>8. CASE ovVaults'[v] = ovVaults[v]
    BY <1>1, <1>8 DEF OvRecord
  <1> QED
    BY <1>2, <1>3, <1>4, <1>5, <1>6, <1>7, <1>8 DEF OvNext

(* Theorem: a withdrawal comes no earlier than the delay of the vault after the *)
(* height of its one trigger, and a vault that gave its deposit away keeps its   *)
(* record (OvFinal).                                                         *)
THEOREM OpVaultsFinal == OvInit /\ [][OvNext]_ovVars => [][OvFinal]_ovVars
  <1>1. OvInv /\ [OvNext]_ovVars => [OvFinal]_ovVars
    BY OvStepFinal
  <1> QED
    BY <1>1, OvInitInv, OvStepInv, PTL

(***************************************************************************)
(* ctUSD vaults.                                                            *)
(***************************************************************************)
Prices(given) == {given[i] : i \in DOMAIN given}

(* A finite set of positions that is not empty has one of the highest price.   *)
LEMMA HighestPrice ==
    ASSUME NEW given, NEW S, S \subseteq DOMAIN given, IsFiniteSet(S), S # {},
           \A i \in DOMAIN given : given[i] \in Nat
    PROVE  \E h \in S : \A i \in S : given[i] <= given[h]
  <1> DEFINE Good == {T \in SUBSET S : T = {} \/ \E h \in T : \A i \in T : given[i] <= given[h]}
  <1>1. ASSUME NEW T \in SUBSET S, \A U \in SUBSET T : U # T => U \in Good
        PROVE  T \in Good
    <2> SUFFICES ASSUME T # {} PROVE \E h \in T : \A i \in T : given[i] <= given[h]
      OBVIOUS
    <2>1. PICK t \in T : TRUE
      OBVIOUS
    <2>2. T \ {t} \in Good
      BY <1>1, Zenon
    <2>3. \A i \in T : given[i] \in Nat
      OBVIOUS
    <2>4. CASE T \ {t} = {}
      BY <2>3, <2>4
    <2>5. CASE T \ {t} # {}
      <3>1. PICK h \in T \ {t} : \A i \in T \ {t} : given[i] <= given[h]
        BY <2>2, <2>5
      <3>2. CASE given[t] <= given[h]
        BY <3>1, <3>2
      <3>3. CASE ~(given[t] <= given[h])
        <4>1. \A i \in T : given[i] <= given[t]
          BY <2>3, <3>1, <3>3
        <4> QED
          BY <4>1
      <3> QED
        BY <3>2, <3>3
    <2> QED
      BY <2>4, <2>5
  <1>2. SUBSET S \subseteq Good
    <2> HIDE DEF Good
    <2> QED
      BY <1>1, EveryPart
  <1>3. S \in Good
    BY <1>2
  <1> QED
    BY <1>3

(* There is a price at the middle, and half of the prices are on either side.  *)
LEMMA MedianExists ==
    ASSUME NEW given, IsFiniteSet(DOMAIN given), DOMAIN given # {},
           \A i \in DOMAIN given : given[i] \in Nat
    PROVE  \E p \in Prices(given) :
                /\ Cardinality(PricesBelow(given, p)) <= Cardinality(DOMAIN given) \div 2
                /\ Cardinality(DOMAIN given) \div 2 < Cardinality(PricesUpTo(given, p))
  <1>1. PICK n : n = Cardinality(DOMAIN given)
    OBVIOUS
  <1>2. n \in Nat /\ n # 0 /\ n \div 2 \in Nat /\ n \div 2 < n
    BY <1>1, FS_CardinalityType, FS_EmptySet
  <1>3. \A p : /\ PricesBelow(given, p) \subseteq DOMAIN given /\ PricesUpTo(given, p) \subseteq DOMAIN given
               /\ IsFiniteSet(PricesBelow(given, p)) /\ IsFiniteSet(PricesUpTo(given, p))
               /\ Cardinality(PricesBelow(given, p)) \in Nat /\ Cardinality(PricesUpTo(given, p)) \in Nat
    BY FS_Subset, FS_CardinalityType DEF PricesBelow, PricesUpTo
  <1>4. PICK Reached : Reached = {p \in Prices(given) : n \div 2 < Cardinality(PricesUpTo(given, p))}
    BY Zenon
  <1>5. Reached # {}
    <2>1. PICK h \in DOMAIN given : \A i \in DOMAIN given : given[i] <= given[h]
      BY HighestPrice
    <2>2. PricesUpTo(given, given[h]) = DOMAIN given
      BY <2>1 DEF PricesUpTo
    <2>3. given[h] \in Prices(given)
      BY DEF Prices
    <2> QED
      BY <1>1, <1>2, <1>4, <2>2, <2>3
  <1>6. Reached \subseteq Nat
    BY <1>4 DEF Prices
  <1>7. PICK p \in Reached : \A q \in Reached : p <= q
    BY <1>5, <1>6, LeastElement, Zenon
  <1>8. Cardinality(PricesBelow(given, p)) <= n \div 2
    <2> SUFFICES ASSUME ~(Cardinality(PricesBelow(given, p)) <= n \div 2) PROVE FALSE
      OBVIOUS
    <2>1. PricesBelow(given, p) # {}
      BY <1>2, FS_EmptySet
    <2>2. PICK h \in PricesBelow(given, p) : \A i \in PricesBelow(given, p) : given[i] <= given[h]
      BY <1>3, <2>1, HighestPrice
    <2>3. h \in DOMAIN given /\ given[h] < p /\ p \in Nat
      BY <1>6 DEF PricesBelow
    <2>4. PricesUpTo(given, given[h]) = PricesBelow(given, p)
      BY <2>2, <2>3 DEF PricesUpTo, PricesBelow
    <2>5. given[h] \in Prices(given)
      BY <2>3 DEF Prices
    <2>6. n \div 2 < Cardinality(PricesBelow(given, p))
      BY <1>2, <1>3
    <2>7. given[h] \in Reached
      BY <1>4, <2>4, <2>5, <2>6
    <2> QED
      BY <1>7, <2>3, <2>7
  <1> QED
    BY <1>1, <1>4, <1>7, <1>8

LEMMA MedianHalves ==
    ASSUME NEW given, IsFiniteSet(DOMAIN given), Cardinality(DOMAIN given) >= 3,
           \A i \in DOMAIN given : given[i] \in Nat
    PROVE  LET p == MedianPrice(given)  n == Cardinality(DOMAIN given) IN
           /\ p \in Prices(given)
           /\ 2 * Cardinality({i \in DOMAIN given : given[i] >= p}) >= n
           /\ 2 * Cardinality({i \in DOMAIN given : given[i] <= p}) > n
  <1>1. PICK p, n : p = MedianPrice(given) /\ n = Cardinality(DOMAIN given)
    OBVIOUS
  <1>2. n \in Nat /\ n >= 3 /\ DOMAIN given # {}
    BY <1>1, FS_CardinalityType, FS_EmptySet
  <1>3. p \in Prices(given) /\ Cardinality(PricesBelow(given, p)) <= n \div 2 /\ n \div 2 < Cardinality(PricesUpTo(given, p))
    BY <1>1, <1>2, MedianExists DEF MedianPrice, Prices
  <1>4. PICK above : above = {i \in DOMAIN given : given[i] >= p}
    BY Zenon
  <1>5. /\ PricesBelow(given, p) \subseteq DOMAIN given /\ PricesUpTo(given, p) \subseteq DOMAIN given
        /\ above = DOMAIN given \ PricesBelow(given, p) /\ PricesUpTo(given, p) = {i \in DOMAIN given : given[i] <= p}
    BY <1>3, <1>4 DEF PricesBelow, PricesUpTo, Prices
  <1>6. /\ Cardinality(PricesBelow(given, p)) \in Nat /\ Cardinality(PricesUpTo(given, p)) \in Nat
    BY <1>5, FS_Subset, FS_CardinalityType
  <1>7. Cardinality(above) = n - Cardinality(DOMAIN given \cap PricesBelow(given, p))
    BY <1>1, <1>5, FS_Difference
  <1>8. DOMAIN given \cap PricesBelow(given, p) = PricesBelow(given, p)
    BY <1>5
  <1>9. Cardinality(above) = n - Cardinality(PricesBelow(given, p))
    BY <1>7, <1>8, Zenon
  <1>10. 2 * Cardinality(above) >= n
    BY <1>2, <1>3, <1>6, <1>9
  <1>11. 2 * Cardinality(PricesUpTo(given, p)) > n
    BY <1>2, <1>3, <1>6
  <1> QED
    BY <1>1, <1>3, <1>4, <1>5, <1>10, <1>11

(* What is valid of a list of attestations.                                  *)
LEMMA ValidPrices ==
    ASSUME NEW list \in AttestationLists
    PROVE  LET given == ValidAttestations(list) IN
           /\ IsFiniteSet(DOMAIN given)
           /\ \A i \in DOMAIN given : given[i] \in Nat /\ given[i] > 0
  <1>1. list \in Seq(Attestation)
    BY CtUsdAssumption
  <1>2. PICK valid : valid = {i \in DOMAIN list : list[i].oracle /\ list[i].price > 0 /\ list[i].signed}
    BY Zenon
  <1>3. IsFiniteSet(DOMAIN list)
    <2>1. DOMAIN list = 1 .. Len(list) /\ Len(list) \in Nat
      BY <1>1
    <2> QED
      BY <2>1, FS_Interval
  <1>4. IsFiniteSet(valid)
    BY <1>2, <1>3, FS_Subset
  <1>5. \A i \in valid : list[i].price \in Nat /\ list[i].price > 0
    <2>1. \A i \in DOMAIN list : list[i] \in Attestation
      BY <1>1
    <2> QED
      BY <1>2, <2>1 DEF Attestation
  <1>6. ValidAttestations(list) = [i \in valid |-> list[i].price]
    BY <1>2 DEF ValidAttestations
  <1> QED
    BY <1>4, <1>5, <1>6

CuState == {"created", "active", "liquidating", "liquidated", "closed", "tombstoned"}

(* Of a vault: the attestations of its price are finitely many and of half of  *)
(* them on either side, and its fee is that of a moment since it was opened.   *)
CuFaithful(r, now) ==
    /\ r.state \in CuState /\ r.collateral \in Int /\ r.minted \in Nat /\ r.price \in Nat /\ r.price > 0
    /\ r.created \in Nat /\ r.created <= now
    /\ \E t \in Nat : r.created <= t /\ t <= now /\ r.fee = r.minted * (t - r.created)
    /\ LET given == r.attestations  n == Cardinality(DOMAIN given) IN
        IF n = 0 THEN r.fee = 0 /\ WellCollateralized(r.collateral, r.price, r.minted)
        ELSE /\ n >= 3
             /\ 2 * Cardinality({i \in DOMAIN given : given[i] >= r.price}) >= n
             /\ 2 * Cardinality({i \in DOMAIN given : given[i] <= r.price}) > n

CuRecord(r) ==
    r = [state |-> r.state, collateral |-> r.collateral, minted |-> r.minted, price |-> r.price,
         fee |-> r.fee, attestations |-> r.attestations, created |-> r.created]

CuInv ==
    /\ cuNow \in Moments
    /\ cuVaults = [v \in EngineIds |-> cuVaults[v]]
    /\ \A v \in EngineIds : cuVaults[v] # Nothing => CuRecord(cuVaults[v]) /\ CuFaithful(cuVaults[v], cuNow)

LEMMA CuInitInv == CuInit => CuInv
  BY EngineAssumption DEF CuInit, CuInv, Moments

(* A fee that has grown is of a later moment.                                *)
LEMMA FeeGrows ==
    ASSUME NEW m \in Nat, NEW a \in Nat, NEW b \in Nat, a <= b
    PROVE  m * a \in Nat /\ m * b \in Nat /\ m * a <= m * b
  <1>1. PICK d \in Nat : b = a + d
    <2>1. b - a \in Nat /\ b = a + (b - a)
      OBVIOUS
    <2> QED
      BY <2>1
  <1>2. m * b = m * a + m * d /\ m * d \in Nat /\ m * a \in Nat
    BY <1>1
  <1> QED
    BY <1>2

LEMMA CuStateOnly ==
    ASSUME NEW r, NEW now, CuRecord(r), CuFaithful(r, now), NEW state \in CuState
    PROVE  LET q == [r EXCEPT !.state = state] IN
           /\ CuRecord(q) /\ CuFaithful(q, now)
           /\ q.state = state /\ q.fee = r.fee /\ q.collateral = r.collateral /\ q.minted = r.minted
           /\ q.price = r.price
  <1>1. PICK q : q = [r EXCEPT !.state = state]
    BY Zenon
  <1>2. PICK sb, sc, sd, se, sf, sg, sh :
            r = [state |-> sb, collateral |-> sc, minted |-> sd, price |-> se, fee |-> sf,
                 attestations |-> sg, created |-> sh]
    BY DEF CuRecord
  <1>3. q = [state |-> state, collateral |-> r.collateral, minted |-> r.minted, price |-> r.price,
             fee |-> r.fee, attestations |-> r.attestations, created |-> r.created]
    BY <1>1, <1>2
  <1>4. /\ q.state = state /\ q.collateral = r.collateral /\ q.minted = r.minted /\ q.price = r.price
        /\ q.fee = r.fee /\ q.attestations = r.attestations /\ q.created = r.created
    BY <1>3
  <1>5. CuRecord(q)
    BY <1>3, <1>4 DEF CuRecord
  <1>6. CuFaithful(q, now)
    BY <1>4 DEF CuFaithful
  <1> QED
    BY <1>1, <1>4, <1>5, <1>6

LEMMA CuPriced ==
    ASSUME CuInv, NEW v \in EngineIds, NEW list \in AttestationLists, UpdatePrice(v, list)
    PROVE  LET r == cuVaults[v]  q == cuVaults'[v] IN
           /\ CuRecord(q) /\ CuFaithful(q, cuNow)
           /\ q.fee >= r.fee /\ q.collateral = r.collateral /\ q.minted = r.minted
           /\ r.state \in {"created", "active", "liquidating"}
           /\ q.state = StateAtPrice(r, q.price)
           /\ cuVaults' = [cuVaults EXCEPT ![v] = q]
  <1>1. PICK r, given, price :
            r = cuVaults[v] /\ given = ValidAttestations(list) /\ price = MedianPrice(given)
    OBVIOUS
  <1>2. PICK fee : fee = r.minted * (cuNow - r.created)
    OBVIOUS
  <1>3. PICK q : q = [r EXCEPT !.price = price, !.attestations = given, !.fee = fee,
                               !.state = StateAtPrice(r, price)]
    OBVIOUS
  <1>4. r.state \in {"created", "active", "liquidating"} /\ Cardinality(DOMAIN given) >= 3
        /\ cuVaults' = [cuVaults EXCEPT ![v] = q]
    BY <1>1, <1>2, <1>3 DEF UpdatePrice, InState
  <1>5. CuRecord(r) /\ CuFaithful(r, cuNow)
    BY <1>1, <1>4 DEF CuInv, Nothing
  <1>6. IsFiniteSet(DOMAIN given) /\ \A i \in DOMAIN given : given[i] \in Nat /\ given[i] > 0
    BY <1>1, ValidPrices
  <1>7. /\ price \in Prices(given)
        /\ 2 * Cardinality({i \in DOMAIN given : given[i] >= price}) >= Cardinality(DOMAIN given)
        /\ 2 * Cardinality({i \in DOMAIN given : given[i] <= price}) > Cardinality(DOMAIN given)
    BY <1>1, <1>4, <1>6, MedianHalves
  <1>8. price \in Nat /\ price > 0
    BY <1>6, <1>7 DEF Prices
  <1>9. PICK sb, sc, sd, se, sf, sg, sh :
            r = [state |-> sb, collateral |-> sc, minted |-> sd, price |-> se, fee |-> sf,
                 attestations |-> sg, created |-> sh]
    BY <1>5 DEF CuRecord
  <1>10. q = [state |-> StateAtPrice(r, price), collateral |-> r.collateral, minted |-> r.minted,
              price |-> price, fee |-> fee, attestations |-> given, created |-> r.created]
    BY <1>3, <1>9, Zenon
  <1>11. /\ q.state = StateAtPrice(r, price) /\ q.collateral = r.collateral /\ q.minted = r.minted
         /\ q.price = price /\ q.fee = fee /\ q.attestations = given /\ q.created = r.created
    BY <1>10
  <1>12. CuRecord(q)
    BY <1>10, <1>11 DEF CuRecord
  <1>13. cuNow \in Nat /\ r.created \in Nat /\ r.minted \in Nat /\ r.created <= cuNow
    BY <1>5, EngineAssumption DEF CuInv, Moments, CuFaithful
  <1>14. PICK t \in Nat : r.created <= t /\ t <= cuNow /\ r.fee = r.minted * (t - r.created)
    BY <1>5 DEF CuFaithful
  <1>15. fee >= r.fee
    <2>1. t - r.created \in Nat /\ cuNow - r.created \in Nat /\ t - r.created <= cuNow - r.created
      BY <1>13, <1>14
    <2> QED
      BY <1>2, <1>13, <1>14, <2>1, FeeGrows
  <1>16. q.state \in CuState
    BY <1>4, <1>11 DEF StateAtPrice, CuState
  <1>17. \E u \in Nat : q.created <= u /\ u <= cuNow /\ q.fee = q.minted * (u - q.created)
    BY <1>2, <1>11, <1>13
  <1>18. Cardinality(DOMAIN given) # 0
    BY <1>4
  <1>19. CuFaithful(q, cuNow)
    BY <1>4, <1>5, <1>7, <1>8, <1>11, <1>16, <1>17, <1>18 DEF CuFaithful
  <1>20. cuVaults'[v] = q
    BY <1>4 DEF CuInv
  <1> QED
    BY <1>1, <1>4, <1>11, <1>12, <1>15, <1>19, <1>20, Zenon

LEMMA CuOpened ==
    ASSUME CuInv, NEW config \in CtUsdConfigs,
           config.collateral > 0, config.minted > 0, config.price > 0,
           WellCollateralized(config.collateral, config.price, config.minted)
    PROVE  LET r == [state |-> "created", collateral |-> config.collateral, minted |-> config.minted,
                     price |-> config.price, fee |-> 0, attestations |-> <<>>, created |-> cuNow]
           IN  CuRecord(r) /\ CuFaithful(r, cuNow)
  <1>1. PICK r : r = [state |-> "created", collateral |-> config.collateral, minted |-> config.minted,
                      price |-> config.price, fee |-> 0, attestations |-> <<>>, created |-> cuNow]
    BY Zenon
  <1>2. /\ r.state = "created" /\ r.collateral = config.collateral /\ r.minted = config.minted
        /\ r.price = config.price /\ r.fee = 0 /\ r.attestations = <<>> /\ r.created = cuNow
    BY <1>1
  <1>3. CuRecord(r)
    BY <1>1, <1>2 DEF CuRecord
  <1>4. config.collateral \in Int /\ config.minted \in Nat /\ config.price \in Nat /\ cuNow \in Nat
    BY CtUsdAssumption, EngineAssumption DEF CuInv, Moments
  <1>5. Cardinality(DOMAIN r.attestations) = 0
    <2>1. DOMAIN r.attestations = {}
      BY <1>2
    <2> QED
      BY <2>1, FS_EmptySet
  <1>6. \E t \in Nat : r.created <= t /\ t <= cuNow /\ r.fee = r.minted * (t - r.created)
    BY <1>2, <1>4
  <1>7. CuFaithful(r, cuNow)
    BY <1>2, <1>4, <1>5, <1>6 DEF CuFaithful, CuState
  <1> QED
    BY <1>1, <1>3, <1>7

(* One vault changes, to a record of the right kind, or time passes.          *)
LEMMA CuChanged ==
    ASSUME CuInv, NEW v \in EngineIds, NEW q, CuRecord(q), CuFaithful(q, cuNow),
           cuVaults' = [cuVaults EXCEPT ![v] = q], cuNow' = cuNow
    PROVE  CuInv'
  <1>1. /\ cuVaults' = [w \in EngineIds |-> cuVaults'[w]]
        /\ \A w \in EngineIds : cuVaults'[w] = IF w = v THEN q ELSE cuVaults[w]
    BY DEF CuInv
  <1>2. ASSUME NEW w \in EngineIds, cuVaults'[w] # Nothing
        PROVE  CuRecord(cuVaults'[w]) /\ CuFaithful(cuVaults'[w], cuNow')
    BY <1>1, <1>2 DEF CuInv
  <1> QED
    BY <1>1, <1>2 DEF CuInv

LEMMA CuStepInv == CuInv /\ [CuNext]_cuVars => CuInv'
  <1> SUFFICES ASSUME CuInv, [CuNext]_cuVars PROVE CuInv'
    OBVIOUS
  <1>1. ASSUME NEW v \in EngineIds, NEW config \in CtUsdConfigs, CreateCtUsdVault(v, config)
        PROVE  CuInv'
    <2>1. PICK r : r = [state |-> "created", collateral |-> config.collateral, minted |-> config.minted,
                        price |-> config.price, fee |-> 0, attestations |-> <<>>, created |-> cuNow]
      BY Zenon
    <2>2. CuRecord(r) /\ CuFaithful(r, cuNow)
      BY <1>1, <2>1, CuOpened DEF CreateCtUsdVault
    <2>3. cuVaults' = [cuVaults EXCEPT ![v] = r] /\ cuNow' = cuNow
      BY <1>1, <2>1 DEF CreateCtUsdVault
    <2> QED
      BY <2>2, <2>3, CuChanged, Zenon
  <1>2. ASSUME NEW v \in EngineIds, NEW state \in CuState, cuVaults[v] # Nothing,
               cuVaults' = [cuVaults EXCEPT ![v].state = state], cuNow' = cuNow
        PROVE  CuInv'
    <2>1. PICK q : q = [cuVaults[v] EXCEPT !.state = state]
      BY Zenon
    <2>2. CuRecord(q) /\ CuFaithful(q, cuNow)
      BY <1>2, <2>1, CuStateOnly DEF CuInv
    <2>3. cuVaults' = [cuVaults EXCEPT ![v] = q]
      BY <1>2, <2>1
    <2> QED
      BY <1>2, <2>2, <2>3, CuChanged, Zenon
  <1>3. ASSUME NEW v \in EngineIds, NEW repaid,
               ActivateVault(v) \/ ExecuteLiquidation(v) \/ CloseVault(v, repaid) \/ TombstoneVault(v)
        PROVE  CuInv'
    <2>1. cuVaults[v] # Nothing /\ cuNow' = cuNow
      BY <1>3 DEF ActivateVault, ExecuteLiquidation, CloseVault, TombstoneVault, InState, Nothing
    <2>2. PICK state \in CuState : cuVaults' = [cuVaults EXCEPT ![v].state = state]
      BY <1>3 DEF ActivateVault, ExecuteLiquidation, CloseVault, TombstoneVault, CuState
    <2> QED
      BY <1>2, <2>1, <2>2, Zenon
  <1>4. ASSUME NEW v \in EngineIds, NEW list \in AttestationLists, UpdatePrice(v, list)
        PROVE  CuInv'
    <2>1. PICK q : q = cuVaults'[v]
      OBVIOUS
    <2>2. CuRecord(q) /\ CuFaithful(q, cuNow) /\ cuVaults' = [cuVaults EXCEPT ![v] = q]
      BY <1>4, <2>1, CuPriced
    <2>3. cuNow' = cuNow
      BY <1>4 DEF UpdatePrice
    <2> QED
      BY <2>2, <2>3, CuChanged, Zenon
  <1>5. CASE CuTick
    <2>1. cuNow \in Nat /\ cuNow' = cuNow + 1 /\ cuNow' \in Moments /\ cuVaults' = cuVaults
      BY <1>5, EngineAssumption DEF CuTick, CuInv, Moments
    <2>2. ASSUME NEW r, CuFaithful(r, cuNow) PROVE CuFaithful(r, cuNow')
      <3>1. r.created \in Nat /\ r.created <= cuNow'
        BY <2>1, <2>2 DEF CuFaithful
      <3>2. \E t \in Nat : r.created <= t /\ t <= cuNow' /\ r.fee = r.minted * (t - r.created)
        <4>1. PICK t \in Nat : r.created <= t /\ t <= cuNow /\ r.fee = r.minted * (t - r.created)
          BY <2>2 DEF CuFaithful
        <4>2. t <= cuNow'
          BY <2>1, <4>1
        <4> QED
          BY <4>1, <4>2
      <3> QED
        BY <2>2, <3>1, <3>2 DEF CuFaithful
    <2> QED
      BY <2>1, <2>2 DEF CuInv
  <1>6. CASE UNCHANGED cuVars
    BY <1>6 DEF cuVars, CuInv
  <1> QED
    BY <1>1, <1>3, <1>4, <1>5, <1>6 DEF CuNext

LEMMA CuInvSound == CuInv => CuSound /\ CuTypeOK
  <1> SUFFICES ASSUME CuInv PROVE CuSound /\ CuTypeOK
    OBVIOUS
  <1>1. CuSound
    BY Zenon DEF CuInv, CuSound, CuFaithful, Stored
  <1>2. ASSUME NEW v \in EngineIds, cuVaults[v] # Nothing
        PROVE  LET r == cuVaults[v] IN
               /\ r.state \in CuState /\ r.price > 0 /\ r.fee \in Nat /\ r.created \in Moments
    <2>1. PICK r : r = cuVaults[v]
      OBVIOUS
    <2>2. CuFaithful(r, cuNow)
      BY <1>2, <2>1 DEF CuInv
    <2>3. PICK t \in Nat : r.created <= t /\ t <= cuNow /\ r.fee = r.minted * (t - r.created)
      BY <2>2 DEF CuFaithful
    <2>4. r.minted \in Nat /\ r.created \in Nat /\ t - r.created \in Nat
      BY <2>2, <2>3 DEF CuFaithful
    <2>5. r.fee \in Nat
      BY <2>3, <2>4, FeeGrows
    <2>6. r.created \in Moments
      BY <2>2, EngineAssumption DEF CuFaithful, CuInv, Moments
    <2> QED
      BY <2>1, <2>2, <2>5, <2>6 DEF CuFaithful
  <1>3. CuTypeOK
    BY <1>2 DEF CuTypeOK, CuInv, Stored, CuState
  <1> QED
    BY <1>1, <1>3

(* Theorem: the price of a ctUSD vault is that of its opening, well            *)
(* collateralized, or the middle of three or more attestations, however many     *)
(* and whatever oracles attested (CuSound).                                  *)
THEOREM CtUsdSound == CuInit /\ [][CuNext]_cuVars => []CuSound
  BY CuInitInv, CuStepInv, CuInvSound, PTL

LEMMA CuStepFinal == CuInv /\ CuNext => CuFinal
  <1> SUFFICES ASSUME CuInv, CuNext, NEW v \in EngineIds, cuVaults[v] # Nothing
               PROVE  LET r == cuVaults[v]  s == cuVaults'[v] IN
                /\ s.state = "liquidated" => r.state \in {"liquidating", "liquidated"}
                /\ r.state # "liquidating" /\ s.state = "liquidating"
                    => r.state = "active" /\ BelowThreshold(s.collateral, s.price, s.minted)
                /\ r.state = "liquidating" => s.state \in {"liquidating", "liquidated", "tombstoned"}
                /\ r.state \in {"liquidated", "closed", "tombstoned"} => s \in {r, [r EXCEPT !.state = "tombstoned"]}
                /\ s.fee >= r.fee /\ s.collateral = r.collateral /\ s.minted = r.minted
    BY DEF CuFinal, Stored
  <1>1. PICK r : r = cuVaults[v]
    OBVIOUS
  <1>2. CuRecord(r) /\ CuFaithful(r, cuNow)
    BY <1>1 DEF CuInv
  <1>3. r.fee >= r.fee
    <2>1. PICK t \in Nat : r.created <= t /\ r.fee = r.minted * (t - r.created)
      BY <1>2 DEF CuFaithful
    <2>2. r.minted \in Nat /\ t - r.created \in Nat
      BY <1>2, <2>1 DEF CuFaithful
    <2>3. r.fee \in Nat
      BY <2>1, <2>2, FeeGrows
    <2> QED
      BY <2>3
  <1>4. CASE cuVaults'[v] = r
    BY <1>1, <1>3, <1>4
  <1>5. ASSUME NEW w \in EngineIds, NEW config, CreateCtUsdVault(w, config) PROVE cuVaults'[v] = r
    BY <1>1, <1>5 DEF CreateCtUsdVault, CuInv
  <1>6. ASSUME NEW w \in EngineIds, w # v, NEW repaid, NEW list,
               ActivateVault(w) \/ ExecuteLiquidation(w) \/ TombstoneVault(w) \/ UpdatePrice(w, list)
               \/ CloseVault(w, repaid)
        PROVE  cuVaults'[v] = r
    BY <1>1, <1>6 DEF ActivateVault, ExecuteLiquidation, TombstoneVault, UpdatePrice, CloseVault, CuInv
  <1>7. ASSUME NEW state \in CuState, cuVaults' = [cuVaults EXCEPT ![v].state = state]
        PROVE  LET s == cuVaults'[v] IN
               /\ s = [r EXCEPT !.state = state] /\ s.state = state
               /\ s.fee >= r.fee /\ s.collateral = r.collateral /\ s.minted = r.minted
    <2>1. cuVaults'[v] = [r EXCEPT !.state = state]
      BY <1>1, <1>7 DEF CuInv
    <2> QED
      BY <1>2, <1>3, <2>1, CuStateOnly
  <1>8. CASE ActivateVault(v)
    <2>1. r.state = "created" /\ cuVaults' = [cuVaults EXCEPT ![v].state = "active"]
      BY <1>1, <1>8 DEF ActivateVault, InState
    <2>2. "active" \in CuState
      BY DEF CuState
    <2> QED
      BY <1>1, <1>7, <2>1, <2>2, Zenon
  <1>9. CASE ExecuteLiquidation(v)
    <2>1. r.state = "liquidating" /\ cuVaults' = [cuVaults EXCEPT ![v].state = "liquidated"]
      BY <1>1, <1>9 DEF ExecuteLiquidation, InState
    <2>2. "liquidated" \in CuState
      BY DEF CuState
    <2> QED
      BY <1>1, <1>7, <2>1, <2>2, Zenon
  <1>10. ASSUME NEW repaid, CloseVault(v, repaid)
         PROVE  r.state = "active" /\ cuVaults' = [cuVaults EXCEPT ![v].state = "closed"] /\ "closed" \in CuState
    BY <1>1, <1>10 DEF CloseVault, InState, CuState
  <1>11. ASSUME NEW repaid, CloseVault(v, repaid)
         PROVE  LET s == cuVaults'[v] IN
                /\ r.state = "active" /\ s.state = "closed"
                /\ s.fee >= r.fee /\ s.collateral = r.collateral /\ s.minted = r.minted
    BY <1>7, <1>10, <1>11, Zenon
  <1>12. CASE TombstoneVault(v)
    <2>1. cuVaults' = [cuVaults EXCEPT ![v].state = "tombstoned"] /\ "tombstoned" \in CuState
      BY <1>12 DEF TombstoneVault, CuState
    <2> QED
      BY <1>1, <1>7, <2>1, Zenon
  <1>13. ASSUME NEW list \in AttestationLists, UpdatePrice(v, list)
         PROVE  LET s == cuVaults'[v] IN
                /\ s.fee >= r.fee /\ s.collateral = r.collateral /\ s.minted = r.minted
                /\ r.state \in {"created", "active", "liquidating"} /\ s.state = StateAtPrice(r, s.price)
    BY <1>1, <1>13, CuPriced
  <1>14. ASSUME NEW list \in AttestationLists, UpdatePrice(v, list)
         PROVE  LET s == cuVaults'[v] IN
                /\ s.state = "liquidated" => r.state \in {"liquidating", "liquidated"}
                /\ r.state # "liquidating" /\ s.state = "liquidating"
                    => r.state = "active" /\ BelowThreshold(s.collateral, s.price, s.minted)
                /\ r.state = "liquidating" => s.state \in {"liquidating", "liquidated", "tombstoned"}
    <2>1. PICK s : s = cuVaults'[v]
      OBVIOUS
    <2> QED
      BY <1>13, <1>14, <2>1 DEF StateAtPrice
  <1>15. CASE CuTick
    BY <1>1, <1>4, <1>15 DEF CuTick
  <1> QED
    BY <1>1, <1>4, <1>5, <1>6, <1>8, <1>9, <1>11, <1>12, <1>13, <1>14, <1>15 DEF CuNext

(* Theorem: a vault is liquidated only after a price put it below the threshold *)
(* while it was active, a liquidation is not called off, what has ended only     *)
(* changes by a tombstone, and the fee never falls (CuFinal).                 *)
THEOREM CtUsdFinal == CuInit /\ [][CuNext]_cuVars => [][CuFinal]_cuVars
  <1>1. CuInv /\ [CuNext]_cuVars => [CuFinal]_cuVars
    BY CuStepFinal
  <1> QED
    BY <1>1, CuInitInv, CuStepInv, PTL

(***************************************************************************)
(* Hold invoices.                                                           *)
(***************************************************************************)

HiRecord ==
    [state : {"created", "held", "settled", "canceled", "expired"}, id : Nat, expires : Nat,
     heldAt : Nat \cup {-1}, settledAt : Nat \cup {-1}]

HiFaithful(r, now) ==
    /\ r.state = "settled" <=> r.settledAt # -1
    /\ r.settledAt # -1 => r.heldAt # -1 /\ r.heldAt <= r.settledAt /\ r.settledAt < r.expires
    /\ r.heldAt # -1 => r.heldAt < r.expires /\ r.heldAt <= now
    /\ r.state = "expired" => r.expires <= now
    /\ r.state = "held" => r.heldAt # -1

HiInv ==
    /\ hiNow \in Nat /\ hiMade \in Nat
    /\ hiInvoices \in [EngineIds -> {Nothing} \cup HiRecord]
    /\ \A h \in EngineIds : hiInvoices[h] # Nothing =>
        HiFaithful(hiInvoices[h], hiNow) /\ hiInvoices[h].id <= hiMade

LEMMA HiInitInv == HiInit => HiInv
  BY DEF HiInit, HiInv

LEMMA HiChecked ==
    ASSUME NEW r \in HiRecord, hiNow \in Nat, HiFaithful(r, hiNow)
    PROVE  /\ CheckExpiry(r) \in HiRecord /\ HiFaithful(CheckExpiry(r), hiNow)
           /\ CheckExpiry(r).id = r.id
           /\ CheckExpiry(r).state \in {"created", "held"} => hiNow < CheckExpiry(r).expires
           /\ r.state \in {"settled", "canceled", "expired"} => CheckExpiry(r) = r
  BY DEF HiRecord, HiFaithful, CheckExpiry

LEMMA HiHeld ==
    ASSUME NEW r \in HiRecord, hiNow \in Nat, HiFaithful(r, hiNow),
           r.state \in {"created", "held"} => hiNow < r.expires
    PROVE  /\ Held(r) \in HiRecord /\ HiFaithful(Held(r), hiNow) /\ Held(r).id = r.id
           /\ r.state \in {"settled", "canceled", "expired"} => Held(r) = r
  <1>1. CASE r.state = "created"
    <2>1. Held(r) \in HiRecord
      BY <1>1, Zenon DEF HiRecord, Held
    <2>2. Held(r).state = "held" /\ Held(r).heldAt = hiNow /\ Held(r).settledAt = r.settledAt
          /\ Held(r).expires = r.expires /\ Held(r).id = r.id
      BY <1>1 DEF HiRecord, Held
    <2> QED
      BY <1>1, <2>1, <2>2 DEF HiRecord, HiFaithful
  <1>2. CASE r.state # "created"
    BY <1>2 DEF Held
  <1> QED
    BY <1>1, <1>2

LEMMA HiSettled ==
    ASSUME NEW r \in HiRecord, hiNow \in Nat, HiFaithful(r, hiNow),
           r.state \in {"created", "held"} => hiNow < r.expires, NEW h, NEW preimage
    PROVE  /\ Settled(r, h, preimage) \in HiRecord /\ HiFaithful(Settled(r, h, preimage), hiNow)
           /\ Settled(r, h, preimage).id = r.id
           /\ r.state \in {"settled", "canceled", "expired"} => Settled(r, h, preimage) = r
  <1> DEFINE s == Settled(r, h, preimage)
  <1>1. CASE r.state = "held" /\ preimage = h
    <2>1. s \in HiRecord
      BY <1>1, Zenon DEF HiRecord, Settled
    <2>2. s.state = "settled" /\ s.heldAt = r.heldAt /\ s.settledAt = hiNow
          /\ s.expires = r.expires /\ s.id = r.id
      BY <1>1 DEF HiRecord, Settled
    <2> QED
      BY <1>1, <2>1, <2>2 DEF HiRecord, HiFaithful
  <1>2. CASE ~(r.state = "held" /\ preimage = h)
    BY <1>2 DEF Settled
  <1> QED
    BY <1>1, <1>2

LEMMA HiStepInv == HiInv /\ [HiNext]_hiVars => HiInv'
  <1> SUFFICES ASSUME HiInv, [HiNext]_hiVars PROVE HiInv'
    OBVIOUS
  <1>0. /\ hiNow \in Nat /\ hiMade \in Nat
        /\ \A h \in EngineIds : hiInvoices[h] # Nothing =>
            hiInvoices[h] \in HiRecord /\ HiFaithful(hiInvoices[h], hiNow) /\ hiInvoices[h].id <= hiMade
    BY DEF HiInv
  <1>1. ASSUME NEW h \in EngineIds, NEW ttl \in {0, EngineTtl}, CreateHoldInvoice(h, ttl)
        PROVE  HiInv'
    <2> DEFINE fresh == [state |-> "created", id |-> hiMade + 1, expires |-> hiNow + ttl,
                         heldAt |-> -1, settledAt |-> -1]
               new == CheckExpiry(fresh)
    <2>1. fresh \in HiRecord /\ HiFaithful(fresh, hiNow) /\ fresh.id = hiMade + 1
      BY <1>0, EngineAssumption DEF HiRecord, HiFaithful
    <2>2. hiInvoices' = [hiInvoices EXCEPT ![h] = new] /\ hiNow' = hiNow /\ hiMade' = hiMade + 1
      BY <1>1 DEF CreateHoldInvoice
    <2>3. new \in HiRecord /\ HiFaithful(new, hiNow) /\ new.id = hiMade + 1
      <3> HIDE DEF fresh
      <3> QED
        BY <1>0, <2>1, HiChecked
    <2> HIDE DEF new
    <2> QED
      BY <1>0, <2>2, <2>3 DEF HiInv, HiRecord
  <1>2. ASSUME NEW h \in EngineIds, HoldHtlc(h)
        PROVE  HiInv'
    <2> DEFINE new == Held(CheckExpiry(hiInvoices[h]))
    <2>1. new \in HiRecord /\ HiFaithful(new, hiNow) /\ new.id <= hiMade
      BY <1>0, <1>2, HiChecked, HiHeld DEF HoldHtlc
    <2>2. hiInvoices' = [hiInvoices EXCEPT ![h] = new] /\ hiNow' = hiNow /\ hiMade' = hiMade
      BY <1>2 DEF HoldHtlc
    <2> HIDE DEF new
    <2> QED
      BY <2>1, <2>2 DEF HiInv
  <1>3. ASSUME NEW h \in EngineIds, NEW preimage \in EngineIds, SettleHoldInvoice(h, preimage)
        PROVE  HiInv'
    <2> DEFINE new == Settled(CheckExpiry(hiInvoices[h]), h, preimage)
    <2>1. new \in HiRecord /\ HiFaithful(new, hiNow) /\ new.id <= hiMade
      BY <1>0, <1>3, HiChecked, HiSettled DEF SettleHoldInvoice
    <2>2. hiInvoices' = [hiInvoices EXCEPT ![h] = new] /\ hiNow' = hiNow /\ hiMade' = hiMade
      BY <1>3 DEF SettleHoldInvoice
    <2> HIDE DEF new
    <2> QED
      BY <2>1, <2>2 DEF HiInv
  <1>4. ASSUME NEW h \in EngineIds, CancelHoldInvoice(h)
        PROVE  HiInv'
    <2> DEFINE new == [hiInvoices[h] EXCEPT !.state = "canceled"]
    <2>1. new \in HiRecord /\ HiFaithful(new, hiNow) /\ new.id <= hiMade
      BY <1>0, <1>4 DEF CancelHoldInvoice, InState, Nothing, HiRecord, HiFaithful
    <2>2. hiInvoices' = [hiInvoices EXCEPT ![h] = new] /\ hiNow' = hiNow /\ hiMade' = hiMade
      BY <1>4 DEF CancelHoldInvoice
    <2> HIDE DEF new
    <2> QED
      BY <2>1, <2>2 DEF HiInv
  <1>5. ASSUME NEW h \in EngineIds, GetInvoice(h)
        PROVE  HiInv'
    <2> DEFINE new == CheckExpiry(hiInvoices[h])
    <2>1. new \in HiRecord /\ HiFaithful(new, hiNow) /\ new.id <= hiMade
      BY <1>0, <1>5, HiChecked DEF GetInvoice
    <2>2. hiInvoices' = [hiInvoices EXCEPT ![h] = new] /\ hiNow' = hiNow /\ hiMade' = hiMade
      BY <1>5 DEF GetInvoice
    <2> HIDE DEF new
    <2> QED
      BY <2>1, <2>2 DEF HiInv
  <1>6. CASE HiTick
    BY <1>6 DEF HiTick, HiInv, HiFaithful, HiRecord
  <1>7. CASE UNCHANGED hiVars
    BY <1>7 DEF hiVars, HiInv
  <1> QED
    BY <1>1, <1>2, <1>3, <1>4, <1>5, <1>6, <1>7 DEF HiNext

LEMMA HiInvSound == HiInv => HiSound
  BY DEF HiInv, HiSound, HiFaithful, Stored

(* Theorem: an invoice is settled only after it was paid, both before it       *)
(* expired (HiSound).                                                       *)
THEOREM HoldInvoicesSound == HiInit /\ [][HiNext]_hiVars => []HiSound
  BY HiInitInv, HiStepInv, HiInvSound, PTL

LEMMA HiStepFinal == HiInv /\ HiNext => HiFinal
  <1> SUFFICES ASSUME HiInv, HiNext, NEW v \in EngineIds, hiInvoices[v] # Nothing
               PROVE  /\ hiInvoices'[v] # Nothing
                      /\ hiInvoices[v].state \in {"settled", "canceled", "expired"} =>
                          hiInvoices'[v] = hiInvoices[v] \/ hiInvoices'[v].id > hiInvoices[v].id
    BY DEF HiFinal, Stored
  <1>0. /\ hiNow \in Nat /\ hiMade \in Nat
        /\ hiInvoices \in [EngineIds -> {Nothing} \cup HiRecord]
        /\ hiInvoices[v] \in HiRecord /\ HiFaithful(hiInvoices[v], hiNow) /\ hiInvoices[v].id <= hiMade
    BY DEF HiInv
  <1> DEFINE Kept(r, s) ==
        /\ s # Nothing
        /\ r.state \in {"settled", "canceled", "expired"} => s = r \/ s.id > r.id
  <1>1. ASSUME NEW r \in HiRecord, NEW s \in HiRecord,
               r.state \in {"settled", "canceled", "expired"} => s = r \/ s.id > r.id
        PROVE  Kept(r, s)
    BY <1>1 DEF Nothing, HiRecord
  <1> SUFFICES Kept(hiInvoices[v], hiInvoices'[v])
    OBVIOUS
  <1>2. ASSUME NEW h \in EngineIds, NEW ttl \in {0, EngineTtl}, CreateHoldInvoice(h, ttl), h = v
        PROVE  Kept(hiInvoices[v], hiInvoices'[v])
    <2> DEFINE fresh == [state |-> "created", id |-> hiMade + 1, expires |-> hiNow + ttl,
                         heldAt |-> -1, settledAt |-> -1]
    <2>1. fresh \in HiRecord /\ HiFaithful(fresh, hiNow) /\ fresh.id = hiMade + 1
      BY <1>0, EngineAssumption DEF HiRecord, HiFaithful
    <2>2. hiInvoices'[v] = CheckExpiry(fresh)
      BY <1>0, <1>2 DEF CreateHoldInvoice
    <2> HIDE DEF fresh
    <2>3. CheckExpiry(fresh) \in HiRecord /\ CheckExpiry(fresh).id = hiMade + 1
      BY <1>0, <2>1, HiChecked
    <2>4. hiMade + 1 > hiInvoices[v].id
      BY <1>0 DEF HiRecord
    <2> QED
      BY <1>0, <1>1, <2>2, <2>3, <2>4
  <1>3. CASE HoldHtlc(v)
    <2>1. hiInvoices'[v] = Held(CheckExpiry(hiInvoices[v]))
      BY <1>0, <1>3 DEF HoldHtlc
    <2> QED
      BY <1>0, <1>1, <2>1, HiChecked, HiHeld
  <1>4. ASSUME NEW preimage \in EngineIds, SettleHoldInvoice(v, preimage)
        PROVE  Kept(hiInvoices[v], hiInvoices'[v])
    <2>1. hiInvoices'[v] = Settled(CheckExpiry(hiInvoices[v]), v, preimage)
      BY <1>0, <1>4 DEF SettleHoldInvoice
    <2> QED
      BY <1>0, <1>1, <2>1, HiChecked, HiSettled
  <1>5. CASE CancelHoldInvoice(v)
    <2>1. hiInvoices'[v] = [hiInvoices[v] EXCEPT !.state = "canceled"]
      BY <1>0, <1>5 DEF CancelHoldInvoice
    <2> QED
      BY <1>0, <1>5, <2>1 DEF CancelHoldInvoice, InState, HiRecord, Nothing
  <1>6. CASE GetInvoice(v)
    <2>1. hiInvoices'[v] = CheckExpiry(hiInvoices[v])
      BY <1>0, <1>6 DEF GetInvoice
    <2> QED
      BY <1>0, <1>1, <2>1, HiChecked
  <1>7. CASE hiInvoices'[v] = hiInvoices[v]
    BY <1>7
  <1>8. ASSUME NEW h \in EngineIds, h # v, NEW ttl, NEW preimage,
               \/ CreateHoldInvoice(h, ttl) \/ HoldHtlc(h) \/ CancelHoldInvoice(h)
               \/ GetInvoice(h) \/ SettleHoldInvoice(h, preimage)
        PROVE  hiInvoices'[v] = hiInvoices[v]
    BY <1>0, <1>8 DEF CreateHoldInvoice, HoldHtlc, CancelHoldInvoice, GetInvoice, SettleHoldInvoice
  <1>9. CASE HiTick
    BY <1>7, <1>9 DEF HiTick
  <1> HIDE DEF Kept
  <1> QED
    BY <1>2, <1>3, <1>4, <1>5, <1>6, <1>7, <1>8, <1>9 DEF HiNext

(* Theorem: what became of an invoice stays, until a new one with its preimage *)
(* takes its place (HiFinal).                                                *)
THEOREM HoldInvoicesFinal == HiInit /\ [][HiNext]_hiVars => [][HiFinal]_hiVars
  <1>1. HiInv /\ [HiNext]_hiVars => [HiFinal]_hiVars
    BY HiStepFinal
  <1> QED
    BY <1>1, HiInitInv, HiStepInv, PTL

(***************************************************************************)
(* BitVMX.                                                                  *)
(***************************************************************************)

BxRecord ==
    [state : {"executing", "proving", "challenged", "disproved", "finalized"}, round : Nat,
     finalizedAt : Nat \cup {-1}]

BxFaithful(r) ==
    /\ r.state \in {"executing", "proving", "finalized"} => r.round = 0
    /\ r.state = "disproved" => r.round >= MaxChallengeDepth
    /\ r.state = "challenged" => r.round >= 1
    /\ r.state \in {"finalized", "disproved"} <=> r.finalizedAt # -1

BxInv ==
    /\ bxNow \in Nat
    /\ bxIntents \in [EngineIds -> {Nothing} \cup BxRecord]
    /\ \A i \in EngineIds : bxIntents[i] # Nothing => BxFaithful(bxIntents[i])

LEMMA BxInitInv == BxInit => BxInv
  BY DEF BxInit, BxInv

LEMMA BxFresh ==
    LET fresh == [state |-> "executing", round |-> 0, finalizedAt |-> -1] IN
    fresh \in BxRecord /\ BxFaithful(fresh)
  BY DEF BxRecord, BxFaithful

LEMMA BxPrunedOK ==
    ASSUME BxInv
    PROVE  /\ PrunedIntents \in [EngineIds -> {Nothing} \cup BxRecord]
           /\ \A i \in EngineIds : PrunedIntents[i] # Nothing => BxFaithful(PrunedIntents[i])
  BY DEF BxInv, PrunedIntents

LEMMA BxStepInv == BxInv /\ [BxNext]_bxVars => BxInv'
  <1> SUFFICES ASSUME BxInv, [BxNext]_bxVars PROVE BxInv'
    OBVIOUS
  <1>0. /\ bxNow \in Nat
        /\ \A i \in EngineIds : bxIntents[i] # Nothing =>
            bxIntents[i] \in BxRecord /\ BxFaithful(bxIntents[i])
    BY DEF BxInv
  <1>1. ASSUME NEW i \in EngineIds, NEW valid \in BOOLEAN, InitializeBitVmx(i, valid)
        PROVE  BxInv'
    <2> DEFINE fresh == [state |-> "executing", round |-> 0, finalizedAt |-> -1]
               kept == PrunedIntents
    <2>1. bxNow' = bxNow /\ bxIntents' \in {kept, [kept EXCEPT ![i] = fresh]}
      BY <1>1 DEF InitializeBitVmx
    <2>2. fresh \in BxRecord /\ BxFaithful(fresh)
      BY BxFresh
    <2>3. /\ kept \in [EngineIds -> {Nothing} \cup BxRecord]
          /\ \A j \in EngineIds : kept[j] # Nothing => BxFaithful(kept[j])
      BY BxPrunedOK
    <2> HIDE DEF fresh, kept
    <2> QED
      BY <1>0, <2>1, <2>2, <2>3 DEF BxInv
  <1>2. ASSUME NEW i \in EngineIds, SubmitBitVmxProof(i)
        PROVE  BxInv'
    <2> DEFINE new == [bxIntents[i] EXCEPT !.state = "proving"]
    <2>1. new \in BxRecord /\ BxFaithful(new)
      BY <1>0, <1>2 DEF SubmitBitVmxProof, InState, Nothing, BxRecord, BxFaithful
    <2>2. bxIntents' = [bxIntents EXCEPT ![i] = new] /\ bxNow' = bxNow
      BY <1>2 DEF SubmitBitVmxProof
    <2> HIDE DEF new
    <2> QED
      BY <2>1, <2>2 DEF BxInv
  <1>3. ASSUME NEW i \in EngineIds, FinalizeBitVmxProof(i)
        PROVE  BxInv'
    <2> DEFINE new == [bxIntents[i] EXCEPT !.state = "finalized", !.finalizedAt = bxNow]
    <2>1. bxIntents[i] \in BxRecord /\ BxFaithful(bxIntents[i]) /\ bxIntents[i].state = "proving"
      BY <1>0, <1>3 DEF FinalizeBitVmxProof, InState, Nothing
    <2>2. new \in BxRecord
      BY <1>0, <2>1, Zenon DEF BxRecord
    <2>3. new.state = "finalized" /\ new.finalizedAt = bxNow /\ new.round = bxIntents[i].round
      BY <2>1 DEF BxRecord
    <2>4. bxIntents' = [bxIntents EXCEPT ![i] = new] /\ bxNow' = bxNow
      BY <1>3, Zenon DEF FinalizeBitVmxProof
    <2> HIDE DEF new
    <2>5. BxFaithful(new)
      BY <1>0, <2>1, <2>3 DEF BxFaithful
    <2> QED
      BY <2>2, <2>4, <2>5 DEF BxInv
  <1>4. ASSUME NEW i \in EngineIds, InitiateChallenge(i)
        PROVE  BxInv'
    <2> DEFINE new == [bxIntents[i] EXCEPT !.state = "challenged", !.round = 1]
    <2>1. bxIntents[i] \in BxRecord /\ BxFaithful(bxIntents[i]) /\ bxIntents[i].state = "proving"
      BY <1>0, <1>4 DEF InitiateChallenge, InState, Nothing
    <2>2. new \in BxRecord
      BY <2>1, Zenon DEF BxRecord
    <2>3. new.state = "challenged" /\ new.round = 1 /\ new.finalizedAt = bxIntents[i].finalizedAt
      BY <2>1 DEF BxRecord
    <2>4. bxIntents' = [bxIntents EXCEPT ![i] = new] /\ bxNow' = bxNow
      BY <1>4, Zenon DEF InitiateChallenge
    <2> HIDE DEF new
    <2>5. BxFaithful(new)
      BY <1>0, <2>1, <2>3 DEF BxFaithful
    <2> QED
      BY <2>2, <2>4, <2>5 DEF BxInv
  <1>5. ASSUME NEW i \in EngineIds, AdvanceChallenge(i)
        PROVE  BxInv'
    <2> DEFINE round == bxIntents[i].round + 1
               ended == [state |-> "disproved", round |-> round, finalizedAt |-> bxNow]
               longer == [bxIntents[i] EXCEPT !.round = round]
    <2>1. bxIntents[i] \in BxRecord /\ BxFaithful(bxIntents[i]) /\ bxIntents[i].state = "challenged"
      BY <1>0, <1>5 DEF AdvanceChallenge, InState, Nothing
    <2>2. longer \in BxRecord /\ BxFaithful(longer)
      BY <2>1 DEF BxRecord, BxFaithful
    <2>3. round >= MaxChallengeDepth => ended \in BxRecord /\ BxFaithful(ended)
      BY <1>0, <2>1 DEF BxRecord, BxFaithful
    <2>4. /\ bxNow' = bxNow
          /\ \/ bxIntents' = [bxIntents EXCEPT ![i] = longer]
             \/ round >= MaxChallengeDepth /\ bxIntents' = [bxIntents EXCEPT ![i] = ended]
      BY <1>5, Zenon DEF AdvanceChallenge
    <2> HIDE DEF ended, longer, round
    <2> QED
      BY <2>2, <2>3, <2>4 DEF BxInv
  <1>6. CASE BxTick
    BY <1>6 DEF BxTick, BxInv
  <1>7. CASE UNCHANGED bxVars
    BY <1>7 DEF bxVars, BxInv
  <1> QED
    BY <1>1, <1>2, <1>3, <1>4, <1>5, <1>6, <1>7 DEF BxNext

LEMMA BxInvSound == BxInv => BxSound
  BY DEF BxInv, BxSound, BxFaithful, Stored

(* Theorem: what was challenged is never finalized and nothing is disproved    *)
(* before the last round (BxSound).                                         *)
THEOREM BitVmxSound == BxInit /\ [][BxNext]_bxVars => []BxSound
  BY BxInitInv, BxStepInv, BxInvSound, PTL

(* What a step does to the record of one intent: nothing, drops it when it is  *)
(* over and old, or takes it a step of the challenge further.                *)
LEMMA BxStepFinal == BxInv /\ BxNext => BxFinal
  <1> SUFFICES ASSUME BxInv, BxNext, NEW i \in EngineIds, bxIntents[i] # Nothing
               PROVE  LET r == bxIntents[i]  s == bxIntents'[i] IN
                      IF r.state \in {"finalized", "disproved"}
                      THEN s = r \/ bxNow - r.finalizedAt >= EngineTtl
                      ELSE s # Nothing /\ s.round \in {r.round, r.round + 1}
    BY DEF BxFinal, Stored
  <1>1. bxIntents[i] \in BxRecord /\ BxFaithful(bxIntents[i])
    BY DEF BxInv
  <1>2. \A s : s = bxIntents[i] => s # Nothing /\ s.round \in {bxIntents[i].round, bxIntents[i].round + 1}
    OBVIOUS
  <1>3. CASE bxIntents'[i] = bxIntents[i]
    BY <1>2, <1>3
  <1>4. ASSUME NEW j \in EngineIds, NEW valid \in BOOLEAN, InitializeBitVmx(j, valid),
               bxIntents'[i] # bxIntents[i]
        PROVE  bxIntents[i].state \in {"finalized", "disproved"} /\ bxNow - bxIntents[i].finalizedAt >= EngineTtl
    <2>1. CASE PrunedIntents[i] = bxIntents[i]
      BY <1>4, <2>1 DEF InitializeBitVmx, PrunedIntents
    <2>2. CASE PrunedIntents[i] # bxIntents[i]
      BY <1>1, <2>2 DEF PrunedIntents, StaleIntents, BxFaithful
    <2> QED
      BY <2>1, <2>2
  <1>5. ASSUME NEW j \in EngineIds, j # i,
               SubmitBitVmxProof(j) \/ FinalizeBitVmxProof(j) \/ InitiateChallenge(j) \/ AdvanceChallenge(j)
        PROVE  bxIntents'[i] = bxIntents[i]
    BY <1>5 DEF SubmitBitVmxProof, FinalizeBitVmxProof, InitiateChallenge, AdvanceChallenge, BxInv
  <1>6. CASE BxTick
    BY <1>3, <1>6 DEF BxTick
  <1>7. CASE SubmitBitVmxProof(i) \/ FinalizeBitVmxProof(i)
    <2>1. /\ bxIntents[i].state \in {"executing", "proving"}
          /\ bxIntents'[i] \in BxRecord /\ bxIntents'[i].round = bxIntents[i].round
      BY <1>1, <1>7 DEF SubmitBitVmxProof, FinalizeBitVmxProof, InState, BxInv, BxRecord
    <2> QED
      BY <2>1 DEF BxRecord, Nothing
  <1>8. CASE InitiateChallenge(i)
    <2>1. /\ bxIntents[i].state = "proving" /\ bxIntents[i].round = 0
          /\ bxIntents'[i] \in BxRecord /\ bxIntents'[i].round = 1
      BY <1>1, <1>8 DEF InitiateChallenge, InState, BxInv, BxRecord, BxFaithful
    <2> QED
      BY <2>1 DEF BxRecord, Nothing
  <1>9. CASE AdvanceChallenge(i)
    <2>1. PICK n : n = bxIntents[i].round + 1
      OBVIOUS
    <2>2. \/ bxIntents'[i] = [state |-> "disproved", round |-> n, finalizedAt |-> bxNow]
          \/ bxIntents'[i] = [bxIntents[i] EXCEPT !.round = n]
      BY <1>9, <2>1 DEF AdvanceChallenge, BxInv
    <2>3. bxIntents[i].state = "challenged" /\ bxIntents'[i].round = n
      BY <1>1, <1>9, <2>2 DEF AdvanceChallenge, InState, BxRecord
    <2>4. bxIntents'[i].state \in {"disproved", "challenged"}
      BY <1>1, <2>2, <2>3 DEF BxRecord
    <2>5. bxIntents'[i] # Nothing
      BY <2>4 DEF Nothing
    <2> QED
      BY <2>1, <2>3, <2>5
  <1> QED
    BY <1>3, <1>4, <1>5, <1>6, <1>7, <1>8, <1>9 DEF BxNext

(* Theorem: a finalized or disproved intent stays as it is until its lifetime   *)
(* has passed, and before that no intent is lost and its challenge goes round by  *)
(* round (BxFinal).                                                          *)
THEOREM BitVmxFinal == BxInit /\ [][BxNext]_bxVars => [][BxFinal]_bxVars
  <1>1. BxInv /\ [BxNext]_bxVars => [BxFinal]_bxVars
    BY BxStepFinal
  <1> QED
    BY <1>1, BxInitInv, BxStepInv, PTL

(***************************************************************************)
(* Ark.                                                                     *)
(***************************************************************************)

ArRecord ==
    [state : {"available", "spent", "forfeited", "unboarded", "expired", "tombstoned"},
     expires : Nat, forfeitHeight : Nat \cup {-1}, unboardTx : BOOLEAN]

ArFaithful(r, now) ==
    /\ r.unboardTx => r.state \in {"unboarded", "forfeited", "tombstoned"}
    /\ r.state = "unboarded" => r.unboardTx
    /\ r.state = "forfeited" => r.forfeitHeight # -1
    /\ r.state = "expired" => r.expires <= now

ArInv ==
    /\ arNow \in Nat /\ arHeight \in Nat
    /\ arVutxos \in [EngineIds -> {Nothing} \cup ArRecord]
    /\ \A u \in EngineIds : arVutxos[u] # Nothing => ArFaithful(arVutxos[u], arNow)

LEMMA ArInitInv == ArInit => ArInv
  BY DEF ArInit, ArInv

LEMMA ArStepInv == ArInv /\ [ArNext]_arVars => ArInv'
  <1> SUFFICES ASSUME ArInv, [ArNext]_arVars PROVE ArInv'
    OBVIOUS
  <1>0. /\ arNow \in Nat /\ arHeight \in Nat
        /\ \A u \in EngineIds : arVutxos[u] # Nothing =>
            arVutxos[u] \in ArRecord /\ ArFaithful(arVutxos[u], arNow)
    BY DEF ArInv
  <1>1. ASSUME NEW u \in EngineIds, BoardVutxo(u)
        PROVE  ArInv'
    <2> DEFINE new == [state |-> "available", expires |-> arNow + EngineTtl,
                       forfeitHeight |-> -1, unboardTx |-> FALSE]
    <2>1. new \in ArRecord /\ ArFaithful(new, arNow)
      BY <1>0, EngineAssumption DEF ArRecord, ArFaithful
    <2>2. arVutxos' = [arVutxos EXCEPT ![u] = new] /\ UNCHANGED <<arNow, arHeight>>
      BY <1>1 DEF BoardVutxo
    <2> HIDE DEF new
    <2> QED
      BY <2>1, <2>2 DEF ArInv
  <1>2. ASSUME NEW u \in EngineIds, RegisterForfeit(u)
        PROVE  ArInv'
    <2> DEFINE new == [arVutxos[u] EXCEPT !.forfeitHeight = arHeight]
    <2>1. new \in ArRecord /\ ArFaithful(new, arNow)
      BY <1>0, <1>2 DEF RegisterForfeit, InState, Nothing, ArRecord, ArFaithful
    <2>2. arVutxos' = [arVutxos EXCEPT ![u] = new] /\ UNCHANGED <<arNow, arHeight>>
      BY <1>2 DEF RegisterForfeit
    <2> HIDE DEF new
    <2> QED
      BY <2>1, <2>2 DEF ArInv
  <1>3. ASSUME NEW u \in EngineIds, SpendVutxo(u)
        PROVE  ArInv'
    <2> DEFINE new == [arVutxos[u] EXCEPT !.state = "spent"]
    <2>1. new \in ArRecord /\ ArFaithful(new, arNow)
      BY <1>0, <1>3 DEF SpendVutxo, InState, Nothing, ArRecord, ArFaithful
    <2>2. arVutxos' = [arVutxos EXCEPT ![u] = new] /\ UNCHANGED <<arNow, arHeight>>
      BY <1>3 DEF SpendVutxo
    <2> HIDE DEF new
    <2> QED
      BY <2>1, <2>2 DEF ArInv
  <1>4. ASSUME NEW u \in EngineIds, ClaimForfeit(u)
        PROVE  ArInv'
    <2> DEFINE new == [arVutxos[u] EXCEPT !.state = "forfeited"]
    <2>1. new \in ArRecord /\ ArFaithful(new, arNow)
      BY <1>0, <1>4 DEF ClaimForfeit, ArRecord, ArFaithful
    <2>2. arVutxos' = [arVutxos EXCEPT ![u] = new] /\ UNCHANGED <<arNow, arHeight>>
      BY <1>4 DEF ClaimForfeit
    <2> HIDE DEF new
    <2> QED
      BY <2>1, <2>2 DEF ArInv
  <1>5. ASSUME NEW u \in EngineIds, NEW collaborative \in BOOLEAN, UnboardVutxo(u, collaborative)
        PROVE  ArInv'
    <2> DEFINE new == [arVutxos[u] EXCEPT !.state = "unboarded", !.unboardTx = TRUE]
    <2>1. arVutxos[u] \in ArRecord
      BY <1>0, <1>5 DEF UnboardVutxo, InState, Nothing
    <2>2. new \in ArRecord
      BY <2>1, Zenon DEF ArRecord
    <2>3. new.state = "unboarded" /\ new.unboardTx = TRUE
      BY <2>1 DEF ArRecord
    <2>4. arVutxos' = [arVutxos EXCEPT ![u] = new] /\ UNCHANGED <<arNow, arHeight>>
      BY <1>5, Zenon DEF UnboardVutxo
    <2> HIDE DEF new
    <2>5. ArFaithful(new, arNow)
      BY <2>3 DEF ArFaithful
    <2> QED
      BY <2>2, <2>4, <2>5 DEF ArInv
  <1>6. ASSUME NEW u \in EngineIds, TombstoneVutxo(u)
        PROVE  ArInv'
    <2> DEFINE new == [arVutxos[u] EXCEPT !.state = "tombstoned"]
    <2>1. new \in ArRecord /\ ArFaithful(new, arNow)
      BY <1>0, <1>6 DEF TombstoneVutxo, ArRecord, ArFaithful
    <2>2. arVutxos' = [arVutxos EXCEPT ![u] = new] /\ UNCHANGED <<arNow, arHeight>>
      BY <1>6 DEF TombstoneVutxo
    <2> HIDE DEF new
    <2> QED
      BY <2>1, <2>2 DEF ArInv
  <1>7. CASE SweepExpired
    <2> DEFINE Swept(u) == [arVutxos[u] EXCEPT !.state = "expired"]
    <2>1. \A u \in EngineIds : Sweepable(u) => Swept(u) \in ArRecord /\ ArFaithful(Swept(u), arNow)
      BY <1>0 DEF Sweepable, InState, Nothing, ArRecord, ArFaithful
    <2>2. /\ arVutxos' = [u \in EngineIds |-> IF Sweepable(u) THEN Swept(u) ELSE arVutxos[u]]
          /\ UNCHANGED <<arNow, arHeight>>
      BY <1>7 DEF SweepExpired
    <2> HIDE DEF Swept
    <2> QED
      BY <2>1, <2>2 DEF ArInv
  <1>8. CASE ArTick
    BY <1>8 DEF ArTick, ArInv, ArFaithful, ArRecord
  <1>9. CASE ArBlock
    BY <1>9 DEF ArBlock, ArInv
  <1>10. CASE UNCHANGED arVars
    BY <1>10 DEF arVars, ArInv
  <1> QED
    BY <1>1, <1>2, <1>3, <1>4, <1>5, <1>6, <1>7, <1>8, <1>9, <1>10 DEF ArNext

LEMMA ArInvSound == ArInv => ArSound
  BY DEF ArInv, ArSound, ArFaithful, Stored

(* Theorem: what went back to the chain is not available off chain, and a       *)
(* forfeit rests on a registered transaction (ArSound).                      *)
THEOREM ArkSound == ArInit /\ [][ArNext]_arVars => []ArSound
  BY ArInitInv, ArStepInv, ArInvSound, PTL

LEMMA ArStepFinal == ArInv /\ ArNext => ArFinal
  <1> SUFFICES ASSUME ArInv, ArNext, NEW u \in EngineIds, arVutxos[u] # Nothing,
                      arVutxos[u].state # "available", arVutxos'[u] # arVutxos[u]
               PROVE  LET r == arVutxos[u]  s == arVutxos'[u] IN
                      /\ s.state \in {"forfeited", "tombstoned"}
                      /\ s.unboardTx = r.unboardTx /\ s.forfeitHeight = r.forfeitHeight
                      /\ r.state \in {"forfeited", "tombstoned"} => s.state = "tombstoned"
    BY DEF ArFinal, Stored
  <1>1. arVutxos[u] \in ArRecord
    BY DEF ArInv
  <1>2. ASSUME NEW v \in EngineIds, v # u,
               BoardVutxo(v) \/ RegisterForfeit(v) \/ SpendVutxo(v) \/ ClaimForfeit(v) \/ TombstoneVutxo(v)
               \/ UnboardVutxo(v, TRUE) \/ UnboardVutxo(v, FALSE)
        PROVE  FALSE
    BY <1>2 DEF BoardVutxo, RegisterForfeit, SpendVutxo, ClaimForfeit, TombstoneVutxo, UnboardVutxo, ArInv
  <1>3. ~BoardVutxo(u) /\ ~RegisterForfeit(u) /\ ~SpendVutxo(u)
        /\ \A collaborative \in BOOLEAN : ~UnboardVutxo(u, collaborative)
    BY DEF BoardVutxo, RegisterForfeit, SpendVutxo, UnboardVutxo, InState
  <1>4. ~SweepExpired
    BY DEF SweepExpired, Sweepable, InState
  <1>5. ~ArTick /\ ~ArBlock
    BY DEF ArTick, ArBlock
  <1>6. CASE ClaimForfeit(u)
    BY <1>1, <1>6 DEF ClaimForfeit, InState, ArInv, ArRecord
  <1>7. CASE TombstoneVutxo(u)
    BY <1>1, <1>7 DEF TombstoneVutxo, ArInv, ArRecord
  <1> QED
    BY <1>2, <1>3, <1>4, <1>5, <1>6, <1>7, Zenon DEF ArNext

(* Theorem: what a V-UTXO left by stays as it was: no unboarding or forfeit is   *)
(* taken back or replaced (ArFinal).                                        *)
THEOREM ArkFinal == ArInit /\ [][ArNext]_arVars => [][ArFinal]_arVars
  <1>1. ArInv /\ [ArNext]_arVars => [ArFinal]_arVars
    BY ArStepFinal
  <1> QED
    BY <1>1, ArInitInv, ArStepInv, PTL

(***************************************************************************)
(* Taproot assets.                                                          *)
(***************************************************************************)

TaRecord ==
    [state : {"minted", "transferred", "burned", "tombstoned"}, minted : Nat, supply : Nat, root : Nat]

TaFaithful(r) ==
    /\ r.state = "burned" => r.supply = 0
    /\ r.supply = 0 => r.state \in {"burned", "tombstoned"}
    /\ r.state = "minted" => r.root = 0
    /\ r.state = "transferred" => r.root > 0

TaInv ==
    /\ taAssets \in [EngineIds -> {Nothing} \cup TaRecord]
    /\ \A a \in EngineIds : taAssets[a] # Nothing => TaFaithful(taAssets[a])

LEMMA TaInitInv == TaInit => TaInv
  BY DEF TaInit, TaInv

LEMMA TaStepInv == TaInv /\ [TaNext]_taVars => TaInv'
  <1> SUFFICES ASSUME TaInv, [TaNext]_taVars PROVE TaInv'
    OBVIOUS
  <1>0. \A a \in EngineIds : taAssets[a] # Nothing => taAssets[a] \in TaRecord /\ TaFaithful(taAssets[a])
    BY DEF TaInv
  <1>1. ASSUME NEW a \in EngineIds, NEW n \in Supplies, MintAsset(a, n)
        PROVE  TaInv'
    <2> DEFINE new == [state |-> "minted", minted |-> n, supply |-> n, root |-> 0]
    <2>1. n \in Int /\ n > 0
      BY <1>1, TaprootAssumption DEF MintAsset
    <2>2. new \in TaRecord /\ TaFaithful(new)
      BY <2>1 DEF TaRecord, TaFaithful
    <2>3. taAssets' = [taAssets EXCEPT ![a] = new]
      BY <1>1 DEF MintAsset
    <2> HIDE DEF new
    <2> QED
      BY <2>2, <2>3 DEF TaInv
  <1>2. ASSUME NEW a \in EngineIds, NEW n \in Supplies, TransferAsset(a, n)
        PROVE  TaInv'
    <2> DEFINE r == taAssets[a]
               new == [r EXCEPT !.state = "transferred", !.root = r.root + 1]
    <2>1. n \in Int /\ r \in TaRecord /\ n > 0 /\ n <= r.supply
      BY <1>0, <1>2, TaprootAssumption DEF TransferAsset, Affordable
    <2>0. r.root + 1 \in Nat
      BY <2>1 DEF TaRecord
    <2>2. new \in TaRecord
      BY <2>0, <2>1, Zenon DEF TaRecord
    <2>3. new.state = "transferred" /\ new.root = r.root + 1 /\ new.supply = r.supply
      BY <2>1 DEF TaRecord
    <2>4. r.root \in Nat /\ r.supply > 0
      BY <2>1 DEF TaRecord
    <2>5. taAssets' = [taAssets EXCEPT ![a] = new]
      BY <1>2, Zenon DEF TransferAsset
    <2> HIDE DEF new
    <2>6. TaFaithful(new)
      BY <2>3, <2>4 DEF TaFaithful
    <2> QED
      BY <2>2, <2>5, <2>6 DEF TaInv
  <1>3. ASSUME NEW a \in EngineIds, NEW n \in Supplies, BurnAsset(a, n)
        PROVE  TaInv'
    <2> DEFINE r == taAssets[a]
               new == [r EXCEPT !.supply = r.supply - n, !.state = StateBurned(r.state, r.supply - n)]
    <2>1. n \in Int /\ r \in TaRecord /\ TaFaithful(r) /\ n > 0 /\ n <= r.supply /\ r.state # "tombstoned"
      BY <1>0, <1>3, TaprootAssumption DEF BurnAsset, Affordable, InState
    <2>2. r.supply \in Nat /\ r.supply - n \in Nat
      BY <2>1 DEF TaRecord
    <2>3. new \in TaRecord
      BY <2>1, <2>2, Zenon DEF TaRecord, StateBurned
    <2>4. /\ new.state = StateBurned(r.state, r.supply - n) /\ new.root = r.root
          /\ new.supply = r.supply - n
      BY <2>1 DEF TaRecord
    <2>5. taAssets' = [taAssets EXCEPT ![a] = new]
      BY <1>3, Zenon DEF BurnAsset
    <2> HIDE DEF new
    <2>6. TaFaithful(new)
      BY <2>1, <2>2, <2>4 DEF TaFaithful, StateBurned
    <2> QED
      BY <2>3, <2>5, <2>6 DEF TaInv
  <1>4. ASSUME NEW a \in EngineIds, TombstoneAsset(a)
        PROVE  TaInv'
    <2> DEFINE new == [taAssets[a] EXCEPT !.state = "tombstoned"]
    <2>1. new \in TaRecord /\ TaFaithful(new)
      BY <1>0, <1>4 DEF TombstoneAsset, TaRecord, TaFaithful
    <2>2. taAssets' = [taAssets EXCEPT ![a] = new]
      BY <1>4 DEF TombstoneAsset
    <2> HIDE DEF new
    <2> QED
      BY <2>1, <2>2 DEF TaInv
  <1>5. CASE UNCHANGED taVars
    BY <1>5 DEF taVars, TaInv
  <1> QED
    BY <1>1, <1>2, <1>3, <1>4, <1>5 DEF TaNext

LEMMA TaInvSound == TaInv => TaSound
  BY DEF TaInv, TaSound, TaFaithful, Stored

(* Theorem: an asset is burned exactly when nothing is left of it (TaSound).  *)
THEOREM TaprootAssetsSound == TaInit /\ [][TaNext]_taVars => []TaSound
  BY TaInitInv, TaStepInv, TaInvSound, PTL

LEMMA TaStepFinal == TaInv /\ TaNext => TaFinal
  <1> SUFFICES ASSUME TaInv, TaNext, NEW a \in EngineIds, taAssets[a] # Nothing
               PROVE  LET r == taAssets[a]  s == taAssets'[a] IN
                      /\ s # Nothing /\ s.minted = r.minted /\ s.supply <= r.supply
                      /\ r.state \in {"burned", "tombstoned"} => s.root = r.root /\ s.supply = r.supply
                      /\ r.state = "tombstoned" => s = r
    BY DEF TaFinal, Stored
  <1>1. taAssets[a] \in TaRecord /\ TaFaithful(taAssets[a]) /\ \A r \in TaRecord : r # Nothing
    BY DEF TaInv, TaRecord, Nothing
  <1>2. CASE taAssets'[a] = taAssets[a]
    BY <1>1, <1>2 DEF TaRecord
  <1>3. ASSUME NEW b \in EngineIds, NEW n, b # a,
               MintAsset(b, n) \/ TransferAsset(b, n) \/ BurnAsset(b, n) \/ TombstoneAsset(b)
        PROVE  taAssets'[a] = taAssets[a]
    BY <1>3 DEF MintAsset, TransferAsset, BurnAsset, TombstoneAsset, TaInv
  <1>4. ASSUME NEW n \in Supplies PROVE ~MintAsset(a, n)
    BY DEF MintAsset
  <1>5. ASSUME NEW n \in Supplies, TransferAsset(a, n)
        PROVE  /\ taAssets'[a] \in TaRecord /\ taAssets'[a].minted = taAssets[a].minted
               /\ taAssets'[a].supply = taAssets[a].supply
               /\ taAssets[a].state \notin {"burned", "tombstoned"}
    BY <1>1, <1>5 DEF TransferAsset, InState, TaInv, TaRecord
  <1>6. ASSUME NEW n \in Supplies, BurnAsset(a, n)
        PROVE  /\ taAssets'[a] \in TaRecord /\ taAssets'[a].minted = taAssets[a].minted
               /\ taAssets'[a].supply <= taAssets[a].supply
               /\ taAssets[a].state \notin {"burned", "tombstoned"}
    <2>1. PICK r, left : r = taAssets[a] /\ left = r.supply - n
      OBVIOUS
    <2>2. /\ n > 0 /\ n <= r.supply /\ n \in Int /\ r.supply \in Nat /\ r.state # "tombstoned"
      BY <1>1, <1>6, <2>1, TaprootAssumption DEF BurnAsset, Affordable, InState, TaRecord
    <2>3. left \in Nat /\ left <= r.supply /\ r.state # "burned"
      BY <1>1, <2>1, <2>2 DEF TaFaithful
    <2>4. taAssets'[a] = [r EXCEPT !.supply = left, !.state = StateBurned(r.state, left)]
      BY <1>6, <2>1 DEF BurnAsset, TaInv
    <2> QED
      BY <1>1, <2>1, <2>2, <2>3, <2>4, Zenon DEF TaRecord, StateBurned
  <1>7. CASE TombstoneAsset(a)
    <2>1. taAssets'[a] = [taAssets[a] EXCEPT !.state = "tombstoned"]
      BY <1>7 DEF TombstoneAsset, TaInv
    <2> QED
      BY <1>1, <2>1 DEF TaRecord
  <1>8. taAssets[a].supply <= taAssets[a].supply
    BY <1>1 DEF TaRecord
  <1> QED
    BY <1>1, <1>2, <1>3, <1>4, <1>5, <1>6, <1>7, <1>8 DEF TaNext

(* Theorem: the supply of an asset never grows again, and a burned or          *)
(* tombstoned asset is not moved (TaFinal).                                  *)
THEOREM TaprootAssetsFinal == TaInit /\ [][TaNext]_taVars => [][TaFinal]_taVars
  <1>1. TaInv /\ [TaNext]_taVars => [TaFinal]_taVars
    BY TaStepFinal
  <1> QED
    BY <1>1, TaInitInv, TaStepInv, PTL

(***************************************************************************)
(* Covenants.                                                               *)
(***************************************************************************)

CoRecord ==
    [state : StateSizes, depth : Nat, maxDepth : Int, finalized : BOOLEAN, history : Seq(StateSizes)]

CoFaithful(r) ==
    /\ Len(r.history) = r.depth + 1 /\ r.depth <= r.maxDepth
    /\ r.history[Len(r.history)] = r.state
    /\ \A n \in 1 .. r.depth : r.history[n] + r.history[n + 1] <= MaxStackSize

CoInv ==
    /\ coCovenants \in [EngineIds -> {Nothing} \cup CoRecord]
    /\ \A c \in EngineIds : coCovenants[c] # Nothing => CoFaithful(coCovenants[c])

LEMMA CoInitInv == CoInit => CoInv
  BY DEF CoInit, CoInv

(* A state that fits the stack together with the last one prolongs the history. *)
LEMMA CoLonger ==
    ASSUME NEW r \in CoRecord, CoFaithful(r), r.depth < r.maxDepth,
           NEW size \in StateSizes, r.state + size <= MaxStackSize,
           NEW s \in CoRecord, s.state = size, s.depth = r.depth + 1, s.maxDepth = r.maxDepth,
           s.history = Append(r.history, size)
    PROVE  CoFaithful(s)
  <1> DEFINE h == r.history
             d == r.depth
  <1>1. h \in Seq(StateSizes) /\ d \in Nat /\ r.maxDepth \in Int /\ Len(h) = d + 1
    BY DEF CoRecord, CoFaithful
  <1>2. /\ Len(s.history) = d + 2
        /\ s.history[d + 2] = size /\ h[d + 1] = r.state
        /\ \A n \in 1 .. d + 1 : s.history[n] = h[n]
    BY SMTT(30), <1>1 DEF CoFaithful
  <1>3. \A n \in 1 .. d : h[n] + h[n + 1] <= MaxStackSize
    BY DEF CoFaithful
  <1> HIDE DEF h, d
  <1>4. ASSUME NEW n \in 1 .. d + 1
        PROVE  s.history[n] + s.history[n + 1] <= MaxStackSize
    <2>1. CASE n = d + 1
      BY <1>1, <1>2, <2>1
    <2>2. CASE n # d + 1
      BY <1>1, <1>2, <1>3, <2>2
    <2> QED
      BY <2>1, <2>2, Zenon
  <1>5. s.depth = d + 1 /\ s.depth <= s.maxDepth
    BY <1>1 DEF d
  <1> QED
    BY <1>1, <1>2, <1>4, <1>5 DEF CoFaithful

LEMMA CoStepInv == CoInv /\ [CoNext]_coVars => CoInv'
  <1> SUFFICES ASSUME CoInv, [CoNext]_coVars PROVE CoInv'
    OBVIOUS
  <1>0. \A c \in EngineIds : coCovenants[c] # Nothing =>
            coCovenants[c] \in CoRecord /\ CoFaithful(coCovenants[c])
    BY DEF CoInv
  <1>1. ASSUME NEW c \in EngineIds, NEW size \in StateSizes, NEW depth \in CovenantDepths,
               CreateCovenant(c, size, depth)
        PROVE  CoInv'
    <2> DEFINE new == [state |-> size, depth |-> 0, maxDepth |-> depth, finalized |-> FALSE,
                       history |-> <<size>>]
    <2>1. depth \in Int /\ depth >= 0
      BY <1>1, CovenantAssumption DEF CreateCovenant
    <2>2. new \in CoRecord /\ CoFaithful(new)
      BY <2>1 DEF CoRecord, CoFaithful
    <2>3. coCovenants' = [coCovenants EXCEPT ![c] = new]
      BY <1>1 DEF CreateCovenant
    <2> HIDE DEF new
    <2> QED
      BY <2>2, <2>3 DEF CoInv
  <1>2. ASSUME NEW c \in EngineIds, NEW size \in StateSizes, TransitionCovenant(c, size)
        PROVE  CoInv'
    <2> DEFINE r == coCovenants[c]
               new == [r EXCEPT !.state = size, !.depth = r.depth + 1, !.history = Append(r.history, size)]
    <2>1. /\ r \in CoRecord /\ CoFaithful(r) /\ r.depth < r.maxDepth
          /\ r.state + size <= MaxStackSize
      BY <1>0, <1>2 DEF TransitionCovenant, FitsStack, ExecuteCat
    <2>0. r.depth + 1 \in Nat /\ Append(r.history, size) \in Seq(StateSizes)
      BY <2>1 DEF CoRecord
    <2>2. new \in CoRecord
      BY <2>0, <2>1, Zenon DEF CoRecord
    <2>3. /\ new.state = size /\ new.depth = r.depth + 1 /\ new.maxDepth = r.maxDepth
          /\ new.history = Append(r.history, size)
      BY <2>1 DEF CoRecord
    <2>4. coCovenants' = [coCovenants EXCEPT ![c] = new]
      BY <1>2 DEF TransitionCovenant
    <2> HIDE DEF new
    <2>5. CoFaithful(new)
      BY <2>1, <2>2, <2>3, CoLonger
    <2> QED
      BY <2>2, <2>4, <2>5 DEF CoInv
  <1>3. ASSUME NEW c \in EngineIds, FinalizeCovenant(c)
        PROVE  CoInv'
    <2> DEFINE new == [coCovenants[c] EXCEPT !.finalized = TRUE]
    <2>1. new \in CoRecord /\ CoFaithful(new)
      BY <1>0, <1>3, Zenon DEF FinalizeCovenant, CoRecord, CoFaithful
    <2>2. coCovenants' = [coCovenants EXCEPT ![c] = new]
      BY <1>3 DEF FinalizeCovenant
    <2> HIDE DEF new
    <2> QED
      BY <2>1, <2>2 DEF CoInv
  <1>4. CASE UNCHANGED coVars
    BY <1>4 DEF coVars, CoInv
  <1> QED
    BY <1>1, <1>2, <1>3, <1>4 DEF CoNext

LEMMA CoInvSound == CoInv => CoSound
  BY DEF CoInv, CoSound, CoFaithful, Stored

(* Theorem: the history of a covenant is its whole way to its state, within    *)
(* its depth, and every two neighbours of it fit the stack (CoSound).         *)
THEOREM CovenantsSound == CoInit /\ [][CoNext]_coVars => []CoSound
  BY CoInitInv, CoStepInv, CoInvSound, PTL

LEMMA CoStepFinal == CoInv /\ CoNext => CoFinal
  <1> SUFFICES ASSUME CoInv, CoNext, NEW c \in EngineIds, coCovenants[c] # Nothing
               PROVE  LET r == coCovenants[c]  s == coCovenants'[c] IN
                      /\ r.finalized => s = r
                      /\ SubSeq(s.history, 1, Len(r.history)) = r.history
                      /\ s.maxDepth = r.maxDepth
    BY DEF CoFinal, Stored
  <1>1. PICK r, h : r = coCovenants[c] /\ h = r.history
    OBVIOUS
  <1>2. r \in CoRecord /\ h \in Seq(StateSizes)
    BY <1>1 DEF CoInv, CoRecord
  <1>3. SubSeq(h, 1, Len(h)) = h
    BY <1>2
  <1>4. CASE coCovenants'[c] = r
    BY <1>1, <1>3, <1>4
  <1>5. ASSUME NEW d \in EngineIds, NEW size \in StateSizes, TransitionCovenant(d, size)
        PROVE  \/ coCovenants'[c] = r
               \/ /\ ~r.finalized
                  /\ coCovenants'[c] =
                        [r EXCEPT !.state = size, !.depth = @ + 1, !.history = Append(@, size)]
    BY <1>1, <1>5, Zenon DEF TransitionCovenant, CoInv
  <1>6. ASSUME NEW size \in StateSizes, ~r.finalized,
               coCovenants'[c] = [r EXCEPT !.state = size, !.depth = @ + 1, !.history = Append(@, size)]
        PROVE  /\ SubSeq(coCovenants'[c].history, 1, Len(h)) = h
               /\ coCovenants'[c].maxDepth = r.maxDepth
    <2>1. PICK s : s = coCovenants'[c]
      OBVIOUS
    <2>2. s.history = Append(h, size) /\ s.maxDepth = r.maxDepth
      BY <1>1, <1>2, <1>6, <2>1 DEF CoRecord
    <2>3. SubSeq(Append(h, size), 1, Len(h)) = h
      BY <1>2
    <2> QED
      BY <2>1, <2>2, <2>3
  <1>7. ASSUME NEW d \in EngineIds, FinalizeCovenant(d)
        PROVE  coCovenants'[c] = r \/ coCovenants'[c] = [r EXCEPT !.finalized = TRUE]
    BY <1>1, <1>7, Zenon DEF FinalizeCovenant, CoInv
  <1>8. CASE coCovenants'[c] = [r EXCEPT !.finalized = TRUE]
    <2>1. PICK s : s = coCovenants'[c]
      OBVIOUS
    <2>2. s.history = h /\ s.maxDepth = r.maxDepth /\ (r.finalized => s = r)
      BY <1>1, <1>2, <1>8, <2>1, Zenon DEF CoRecord
    <2> QED
      BY <1>1, <1>3, <2>1, <2>2
  <1>9. ASSUME NEW d \in EngineIds, NEW size \in StateSizes, NEW depth \in CovenantDepths,
               CreateCovenant(d, size, depth)
        PROVE  coCovenants'[c] = r
    BY <1>1, <1>9 DEF CreateCovenant, CoInv
  <1> QED
    BY <1>1, <1>4, <1>5, <1>6, <1>7, <1>8, <1>9, Zenon DEF CoNext

(* Theorem: the history of a covenant only grows, its depth limit never         *)
(* changes, and a finalized one is left as it is (CoFinal).                   *)
THEOREM CovenantsFinal == CoInit /\ [][CoNext]_coVars => [][CoFinal]_coVars
  <1>1. CoInv /\ [CoNext]_coVars => [CoFinal]_coVars
    BY CoStepFinal
  <1> QED
    BY <1>1, CoInitInv, CoStepInv, PTL

(***************************************************************************)
(* Silent payments.                                                         *)
(***************************************************************************)

SpInv == spKeys \subseteq spEver /\ SpSound

LEMMA SpInitInv == SpInit => SpInv
  <1> SUFFICES ASSUME SpInit PROVE SpInv
    OBVIOUS
  <1>1. DOMAIN spOutputs = {}
    BY DEF SpInit
  <1> QED
    BY <1>1 DEF SpInit, SpInv, SpSound

LEMMA SpStepInv == SpInv /\ [SpNext]_spVars => SpInv'
  <1> SUFFICES ASSUME SpInv, [SpNext]_spVars PROVE SpInv'
    OBVIOUS
  <1> USE DEF SpInv, SpSound
  <1>1. ASSUME NEW k \in ScanKeys, RegisterScanKey(k)
        PROVE  SpInv'
    BY <1>1 DEF RegisterScanKey
  <1>2. ASSUME NEW k \in ScanKeys, UnregisterScanKey(k)
        PROVE  SpInv'
    BY <1>2 DEF UnregisterScanKey
  <1>3. ASSUME NEW k \in ScanKeys, NEW id \in 1 .. MaxMatches, ScanOutput(id, k)
        PROVE  SpInv'
    BY <1>3 DEF ScanOutput, Scans
  <1>4. ASSUME NEW keys, ClearMatchedOutputs(keys)
        PROVE  SpInv'
    BY <1>4 DEF ClearMatchedOutputs
  <1>5. CASE UNCHANGED spVars
    BY <1>5 DEF spVars
  <1> QED
    BY <1>1, <1>2, <1>3, <1>4, <1>5, Zenon DEF SpNext

LEMMA SpInvSound == SpInv => SpSound
  BY DEF SpInv

(* Theorem: no output is attributed to a key that was never registered         *)
(* (SpSound).                                                               *)
THEOREM SilentPaymentsSound == SpInit /\ [][SpNext]_spVars => []SpSound
  BY SpInitInv, SpStepInv, SpInvSound, PTL

LEMMA SpStepFinal == SpNext => SpFinal
  BY Zenon DEF SpNext, SpFinal, RegisterScanKey, UnregisterScanKey, ScanOutput, ClearMatchedOutputs

(* Theorem: a match is attributed once, and no registration or its end changes  *)
(* what was matched (SpFinal).                                               *)
THEOREM SilentPaymentsFinal == SpInit /\ [][SpNext]_spVars => [][SpFinal]_spVars
  BY SpStepFinal, PTL

(***************************************************************************)
(* MuSig2.                                                                  *)
(***************************************************************************)

Named(r) == {r.members[i] : i \in DOMAIN r.members}

Collected(values) == UNION {[D -> values] : D \in SUBSET Signatories}

MuRecord ==
    [state : {"nonce_exchange", "signing", "completed"}, members : Seq(Signatories),
     hash : {"short", "hash", Malformed}, created : Nat,
     nonces : Collected(NonceValues), aggregate : Collected(NonceValues),
     partials : Collected(PartialValues), final : BOOLEAN]

MuFaithful(r) ==
    /\ DOMAIN r.nonces \subseteq Named(r)
    /\ r.state = "nonce_exchange" => r.aggregate = <<>> /\ r.partials = <<>>
    /\ r.state # "nonce_exchange" =>
        /\ DOMAIN r.nonces = Named(r) /\ r.aggregate = r.nonces
        /\ Len(r.members) = Cardinality(Named(r))
        /\ \A p \in Named(r) : r.nonces[p] # Malformed
    /\ r.final <=> r.state = "completed"
    /\ r.final =>
        /\ Cardinality(DOMAIN r.partials) = Len(r.members)
        /\ \A p \in DOMAIN r.partials : r.partials[p] # Malformed

MuInv ==
    /\ muNow \in Nat
    /\ muSessions \in [EngineIds -> {Nothing} \cup MuRecord]
    /\ \A s \in EngineIds : muSessions[s] # Nothing => MuFaithful(muSessions[s])

LEMMA MuInitInv == MuInit => MuInv
  BY DEF MuInit, MuInv

(* As many nonces as participants, of participants only, are one of each.      *)
LEMMA NoncesOfAll ==
    ASSUME NEW members \in Seq(Signatories), NEW given,
           given \subseteq {members[i] : i \in DOMAIN members}, Cardinality(given) = Len(members)
    PROVE  /\ given = {members[i] : i \in DOMAIN members}
           /\ Len(members) = Cardinality({members[i] : i \in DOMAIN members})
  <1> DEFINE named == {members[i] : i \in DOMAIN members}
             n == Len(members)
  <1>1. n \in Nat /\ DOMAIN members = 1 .. n
    OBVIOUS
  <1>2. IsFiniteSet(1 .. n) /\ Cardinality(1 .. n) = n
    <2> HIDE DEF n
    <2>1. IsFiniteSet(1 .. n) /\ Cardinality(1 .. n) = IF 1 > n THEN 0 ELSE n - 1 + 1
      BY <1>1, FS_Interval
    <2> QED
      BY <1>1, <2>1
  <1>3. [i \in 1 .. n |-> members[i]] \in Surjection(1 .. n, named)
    BY <1>1 DEF Surjection
  <1>4. IsFiniteSet(named) /\ Cardinality(named) <= n
    BY <1>2, <1>3, FS_Surjection
  <1>5. IsFiniteSet(given) /\ Cardinality(given) <= Cardinality(named)
        /\ (Cardinality(given) = Cardinality(named) => given = named)
    BY <1>4, FS_Subset
  <1>6. Cardinality(named) \in Nat /\ Cardinality(given) \in Nat
    BY <1>4, <1>5, FS_CardinalityType
  <1>7. Cardinality(given) = n
    OBVIOUS
  <1> HIDE DEF named, n
  <1>8. Cardinality(named) = n
    BY <1>1, <1>4, <1>5, <1>6, <1>7
  <1> QED
    BY <1>5, <1>7, <1>8 DEF named, n

LEMMA MuPut ==
    ASSUME NEW values, NEW f \in Collected(values), NEW p \in Signatories, NEW value \in values
    PROVE  Put(f, p, value) \in Collected(values)
  <1>1. PICK D \in SUBSET Signatories : f \in [D -> values]
    BY DEF Collected
  <1>2. Put(f, p, value) \in [D \cup {p} -> values]
    BY <1>1 DEF Put
  <1>3. D \cup {p} \in SUBSET Signatories
    OBVIOUS
  <1> QED
    BY <1>1, <1>2, <1>3, Zenon DEF Collected, Put

LEMMA MuKept ==
    ASSUME MuInv, NEW gone
    PROVE  /\ WithoutExpired(gone) \in [EngineIds -> {Nothing} \cup MuRecord]
           /\ \A s \in EngineIds : WithoutExpired(gone)[s] # Nothing => MuFaithful(WithoutExpired(gone)[s])
  BY DEF MuInv, WithoutExpired

LEMMA MuFresh ==
    ASSUME NEW members \in SessionMembers, NEW hash \in {"short", "hash", Malformed}, MuInv
    PROVE  LET fresh == [state |-> "nonce_exchange", members |-> members, hash |-> hash, created |-> muNow,
                         nonces |-> <<>>, aggregate |-> <<>>, partials |-> <<>>, final |-> FALSE]
           IN  fresh \in MuRecord /\ MuFaithful(fresh)
  <1>1. members \in Seq(Signatories) /\ muNow \in Nat
    BY MuSig2Assumption DEF MuInv
  <1>2. \A values : <<>> \in Collected(values)
    <2>1. \A values : <<>> \in [{} -> values]
      OBVIOUS
    <2>2. {} \in SUBSET Signatories
      OBVIOUS
    <2> QED
      BY <2>1, <2>2 DEF Collected
  <1>3. DOMAIN <<>> = {}
    OBVIOUS
  <1> QED
    BY <1>1, <1>2, <1>3 DEF MuRecord, MuFaithful

LEMMA MuNonce ==
    ASSUME NEW r \in MuRecord, MuFaithful(r), r.state = "nonce_exchange",
           NEW p \in Signatories, p \in Named(r), NEW nonce \in NonceValues
    PROVE  LET nonces == Put(r.nonces, p, nonce)
               some == [r EXCEPT !.nonces = nonces]
               all == [r EXCEPT !.nonces = nonces, !.aggregate = nonces, !.state = "signing"]
           IN  /\ some \in MuRecord /\ MuFaithful(some)
               /\ Complete(r, nonces) /\ AllWellFormed(nonces) => all \in MuRecord /\ MuFaithful(all)
  <1> DEFINE nonces == Put(r.nonces, p, nonce)
             some == [r EXCEPT !.nonces = nonces]
             all == [r EXCEPT !.nonces = nonces, !.aggregate = nonces, !.state = "signing"]
  <1>1. r.nonces \in Collected(NonceValues) /\ r.members \in Seq(Signatories)
    BY DEF MuRecord
  <1>2. nonces \in Collected(NonceValues) /\ DOMAIN nonces = DOMAIN r.nonces \cup {p}
    <2>1. nonces \in Collected(NonceValues)
      BY <1>1, MuPut
    <2>2. DOMAIN nonces = DOMAIN r.nonces \cup {p}
      BY DEF Put
    <2> QED
      BY <2>1, <2>2
  <1>3. DOMAIN nonces \subseteq Named(r)
    BY <1>2 DEF MuFaithful
  <1> HIDE DEF nonces
  <1>4. some \in MuRecord
    BY <1>2 DEF MuRecord
  <1>5. /\ some.nonces = nonces /\ some.members = r.members /\ some.state = r.state
        /\ some.aggregate = r.aggregate /\ some.partials = r.partials /\ some.final = r.final
    BY DEF MuRecord
  <1>6. MuFaithful(some)
    <2> HIDE DEF some
    <2> QED
      BY <1>3, <1>5 DEF MuFaithful, Named
  <1>7. ASSUME Complete(r, nonces), AllWellFormed(nonces)
        PROVE  all \in MuRecord /\ MuFaithful(all)
    <2>1. all \in MuRecord
      BY <1>2, Zenon DEF MuRecord
    <2>2. /\ all.nonces = nonces /\ all.members = r.members /\ all.state = "signing"
          /\ all.aggregate = nonces /\ all.partials = r.partials /\ all.final = r.final
      BY DEF MuRecord
    <2>3. DOMAIN nonces = Named(r) /\ Len(r.members) = Cardinality(Named(r))
      BY <1>1, <1>3, <1>7, NoncesOfAll, Zenon DEF Complete, Named
    <2>4. \A q \in Named(r) : nonces[q] # Malformed
      BY <1>7, <2>3 DEF AllWellFormed
    <2>5. ~r.final
      BY DEF MuFaithful, MuRecord
    <2> HIDE DEF all
    <2>6. Named(all) = Named(r)
      BY <2>2 DEF Named
    <2>7. MuFaithful(all)
      BY <2>2, <2>3, <2>4, <2>5, <2>6 DEF MuFaithful
    <2> QED
      BY <2>1, <2>7
  <1> QED
    BY <1>4, <1>6, <1>7 DEF nonces

LEMMA MuPartial ==
    ASSUME NEW r \in MuRecord, MuFaithful(r), r.state = "signing",
           NEW p \in Signatories, NEW partial \in PartialValues
    PROVE  LET partials == Put(r.partials, p, partial)
               some == [r EXCEPT !.partials = partials]
               all == [r EXCEPT !.partials = partials, !.final = TRUE, !.state = "completed"]
           IN  /\ some \in MuRecord /\ MuFaithful(some)
               /\ Complete(r, partials) /\ AllWellFormed(partials) => all \in MuRecord /\ MuFaithful(all)
  <1> DEFINE partials == Put(r.partials, p, partial)
             some == [r EXCEPT !.partials = partials]
             all == [r EXCEPT !.partials = partials, !.final = TRUE, !.state = "completed"]
  <1>1. r.partials \in Collected(PartialValues)
    BY DEF MuRecord
  <1>2. partials \in Collected(PartialValues)
    BY <1>1, MuPut
  <1>3. ~r.final
    BY DEF MuFaithful, MuRecord
  <1> HIDE DEF partials
  <1>4. some \in MuRecord
    BY <1>2 DEF MuRecord
  <1>5. /\ some.nonces = r.nonces /\ some.members = r.members /\ some.state = r.state
        /\ some.aggregate = r.aggregate /\ some.final = r.final
    BY DEF MuRecord
  <1>6. MuFaithful(some)
    <2> HIDE DEF some
    <2> QED
      BY <1>3, <1>5 DEF MuFaithful, Named
  <1>7. ASSUME Complete(r, partials), AllWellFormed(partials)
        PROVE  all \in MuRecord /\ MuFaithful(all)
    <2>1. all \in MuRecord
      BY <1>2, Zenon DEF MuRecord
    <2>2. /\ all.nonces = r.nonces /\ all.members = r.members /\ all.state = "completed"
          /\ all.aggregate = r.aggregate /\ all.partials = partials /\ all.final = TRUE
      BY DEF MuRecord
    <2> HIDE DEF all
    <2>3. Named(all) = Named(r)
      BY <2>2 DEF Named
    <2>4. MuFaithful(all)
      BY <1>7, <2>2, <2>3 DEF MuFaithful, Complete, AllWellFormed
    <2> QED
      BY <2>1, <2>4
  <1> QED
    BY <1>4, <1>6, <1>7 DEF partials

LEMMA MuStepInv == MuInv /\ [MuNext]_muVars => MuInv'
  <1> SUFFICES ASSUME MuInv, [MuNext]_muVars PROVE MuInv'
    OBVIOUS
  <1>0. /\ muNow \in Nat
        /\ \A s \in EngineIds : muSessions[s] # Nothing =>
            muSessions[s] \in MuRecord /\ MuFaithful(muSessions[s])
    BY DEF MuInv
  <1>1. ASSUME NEW s \in EngineIds, NEW members \in SessionMembers,
               NEW hash \in {"short", "hash", Malformed}, CreateSession(s, members, hash)
        PROVE  MuInv'
    <2> DEFINE kept == WithoutExpired(EngineIds)
               fresh == [state |-> "nonce_exchange", members |-> members, hash |-> hash, created |-> muNow,
                         nonces |-> <<>>, aggregate |-> <<>>, partials |-> <<>>, final |-> FALSE]
    <2>1. muNow' = muNow /\ muSessions' \in {kept, [kept EXCEPT ![s] = fresh]}
      BY <1>1 DEF CreateSession
    <2>2. fresh \in MuRecord /\ MuFaithful(fresh)
      BY MuFresh, Zenon
    <2>3. /\ kept \in [EngineIds -> {Nothing} \cup MuRecord]
          /\ \A q \in EngineIds : kept[q] # Nothing => MuFaithful(kept[q])
      BY MuKept
    <2> HIDE DEF fresh, kept
    <2> QED
      BY <1>0, <2>1, <2>2, <2>3 DEF MuInv
  <1>2. ASSUME NEW gone, muSessions' = WithoutExpired(gone), muNow' = muNow
        PROVE  MuInv'
    BY <1>0, <1>2, MuKept DEF MuInv
  <1>3. ASSUME NEW s \in EngineIds, NEW p \in Signatories, NEW nonce \in NonceValues,
               SubmitPublicNonce(s, p, nonce)
        PROVE  MuInv'
    <2> DEFINE r == muSessions[s]
               nonces == Put(r.nonces, p, nonce)
               some == [r EXCEPT !.nonces = nonces]
               all == [r EXCEPT !.nonces = nonces, !.aggregate = nonces, !.state = "signing"]
    <2>1. r \in MuRecord /\ MuFaithful(r) /\ r.state = "nonce_exchange" /\ p \in Named(r)
      BY <1>0, <1>3 DEF SubmitPublicNonce, Accepts, InState, Nothing, Named
    <2>2. /\ some \in MuRecord /\ MuFaithful(some)
          /\ Complete(r, nonces) /\ AllWellFormed(nonces) => all \in MuRecord /\ MuFaithful(all)
      BY <2>1, MuNonce, Zenon
    <2>3. /\ muNow' = muNow
          /\ \/ muSessions' = [muSessions EXCEPT ![s] = some]
             \/ /\ Complete(r, nonces) /\ AllWellFormed(nonces)
                /\ muSessions' = [muSessions EXCEPT ![s] = all]
      BY <1>3, Zenon DEF SubmitPublicNonce
    <2> HIDE DEF some, all, nonces, r
    <2> QED
      BY <2>2, <2>3 DEF MuInv
  <1>4. ASSUME NEW s \in EngineIds, NEW p \in Signatories, NEW partial \in PartialValues,
               SubmitPartialSignature(s, p, partial)
        PROVE  MuInv'
    <2> DEFINE r == muSessions[s]
               partials == Put(r.partials, p, partial)
               some == [r EXCEPT !.partials = partials]
               all == [r EXCEPT !.partials = partials, !.final = TRUE, !.state = "completed"]
    <2>1. r \in MuRecord /\ MuFaithful(r) /\ r.state = "signing"
      BY <1>0, <1>4 DEF SubmitPartialSignature, Accepts, InState, Nothing
    <2>2. /\ some \in MuRecord /\ MuFaithful(some)
          /\ Complete(r, partials) /\ AllWellFormed(partials) => all \in MuRecord /\ MuFaithful(all)
      BY <2>1, MuPartial, Zenon
    <2>3. /\ muNow' = muNow
          /\ \/ muSessions' = [muSessions EXCEPT ![s] = some]
             \/ /\ Complete(r, partials) /\ AllWellFormed(partials)
                /\ muSessions' = [muSessions EXCEPT ![s] = all]
      BY <1>4, Zenon DEF SubmitPartialSignature
    <2> HIDE DEF some, all, partials, r
    <2> QED
      BY <2>2, <2>3 DEF MuInv
  <1>5. CASE MuTick
    BY <1>5 DEF MuTick, MuInv
  <1>6. CASE UNCHANGED muVars
    BY <1>6 DEF muVars, MuInv
  <1> QED
    BY <1>1, <1>2, <1>3, <1>4, <1>5, <1>6, Zenon DEF MuNext, AccessExpired, PurgeExpiredSessions

LEMMA MuInvSound == MuInv => MuSound
  BY Zenon DEF MuInv, MuSound, MuFaithful, Named, Stored

(* Theorem: a session signs with one well-formed nonce of every participant    *)
(* and of nobody else, and is completed by as many well-formed signatures as    *)
(* it has participants (MuSound).                                           *)
THEOREM MuSig2Sound == MuInit /\ [][MuNext]_muVars => []MuSound
  BY MuInitInv, MuStepInv, MuInvSound, PTL

LEMMA MuStepFinal == MuInv /\ MuNext => MuFinal
  <1> SUFFICES ASSUME MuInv, MuNext, NEW s \in EngineIds, muSessions[s] # Nothing, ~IsExpiredSession(s)
               PROVE  LET r == muSessions[s]  q == muSessions'[s] IN
                      /\ q # Nothing /\ q.members = r.members /\ q.hash = r.hash
                      /\ r.state # "nonce_exchange" => q.nonces = r.nonces /\ q.aggregate = r.aggregate
                      /\ r.final => q = r
    BY DEF MuFinal, Stored
  <1>1. PICK r : r = muSessions[s]
    OBVIOUS
  <1>2. r \in MuRecord /\ MuFaithful(r) /\ r # Nothing /\ \A q \in MuRecord : q # Nothing
    BY <1>1 DEF MuInv, MuRecord, Nothing
  <1>3. CASE muSessions'[s] = r
    BY <1>1, <1>2, <1>3
  <1>4. ASSUME NEW gone PROVE WithoutExpired(gone)[s] = r
    BY <1>1 DEF WithoutExpired
  <1>5. ASSUME NEW t \in EngineIds, NEW members, NEW hash, CreateSession(t, members, hash)
        PROVE  muSessions'[s] = r
    <2>1. PICK kept : kept = WithoutExpired(EngineIds)
      OBVIOUS
    <2>2. kept[s] = r /\ kept[s] # Nothing
      BY <1>2, <1>4, <2>1
    <2>3. PICK fresh : muSessions' = kept \/ (kept[t] = Nothing /\ muSessions' = [kept EXCEPT ![t] = fresh])
      BY <1>5, <2>1, Zenon DEF CreateSession
    <2>4. kept = [x \in EngineIds |-> kept[x]]
      BY <2>1 DEF WithoutExpired
    <2> QED
      BY <2>2, <2>3, <2>4
  <1>6. ASSUME NEW t \in EngineIds, AccessExpired(t) PROVE muSessions'[s] = r
    BY <1>4, <1>6 DEF AccessExpired
  <1>7. CASE PurgeExpiredSessions \/ MuTick
    BY <1>1, <1>3, <1>4, <1>7 DEF PurgeExpiredSessions, MuTick
  <1>8. ASSUME NEW t \in EngineIds, t # s, NEW p, NEW value,
               SubmitPublicNonce(t, p, value) \/ SubmitPartialSignature(t, p, value)
        PROVE  muSessions'[s] = r
    BY <1>1, <1>8 DEF SubmitPublicNonce, SubmitPartialSignature, MuInv
  <1>9. ASSUME NEW p \in Signatories, NEW nonce \in NonceValues, SubmitPublicNonce(s, p, nonce)
        PROVE  LET q == muSessions'[s] IN
               /\ r.state = "nonce_exchange" /\ q \in MuRecord /\ q.members = r.members /\ q.hash = r.hash
               /\ ~r.final
    <2>1. r.state = "nonce_exchange" /\ ~r.final
      BY <1>1, <1>2, <1>9 DEF SubmitPublicNonce, Accepts, InState, MuFaithful
    <2>2. PICK nonces : nonces = Put(r.nonces, p, nonce)
      OBVIOUS
    <2>3. nonces \in Collected(NonceValues)
      BY <1>2, <2>2, MuPut DEF MuRecord
    <2>4. \/ muSessions'[s] = [r EXCEPT !.nonces = nonces, !.aggregate = nonces, !.state = "signing"]
          \/ muSessions'[s] = [r EXCEPT !.nonces = nonces]
      BY <1>1, <1>9, <2>2 DEF SubmitPublicNonce, MuInv
    <2> QED
      BY <1>2, <2>1, <2>3, <2>4, Zenon DEF MuRecord
  <1>10. ASSUME NEW p \in Signatories, NEW partial \in PartialValues, SubmitPartialSignature(s, p, partial)
         PROVE  LET q == muSessions'[s] IN
                /\ ~r.final /\ q \in MuRecord /\ q.members = r.members /\ q.hash = r.hash
                /\ q.nonces = r.nonces /\ q.aggregate = r.aggregate
    <2>1. ~r.final
      BY <1>1, <1>2, <1>10 DEF SubmitPartialSignature, Accepts, InState, MuFaithful
    <2>2. PICK partials : partials = Put(r.partials, p, partial)
      OBVIOUS
    <2>3. partials \in Collected(PartialValues)
      BY <1>2, <2>2, MuPut DEF MuRecord
    <2>4. \/ muSessions'[s] = [r EXCEPT !.partials = partials, !.final = TRUE, !.state = "completed"]
          \/ muSessions'[s] = [r EXCEPT !.partials = partials]
      BY <1>1, <1>10, <2>2 DEF SubmitPartialSignature, MuInv
    <2> QED
      BY <1>2, <2>1, <2>3, <2>4, Zenon DEF MuRecord
  <1> QED
    BY <1>1, <1>2, <1>3, <1>5, <1>6, <1>7, <1>8, <1>9, <1>10 DEF MuNext

(* Theorem: until it expires, a session keeps its members and its message, its  *)
(* nonces once they are complete, and its signature (MuFinal).               *)
THEOREM MuSig2Final == MuInit /\ [][MuNext]_muVars => [][MuFinal]_muVars
  <1>1. MuInv /\ [MuNext]_muVars => [MuFinal]_muVars
    BY MuStepFinal
  <1> QED
    BY <1>1, MuInitInv, MuStepInv, PTL

(***************************************************************************)
(* Tokens.  A JWT is known by when it was issued, and a call that is signing    *)
(* one will be back before it could have expired.                            *)
(***************************************************************************)
ApiToken ==
    [scopes : SUBSET Permissions[AdminService], expires : Int, revoked : BOOLEAN, previous : Nat]

GatewayJwt(t) == Jwt(AdminService, GatewayScopes, t)

CallSound(c) ==
    /\ tkCalls[c].at \in {"idle", "signing", "sent"}
    /\ tkCalls[c].at = "signing" =>
        /\ ConfigValid
        /\ tkCalls[c].now \in 0 .. tkNow /\ tkNow < tkCalls[c].now + MinTtl

TkInv ==
    /\ tkNow \in 0 .. MaxTokenTime /\ tkConfig \in JwtConfigs
    /\ tkTokens \in Seq(ApiToken) /\ Len(tkTokens) <= MaxTokens
    /\ \A t \in 1 .. Len(tkTokens) : tkTokens[t].previous < t
    /\ tkCache = NoJwt \/ \E t \in 0 .. tkNow : ConfigValid /\ tkCache = GatewayJwt(t)
    /\ tkCalls = [c \in Callers |-> tkCalls[c]]
    /\ \A c \in Callers : CallSound(c)
    /\ HandedOutAccepted

LEMMA TkInitInv == TkInit => TkInv
  BY TokensAssumption DEF TkInit, TkInv, NotCalling, CallSound, HandedOutAccepted

(* A JWT issued at t is accepted at now by every clock within the skew, if     *)
(* it has not expired at now.                                                *)
LEMMA GatewayAccepts ==
    ASSUME tkConfig \in JwtConfigs, ConfigValid, NEW t \in Nat, NEW now \in Nat, t <= now,
           now < t + tkConfig.ttl,
           NEW clock \in now - tkConfig.skew .. now + tkConfig.skew
    PROVE  JwtAccepted(GatewayJwt(t), clock)
  <1> DEFINE ttl == tkConfig.ttl  skew == tkConfig.skew
  <1>1. ttl \in Int /\ skew \in Int /\ MinTtl \in Nat /\ MaxTtl \in Nat
    BY TokensAssumption
  <1>2. ttl \in MinTtl .. MaxTtl /\ skew \in 0 .. MaxSkew
    BY DEF ConfigValid
  <1>3. ScopesAllowed(AdminService, GatewayScopes)
    BY TokensAssumption DEF ScopesAllowed
  <1>4. /\ GatewayJwt(t).exp = t + ttl /\ GatewayJwt(t).iat = t /\ GatewayJwt(t).nbf = t
        /\ GatewayJwt(t).good /\ GatewayJwt(t).sub = AdminService /\ GatewayJwt(t).scopes = GatewayScopes
    BY DEF GatewayJwt, Jwt
  <1>5. LifetimeValid(GatewayJwt(t), clock)
    <2> HIDE DEF ttl, skew
    <2>1. /\ (t + ttl) - t \in MinTtl .. MaxTtl /\ t <= t + ttl
          /\ clock \in now - skew .. now + skew /\ now < t + ttl
      BY <1>1, <1>2 DEF ttl, skew
    <2>2. t <= clock + skew /\ t + ttl > clock - skew
      BY <1>1, <1>2, <2>1
    <2> QED
      BY <1>4, <2>1, <2>2 DEF LifetimeValid, skew
  <1> QED
    BY <1>3, <1>4, <1>5 DEF JwtAccepted

(* The API tokens: whatever is done to one, it keeps to the dashboard's scopes. *)
LEMMA TkStored ==
    ASSUME TkInv, NEW tokens \in Seq(ApiToken), Len(tokens) <= MaxTokens,
           \A t \in 1 .. Len(tokens) : tokens[t].previous < t, Store(tokens)
    PROVE  TkInv'
  <1>1. tkTokens' = tokens /\ UNCHANGED <<tkNow, tkConfig, tkCache, tkCalls>>
    BY DEF Store
  <1>2. HandedOutAccepted'
    BY <1>1 DEF TkInv, HandedOutAccepted, JwtAccepted, LifetimeValid, ConfigValid
  <1>3. \A t : GatewayJwt(t)' = GatewayJwt(t)
    BY <1>1 DEF GatewayJwt, Jwt
  <1>4. \A c \in Callers : CallSound(c)'
    BY <1>1 DEF TkInv, CallSound, ConfigValid
  <1>5. (tkCache = NoJwt \/ \E t \in 0 .. tkNow : ConfigValid /\ tkCache = GatewayJwt(t))'
    BY <1>1, <1>3 DEF TkInv, ConfigValid
  <1> QED
    BY <1>1, <1>2, <1>4, <1>5 DEF TkInv

LEMMA TkNewToken ==
    ASSUME TkInv, NEW scopes, NEW ttl \in TokenTtls, NEW previous \in Nat
    PROVE  NewToken(scopes, ttl, previous) \in ApiToken
           /\ NewToken(scopes, ttl, previous).previous = previous
  <1>1. tkNow + ttl \in Int
    BY TokensAssumption DEF TkInv
  <1> QED
    BY <1>1 DEF NewToken, ApiToken, Permitted

LEMMA TkTokensInv ==
    ASSUME TkInv,
           \/ \E scopes \in TokenScopes, ttl \in TokenTtls : IssueToken(scopes, ttl)
           \/ \E t \in DOMAIN tkTokens :
                \/ \E scopes \in TokenScopes : UpdateToken(t, scopes)
                \/ \E grace \in Graces, ttl \in TokenTtls : RotateToken(t, grace, ttl)
                \/ RevokeToken(t)
    PROVE  TkInv'
  <1> DEFINE n == Len(tkTokens)
  <1>0. /\ tkTokens \in Seq(ApiToken) /\ n \in Nat /\ DOMAIN tkTokens = 1 .. n /\ n <= MaxTokens
        /\ MaxTokens \in Nat /\ \A t \in 1 .. n : tkTokens[t] \in ApiToken /\ tkTokens[t].previous < t
    BY TokensAssumption DEF TkInv
  <1>1. ASSUME NEW scopes \in TokenScopes, NEW ttl \in TokenTtls, IssueToken(scopes, ttl)
        PROVE  TkInv'
    <2> DEFINE new == NewToken(scopes, ttl, 0)
    <2>1. new \in ApiToken /\ new.previous = 0
      BY TkNewToken
    <2>2. ~Full /\ Store(Append(tkTokens, new))
      BY <1>1 DEF IssueToken
    <2> HIDE DEF new
    <2>3. /\ Append(tkTokens, new) \in Seq(ApiToken) /\ Len(Append(tkTokens, new)) = n + 1
          /\ \A t \in 1 .. n + 1 : Append(tkTokens, new)[t] = IF t <= n THEN tkTokens[t] ELSE new
      BY <1>0, <2>1
    <2>4. n + 1 <= MaxTokens
      BY <1>0, <2>2 DEF Full
    <2>5. \A t \in 1 .. n + 1 : Append(tkTokens, new)[t].previous < t
      BY <1>0, <2>1, <2>3
    <2> QED
      BY <2>2, <2>3, <2>4, <2>5, TkStored, Zenon
  <1>2. ASSUME NEW t \in 1 .. n, NEW token \in ApiToken, token.previous = tkTokens[t].previous
        PROVE  LET tokens == [tkTokens EXCEPT ![t] = token] IN
               /\ tokens \in Seq(ApiToken) /\ Len(tokens) = n
               /\ \A u \in 1 .. n : tokens[u] \in ApiToken /\ tokens[u].previous < u
    BY <1>0, <1>2
  <1>3. ASSUME NEW t \in 1 .. n, NEW token \in ApiToken, token.previous = tkTokens[t].previous,
               Store([tkTokens EXCEPT ![t] = token])
        PROVE  TkInv'
    BY <1>0, <1>2, <1>3, TkStored, Zenon
  <1>4. ASSUME NEW t \in 1 .. n, NEW scopes \in TokenScopes, UpdateToken(t, scopes)
        PROVE  TkInv'
    <2>1. [tkTokens[t] EXCEPT !.scopes = Permitted(scopes)] \in ApiToken
      BY <1>0, Zenon DEF ApiToken, Permitted
    <2> QED
      BY <1>0, <1>3, <1>4, <2>1, Zenon DEF UpdateToken, ApiToken
  <1>5. ASSUME NEW t \in 1 .. n, RevokeToken(t)
        PROVE  TkInv'
    <2>1. [tkTokens[t] EXCEPT !.revoked = TRUE] \in ApiToken
      BY <1>0, Zenon DEF ApiToken
    <2> QED
      BY <1>0, <1>3, <1>5, <2>1, Zenon DEF RevokeToken, ApiToken
  <1>6. ASSUME NEW t \in 1 .. n, NEW grace \in Graces, NEW ttl \in TokenTtls, RotateToken(t, grace, ttl)
        PROVE  TkInv'
    <2> DEFINE short == [tkTokens[t] EXCEPT !.expires = tkNow + grace]
               shortened == [tkTokens EXCEPT ![t] = short]
               new == NewToken(tkTokens[t].scopes, ttl, t)
    <2>1. tkNow + grace \in Int
      BY TokensAssumption DEF TkInv
    <2>2. short \in ApiToken /\ short.previous = tkTokens[t].previous
      BY <1>0, <2>1, Zenon DEF ApiToken
    <2>3. new \in ApiToken /\ new.previous = t
      BY TkNewToken
    <2>4. Store(IF Full THEN shortened ELSE Append(shortened, new))
      BY <1>0, <1>6 DEF RotateToken
    <2> HIDE DEF short, new
    <2>5. /\ shortened \in Seq(ApiToken) /\ Len(shortened) = n
          /\ \A u \in 1 .. n : shortened[u] \in ApiToken /\ shortened[u].previous < u
      BY <1>2, <2>2
    <2>6. CASE Full
      BY <1>0, <2>4, <2>5, <2>6, TkStored, Zenon
    <2>7. CASE ~Full
      <3> HIDE DEF shortened
      <3>1. /\ Append(shortened, new) \in Seq(ApiToken) /\ Len(Append(shortened, new)) = n + 1
            /\ \A u \in 1 .. n + 1 : Append(shortened, new)[u] = IF u <= n THEN shortened[u] ELSE new
        <4>1. shortened \in Seq(ApiToken) /\ Len(shortened) = n /\ new \in ApiToken
          BY <2>3, <2>5
        <4> HIDE DEF n
        <4> QED
          BY <1>0, <4>1
      <3>2. n + 1 <= MaxTokens
        BY <1>0, <2>7 DEF Full
      <3>3. \A u \in 1 .. n + 1 : Append(shortened, new)[u].previous < u
        BY <1>0, <2>3, <2>5, <3>1
      <3> QED
        BY <2>4, <2>7, <3>1, <3>2, <3>3, TkStored, Zenon
    <2> QED
      BY <2>6, <2>7
  <1> QED
    BY <1>0, <1>1, <1>4, <1>5, <1>6

(* The calls to the Gateway.                                                 *)
LEMMA TkCallsInv ==
    ASSUME TkInv, NEW c \in Callers, CallGateway(c) \/ FinishSigning(c) \/ GatewayAnswers(c)
    PROVE  TkInv'
  <1>0. UNCHANGED <<tkNow, tkConfig, tkTokens>>
    BY DEF CallGateway, FinishSigning, GatewayAnswers, Calls
  <1>1. /\ \A t : GatewayJwt(t)' = GatewayJwt(t)
        /\ ConfigValid' = ConfigValid
        /\ \A jwt, now : JwtAccepted(jwt, now)' = JwtAccepted(jwt, now)
    BY <1>0 DEF GatewayJwt, Jwt, ConfigValid, JwtAccepted, LifetimeValid
  <1>2. /\ tkNow \in Nat /\ MinTtl \in Nat \ {0}
        /\ tkConfig \in JwtConfigs /\ tkConfig.ttl \in Int /\ tkConfig.skew \in Int
    BY TokensAssumption DEF TkInv
  <1> DEFINE sent(call) == /\ call.at = "sent"
                           /\ "bearer" \in call.headers =>
                                \A clock \in call.time - tkConfig.skew .. call.time + tkConfig.skew :
                                    JwtAccepted(call.jwt, clock)
             good(call) == \/ call = NotCalling
                           \/ /\ call = [at |-> "signing", now |-> tkNow] /\ ConfigValid
                           \/ sent(call)
  <1>3. ASSUME NEW call, good(call), tkCalls' = [tkCalls EXCEPT ![c] = call],
               tkCache' = NoJwt \/ \E t \in 0 .. tkNow : ConfigValid /\ tkCache' = GatewayJwt(t)
        PROVE  TkInv'
    <2>1. tkCalls'[c] = call /\ \A d \in Callers \ {c} : tkCalls'[d] = tkCalls[d]
      BY <1>3 DEF TkInv
    <2>2. \A d \in Callers \ {c} : CallSound(d)'
      BY <1>0, <1>1, <2>1 DEF TkInv, CallSound
    <2>3. CallSound(c)'
      BY <1>0, <1>1, <1>2, <1>3, <2>1 DEF CallSound, NotCalling
    <2>4. HandedOutAccepted'
      <3> SUFFICES ASSUME NEW d \in Callers, tkCalls'[d].at = "sent", "bearer" \in tkCalls'[d].headers,
                          NEW clock \in tkCalls'[d].time - tkConfig.skew .. tkCalls'[d].time + tkConfig.skew
                   PROVE  JwtAccepted(tkCalls'[d].jwt, clock)
        BY <1>0, <1>1 DEF HandedOutAccepted
      <3>1. CASE d = c
        BY <1>3, <2>1, <3>1 DEF NotCalling
      <3>2. CASE d # c
        BY <2>1, <3>2 DEF TkInv, HandedOutAccepted
      <3> QED
        BY <3>1, <3>2
    <2>5. tkCalls' = [d \in Callers |-> tkCalls'[d]]
      BY <1>3, Zenon DEF TkInv
    <2> QED
      BY <1>0, <1>1, <1>3, <2>2, <2>3, <2>4, <2>5 DEF TkInv
  <1>4. CASE GatewayAnswers(c)
    BY <1>3, <1>4 DEF GatewayAnswers, Calls, TkInv
  <1>5. ASSUME NEW t \in 0 .. tkNow, ConfigValid, tkNow < t + tkConfig.ttl, NEW headers
        PROVE  sent(Sent(headers, GatewayJwt(t)))
    BY <1>2, <1>5, GatewayAccepts DEF Sent
  <1>6. CASE FinishSigning(c)
    <2> DEFINE t == tkCalls[c].now
    <2>1. t \in 0 .. tkNow /\ tkNow < t + MinTtl /\ ConfigValid /\ Signed(c) = GatewayJwt(t)
      BY <1>6 DEF FinishSigning, Signed, GatewayJwt, TkInv, CallSound
    <2>2. tkNow < t + tkConfig.ttl
      BY <1>2, <2>1 DEF ConfigValid
    <2>3. tkCalls' = [tkCalls EXCEPT ![c] = Sent(LegacyHeaders \cup {"bearer"}, GatewayJwt(t))] /\ tkCache' = GatewayJwt(t)
      BY <1>6, <2>1 DEF FinishSigning, Calls
    <2> HIDE DEF t
    <2> QED
      BY <1>3, <1>5, <2>1, <2>2, <2>3, Zenon
  <1>7. CASE CallGateway(c)
    <2>1. tkCache' = tkCache
      BY <1>7 DEF CallGateway
    <2>2. tkCache' = NoJwt \/ \E t \in 0 .. tkNow : ConfigValid /\ tkCache' = GatewayJwt(t)
      BY <2>1 DEF TkInv
    <2>3. CASE tkConfig.mode = "legacy" /\ Calls(c, Sent({"legacy"}, NoJwt))
      <3>1. sent(Sent({"legacy"}, NoJwt))
        BY DEF Sent
      <3> QED
        BY <1>3, <2>2, <2>3, <3>1, Zenon DEF Calls
    <2>4. CASE ConfigValid /\ CacheUsable /\ Calls(c, Sent(LegacyHeaders \cup {"bearer"}, tkCache))
      <3>1. PICK t \in 0 .. tkNow : tkCache = GatewayJwt(t)
        BY <2>4 DEF TkInv, CacheUsable
      <3>2. tkCache.exp = t + tkConfig.ttl
        BY <3>1 DEF GatewayJwt, Jwt
      <3>3. tkNow < t + tkConfig.ttl
        BY <1>2, <2>4, <3>2 DEF CacheUsable, ConfigValid
      <3> QED
        BY <1>3, <1>5, <2>2, <2>4, <3>1, <3>3, Zenon DEF Calls
    <2>5. CASE ConfigValid /\ ~CacheUsable /\ Calls(c, [at |-> "signing", now |-> tkNow])
      BY <1>3, <2>2, <2>5, Zenon DEF Calls
    <2> QED
      BY <1>7, <2>3, <2>4, <2>5 DEF CallGateway
  <1> QED
    BY <1>4, <1>6, <1>7

LEMMA TkStepInv == TkInv /\ [TkNext]_tkVars => TkInv'
  <1> SUFFICES ASSUME TkInv, [TkNext]_tkVars PROVE TkInv'
    OBVIOUS
  <1>1. ASSUME UNCHANGED <<tkConfig, tkTokens, tkCache, tkCalls>>, tkNow' \in 0 .. MaxTokenTime, tkNow <= tkNow',
               \A c \in Callers : tkCalls[c].at = "signing" => tkNow' < tkCalls[c].now + MinTtl
        PROVE  TkInv'
    <2>1. /\ \A t : GatewayJwt(t)' = GatewayJwt(t)
          /\ ConfigValid' = ConfigValid
          /\ \A jwt, now : JwtAccepted(jwt, now)' = JwtAccepted(jwt, now)
      BY <1>1 DEF GatewayJwt, Jwt, ConfigValid, JwtAccepted, LifetimeValid
    <2>2. \A t \in 0 .. tkNow : t \in 0 .. tkNow'
      BY <1>1, TokensAssumption DEF TkInv
    <2>3. HandedOutAccepted'
      BY <1>1, <2>1 DEF TkInv, HandedOutAccepted
    <2>4. \A c \in Callers : CallSound(c)'
      BY <1>1, <2>1, <2>2 DEF TkInv, CallSound
    <2>5. (tkCache = NoJwt \/ \E t \in 0 .. tkNow : ConfigValid /\ tkCache = GatewayJwt(t))'
      BY <1>1, <2>1, <2>2 DEF TkInv
    <2> QED
      BY <1>1, <2>3, <2>4, <2>5 DEF TkInv
  <1>2. CASE TkTick
    BY <1>1, <1>2, TokensAssumption DEF TkTick, TkInv
  <1>3. CASE UNCHANGED tkVars
    BY <1>1, <1>3, TokensAssumption DEF tkVars, TkInv, CallSound
  <1> QED
    BY <1>2, <1>3, TkTokensInv, TkCallsInv DEF TkNext

LEMMA TkInvSound == TkInv => TkSound /\ TkTypeOK
  <1> SUFFICES ASSUME TkInv PROVE TkSound /\ TkTypeOK
    OBVIOUS
  <1>1. /\ DOMAIN tkTokens = 1 .. Len(tkTokens)
        /\ \A t \in DOMAIN tkTokens : tkTokens[t] \in ApiToken /\ tkTokens[t].previous < t
    BY DEF TkInv
  <1>0. \A t \in DOMAIN tkTokens : tkTokens[t].scopes \subseteq Permissions[AdminService]
    BY <1>1 DEF ApiToken
  <1>2. \A t : ByToken(t).valid => ByToken(t).who = AdminService /\ ByToken(t).scopes \subseteq Permissions[AdminService]
    BY <1>0, <1>1 DEF ByToken, AuthAccepted, AuthRefused
  <1>3. \A b : ByBearer(b).valid => ByBearer(b).scopes \subseteq Permissions[ByBearer(b).who]
    BY <1>2 DEF ByBearer, JwtAccepted, ScopesAllowed, AuthAccepted, AuthRefused
  <1>4. \A r : ByKeys(r).valid /\ ByKeys(r).who \in Services => ByKeys(r).scopes \subseteq Permissions[ByKeys(r).who]
    BY TokensAssumption DEF ByKeys, AuthAccepted, AuthRefused
  <1>5. ScopesBounded
    BY <1>0, <1>2, <1>3, <1>4 DEF ScopesBounded, Authenticated
  <1>6. tkCache = NoJwt \/ tkCache.exp - tkCache.iat = tkConfig.ttl
    BY TokensAssumption DEF TkInv, GatewayJwt, Jwt
  <1>7. TkTypeOK
    BY <1>1, <1>6 DEF TkInv, TkTypeOK, ApiToken, CallSound
  <1> QED
    BY <1>5, <1>7 DEF TkInv, TkSound

(* A record stays, is never another token's, and once revoked never accepted.  *)
LEMMA TkStepFinal == TkInv /\ TkNext => TkFinal
  <1> SUFFICES ASSUME TkInv, TkNext, NEW t \in DOMAIN tkTokens
               PROVE  /\ t \in DOMAIN tkTokens'
                      /\ tkTokens'[t].previous = tkTokens[t].previous
                      /\ tkTokens[t].revoked => tkTokens'[t].revoked
    BY DEF TkFinal, TokenAccepted
  <1>1. /\ tkTokens \in Seq(ApiToken) /\ Len(tkTokens) \in Nat /\ DOMAIN tkTokens = 1 .. Len(tkTokens)
        /\ tkTokens[t] \in ApiToken
    BY DEF TkInv
  <1>2. CASE tkTokens' = tkTokens
    BY <1>2
  <1>3. ASSUME NEW scopes, NEW ttl, IssueToken(scopes, ttl)
        PROVE  t \in DOMAIN tkTokens' /\ tkTokens'[t] = tkTokens[t]
    BY <1>1, <1>3 DEF IssueToken, Store
  <1>4. ASSUME NEW u \in DOMAIN tkTokens, NEW scopes, UpdateToken(u, scopes)
        PROVE  /\ t \in DOMAIN tkTokens' /\ tkTokens'[t].previous = tkTokens[t].previous
               /\ tkTokens'[t].revoked = tkTokens[t].revoked
    BY <1>1, <1>4 DEF UpdateToken, Store, ApiToken
  <1>5. ASSUME NEW u \in DOMAIN tkTokens, RevokeToken(u)
        PROVE  /\ t \in DOMAIN tkTokens' /\ tkTokens'[t].previous = tkTokens[t].previous
               /\ tkTokens[t].revoked => tkTokens'[t].revoked
    BY <1>1, <1>5 DEF RevokeToken, Store, ApiToken
  <1>6. ASSUME NEW u \in DOMAIN tkTokens, NEW grace, NEW ttl, RotateToken(u, grace, ttl)
        PROVE  /\ t \in DOMAIN tkTokens' /\ tkTokens'[t].previous = tkTokens[t].previous
               /\ tkTokens'[t].revoked = tkTokens[t].revoked
    <2> DEFINE shortened == [tkTokens EXCEPT ![u].expires = tkNow + grace]
               new == NewToken(tkTokens[u].scopes, ttl, u)
    <2>1. /\ DOMAIN shortened = 1 .. Len(tkTokens)
          /\ shortened[t].previous = tkTokens[t].previous /\ shortened[t].revoked = tkTokens[t].revoked
      BY <1>1 DEF ApiToken
    <2>2. Len(shortened) = Len(tkTokens)
      BY <1>1
    <2>3. tkTokens' = shortened \/ tkTokens' = Append(shortened, new)
      BY <1>6 DEF RotateToken, Store
    <2> HIDE DEF shortened, new
    <2>4. t \in DOMAIN Append(shortened, new) /\ Append(shortened, new)[t] = shortened[t]
      BY <1>1, <2>1, <2>2
    <2> QED
      BY <1>1, <2>1, <2>3, <2>4
  <1> QED
    BY <1>2, <1>3, <1>4, <1>5, <1>6 DEF TkNext, CallGateway, FinishSigning, GatewayAnswers, Calls, TkTick

(* Theorem: a JWT that is handed out is accepted by every clock within the     *)
(* skew, no token and no request that is let in, however it came to be,         *)
(* carries a scope its holder may not have, and the list of tokens keeps to    *)
(* its length (TkSound).                                                    *)
THEOREM TokensSound == TkInit /\ [][TkNext]_tkVars => []TkSound
  BY TkInitInv, TkStepInv, TkInvSound, PTL

(* Theorem: no step takes the record of a token away or gives it to another,   *)
(* and a revoked token is not accepted again (TkFinal).                      *)
THEOREM TokensFinal == TkInit /\ [][TkNext]_tkVars => [][TkFinal]_tkVars
  <1>1. TkInv /\ [TkNext]_tkVars => [TkFinal]_tkVars
    BY TkStepFinal
  <1> QED
    BY <1>1, TkInitInv, TkStepInv, PTL

(***************************************************************************)
(* Observations of the protocol's revenue.  Whatever is revised, a document   *)
(* keeps the types of its fields, and the last verdict is what the checks say *)
(* of the document as it stands.                                            *)
(***************************************************************************)
Terms ==
    {"source", "approval", "deployment-confirmation", "interface-verification", "route-verification",
     "deployment-plan", "unknown", "none", "p1", "p2", "p3",
     "proposal", "approved", "not-applicable", "unratified", "ratified", "revoked", "unresolved",
     "protocol-source", "governance-proposal", "governance-approval", "resolved", "observed",
     "none-observed", "proposed", "active", "disclosed", "not-disclosed", "not-configured",
     "verified", "declared", "missing",
     "source-only", "plan", "preflight", "broadcast", "confirmed", "live-interface-verified",
     "evidence-id", "repository-path", "governance-record", "on-chain-reference"}
Names == Seq(Terms)
EffectiveWindow == [exact : BOOLEAN, first : Int, last : Int]
EvidenceItem == [id : Terms, kind : Terms, at : Nat]
Provenances == [id : Terms, role : Terms, cites : Names]
Authority == [kind : Terms, status : Terms, provenance : Terms, approval : Names]
FeePolicy == [status : Terms, rates : Seq(EffectiveWindow)]
PayTrack ==
    [status : Terms, disclosed : Terms, kind : Terms, reference : Terms, resolved : BOOLEAN,
     entries : Seq(EffectiveWindow), route : Terms]
Deployment ==
    [stage : Terms, source : Terms, broadcast : BOOLEAN, confirmed : Int, cites : Names, interface : Names]
Endpoint == [authorization : Terms, cites : Names]
Payout == [enabled : BOOLEAN, route : Terms, cites : Names]

Observation ==
    [observedAt : Nat, expiresAt : Nat, cites : Names, anchor : Terms, authority : Authority,
     evidence : Seq(EvidenceItem), provenance : Seq(Provenances), fee : FeePolicy,
     founder : PayTrack, builder : PayTrack, deployment : Deployment,
     collector : Endpoint, distributor : Endpoint, sources : Seq(Endpoint), payout : Payout]

RoInv ==
    /\ roNow \in RevenueDays /\ roRevisions \in 0 .. MaxRevisions
    /\ roDocument \in Observation
    /\ roVerdict \in [accepted : BOOLEAN, at : Int]
    /\ roVerdict.at \in -1 .. roNow
    /\ roVerdict.at = -1 => ~roVerdict.accepted
    /\ roVerdict.at # -1 => (roVerdict.accepted <=> AcceptedObservation(roDocument, roVerdict.at))

(* The complete document, and the lists that fields are revised to.           *)
LEMMA TermFacts ==
    /\ "source" \in Terms /\ "approval" \in Terms /\ "deployment-confirmation" \in Terms /\ "interface-verification" \in Terms
    /\ "route-verification" \in Terms /\ "deployment-plan" \in Terms /\ "unknown" \in Terms /\ "none" \in Terms
    /\ "p1" \in Terms /\ "p2" \in Terms /\ "p3" \in Terms /\ "proposal" \in Terms
    /\ "approved" \in Terms /\ "not-applicable" \in Terms /\ "unratified" \in Terms /\ "ratified" \in Terms
    /\ "revoked" \in Terms /\ "unresolved" \in Terms /\ "protocol-source" \in Terms /\ "governance-proposal" \in Terms
    /\ "governance-approval" \in Terms /\ "resolved" \in Terms /\ "observed" \in Terms /\ "none-observed" \in Terms
    /\ "proposed" \in Terms /\ "active" \in Terms /\ "disclosed" \in Terms /\ "not-disclosed" \in Terms
    /\ "not-configured" \in Terms /\ "verified" \in Terms /\ "declared" \in Terms /\ "missing" \in Terms
    /\ "source-only" \in Terms /\ "plan" \in Terms /\ "preflight" \in Terms /\ "broadcast" \in Terms
    /\ "confirmed" \in Terms /\ "live-interface-verified" \in Terms
    /\ "evidence-id" \in Terms /\ "repository-path" \in Terms /\ "governance-record" \in Terms
    /\ "on-chain-reference" \in Terms
  BY DEF Terms

LEMMA ListTyped ==
    ASSUME NEW S
    PROVE  /\ <<>> \in Seq(S)
           /\ \A x \in S : <<x>> \in Seq(S)
           /\ \A x, y \in S : <<x, y>> \in Seq(S)
           /\ \A a, b, c, d, e, f \in S : <<a, b, c, d, e, f>> \in Seq(S)
  OBVIOUS

LEMMA NamesTyped == <<>> \in Names /\ \A x, y \in Terms : <<x>> \in Names /\ <<x, y>> \in Names
  BY ListTyped DEF Names

LEMMA IdListsTyped == IdLists \subseteq Names
  BY NamesTyped, TermFacts, Zenon DEF IdLists

LEMMA WindowTyped ==
    /\ \A first, last \in Int : Window(first, last) \in EffectiveWindow
    /\ OpenWindow \in EffectiveWindow
  BY DEF Window, OpenWindow, EffectiveWindow, NoHeight

LEMMA WindowListsTyped == WindowLists \subseteq Seq(EffectiveWindow)
  <1>1. /\ Window(2, 3) \in EffectiveWindow /\ Window(0, 1) \in EffectiveWindow /\ Window(0, 2) \in EffectiveWindow
        /\ Window(1, 2) \in EffectiveWindow /\ Window(1, 3) \in EffectiveWindow /\ Window(2, 1) \in EffectiveWindow
        /\ OpenWindow \in EffectiveWindow
    BY WindowTyped
  <1> QED
    BY <1>1, ListTyped DEF WindowLists

LEMMA CompleteTyped == CompleteDocument \in Observation
  <1> DEFINE item(kind) == [id |-> kind, kind |-> kind, at |-> 1]
             endpoint(kind) == [authorization |-> "verified", cites |-> <<kind>>]
             resting == [status |-> "none-observed", disclosed |-> "not-disclosed", kind |-> "not-applicable",
                         reference |-> "none", resolved |-> FALSE, entries |-> <<>>, route |-> "not-configured"]
  <1>1. \A kind \in Terms : item(kind) \in EvidenceItem /\ endpoint(kind) \in Endpoint
    BY NamesTyped, TermFacts, Zenon DEF EvidenceItem, Endpoint
  <1>2. resting \in PayTrack
    <2>1. <<>> \in Seq(EffectiveWindow)
      BY ListTyped
    <2> QED BY <2>1, TermFacts DEF PayTrack
  <1> HIDE DEF item, endpoint, resting
  <1>3. [kind |-> "approved", status |-> "ratified", provenance |-> "p2", approval |-> <<"approval">>] \in Authority
    BY NamesTyped, TermFacts, Zenon DEF Authority
  <1>4. <<item("source"), item("approval"), item("deployment-confirmation"),
          item("interface-verification"), item("route-verification"), item("deployment-plan")>>
            \in Seq(EvidenceItem)
    BY <1>1, TermFacts, ListTyped, Zenon
  <1>5. <<[id |-> "p1", role |-> "protocol-source", cites |-> <<"source">>],
          [id |-> "p2", role |-> "governance-approval", cites |-> <<"approval">>]>> \in Seq(Provenances)
    <2>1. [id |-> "p1", role |-> "protocol-source", cites |-> <<"source">>] \in Provenances
      BY NamesTyped, TermFacts, Zenon DEF Provenances
    <2>2. [id |-> "p2", role |-> "governance-approval", cites |-> <<"approval">>] \in Provenances
      BY NamesTyped, TermFacts, Zenon DEF Provenances
    <2> QED BY <2>1, <2>2, ListTyped
  <1>6. [status |-> "resolved", rates |-> <<Window(0, 1)>>] \in FeePolicy
    <2>1. <<Window(0, 1)>> \in Seq(EffectiveWindow)
      BY WindowTyped, ListTyped
    <2> QED BY <2>1, TermFacts DEF FeePolicy
  <1>7. [status |-> "active", disclosed |-> "disclosed", kind |-> "evidence-id", reference |-> "approval",
         resolved |-> TRUE, entries |-> <<Window(0, 1), Window(2, 3)>>, route |-> "verified"] \in PayTrack
    <2>1. <<Window(0, 1), Window(2, 3)>> \in Seq(EffectiveWindow)
      BY WindowTyped, ListTyped
    <2> QED BY <2>1, TermFacts DEF PayTrack
  <1>8. [stage |-> "live-interface-verified", source |-> "p1", broadcast |-> TRUE, confirmed |-> 1,
         cites |-> <<"deployment-confirmation">>, interface |-> <<"interface-verification">>] \in Deployment
    <2>1. <<"deployment-confirmation">> \in Names /\ <<"interface-verification">> \in Names
      BY NamesTyped, TermFacts, Zenon
    <2>2. "live-interface-verified" \in Terms /\ "p1" \in Terms
      BY TermFacts
    <2> QED BY <2>1, <2>2 DEF Deployment
  <1>9. [enabled |-> TRUE, route |-> "verified", cites |-> <<"route-verification">>] \in Payout
    BY NamesTyped, TermFacts, Zenon DEF Payout
  <1>10. <<"source">> \in Names /\ "source" \in Terms
    BY NamesTyped, TermFacts, Zenon
  <1>11. /\ endpoint("route-verification") \in Endpoint
         /\ <<endpoint("interface-verification")>> \in Seq(Endpoint)
    BY <1>1, TermFacts, ListTyped, Zenon
  <1> QED
    BY <1>2, <1>3, <1>4, <1>5, <1>6, <1>7, <1>8, <1>9, <1>10, <1>11
    DEF CompleteDocument, Observation, item, endpoint, resting

LEMMA RoInitInv == RoInit => RoInv
  BY CompleteTyped, RevenueAssumption DEF RoInit, RoInv, RevenueDays

---------------------------------------------------------------------------
(* A sequence without its first entry, with one of its entries again, and     *)
(* with one entry replaced is a sequence of the same.                        *)
LEMMA SeqRevised ==
    ASSUME NEW S, NEW s \in Seq(S)
    PROVE  /\ SubSeq(s, 2, Len(s)) \in Seq(S)
           /\ \A n \in DOMAIN s : s[n] \in S /\ Append(s, s[n]) \in Seq(S)
           /\ \A n \in DOMAIN s, e \in S : [s EXCEPT ![n] = e] \in Seq(S)
  OBVIOUS

(* A document with one part replaced by another of its type.                  *)
LEMMA PartReplaced ==
    ASSUME NEW o \in Observation
    PROVE  /\ \A v \in Nat : [o EXCEPT !.observedAt = v] \in Observation /\ [o EXCEPT !.expiresAt = v] \in Observation
           /\ \A v \in Names : [o EXCEPT !.cites = v] \in Observation
           /\ \A v \in Terms : [o EXCEPT !.anchor = v] \in Observation
           /\ \A v \in Authority : [o EXCEPT !.authority = v] \in Observation
           /\ \A v \in Seq(EvidenceItem) : [o EXCEPT !.evidence = v] \in Observation
           /\ \A v \in Seq(Provenances) : [o EXCEPT !.provenance = v] \in Observation
           /\ \A v \in FeePolicy : [o EXCEPT !.fee = v] \in Observation
           /\ \A v \in PayTrack : [o EXCEPT !.founder = v] \in Observation /\ [o EXCEPT !.builder = v] \in Observation
           /\ \A v \in Deployment : [o EXCEPT !.deployment = v] \in Observation
           /\ \A v \in Endpoint : [o EXCEPT !.collector = v] \in Observation /\ [o EXCEPT !.distributor = v] \in Observation
           /\ \A v \in Seq(Endpoint) : [o EXCEPT !.sources = v] \in Observation
           /\ \A v \in Payout : [o EXCEPT !.payout = v] \in Observation
  BY Zenon DEF Observation

LEMMA PartTyped ==
    ASSUME NEW o \in Observation
    PROVE  /\ o.observedAt \in Nat /\ o.expiresAt \in Nat
           /\ o.authority \in Authority /\ o.evidence \in Seq(EvidenceItem)
           /\ o.provenance \in Seq(Provenances) /\ o.fee \in FeePolicy
           /\ o.founder \in PayTrack /\ o.builder \in PayTrack /\ o.deployment \in Deployment
           /\ o.collector \in Endpoint /\ o.distributor \in Endpoint /\ o.sources \in Seq(Endpoint)
           /\ o.payout \in Payout
  BY DEF Observation

LEMMA ItemRevised == ASSUME NEW item \in EvidenceItem PROVE RevisedItem(item) \subseteq EvidenceItem
  <1>1. \A v \in Terms : [item EXCEPT !.kind = v] \in EvidenceItem
    BY DEF EvidenceItem
  <1>2. \A v \in {0, 2} : [item EXCEPT !.at = v] \in EvidenceItem
    BY DEF EvidenceItem
  <1> QED
    BY <1>1, <1>2, TermFacts DEF RevisedItem

LEMMA EvidenceRevised == ASSUME NEW o \in Observation PROVE RevisedEvidence(o) \subseteq Observation
  <1>1. o.evidence \in Seq(EvidenceItem)
    BY PartTyped
  <1>2. SubSeq(o.evidence, 2, Len(o.evidence)) \in Seq(EvidenceItem)
    BY <1>1, SeqRevised
  <1>3. \A n \in DOMAIN o.evidence : Append(o.evidence, o.evidence[n]) \in Seq(EvidenceItem)
    BY <1>1, SeqRevised
  <1>4. ASSUME NEW n \in DOMAIN o.evidence
        PROVE  {[o EXCEPT !.evidence[n] = item] : item \in RevisedItem(o.evidence[n])} \subseteq Observation
    <2>1. o.evidence[n] \in EvidenceItem
      BY <1>1, SeqRevised
    <2>2. RevisedItem(o.evidence[n]) \subseteq EvidenceItem
      BY <2>1, ItemRevised
    <2>3. \A item \in EvidenceItem : [o.evidence EXCEPT ![n] = item] \in Seq(EvidenceItem)
      BY <1>1, SeqRevised
    <2>4. \A item \in EvidenceItem : [o EXCEPT !.evidence = [o.evidence EXCEPT ![n] = item]] \in Observation
      BY <2>3, PartReplaced, Zenon
    <2> QED
      BY <2>2, <2>4
  <1>6. [o EXCEPT !.evidence = SubSeq(@, 2, Len(@))] \in Observation
    BY <1>2, PartReplaced, Zenon
  <1>7. \A n \in DOMAIN o.evidence : [o EXCEPT !.evidence = Append(@, o.evidence[n])] \in Observation
    BY <1>3, PartReplaced, Zenon
  <1>8. {[o EXCEPT !.evidence = Append(@, o.evidence[n])] : n \in DOMAIN o.evidence} \subseteq Observation
    BY <1>7
  <1> QED
    BY <1>4, <1>6, <1>8, Zenon DEF RevisedEvidence

LEMMA AuthorityRevised == ASSUME NEW o \in Observation PROVE RevisedAuthority(o) \subseteq Observation
  <1>1. o.authority \in Authority /\ o.provenance \in Seq(Provenances)
    BY PartTyped
  <1>2. \A v \in Terms : /\ [o.authority EXCEPT !.kind = v] \in Authority
                          /\ [o.authority EXCEPT !.status = v] \in Authority
                          /\ [o.authority EXCEPT !.provenance = v] \in Authority
    BY <1>1 DEF Authority
  <1>3. \A v \in IdLists : [o.authority EXCEPT !.approval = v] \in Authority
    BY <1>1, IdListsTyped DEF Authority
  <1>4. \A v \in Terms : /\ [o EXCEPT !.authority.kind = v] \in Observation
                          /\ [o EXCEPT !.authority.status = v] \in Observation
                          /\ [o EXCEPT !.authority.provenance = v] \in Observation
    BY <1>2, PartReplaced, Zenon
  <1>5. \A v \in IdLists : [o EXCEPT !.authority.approval = v] \in Observation
    BY <1>3, PartReplaced, Zenon
  <1>6. SubSeq(o.provenance, 2, Len(o.provenance)) \in Seq(Provenances)
    BY <1>1, SeqRevised
  <1>7. \A n \in DOMAIN o.provenance : Append(o.provenance, o.provenance[n]) \in Seq(Provenances)
    BY <1>1, SeqRevised
  <1>8. ASSUME NEW n \in DOMAIN o.provenance, NEW role \in Terms
        PROVE  [o EXCEPT !.provenance[n].role = role] \in Observation
    <2>1. [o.provenance[n] EXCEPT !.role = role] \in Provenances
      <3>1. o.provenance[n] \in Provenances
        BY <1>1, SeqRevised
      <3> QED BY <3>1 DEF Provenances
    <2>2. [o.provenance EXCEPT ![n] = [o.provenance[n] EXCEPT !.role = role]] \in Seq(Provenances)
      BY <1>1, <2>1, SeqRevised
    <2>3. [o EXCEPT !.provenance = [o.provenance EXCEPT ![n] = [o.provenance[n] EXCEPT !.role = role]]] \in Observation
      BY <2>2, PartReplaced, Zenon
    <2> QED BY <2>3
  <1>9. /\ [o EXCEPT !.provenance = SubSeq(@, 2, Len(@))] \in Observation
        /\ \A n \in DOMAIN o.provenance : [o EXCEPT !.provenance = Append(@, o.provenance[n])] \in Observation
    BY <1>6, <1>7, PartReplaced, Zenon
  <1>10. {[o EXCEPT !.authority.kind = kind] : kind \in {"source", "proposal", "approved"}} \subseteq Observation
    BY <1>4, TermFacts, Zenon
  <1>11. {[o EXCEPT !.authority.status = status] :
            status \in {"not-applicable", "unratified", "ratified", "revoked", "unresolved"}} \subseteq Observation
    BY <1>4, TermFacts, Zenon
  <1>12. {[o EXCEPT !.authority.provenance = p] : p \in {"p1", "p2", "p3"}} \subseteq Observation
    BY <1>4, TermFacts, Zenon
  <1>13. {[o EXCEPT !.authority.approval = ids] : ids \in IdLists} \subseteq Observation
    BY <1>5
  <1>14. {[o EXCEPT !.provenance = Append(@, o.provenance[n])] : n \in DOMAIN o.provenance} \subseteq Observation
    BY <1>9
  <1>15. \A n \in DOMAIN o.provenance :
            {[o EXCEPT !.provenance[n].role = role] : role \in {"protocol-source", "governance-proposal"}}
                \subseteq Observation
    BY <1>8, TermFacts
  <1> QED
    BY <1>9, <1>10, <1>11, <1>12, <1>13, <1>14, <1>15, Zenon DEF RevisedAuthority

LEMMA DeploymentRevised == ASSUME NEW o \in Observation PROVE RevisedDeployment(o) \subseteq Observation
  <1>1. o.deployment \in Deployment
    BY PartTyped
  <1>2. \A v \in Terms : [o.deployment EXCEPT !.stage = v] \in Deployment
    BY <1>1 DEF Deployment
  <1>3. /\ [o.deployment EXCEPT !.broadcast = ~o.deployment.broadcast] \in Deployment
        /\ [o.deployment EXCEPT !.confirmed = NoHeight] \in Deployment
    <2>1. NoHeight \in Int
      BY DEF NoHeight
    <2>2. (~o.deployment.broadcast) \in BOOLEAN
      OBVIOUS
    <2> QED BY <1>1, <2>1, <2>2, Zenon DEF Deployment
  <1>4. \A v \in IdLists : /\ [o.deployment EXCEPT !.cites = v] \in Deployment
                           /\ [o.deployment EXCEPT !.interface = v] \in Deployment
    BY <1>1, IdListsTyped DEF Deployment
  <1>5. \A v \in Terms : [o EXCEPT !.deployment.stage = v] \in Observation
    BY <1>2, PartReplaced, Zenon
  <1>6. /\ [o EXCEPT !.deployment.broadcast = ~@] \in Observation
        /\ [o EXCEPT !.deployment.confirmed = NoHeight] \in Observation
    BY <1>3, PartReplaced
  <1>7. \A v \in IdLists : /\ [o EXCEPT !.deployment.cites = v] \in Observation
                           /\ [o EXCEPT !.deployment.interface = v] \in Observation
    BY <1>4, PartReplaced, Zenon
  <1> QED
    BY <1>5, <1>6, <1>7, TermFacts, Zenon DEF RevisedDeployment, Unproven

LEMMA TrackRevised == ASSUME NEW track \in PayTrack PROVE RevisedTrack(track) \subseteq PayTrack
  <1>1. \A v \in Terms : /\ [track EXCEPT !.status = v] \in PayTrack /\ [track EXCEPT !.disclosed = v] \in PayTrack
                         /\ [track EXCEPT !.reference = v] \in PayTrack /\ [track EXCEPT !.route = v] \in PayTrack
                         /\ [track EXCEPT !.kind = v] \in PayTrack
    BY DEF PayTrack
  <1>4. ReferenceKinds \subseteq Terms
    BY TermFacts DEF ReferenceKinds
  <1>2. \A v \in WindowLists : [track EXCEPT !.entries = v] \in PayTrack
    BY WindowListsTyped DEF PayTrack
  <1>3. [track EXCEPT !.resolved = ~@] \in PayTrack
    BY Zenon DEF PayTrack
  <1> SUFFICES ASSUME NEW t \in RevisedTrack(track) PROVE t \in PayTrack
    OBVIOUS
  <1> QED
    BY <1>1, <1>2, <1>3, <1>4, TermFacts, Zenon DEF RevisedTrack

LEMMA RoutingRevised == ASSUME NEW o \in Observation PROVE RevisedRouting(o) \subseteq Observation
  <1>1. o.collector \in Endpoint /\ o.distributor \in Endpoint /\ o.sources \in Seq(Endpoint)
    BY PartTyped
  <1>2. \A v \in Terms : /\ [o.collector EXCEPT !.authorization = v] \in Endpoint
                          /\ [o.distributor EXCEPT !.authorization = v] \in Endpoint
    BY <1>1 DEF Endpoint
  <1>3. \A v \in IdLists : /\ [o.collector EXCEPT !.cites = v] \in Endpoint
                           /\ [o.distributor EXCEPT !.cites = v] \in Endpoint
    BY <1>1, IdListsTyped DEF Endpoint
  <1>4. /\ <<>> \in Seq(Endpoint)
        /\ Append(o.sources, [authorization |-> "declared", cites |-> <<>>]) \in Seq(Endpoint)
    <2>1. [authorization |-> "declared", cites |-> <<>>] \in Endpoint
      BY NamesTyped, TermFacts DEF Endpoint
    <2> QED BY <1>1, <2>1
  <1>5. \A v \in Terms : /\ [o EXCEPT !.collector.authorization = v] \in Observation
                          /\ [o EXCEPT !.distributor.authorization = v] \in Observation
    BY <1>2, PartReplaced, Zenon
  <1>6. \A v \in IdLists : /\ [o EXCEPT !.collector.cites = v] \in Observation
                           /\ [o EXCEPT !.distributor.cites = v] \in Observation
    BY <1>3, PartReplaced, Zenon
  <1>7. /\ [o EXCEPT !.sources = <<>>] \in Observation
        /\ [o EXCEPT !.sources = Append(@, [authorization |-> "declared", cites |-> <<>>])] \in Observation
    BY <1>4, PartReplaced, Zenon
  <1> QED
    BY <1>5, <1>6, <1>7, TermFacts, Zenon DEF RevisedRouting

LEMMA TermsRevised == ASSUME NEW o \in Observation PROVE RevisedTerms(o) \subseteq Observation
  <1>1. o.fee \in FeePolicy /\ o.payout \in Payout
    BY PartTyped
  <1>2. /\ \A v \in Terms : [o.fee EXCEPT !.status = v] \in FeePolicy
        /\ \A v \in WindowLists : [o.fee EXCEPT !.rates = v] \in FeePolicy
    BY <1>1, WindowListsTyped DEF FeePolicy
  <1>3. /\ [o.payout EXCEPT !.enabled = ~o.payout.enabled] \in Payout
        /\ [o.payout EXCEPT !.route = "declared"] \in Payout
        /\ \A v \in IdLists : [o.payout EXCEPT !.cites = v] \in Payout
    BY <1>1, IdListsTyped, TermFacts, Zenon DEF Payout
  <1>4. /\ \A v \in Terms : [o EXCEPT !.fee.status = v] \in Observation
        /\ \A v \in WindowLists : [o EXCEPT !.fee.rates = v] \in Observation
    BY <1>2, PartReplaced, Zenon
  <1>5. /\ [o EXCEPT !.payout.enabled = ~@] \in Observation
        /\ [o EXCEPT !.payout.route = "declared"] \in Observation
        /\ \A v \in IdLists : [o EXCEPT !.payout.cites = v] \in Observation
    BY <1>3, PartReplaced
  <1>6. /\ \A v \in Nat : [o EXCEPT !.observedAt = v] \in Observation /\ [o EXCEPT !.expiresAt = v] \in Observation
        /\ \A v \in IdLists : [o EXCEPT !.cites = v] \in Observation
        /\ [o EXCEPT !.anchor = "unknown"] \in Observation
    BY IdListsTyped, TermFacts, PartReplaced
  <1>7. /\ {[o EXCEPT !.observedAt = day] : day \in {0, 2}} \subseteq Observation
        /\ {[o EXCEPT !.expiresAt = day] : day \in {1, 2}} \subseteq Observation
    <2>1. 0 \in Nat /\ 1 \in Nat /\ 2 \in Nat
      OBVIOUS
    <2> QED BY <1>6, <2>1, Zenon
  <1>10. {[o EXCEPT !.cites = ids] : ids \in IdLists} \subseteq Observation
    BY <1>6
  <1>8. /\ {[o EXCEPT !.fee.status = s] : s \in {"observed", "resolved"}} \subseteq Observation
        /\ {[o EXCEPT !.fee.rates = list] : list \in WindowLists} \subseteq Observation
    BY <1>4, TermFacts
  <1>9. {[o EXCEPT !.payout.cites = ids] : ids \in IdLists} \subseteq Observation
    BY <1>5
  <1> QED
    BY <1>5, <1>6, <1>7, <1>8, <1>9, <1>10, Zenon DEF RevisedTerms

LEMMA RoReviseInv == RoInv /\ Revise => RoInv'
  <1> SUFFICES ASSUME RoInv, Revise PROVE RoInv'
    OBVIOUS
  <1>1. roDocument \in Observation
    BY DEF RoInv
  <1>2. \A part \in {roDocument.founder, roDocument.builder} : RevisedTrack(part) \subseteq PayTrack
    BY <1>1, PartTyped, TrackRevised
  <1>3. /\ {[roDocument EXCEPT !.founder = t] : t \in RevisedTrack(roDocument.founder)} \subseteq Observation
        /\ {[roDocument EXCEPT !.builder = t] : t \in RevisedTrack(roDocument.builder)} \subseteq Observation
    BY <1>1, <1>2, PartReplaced, Zenon
  <1>4. roDocument' \in Observation
    BY <1>1, <1>3, EvidenceRevised, AuthorityRevised, DeploymentRevised, RoutingRevised, TermsRevised DEF Revise
  <1>5. /\ roRevisions' \in 0 .. MaxRevisions /\ roNow' = roNow
        /\ roVerdict' = [accepted |-> FALSE, at |-> -1]
    BY RevenueAssumption DEF Revise, RoInv
  <1> QED
    BY <1>4, <1>5 DEF RoInv, RevenueDays

LEMMA AcceptedBoolean == \A o, now : AcceptedObservation(o, now) \in BOOLEAN
  BY DEF AcceptedObservation

LEMMA RoStepInv == RoInv /\ [RoNext]_roVars => RoInv'
  <1> SUFFICES ASSUME RoInv, [RoNext]_roVars PROVE RoInv'
    OBVIOUS
  <1>1. CASE Revise
    BY <1>1, RoReviseInv
  <1>2. CASE ValidateObservation
    <2>1. /\ roVerdict' = [accepted |-> AcceptedObservation(roDocument, roNow), at |-> roNow]
          /\ UNCHANGED <<roDocument, roNow, roRevisions>>
      BY <1>2 DEF ValidateObservation
    <2>2. roNow \in Nat
      BY RevenueAssumption DEF RoInv, RevenueDays
    <2> QED
      BY <2>1, <2>2, AcceptedBoolean DEF RoInv
  <1>3. CASE RoTick
    BY <1>3, RevenueAssumption DEF RoTick, RoInv, RevenueDays
  <1>4. CASE UNCHANGED roVars
    BY <1>4 DEF roVars, RoInv
  <1> QED
    BY <1>1, <1>2, <1>3, <1>4 DEF RoNext

---------------------------------------------------------------------------
(* The windows of an exact schedule are apart: in the order that witnesses    *)
(* it, each ends before every later one starts.                             *)
LEMMA WindowsApart ==
    ASSUME NEW entries \in Seq(EffectiveWindow),
           \A n \in DOMAIN entries : entries[n].first <= entries[n].last,
           NEW order \in [DOMAIN entries -> DOMAIN entries],
           \A n \in 1 .. Len(entries) - 1 : entries[order[n]].last < entries[order[n + 1]].first,
           NEW i \in DOMAIN entries, NEW j \in DOMAIN entries, i < j
    PROVE  entries[order[i]].last < entries[order[j]].first
  <1> DEFINE from(n) == entries[order[n]].first
             to(n) == entries[order[n]].last
             late == {n \in i + 1 .. Len(entries) : ~(to(i) < from(n))}
  <1>1. DOMAIN entries = 1 .. Len(entries) /\ Len(entries) \in Nat
    OBVIOUS
  <1>2. \A n \in 1 .. Len(entries) : from(n) \in Int /\ to(n) \in Int /\ from(n) <= to(n)
    <2> TAKE n \in 1 .. Len(entries)
    <2>1. order[n] \in DOMAIN entries
      BY <1>1
    <2>2. entries[order[n]] \in EffectiveWindow
      BY <2>1
    <2> QED
      BY <2>1, <2>2, Zenon DEF EffectiveWindow
  <1>3. \A n \in 1 .. Len(entries) - 1 : to(n) < from(n + 1)
    OBVIOUS
  <1> HIDE DEF from, to
  <1>4. ASSUME late # {} PROVE FALSE
    <2>1. late \subseteq Nat
      BY <1>1
    <2>2. \E m \in late : \A n \in late : m <= n
      <3>1. late # {}
        BY <1>4
      <3> HIDE DEF late
      <3> QED BY <2>1, <3>1, LeastElement, Zenon
    <2> PICK m \in late : \A n \in late : m <= n
      BY <2>2
    <2>3. /\ m \in i + 1 .. Len(entries) /\ ~(to(i) < from(m))
          /\ i \in 1 .. Len(entries) /\ m - 1 \in 1 .. Len(entries) - 1
      BY <1>1, <2>2
    <2>4. to(m - 1) < from(m)
      BY <1>1, <1>3, <2>3
    <2>5. m - 1 # i
      BY <2>3, <2>4
    <2>6. m - 1 \notin late
      BY <2>1, <2>2
    <2>7. to(i) < from(m - 1)
      BY <1>1, <2>3, <2>5, <2>6
    <2>8. /\ to(i) \in Int /\ from(m - 1) \in Int /\ to(m - 1) \in Int /\ from(m) \in Int
          /\ from(m - 1) <= to(m - 1)
      BY <1>1, <1>2, <2>3
    <2> QED
      BY <2>3, <2>4, <2>7, <2>8
  <1>5. to(i) < from(j)
    BY <1>1, <1>4
  <1> QED
    BY <1>5 DEF from, to

(* At most one of them covers a height.                                      *)
LEMMA OneRate ==
    ASSUME NEW track \in PayTrack, ParsedSchedule(track), ExactSchedule(track), NEW height \in Int
    PROVE  Cardinality({n \in DOMAIN track.entries :
               height \in track.entries[n].first .. track.entries[n].last}) <= 1
  <1> DEFINE entries == track.entries
             covering == {n \in DOMAIN entries : height \in entries[n].first .. entries[n].last}
  <1>1. entries \in Seq(EffectiveWindow)
    BY DEF PayTrack
  <1>2. \A n \in DOMAIN entries : entries[n].first <= entries[n].last
    BY DEF ParsedSchedule, ParsedWindow, ExactSchedule
  <1>3. PICK order \in ByStart(entries) :
            \A n \in 1 .. Len(entries) - 1 : entries[order[n]].last < entries[order[n + 1]].first
    BY DEF ExactSchedule
  <1>4. /\ order \in [DOMAIN entries -> DOMAIN entries]
        /\ \A m \in DOMAIN entries : \E n \in DOMAIN entries : order[n] = m
    BY <1>3 DEF ByStart
  <1>5. \A n \in DOMAIN entries : entries[n].first \in Int /\ entries[n].last \in Int
    <2>1. \A n \in DOMAIN entries : entries[n] \in EffectiveWindow
      BY <1>1, SeqRevised
    <2> QED BY <2>1 DEF EffectiveWindow
  <1>6. ASSUME NEW a \in covering, NEW b \in covering, a # b PROVE FALSE
    <2>1. PICK i \in DOMAIN entries : order[i] = a
      BY <1>4
    <2>2. PICK j \in DOMAIN entries : order[j] = b
      BY <1>4
    <2>3. i < j \/ j < i
      <3>1. i \in Nat /\ j \in Nat /\ i # j
        BY <1>1, <1>6, <2>1, <2>2
      <3> QED BY <3>1
    <2>4. entries[a].last < entries[b].first \/ entries[b].last < entries[a].first
      <3>1. CASE i < j
        BY <1>1, <1>2, <1>3, <1>4, <2>1, <2>2, <3>1, WindowsApart, Zenon
      <3>2. CASE j < i
        BY <1>1, <1>2, <1>3, <1>4, <2>1, <2>2, <3>2, WindowsApart, Zenon
      <3> QED BY <2>3, <3>1, <3>2
    <2>5. /\ a \in DOMAIN entries /\ entries[a].first <= height /\ height <= entries[a].last
          /\ b \in DOMAIN entries /\ entries[b].first <= height /\ height <= entries[b].last
      BY <1>5
    <2> QED
      BY <1>5, <2>4, <2>5
  <1> HIDE DEF covering
  <1>7. Cardinality(covering) <= 1
    <2>1. CASE covering = {}
      BY <2>1, FS_EmptySet
    <2>2. CASE covering # {}
      <3>1. PICK a : a \in covering
        BY <2>2
      <3>2. covering = {a}
        BY <1>6, <3>1
      <3> QED
        BY <3>2, FS_Singleton
    <2> QED
      BY <2>1, <2>2
  <1> QED
    BY <1>7 DEF covering

(* What is cited from a list that the checks pass is one item of evidence, as  *)
(* old as it may be.                                                        *)
LEMMA OneItem ==
    ASSUME NEW o \in Observation, NEW at \in Nat, AcceptedObservation(o, at),
           NEW ids, KnownIds(o, ids), NEW k \in DOMAIN ids
    PROVE  LET about == {n \in DOMAIN o.evidence : o.evidence[n].id = ids[k]} IN
           /\ Cardinality(about) = 1
           /\ \A n \in about : o.evidence[n].at \in (at - MaxEvidenceAge) .. o.observedAt
  <1> DEFINE about == {n \in DOMAIN o.evidence : o.evidence[n].id = ids[k]}
  <1>1. PICK n \in DOMAIN o.evidence : o.evidence[n].id = ids[k]
    BY DEF KnownIds, EvidenceOf
  <1>2. about = {n}
    BY <1>1 DEF AcceptedObservation
  <1>3. o.evidence[n].at \in (at - MaxEvidenceAge) .. o.observedAt
    <2>1. o.evidence[n] \in EvidenceOf(o)
      BY <1>1 DEF EvidenceOf
    <2>2. o.evidence[n].at <= o.observedAt /\ at - o.evidence[n].at <= MaxEvidenceAge
      BY <2>1 DEF AcceptedObservation, FreshEvidence
    <2>3. o.evidence[n] \in EvidenceItem
      BY <1>1, PartTyped, SeqRevised
    <2>4. o.evidence[n].at \in Nat /\ o.observedAt \in Nat /\ MaxEvidenceAge \in Nat
      BY <2>3, PartTyped, RevenueAssumption DEF EvidenceItem
    <2> QED
      BY <2>2, <2>4
  <1> QED
    BY <1>2, <1>3, FS_Singleton, Zenon

(* A list that is not empty and cites items of some kinds only has seen one.  *)
LEMMA SeenOne ==
    ASSUME NEW o, NEW ids \in Names, ids # <<>>, NEW kinds, OfKinds(o, ids, kinds)
    PROVE  \E n \in DOMAIN o.evidence, k \in DOMAIN ids : o.evidence[n].id = ids[k] /\ o.evidence[n].kind \in kinds
  <1>1. 1 \in DOMAIN ids
    BY DEF Names
  <1> QED
    BY <1>1 DEF OfKinds, EvidenceOf

(* An accepted document whose payout is enabled justifies it.                 *)
LEMMA AcceptedJustified ==
    ASSUME NEW o \in Observation, NEW at \in Nat, AcceptedObservation(o, at), o.payout.enabled
    PROVE  PayoutJustified(o, at)
  <1> DEFINE ids == {o.authority.approval[n] : n \in DOMAIN o.authority.approval}
                    \cup {o.deployment.cites[n] : n \in DOMAIN o.deployment.cites}
                    \cup {o.deployment.interface[n] : n \in DOMAIN o.deployment.interface}
                    \cup {o.payout.cites[n] : n \in DOMAIN o.payout.cites}
             about(id) == {n \in DOMAIN o.evidence : o.evidence[n].id = id}
             seen(kind) == \E n \in DOMAIN o.evidence : o.evidence[n].kind = kind /\ o.evidence[n].id \in ids
             paying == {track \in {o.founder, o.builder} : track.status = "active"}
  <1>1. /\ o.deployment.stage = "live-interface-verified" /\ Ratified(o)
        /\ "active" \in {o.founder.status, o.builder.status}
    BY DEF AcceptedObservation, PayoutGate
  <1>2. /\ o.authority.approval \in Names /\ o.deployment.cites \in Names
        /\ o.deployment.interface \in Names /\ o.payout.cites \in Names
    BY PartTyped DEF Authority, Deployment, Payout
  <1>3. /\ KnownIds(o, o.authority.approval) /\ KnownIds(o, o.deployment.cites)
        /\ KnownIds(o, o.deployment.interface) /\ KnownIds(o, o.payout.cites)
    BY DEF AcceptedObservation, ReferencesKnown
  <1>4. \A id \in ids : /\ Cardinality(about(id)) = 1
                        /\ \A n \in about(id) : o.evidence[n].at \in (at - MaxEvidenceAge) .. o.observedAt
    <2> DEFINE OneOf(id) == /\ Cardinality(about(id)) = 1
                            /\ \A n \in about(id) : o.evidence[n].at \in (at - MaxEvidenceAge) .. o.observedAt
    <2>1. ASSUME NEW list, KnownIds(o, list), NEW n \in DOMAIN list PROVE OneOf(list[n])
      BY <2>1, OneItem
    <2> HIDE DEF OneOf, about
    <2> QED
      <3>1. \A n \in DOMAIN o.authority.approval : OneOf(o.authority.approval[n])
        BY <1>3, <2>1
      <3>2. \A n \in DOMAIN o.deployment.cites : OneOf(o.deployment.cites[n])
        BY <1>3, <2>1
      <3>3. \A n \in DOMAIN o.deployment.interface : OneOf(o.deployment.interface[n])
        BY <1>3, <2>1
      <3>4. \A n \in DOMAIN o.payout.cites : OneOf(o.payout.cites[n])
        BY <1>3, <2>1
      <3>5. \A id \in ids : OneOf(id)
        <4> HIDE DEF OneOf
        <4> QED BY <3>1, <3>2, <3>3, <3>4
      <3> QED
        BY <3>5 DEF OneOf
  <1>5. seen("approval")
    <2>1. o.authority.approval # <<>> /\ OfKinds(o, o.authority.approval, {"approval"})
      BY <1>1 DEF AcceptedObservation, ApprovalEvidence, Ratified
    <2>2. PICK n \in DOMAIN o.evidence, k \in DOMAIN o.authority.approval :
              o.evidence[n].id = o.authority.approval[k] /\ o.evidence[n].kind \in {"approval"}
      BY <1>2, <2>1, SeenOne, Zenon
    <2> QED
      BY <2>2
  <1>6. /\ o.deployment.cites # <<>> /\ OfKinds(o, o.deployment.cites, {"deployment-confirmation"})
        /\ o.deployment.interface # <<>>
        /\ OfKinds(o, o.deployment.interface, {"interface-verification", "source"})
    <2>1. DeploymentEvidence(o)
      BY DEF AcceptedObservation
    <2>2. "live-interface-verified" \notin Unproven
      BY DEF Unproven
    <2> QED
      BY <1>1, <2>1, <2>2 DEF DeploymentEvidence
  <1>7. seen("deployment-confirmation")
    <2>1. PICK n \in DOMAIN o.evidence, k \in DOMAIN o.deployment.cites :
              o.evidence[n].id = o.deployment.cites[k] /\ o.evidence[n].kind \in {"deployment-confirmation"}
      BY <1>2, <1>6, SeenOne, Zenon
    <2> QED
      BY <2>1
  <1>8. seen("interface-verification") \/ seen("source")
    <2>1. PICK n \in DOMAIN o.evidence, k \in DOMAIN o.deployment.interface :
              /\ o.evidence[n].id = o.deployment.interface[k]
              /\ o.evidence[n].kind \in {"interface-verification", "source"}
      BY <1>2, <1>6, SeenOne, Zenon
    <2> QED
      BY <2>1
  <1>9. paying # {}
    BY <1>1
  <1>10. ASSUME NEW track \in paying
         PROVE  /\ track.reference # "none" /\ track.kind # "not-applicable"
                /\ track.kind = "evidence-id" =>
                    \E n \in DOMAIN o.evidence : o.evidence[n].id = track.reference
                /\ \A height \in 0 .. 3 :
                    Cardinality({n \in DOMAIN track.entries :
                        height \in track.entries[n].first .. track.entries[n].last}) <= 1
    <2>1. track \in PayTrack /\ track.status = "active"
      BY PartTyped
    <2>2. CompensationGate(o, track) /\ ParsedSchedule(track) /\ ParsedDisclosure(track)
      BY DEF AcceptedObservation, ParsedRoot, ParsedTrack
    <2>3. /\ ExactSchedule(track) /\ track.disclosed = "disclosed"
          /\ track.kind = "evidence-id" => KnownIds(o, <<track.reference>>)
      BY <2>1, <2>2 DEF CompensationGate
    <2>6. track.reference # "none" /\ track.kind # "not-applicable"
      BY <2>2, <2>3 DEF ParsedDisclosure
    <2>4. track.kind = "evidence-id" => \E n \in DOMAIN o.evidence : o.evidence[n].id = track.reference
      BY <2>3 DEF KnownIds, EvidenceOf
    <2>5. \A height \in 0 .. 3 :
              Cardinality({n \in DOMAIN track.entries :
                  height \in track.entries[n].first .. track.entries[n].last}) <= 1
      BY <2>1, <2>2, <2>3, OneRate
    <2> QED
      BY <2>4, <2>5, <2>6
  <1> HIDE DEF ids, about, seen, paying
  <1>11. /\ \A id \in ids : Cardinality(about(id)) = 1
         /\ \A id \in ids : \A n \in about(id) : o.evidence[n].at \in (at - MaxEvidenceAge) .. o.observedAt
    BY <1>4
  <1> QED
    BY <1>5, <1>7, <1>8, <1>9, <1>10, <1>11, Zenon DEF PayoutJustified, ids, about, seen, paying

LEMMA RoInvSound == RoInv => RoSound /\ RoTypeOK
  <1> SUFFICES ASSUME RoInv PROVE RoSound /\ RoTypeOK
    OBVIOUS
  <1>1. RoTypeOK
    BY DEF RoInv, RoTypeOK
  <1>2. ASSUME roVerdict.accepted
        PROVE  AcceptedObservation(roDocument, roVerdict.at) /\ roVerdict.at \in Nat /\ roDocument \in Observation
    BY <1>2, RevenueAssumption DEF RoInv, RevenueDays
  <1>3. roVerdict.accepted => roVerdict.at \in roDocument.observedAt .. roDocument.expiresAt - 1
    BY <1>2, PartTyped DEF AcceptedObservation, FreshEvidence
  <1>4. roVerdict.accepted /\ roDocument.payout.enabled => PayoutJustified(roDocument, roVerdict.at)
    BY <1>2, AcceptedJustified
  <1> QED
    BY <1>1, <1>3, <1>4 DEF RoSound

(* Acceptance at a day means acceptance at every earlier day since the document *)
(* was observed: only its age depends on the day.                            *)
LEMMA AcceptedEarlier ==
    ASSUME NEW o \in Observation, NEW now \in Nat, NEW at \in Nat, at <= now, o.observedAt <= at,
           AcceptedObservation(o, now)
    PROVE  AcceptedObservation(o, at)
  <1>1. FreshEvidence(o, at)
    <2>1. \A item \in EvidenceOf(o) : item.at \in Nat
      <3>1. \A n \in DOMAIN o.evidence : o.evidence[n] \in EvidenceItem
        BY PartTyped, SeqRevised
      <3> QED BY <3>1 DEF EvidenceOf, EvidenceItem
    <2>2. FreshEvidence(o, now)
      BY DEF AcceptedObservation
    <2> QED
      BY <2>1, <2>2, PartTyped, RevenueAssumption DEF FreshEvidence
  <1> QED
    BY <1>1 DEF AcceptedObservation

LEMMA RoStepFinal == RoInv /\ RoNext => RoFinal
  <1> SUFFICES ASSUME RoInv, RoNext, roDocument' = roDocument, roVerdict'.accepted, ~roVerdict.accepted,
                      ~(roVerdict.at < roDocument.observedAt)
               PROVE  FALSE
    BY DEF RoFinal
  <1>1. ValidateObservation
    BY DEF RoNext, Revise, RoTick
  <1>2. AcceptedObservation(roDocument, roNow)
    BY <1>1 DEF ValidateObservation
  <1>3. /\ roDocument \in Observation /\ roNow \in Nat /\ roVerdict.at \in Nat /\ roVerdict.at <= roNow
        /\ roDocument.observedAt <= roVerdict.at /\ roVerdict.at # -1
    BY RevenueAssumption, PartTyped DEF RoInv, RevenueDays
  <1>4. AcceptedObservation(roDocument, roVerdict.at)
    BY <1>2, <1>3, AcceptedEarlier
  <1> QED
    BY <1>3, <1>4 DEF RoInv

(* Theorem: an observation is accepted from the day it was made until it        *)
(* expires, and a payout it enables is justified by what it cites: one item     *)
(* for each name, fresh, with the approval, the deployment and the interface    *)
(* seen, and one rate at a height and a reference for everyone who is paid,      *)
(* which is in the evidence when it is said to be (RoSound).                   *)
THEOREM RevenueSound == RoInit /\ [][RoNext]_roVars => []RoSound
  BY RoInitInv, RoStepInv, RoInvSound, PTL

(* Theorem: time alone never makes an observation acceptable that was refused  *)
(* on or after the day it was made (RoFinal).                               *)
THEOREM RevenueFinal == RoInit /\ [][RoNext]_roVars => [][RoFinal]_roVars
  <1>1. RoInv /\ [RoNext]_roVars => [RoFinal]_roVars
    BY RoStepFinal
  <1> QED
    BY <1>1, RoInitInv, RoStepInv, PTL

(***************************************************************************)
(* Promotion.  A commit stays what it is, so what is known of the commits a     *)
(* run or a pull request names stays known: where the rules see to it, a          *)
(* candidate for staged is named after a commit of dev, one for main after a     *)
(* commit of staged, whose recorded time is the time it was made.            *)
(***************************************************************************)
Branches == {"dev", "staged", "main"}

CommitPlaces == Branches \cup {"candidate", "elsewhere"}

Ways == {"work", "promotion", "back-merge", "unchecked", "update"}

Commit == [on : CommitPlaces, of : Nat, from : Nat, via : Ways, at : Nat, made : Nat, past : SUBSET Nat]

PullRequest ==
    [target : {"staged", "main"}, name : Nat, head : Nat, base : Nat, complete : BOOLEAN, passed : BOOLEAN]

RunRecord ==
    [phase : {"none", "started", "detect", "publish", "open", "review"}, source : Nat, target : Nat]

(* Commit c exists and was made on the branch, if the branch takes nothing else. *)
Came(commits, c, branch, rules) ==
    /\ c \in 1 .. Len(commits)
    /\ branch # "staged" \/ "staged" \in rules => commits[c].on = branch

Feeds(target) == IF target = "staged" THEN "dev" ELSE "staged"

(* What a commit of main or of staged brought, under the rules.               *)
Justified(commit, commits, rules) ==
    /\ commit.on = "main" /\ commit.from # NoCommit /\ "main" \in rules =>
        /\ IsMerge(commits, commit.from)
        /\ commit.made >= commits[commit.from].at + MinDwell
        /\ rules = Guards => commits[commit.from].on = "staged"
    /\ commit.on = "staged" /\ {"staged", "refs"} \subseteq rules =>
        \/ commit.via = "back-merge"
        \/ commit.via = "promotion" /\ commit.from # NoCommit /\ commits[commit.from].on = "dev"

(* A commit that may follow n others.                                        *)
Dated(commit, n, now, rules) ==
    /\ commit.at <= commit.made /\ commit.made <= now
    /\ commit.on \in rules => commit.at = commit.made
    /\ commit.past \subseteq 1 .. n + 1 /\ commit.of \in 0 .. n /\ commit.from \in 0 .. n

CommitSound(commits, c, now, rules) ==
    Dated(commits[c], c - 1, now, rules) /\ Justified(commits[c], commits, rules)

Source(pr) == IF pr.name = NoCommit THEN pr.head ELSE pr.name

PrSound(pr, commits, now, rules) ==
    /\ pr.head \in 1 .. Len(commits) /\ Source(pr) \in 1 .. Len(commits)
    /\ "refs" \in rules => Came(commits, Source(pr), Feeds(pr.target), rules)
    /\ pr.passed =>
        /\ pr.name # NoCommit => pr.head = pr.name
        /\ pr.target = "main" => IsMerge(commits, pr.head) /\ now >= commits[pr.head].at + MinDwell

(* A set of pull requests that may be open.                                  *)
PrsSound(prs, commits, now, rules) ==
    /\ prs \subseteq PullRequest
    /\ \A pr \in prs : PrSound(pr, commits, now, rules)
    /\ \A p, q \in prs : p.target = q.target /\ p.name = q.name => p = q

BpInv ==
    /\ bpNow \in 0 .. MaxPromotionTime
    /\ bpRules \subseteq Guards /\ bpActs \in 0 .. MaxActs[bpRules]
    /\ bpCommits \in Seq(Commit) /\ Len(bpCommits) <= MaxCommits /\ bpCommits # <<>>
    /\ \A c \in 1 .. Len(bpCommits) : CommitSound(bpCommits, c, bpNow, bpRules)
    /\ bpHeads \in [Branches -> Nat]
    /\ \A b \in Branches : Came(bpCommits, bpHeads[b], b, bpRules)
    /\ PrsSound(bpPrs, bpCommits, bpNow, bpRules)
    /\ bpPending \in [Queues -> Nat]
    /\ \A q \in Queues : bpPending[q] # NoCommit => Came(bpCommits, bpPending[q], SourceOf(q), bpRules)
    /\ bpRuns \in [Queues -> RunRecord]
    /\ \A q \in Queues : bpRuns[q].phase # "none" => Came(bpCommits, bpRuns[q].source, SourceOf(q), bpRules)

LEMMA BpTimes ==
    ASSUME BpInv
    PROVE  /\ Len(bpCommits) \in Nat /\ bpNow \in Nat /\ DOMAIN bpCommits = 1 .. Len(bpCommits)
           /\ \A c \in 1 .. Len(bpCommits) : bpCommits[c] \in Commit /\ bpCommits[c].at \in Nat
           /\ \A c \in 1 .. Len(bpCommits) : bpCommits[c].of \in 0 .. Len(bpCommits) /\ bpCommits[c].from \in 0 .. Len(bpCommits)
           /\ \A c \in 1 .. Len(bpCommits) : bpCommits[c].past \subseteq 1 .. Len(bpCommits)
           /\ \A b \in Branches : bpHeads[b] \in 1 .. Len(bpCommits) /\ bpHeads[b] \in Nat
  <1>1. /\ Len(bpCommits) \in Nat /\ bpNow \in Nat /\ DOMAIN bpCommits = 1 .. Len(bpCommits)
        /\ \A c \in 1 .. Len(bpCommits) : bpCommits[c] \in Commit
    BY DEF BpInv
  <1>2. \A c \in 1 .. Len(bpCommits) : bpCommits[c].at \in Nat
    BY <1>1 DEF Commit
  <1>3. ASSUME NEW c \in 1 .. Len(bpCommits)
        PROVE  /\ bpCommits[c].of \in 0 .. Len(bpCommits) /\ bpCommits[c].from \in 0 .. Len(bpCommits)
               /\ bpCommits[c].past \subseteq 1 .. Len(bpCommits)
    <2>1. Dated(bpCommits[c], c - 1, bpNow, bpRules)
      BY DEF BpInv, CommitSound
    <2> QED
      BY <1>1, <2>1 DEF Dated
  <1>4. \A b \in Branches : bpHeads[b] \in 1 .. Len(bpCommits) /\ bpHeads[b] \in Nat
    BY DEF BpInv, Came
  <1> QED
    BY <1>1, <1>2, <1>3, <1>4

LEMMA BpInvSound == BpInv => BpSound /\ BpTypeOK
  <1> SUFFICES ASSUME BpInv PROVE BpSound /\ BpTypeOK
    OBVIOUS
  <1>1. ASSUME NEW c \in DOMAIN bpCommits
        PROVE  LET commit == bpCommits[c]  head == bpCommits[commit.from] IN
               /\ commit.on = "main" /\ commit.from # NoCommit /\ "main" \in bpRules =>
                   /\ IsMerge(bpCommits, commit.from) /\ commit.made >= head.at + MinDwell
                   /\ bpRules = Guards => head.on = "staged" /\ commit.made >= head.made + MinDwell
               /\ commit.on = "staged" /\ {"staged", "refs"} \subseteq bpRules =>
                   commit.via = "back-merge" \/ (commit.via = "promotion" /\ head.on = "dev")
    <2> DEFINE commit == bpCommits[c]
               head == bpCommits[commit.from]
    <2>1. c \in 1 .. Len(bpCommits) /\ commit.from \in 0 .. Len(bpCommits) /\ Len(bpCommits) \in Nat
      BY BpTimes
    <2>2. Justified(commit, bpCommits, bpRules)
      BY <2>1 DEF BpInv, CommitSound
    <2>3. ASSUME commit.from # NoCommit, bpRules = Guards, head.on = "staged"
          PROVE  head.made = head.at
      <3>1. commit.from \in 1 .. Len(bpCommits)
        BY <2>1, <2>3 DEF NoCommit
      <3>2. Dated(head, commit.from - 1, bpNow, bpRules)
        BY <3>1 DEF BpInv, CommitSound
      <3> QED
        BY <2>3, <3>2 DEF Dated, Guards
    <2> QED
      BY <2>2, <2>3 DEF Justified
  <1>2. BpSound
    BY <1>1, Zenon DEF BpSound, BpInv, PrsSound
  <1>3. Len(bpCommits) \in 1 .. MaxCommits
    BY PromotionAssumption DEF BpInv
  <1>4. \A b \in DOMAIN bpHeads : bpHeads[b] \in DOMAIN bpCommits
    BY BpTimes DEF BpInv
  <1>5. \A pr \in bpPrs : pr.head \in DOMAIN bpCommits /\ pr.passed \in BOOLEAN
    BY BpTimes DEF BpInv, PrsSound, PrSound, PullRequest
  <1>6. BpTypeOK
    BY <1>3, <1>4, <1>5 DEF BpInv, BpTypeOK, RunRecord
  <1> QED
    BY <1>2, <1>6

LEMMA BpInitInv == BpInit => BpInv
  <1> SUFFICES ASSUME BpInit PROVE BpInv
    OBVIOUS
  <1>1. /\ Len(bpCommits) = 3 /\ bpCommits \in Seq(Commit) /\ bpCommits # <<>>
        /\ bpCommits[1] = [on |-> "main", of |-> 0, from |-> 0, via |-> "work", at |-> 0, made |-> 0, past |-> {1}]
        /\ bpCommits[2] = [on |-> "dev", of |-> 0, from |-> 0, via |-> "work", at |-> 0, made |-> 0, past |-> {1, 2}]
        /\ bpCommits[3] = [on |-> "staged", of |-> 2, from |-> 2, via |-> "promotion", at |-> 0, made |-> 0,
                           past |-> {1, 2, 3}]
    BY DEF BpInit, Made, Commit, CommitPlaces, Ways, Branches, NoCommit
  <1>2. \A c \in 1 .. Len(bpCommits) : Dated(bpCommits[c], c - 1, bpNow, bpRules)
    BY <1>1 DEF Dated, BpInit
  <1>3. \A c \in 1 .. Len(bpCommits) : Justified(bpCommits[c], bpCommits, bpRules)
    BY <1>1 DEF Justified, NoCommit
  <1>4. bpHeads \in [Branches -> Nat] /\ \A b \in Branches : Came(bpCommits, bpHeads[b], b, bpRules)
    BY <1>1 DEF BpInit, Branches, Came
  <1>5. /\ bpPending \in [Queues -> Nat]
        /\ \A q \in Queues : bpPending[q] # NoCommit => Came(bpCommits, bpPending[q], SourceOf(q), bpRules)
    BY <1>1 DEF BpInit, Queues, Came, SourceOf, NoCommit
  <1>6. bpRuns \in [Queues -> RunRecord] /\ \A q \in Queues : bpRuns[q].phase = "none"
    BY DEF BpInit, NoRun, RunRecord, NoCommit
  <1>7. /\ bpNow \in 0 .. MaxPromotionTime /\ Len(bpCommits) <= MaxCommits
        /\ bpRules \subseteq Guards /\ bpActs \in 0 .. MaxActs[bpRules]
    BY <1>1, PromotionAssumption DEF BpInit
  <1>8. PrsSound(bpPrs, bpCommits, bpNow, bpRules)
    BY DEF BpInit, PrsSound
  <1> QED
    BY <1>1, <1>2, <1>3, <1>4, <1>5, <1>6, <1>7, <1>8 DEF BpInv, CommitSound

(* Commits to which at most new ones were added.                             *)
Lengthened(commits) ==
    /\ commits \in Seq(Commit) /\ commits # <<>> /\ Len(commits) <= MaxCommits
    /\ Len(bpCommits) <= Len(commits)
    /\ \A c \in 1 .. Len(bpCommits) : commits[c] = bpCommits[c]
    /\ \A c \in 1 .. Len(commits) : CommitSound(commits, c, bpNow, bpRules)

(* What is known of a commit stays known.                                    *)
LEMMA BpStays ==
    ASSUME BpInv, NEW commits, Lengthened(commits)
    PROVE  /\ \A c \in 1 .. Len(bpCommits) : c \in 1 .. Len(commits) /\ commits[c] = bpCommits[c]
           /\ \A c, b : Came(bpCommits, c, b, bpRules) => Came(commits, c, b, bpRules)
           /\ \A pr \in bpPrs : PrSound(pr, commits, bpNow, bpRules)
           /\ PrsSound(bpPrs, commits, bpNow, bpRules)
  <1>1. \A c \in 1 .. Len(bpCommits) : c \in 1 .. Len(commits) /\ commits[c] = bpCommits[c]
    BY BpTimes DEF Lengthened
  <1>2. \A c, b : Came(bpCommits, c, b, bpRules) => Came(commits, c, b, bpRules)
    BY <1>1 DEF Came
  <1>3. ASSUME NEW pr \in bpPrs PROVE PrSound(pr, commits, bpNow, bpRules)
    <2>1. PrSound(pr, bpCommits, bpNow, bpRules)
      BY DEF BpInv, PrsSound
    <2> QED
      BY <1>1, <1>2, <2>1 DEF PrSound, IsMerge
  <1> QED
    BY <1>1, <1>2, <1>3 DEF BpInv, PrsSound

LEMMA BpSame == BpInv => Lengthened(bpCommits)
  BY DEF BpInv, Lengthened

(* One commit more, which brings what it may bring.                          *)
LEMMA BpOneMore ==
    ASSUME BpInv, NEW new \in Commit, Len(bpCommits) < MaxCommits,
           Dated(new, Len(bpCommits), bpNow, bpRules), Justified(new, bpCommits, bpRules)
    PROVE  LET commits == Append(bpCommits, new)  n == Len(bpCommits) IN
           Lengthened(commits) /\ n \in Nat /\ Len(commits) = n + 1 /\ commits[n + 1] = new /\ n + 1 \in 1 .. n + 1
  <1> DEFINE commits == Append(bpCommits, new)
             n == Len(bpCommits)
  <1>1. /\ n \in Nat /\ commits \in Seq(Commit) /\ commits # <<>> /\ Len(commits) = n + 1 /\ commits[n + 1] = new
        /\ \A c \in 1 .. n : commits[c] = bpCommits[c]
    <2>1. bpCommits \in Seq(Commit)
      BY DEF BpInv
    <2> QED
      BY <2>1
  <1>2. n + 1 <= MaxCommits /\ n <= n + 1 /\ n + 1 \in 1 .. n + 1
    BY <1>1, PromotionAssumption
  <1> HIDE DEF commits
  <1>3. ASSUME NEW commit, commit.from \in 0 .. n, Justified(commit, bpCommits, bpRules)
        PROVE  Justified(commit, commits, bpRules)
    <2>1. commit.from # NoCommit => commits[commit.from] = bpCommits[commit.from]
      BY <1>1, <1>3 DEF NoCommit
    <2> QED
      BY <1>3, <2>1 DEF Justified, IsMerge
  <1>4. ASSUME NEW c \in 1 .. n PROVE CommitSound(commits, c, bpNow, bpRules)
    <2>1. CommitSound(bpCommits, c, bpNow, bpRules) /\ commits[c] = bpCommits[c] /\ bpCommits[c].from \in 0 .. n
      BY <1>1, BpTimes DEF BpInv
    <2> QED
      BY <1>3, <2>1 DEF CommitSound
  <1>5. CommitSound(commits, n + 1, bpNow, bpRules)
    <2>1. new.from \in 0 .. n /\ (n + 1) - 1 = n
      BY <1>1 DEF Dated
    <2> QED
      BY <1>1, <1>3, <2>1 DEF CommitSound
  <1>6. Lengthened(commits)
    BY <1>1, <1>2, <1>4, <1>5 DEF Lengthened
  <1> QED
    BY <1>1, <1>2, <1>6 DEF commits

(* The policy passes what it may pass.                                       *)
LEMMA BpChecked ==
    ASSUME NEW commits, NEW heads, NEW pr \in PullRequest, bpNow \in Nat,
           pr.head \in 1 .. Len(commits), commits[pr.head].at \in Nat, Source(pr) \in 1 .. Len(commits),
           "refs" \in bpRules => Came(commits, Source(pr), Feeds(pr.target), bpRules)
    PROVE  /\ Checked(pr, commits, heads) \in PullRequest
           /\ PrSound(Checked(pr, commits, heads), commits, bpNow, bpRules)
           /\ Checked(pr, commits, heads).target = pr.target
           /\ Checked(pr, commits, heads).name = pr.name
           /\ Checked(pr, commits, heads).head = pr.head
  <1> DEFINE r == Routed(pr, commits, heads)
  <1>1. r \in BOOLEAN
    BY DEF Routed, PullRequest
  <1>2. r => /\ pr.name # NoCommit => pr.head = pr.name
             /\ pr.target = "main" => IsMerge(commits, pr.head) /\ bpNow >= commits[pr.head].at + MinDwell
    BY DEF Routed, GeneratedEvidence, Dwelt
  <1> HIDE DEF r
  <1>3. Checked(pr, commits, heads) = [pr EXCEPT !.passed = r]
    BY DEF Checked, r
  <1>4. LET q == [pr EXCEPT !.passed = r] IN
        q \in PullRequest /\ q.target = pr.target /\ q.name = pr.name /\ q.head = pr.head /\ q.passed = r
    BY <1>1 DEF PullRequest
  <1> QED
    BY <1>2, <1>3, <1>4 DEF PrSound, Source

(* What is done is counted.                                                  *)
LEMMA BpActs ==
    ASSUME BpInv, Acts \/ UNCHANGED bpActs
    PROVE  bpActs' \in 0 .. MaxActs[bpRules]
  <1>1. MaxActs[bpRules] \in Nat
    BY PromotionAssumption DEF BpInv
  <1> QED
    BY <1>1 DEF BpInv, Acts

LEMMA BpNewCommit ==
    ASSUME BpInv, NEW place \in CommitPlaces, NEW onto \in 1 .. Len(bpCommits),
           NEW of \in 0 .. Len(bpCommits), NEW from \in 0 .. Len(bpCommits), NEW via \in Ways
    PROVE  LET new == NewCommit(place, onto, of, from, via)  n == Len(bpCommits) IN
           /\ new \in Commit /\ new.on = place /\ new.of = of /\ new.from = from /\ new.via = via
           /\ new.at = bpNow /\ new.made = bpNow
           /\ Dated(new, n, bpNow, bpRules)
           /\ bpCommits[onto].past \subseteq new.past
  <1> DEFINE n == Len(bpCommits)
             more == IF of = NoCommit THEN {} ELSE bpCommits[of].past
             old == bpCommits[onto].past
             past == old \cup more \cup {n + 1}
             new == NewCommit(place, onto, of, from, via)
  <1>1. n \in Nat /\ bpNow \in Nat /\ old \subseteq 1 .. n
    BY BpTimes
  <1>2. more \subseteq 1 .. n
    BY <1>1, BpTimes DEF NoCommit
  <1>3. new = [on |-> place, of |-> of, from |-> from, via |-> via, at |-> bpNow, made |-> bpNow, past |-> past]
    BY DEF NewCommit, Made
  <1>4. old \subseteq past
    OBVIOUS
  <1> HIDE DEF new, old, more
  <1>5. past \subseteq 1 .. n + 1
    <2>1. 1 .. n \subseteq 1 .. n + 1 /\ n + 1 \in 1 .. n + 1
      BY <1>1
    <2> QED
      BY <1>1, <1>2, <2>1
  <1>6. past \subseteq Nat /\ of \in Nat /\ from \in Nat
    BY <1>1, <1>5
  <1> HIDE DEF past
  <1>7. new \in Commit
    BY <1>1, <1>3, <1>6 DEF Commit
  <1>8. Dated(new, n, bpNow, bpRules)
    BY <1>1, <1>3, <1>5 DEF Dated
  <1> QED
    BY <1>3, <1>4, <1>7, <1>8 DEF new, old

(* A branch comes to stand somewhere, and the pull requests from it are         *)
(* checked again.                                                           *)
LEMMA BpStood ==
    ASSUME BpInv, NEW branch \in Branches, NEW commits, NEW head, NEW closed,
           Lengthened(commits), Came(commits, head, branch, bpRules),
           StandAt(branch, commits, head, closed), Acts \/ UNCHANGED bpActs
    PROVE  BpInv'
  <1> DEFINE heads == [bpHeads EXCEPT ![branch] = head]
             follows(pr) == /\ pr.name = NoCommit
                            /\ pr.target = IF branch = "dev" THEN "staged" ELSE IF branch = "staged" THEN "main" ELSE "none"
             moved(pr) == IF follows(pr) THEN Checked([pr EXCEPT !.head = head], commits, heads) ELSE pr
  <1>1. /\ bpCommits' = commits /\ bpHeads' = heads
        /\ bpPending' = IF branch = "main" THEN bpPending ELSE [bpPending EXCEPT ![branch] = head]
        /\ bpPrs' = {moved(pr) : pr \in bpPrs \ closed}
        /\ UNCHANGED <<bpRules, bpRuns, bpNow>>
    BY DEF StandAt
  <1>2. /\ \A c, b : Came(bpCommits, c, b, bpRules) => Came(commits, c, b, bpRules)
        /\ \A pr \in bpPrs : PrSound(pr, commits, bpNow, bpRules)
    BY BpStays
  <1>3. /\ Len(commits) \in Nat /\ head \in Nat /\ head \in 1 .. Len(commits) /\ commits[head].at \in Nat /\ bpNow \in Nat
    <2>1. Len(commits) \in Nat /\ head \in 1 .. Len(commits) /\ commits[head] \in Commit
      BY DEF Lengthened, Came
    <2> QED
      BY <2>1, BpTimes DEF Commit
  <1>4. /\ heads \in [Branches -> Nat]
        /\ \A b \in Branches : Came(commits, heads[b], b, bpRules)
    BY <1>2, <1>3 DEF BpInv
  <1>5. ASSUME NEW pr \in bpPrs
        PROVE  /\ moved(pr) \in PullRequest /\ PrSound(moved(pr), commits, bpNow, bpRules)
               /\ moved(pr).target = pr.target /\ moved(pr).name = pr.name
    <2>0. pr \in PullRequest
      BY DEF BpInv, PrsSound
    <2>1. CASE ~follows(pr)
      BY <1>2, <2>0, <2>1
    <2>2. CASE follows(pr)
      <3> DEFINE q == [pr EXCEPT !.head = head]
      <3>2. q \in PullRequest /\ q.head = head /\ q.name = NoCommit /\ q.target = pr.target /\ q.name = pr.name
        BY <1>3, <2>0, <2>2 DEF PullRequest
      <3>3. Feeds(q.target) = branch
        BY <2>0, <2>2, <3>2 DEF Feeds, Branches, PullRequest
      <3>5. moved(pr) = Checked(q, commits, heads)
        BY <2>2
      <3> HIDE DEF q, moved, heads
      <3>6. Source(q) = head
        BY <3>2 DEF Source
      <3> QED
        BY <1>3, <3>2, <3>3, <3>5, <3>6, BpChecked
    <2> QED
      BY <2>1, <2>2
  <1> HIDE DEF moved
  <1>6. PrsSound(bpPrs', commits, bpNow, bpRules)
    <2>1. \A p, q \in bpPrs : p.target = q.target /\ p.name = q.name => p = q
      BY DEF BpInv, PrsSound
    <2> QED
      BY <1>1, <1>5, <2>1 DEF PrsSound
  <1>7. /\ bpPending' \in [Queues -> Nat]
        /\ \A q \in Queues : bpPending'[q] # NoCommit => Came(commits, bpPending'[q], SourceOf(q), bpRules)
    <2>1. CASE branch = "main"
      BY <1>1, <1>2, <2>1 DEF BpInv
    <2>2. CASE branch # "main"
      <3>1. branch \in Queues /\ SourceOf(branch) = branch
        BY <2>2 DEF Branches, Queues, SourceOf
      <3>2. bpPending' = [bpPending EXCEPT ![branch] = head]
        BY <1>1, <2>2
      <3> QED
        BY <1>2, <1>3, <3>1, <3>2 DEF BpInv
    <2> QED
      BY <2>1, <2>2
  <1>8. \A q \in Queues : bpRuns[q].phase # "none" => Came(commits, bpRuns[q].source, SourceOf(q), bpRules)
    BY <1>2 DEF BpInv
  <1>9. bpActs' \in 0 .. MaxActs[bpRules]
    BY BpActs
  <1>10. commits \in Seq(Commit) /\ Len(commits) <= MaxCommits /\ commits # <<>>
         /\ \A c \in 1 .. Len(commits) : CommitSound(commits, c, bpNow, bpRules)
    BY DEF Lengthened
  <1> QED
    BY <1>1, <1>4, <1>6, <1>7, <1>8, <1>9, <1>10 DEF BpInv

(* A commit comes onto a branch.                                             *)
LEMMA BpMoved ==
    ASSUME BpInv, NEW branch \in Branches, NEW new \in Commit, NEW closed, new.on = branch,
           Dated(new, Len(bpCommits), bpNow, bpRules), Justified(new, bpCommits, bpRules),
           MoveBranch(branch, new, closed), Acts \/ UNCHANGED bpActs
    PROVE  BpInv'
  <1> DEFINE commits == Append(bpCommits, new)
             n == Len(bpCommits)
  <1>1. n < MaxCommits /\ StandAt(branch, commits, n + 1, closed)
    BY DEF MoveBranch
  <1>2. Lengthened(commits) /\ Len(commits) = n + 1 /\ commits[n + 1] = new /\ n + 1 \in 1 .. n + 1
    BY <1>1, BpOneMore
  <1> HIDE DEF commits
  <1>3. Came(commits, n + 1, branch, bpRules)
    BY <1>2 DEF Came
  <1> QED
    BY <1>1, <1>2, <1>3, BpStood

LEMMA BpPrsInv ==
    ASSUME BpInv, PrsSound(bpPrs', bpCommits, bpNow, bpRules),
           UNCHANGED <<bpRules, bpCommits, bpHeads, bpPending, bpRuns, bpNow>>, Acts \/ UNCHANGED bpActs
    PROVE  BpInv'
  <1>1. bpActs' \in 0 .. MaxActs[bpRules]
    BY BpActs
  <1> QED
    BY <1>1 DEF BpInv

(* A run goes on, or ends.                                                   *)
LEMMA BpRunMoves ==
    ASSUME BpInv, NEW queue \in Queues, NEW run \in RunRecord, SetRun(queue, run),
           run.phase # "none" => Came(bpCommits, run.source, SourceOf(queue), bpRules),
           bpPending' \in {bpPending, [bpPending EXCEPT ![queue] = NoCommit]},
           PrsSound(bpPrs', bpCommits, bpNow, bpRules), UNCHANGED <<bpRules, bpCommits, bpHeads, bpNow>>,
           Acts \/ UNCHANGED bpActs
    PROVE  BpInv'
  <1>1. bpRuns' = [bpRuns EXCEPT ![queue] = run]
    BY DEF SetRun
  <1>2. /\ bpRuns' \in [Queues -> RunRecord]
        /\ \A q \in Queues : bpRuns'[q].phase # "none" => Came(bpCommits, bpRuns'[q].source, SourceOf(q), bpRules)
    BY <1>1 DEF BpInv
  <1>3. /\ bpPending' \in [Queues -> Nat]
        /\ \A q \in Queues : bpPending'[q] # NoCommit => Came(bpCommits, bpPending'[q], SourceOf(q), bpRules)
    <2>1. /\ bpPending \in [Queues -> Nat]
          /\ \A q \in Queues : bpPending[q] # NoCommit => Came(bpCommits, bpPending[q], SourceOf(q), bpRules)
      BY DEF BpInv
    <2>2. CASE bpPending' = bpPending
      BY <2>1, <2>2
    <2>3. CASE bpPending' = [bpPending EXCEPT ![queue] = NoCommit]
      BY <2>1, <2>3 DEF NoCommit
    <2> QED
      BY <2>2, <2>3
  <1>4. bpActs' \in 0 .. MaxActs[bpRules]
    BY BpActs
  <1> QED
    BY <1>2, <1>3, <1>4 DEF BpInv

LEMMA BpRunsInv ==
    ASSUME BpInv, NEW queue \in Queues,
           \/ StartRun(queue) \/ CaptureEvidence(queue) \/ DetectCandidate(queue)
           \/ PublishRef(queue) \/ OpenCandidatePr(queue) \/ ReviewCandidate(queue)
    PROVE  BpInv'
  <1> DEFINE run == bpRuns[queue]
             target == TargetOf(queue)
             PrsOK(prs) == PrsSound(prs, bpCommits, bpNow, bpRules)
  <1>1. /\ PrsOK(bpPrs) /\ run \in RunRecord
        /\ run.phase # "none" => Came(bpCommits, run.source, SourceOf(queue), bpRules)
        /\ target \in {"staged", "main"} /\ Feeds(target) = SourceOf(queue)
    BY DEF BpInv, TargetOf, SourceOf, Feeds, Queues
  <1>2. \A prs \in SUBSET bpPrs : PrsOK(prs)
    BY <1>1 DEF PrsSound
  <1>3. NoRun \in RunRecord /\ NoRun.phase = "none"
    BY DEF NoRun, RunRecord, NoCommit
  <1>4. ASSUME NEW phase \in {"detect", "publish", "open", "review"}, run.phase # "none"
        PROVE  LET next == [run EXCEPT !.phase = phase] IN
               next \in RunRecord /\ Came(bpCommits, next.source, SourceOf(queue), bpRules)
    BY <1>1, <1>4 DEF RunRecord
  <1> HIDE DEF target
  <1>5. CASE StartRun(queue)
    <2> DEFINE source == IF queue = "schedule" THEN bpHeads["staged"] ELSE bpPending[queue]
               next == [NoRun EXCEPT !.phase = "started", !.source = source]
    <2>1. Came(bpCommits, source, SourceOf(queue), bpRules)
      BY <1>5 DEF StartRun, BpInv, SourceOf, Branches, Queues
    <2>2. source \in Nat
      BY <2>1 DEF Came
    <2>3. next \in RunRecord /\ next.source = source
      BY <2>2, Zenon DEF NoRun, RunRecord, NoCommit
    <2>4. SetRun(queue, next) /\ UNCHANGED <<bpRules, bpCommits, bpHeads, bpPrs, bpNow>> /\ Acts
          /\ bpPending' = [bpPending EXCEPT ![queue] = NoCommit]
      BY <1>5 DEF StartRun
    <2> HIDE DEF source, next
    <2> QED
      BY <1>1, <2>1, <2>3, <2>4, BpRunMoves, Zenon
  <1>6. CASE CaptureEvidence(queue)
    <2> DEFINE next == [run EXCEPT !.phase = "detect", !.target = bpHeads[target]]
    <2>1. bpHeads[target] \in Nat
      BY <1>1 DEF BpInv, Branches
    <2>2. run.phase # "none" => next \in RunRecord /\ Came(bpCommits, next.source, SourceOf(queue), bpRules)
      BY <1>1, <2>1, Zenon DEF RunRecord
    <2>3. /\ run.phase # "none" /\ UNCHANGED <<bpRules, bpCommits, bpHeads, bpPrs, bpPending, bpNow>>
          /\ SetRun(queue, NoRun) \/ SetRun(queue, next)
          /\ UNCHANGED bpActs
      BY <1>6 DEF CaptureEvidence, target
    <2> HIDE DEF next
    <2> QED
      BY <1>1, <1>3, <2>2, <2>3, BpRunMoves
  <1>7. CASE DetectCandidate(queue)
    <2>1. /\ run.phase # "none" /\ UNCHANGED <<bpRules, bpCommits, bpHeads, bpPrs, bpPending, bpNow>> /\ UNCHANGED bpActs
          /\ \E phase \in {"review", "publish"} : SetRun(queue, [run EXCEPT !.phase = phase])
      BY <1>7 DEF DetectCandidate
    <2> QED
      BY <1>1, <1>4, <2>1, BpRunMoves, Zenon
  <1>8. CASE PublishRef(queue)
    <2>1. /\ run.phase # "none" /\ UNCHANGED <<bpRules, bpCommits, bpHeads, bpPending, bpNow>> /\ bpPrs' \subseteq bpPrs
          /\ SetRun(queue, [run EXCEPT !.phase = "open"]) /\ UNCHANGED bpActs
      BY <1>8 DEF PublishRef
    <2>2. PrsOK(bpPrs')
      BY <1>2, <2>1
    <2> QED
      BY <1>4, <2>1, <2>2, BpRunMoves, Zenon
  <1>9. CASE OpenCandidatePr(queue)
    <2> DEFINE pr == [target |-> target, name |-> run.source, head |-> run.source, base |-> run.target,
                      complete |-> target = "staged", passed |-> FALSE]
               new == Checked(pr, bpCommits, bpHeads)
    <2>1. /\ run.phase # "none" /\ UNCHANGED <<bpRules, bpCommits, bpHeads, bpPending, bpNow>> /\ UNCHANGED bpActs
          /\ \/ /\ PrsFor(target, run.source) = {} /\ bpPrs' = bpPrs \cup {new}
                /\ SetRun(queue, [run EXCEPT !.phase = "review"])
             \/ SetRun(queue, NoRun) /\ UNCHANGED bpPrs
      BY <1>9, Zenon DEF OpenCandidatePr, target
    <2>2. pr \in PullRequest /\ pr.name = run.source /\ pr.head = run.source /\ pr.target = target
      BY <1>1 DEF PullRequest, RunRecord
    <2>3. Came(bpCommits, run.source, Feeds(target), bpRules) /\ run.source \in 1 .. Len(bpCommits)
          /\ bpCommits[run.source].at \in Nat /\ bpNow \in Nat
      <3>1. Came(bpCommits, run.source, Feeds(target), bpRules) /\ run.source \in 1 .. Len(bpCommits)
        BY <1>1, <2>1 DEF Came
      <3> QED
        BY <3>1, BpTimes
    <2> HIDE DEF pr
    <2>4. Source(pr) = run.source
      BY <2>2 DEF Source
    <2>5. /\ new \in PullRequest /\ PrSound(new, bpCommits, bpNow, bpRules)
          /\ new.target = target /\ new.name = run.source
      BY <2>2, <2>3, <2>4, BpChecked
    <2> HIDE DEF new
    <2>6. CASE /\ PrsFor(target, run.source) = {} /\ bpPrs' = bpPrs \cup {new}
               /\ SetRun(queue, [run EXCEPT !.phase = "review"])
      <3>1. \A q \in bpPrs : ~(q.target = target /\ q.name = run.source)
        BY <2>6 DEF PrsFor
      <3>2. PrsOK(bpPrs')
        BY <1>1, <2>5, <2>6, <3>1 DEF PrsSound
      <3> QED
        BY <1>4, <2>1, <2>6, <3>2, BpRunMoves, Zenon
    <2>7. CASE SetRun(queue, NoRun) /\ UNCHANGED bpPrs
      BY <1>1, <1>3, <2>1, <2>7, BpRunMoves
    <2> QED
      BY <2>1, <2>6, <2>7
  <1>10. CASE ReviewCandidate(queue)
    <2>1. /\ UNCHANGED <<bpRules, bpCommits, bpHeads, bpPending, bpNow>> /\ bpPrs' \subseteq bpPrs
          /\ SetRun(queue, NoRun) /\ UNCHANGED bpActs
      BY <1>10 DEF ReviewCandidate
    <2>2. PrsOK(bpPrs')
      BY <1>2, <2>1
    <2> QED
      BY <1>3, <2>1, <2>2, BpRunMoves
  <1> QED
    BY <1>5, <1>6, <1>7, <1>8, <1>9, <1>10

(* A pull request is opened by hand, edited, or has its branch moved.         *)
LEMMA BpDirectInv ==
    ASSUME BpInv, NEW target \in {"staged", "main"}, OpenDirectPr(target)
    PROVE  BpInv'
  <1> DEFINE head == bpHeads[IF target = "staged" THEN "dev" ELSE "staged"]
             pr == [target |-> target, name |-> NoCommit, head |-> head, base |-> NoCommit,
                    complete |-> FALSE, passed |-> FALSE]
             new == Checked(pr, bpCommits, bpHeads)
  <1>1. /\ PrsFor(target, NoCommit) = {} /\ bpPrs' = bpPrs \cup {new}
        /\ UNCHANGED <<bpRules, bpCommits, bpHeads, bpPending, bpRuns, bpNow>> /\ UNCHANGED bpActs
    BY DEF OpenDirectPr
  <1>2. Came(bpCommits, head, Feeds(target), bpRules) /\ head \in 1 .. Len(bpCommits)
    BY DEF BpInv, Branches, Feeds, Came
  <1>3. head \in Nat /\ bpCommits[head].at \in Nat /\ bpNow \in Nat
    BY <1>2, BpTimes
  <1> HIDE DEF head
  <1>4. pr \in PullRequest /\ pr.name = NoCommit /\ pr.head = head /\ pr.target = target
    BY <1>3 DEF PullRequest, NoCommit
  <1> HIDE DEF pr
  <1>5. Source(pr) = head
    BY <1>4 DEF Source
  <1>6. new \in PullRequest /\ PrSound(new, bpCommits, bpNow, bpRules) /\ new.target = target /\ new.name = NoCommit
    BY <1>2, <1>3, <1>4, <1>5, BpChecked
  <1> HIDE DEF new
  <1>7. \A q \in bpPrs : ~(q.target = target /\ q.name = NoCommit)
    BY <1>1 DEF PrsFor
  <1>8. PrsSound(bpPrs', bpCommits, bpNow, bpRules)
    BY <1>1, <1>6, <1>7 DEF BpInv, PrsSound
  <1> QED
    BY <1>1, <1>8, BpPrsInv

LEMMA BpEditInv ==
    ASSUME BpInv, NEW pr \in bpPrs, EditPr(pr)
    PROVE  BpInv'
  <1>1. /\ pr \in PullRequest /\ PrSound(pr, bpCommits, bpNow, bpRules)
        /\ pr.head \in 1 .. Len(bpCommits) /\ bpCommits[pr.head].at \in Nat /\ bpNow \in Nat
        /\ bpHeads[pr.target] \in Nat
    <2>1. pr \in PullRequest /\ PrSound(pr, bpCommits, bpNow, bpRules)
      BY DEF BpInv, PrsSound
    <2>2. pr.head \in 1 .. Len(bpCommits) /\ pr.target \in Branches
      BY <2>1 DEF PrSound, PullRequest, Branches
    <2> QED
      BY <2>1, <2>2, BpTimes
  <1>2. PICK base \in {pr.base, bpHeads[pr.target]} :
          bpPrs' = (bpPrs \ {pr}) \cup
            {Checked([pr EXCEPT !.complete = TRUE, !.base = IF pr.name = NoCommit THEN @ ELSE base],
                     bpCommits, bpHeads)}
    BY Zenon DEF EditPr
  <1> DEFINE q == [pr EXCEPT !.complete = TRUE, !.base = IF pr.name = NoCommit THEN @ ELSE base]
             new == Checked(q, bpCommits, bpHeads)
  <1>3. q \in PullRequest /\ q.target = pr.target /\ q.name = pr.name /\ q.head = pr.head
    BY <1>1, <1>2, Zenon DEF PullRequest
  <1>4. bpPrs' = (bpPrs \ {pr}) \cup {new}
    BY <1>2
  <1> HIDE DEF q
  <1>5. /\ new \in PullRequest /\ PrSound(new, bpCommits, bpNow, bpRules)
        /\ new.target = pr.target /\ new.name = pr.name
    <2>1. Source(q) = Source(pr)
      BY <1>3 DEF Source
    <2>2. Source(q) \in 1 .. Len(bpCommits)
          /\ ("refs" \in bpRules => Came(bpCommits, Source(q), Feeds(q.target), bpRules))
      BY <1>1, <1>3, <2>1 DEF PrSound
    <2> QED
      BY <1>1, <1>3, <2>2, BpChecked
  <1> HIDE DEF new
  <1>6. PrsSound(bpPrs', bpCommits, bpNow, bpRules)
    BY <1>4, <1>5 DEF BpInv, PrsSound
  <1>7. UNCHANGED <<bpRules, bpCommits, bpHeads, bpPending, bpRuns, bpNow>> /\ UNCHANGED bpActs
    BY DEF EditPr
  <1> QED
    BY <1>6, <1>7, BpPrsInv

(* The commits of a pull request, or those it brings with it, are added.      *)
LEMMA BpPrsGrown ==
    ASSUME BpInv, NEW commits, Lengthened(commits), bpCommits' = commits,
           PrsSound(bpPrs', commits, bpNow, bpRules),
           UNCHANGED <<bpRules, bpHeads, bpPending, bpRuns, bpNow>>, Acts \/ UNCHANGED bpActs
    PROVE  BpInv'
  <1>1. \A c, b : Came(bpCommits, c, b, bpRules) => Came(commits, c, b, bpRules)
    BY BpStays
  <1>2. /\ \A b \in Branches : Came(commits, bpHeads[b], b, bpRules)
        /\ \A q \in Queues : bpPending[q] # NoCommit => Came(commits, bpPending[q], SourceOf(q), bpRules)
        /\ \A q \in Queues : bpRuns[q].phase # "none" => Came(commits, bpRuns[q].source, SourceOf(q), bpRules)
    BY <1>1 DEF BpInv
  <1>3. bpActs' \in 0 .. MaxActs[bpRules]
    BY BpActs
  <1>4. commits \in Seq(Commit) /\ Len(commits) <= MaxCommits /\ commits # <<>>
        /\ \A c \in 1 .. Len(commits) : CommitSound(commits, c, bpNow, bpRules)
    BY DEF Lengthened
  <1> QED
    BY <1>2, <1>3, <1>4 DEF BpInv

LEMMA BpByHandInv ==
    ASSUME BpInv, NEW target \in {"staged", "main"}, NEW commits, Lengthened(commits), NEW name \in 1 .. Len(commits),
           OpenByHand(target, commits, name)
    PROVE  BpInv'
  <1> DEFINE pr == [target |-> target, name |-> name, head |-> name, base |-> bpHeads[target],
                    complete |-> FALSE, passed |-> FALSE]
             new == Checked(pr, commits, bpHeads)
  <1>1. /\ PrsFor(target, name) = {} /\ bpPrs' = bpPrs \cup {new} /\ "refs" \notin bpRules
        /\ bpCommits' = commits /\ UNCHANGED <<bpRules, bpHeads, bpPending, bpRuns, bpNow>> /\ Acts
    BY DEF OpenByHand
  <1>2. /\ name \in Nat /\ commits[name].at \in Nat /\ bpNow \in Nat /\ bpHeads[target] \in Nat
    <2>1. Len(commits) \in Nat /\ commits[name] \in Commit
      BY DEF Lengthened
    <2>2. commits[name].at \in Nat /\ name \in Nat
      BY <2>1 DEF Commit
    <2>3. target \in Branches
      BY DEF Branches
    <2> QED
      BY <2>2, <2>3, BpTimes
  <1>3. pr \in PullRequest /\ pr.name = name /\ pr.head = name /\ pr.target = target
    BY <1>2 DEF PullRequest
  <1> HIDE DEF pr
  <1>4. Source(pr) = name
    BY <1>3 DEF Source
  <1>5. new \in PullRequest /\ PrSound(new, commits, bpNow, bpRules) /\ new.target = target /\ new.name = name
    BY <1>1, <1>2, <1>3, <1>4, BpChecked
  <1> HIDE DEF new
  <1>6. \A q \in bpPrs : ~(q.target = target /\ q.name = name)
    BY <1>1 DEF PrsFor
  <1>7. PrsSound(bpPrs', commits, bpNow, bpRules)
    <2>1. PrsSound(bpPrs, commits, bpNow, bpRules)
      BY BpStays
    <2> QED
      BY <1>1, <1>5, <1>6, <2>1 DEF PrsSound
  <1> QED
    BY <1>1, <1>7, BpPrsGrown

LEMMA BpMovedCandidate ==
    ASSUME BpInv, NEW pr \in bpPrs, NEW commits, Lengthened(commits), NEW head \in 1 .. Len(commits),
           MoveCandidate(pr, commits, head), Acts \/ UNCHANGED bpActs
    PROVE  BpInv'
  <1> DEFINE q == [pr EXCEPT !.head = head]
             new == Checked(q, commits, bpHeads)
  <1>1. /\ bpCommits' = commits /\ UNCHANGED <<bpRules, bpHeads, bpPending, bpRuns, bpNow>>
        /\ bpPrs' = (bpPrs \ {pr}) \cup {new} /\ pr.name # NoCommit
    BY DEF MoveCandidate
  <1>2. pr \in PullRequest /\ PrsSound(bpPrs, commits, bpNow, bpRules) /\ PrSound(pr, commits, bpNow, bpRules)
    BY BpStays DEF BpInv, PrsSound
  <1>3. head \in Nat /\ commits[head].at \in Nat /\ bpNow \in Nat
    <2>1. Len(commits) \in Nat /\ commits[head] \in Commit
      BY DEF Lengthened
    <2> QED
      BY <2>1, BpTimes DEF Commit
  <1>4. q \in PullRequest /\ q.target = pr.target /\ q.name = pr.name /\ q.head = head
    BY <1>2, <1>3 DEF PullRequest
  <1> HIDE DEF q
  <1>5. new \in PullRequest /\ PrSound(new, commits, bpNow, bpRules) /\ new.target = pr.target /\ new.name = pr.name
    <2>1. Source(q) = Source(pr)
      BY <1>1, <1>4 DEF Source
    <2>2. Source(q) \in 1 .. Len(commits)
          /\ ("refs" \in bpRules => Came(commits, Source(q), Feeds(q.target), bpRules))
      BY <1>2, <1>4, <2>1 DEF PrSound
    <2> QED
      BY <1>3, <1>4, <2>2, BpChecked
  <1> HIDE DEF new
  <1>6. PrsSound(bpPrs', commits, bpNow, bpRules)
    BY <1>1, <1>2, <1>5 DEF PrsSound
  <1> QED
    BY <1>1, <1>6, BpPrsGrown

LEMMA BpUpdateInv ==
    ASSUME BpInv, NEW pr \in bpPrs, UpdateBranch(pr)
    PROVE  BpInv'
  <1> DEFINE n == Len(bpCommits)
             made == NewCommit("candidate", pr.head, bpHeads[pr.target], NoCommit, "update")
             commits == Append(bpCommits, made)
  <1>1. n < MaxCommits /\ MoveCandidate(pr, commits, n + 1) /\ UNCHANGED bpActs
    BY DEF UpdateBranch
  <1>2. /\ bpHeads[pr.target] \in 0 .. n /\ pr.head \in 1 .. n /\ NoCommit \in 0 .. n
    <2>1. pr.target \in Branches /\ pr.head \in 1 .. n
      BY DEF BpInv, PrsSound, PrSound, PullRequest, Branches
    <2> QED
      BY <2>1, BpTimes DEF NoCommit
  <1>3. made \in Commit /\ made.on = "candidate" /\ Dated(made, n, bpNow, bpRules)
    <2>1. "candidate" \in CommitPlaces /\ "update" \in Ways
      BY DEF CommitPlaces, Ways
    <2> QED
      BY <1>2, <2>1, BpNewCommit
  <1> HIDE DEF made
  <1>4. Justified(made, bpCommits, bpRules)
    BY <1>3 DEF Justified
  <1>5. Lengthened(commits) /\ n + 1 \in 1 .. Len(commits)
    BY <1>1, <1>3, <1>4, BpOneMore
  <1> HIDE DEF commits
  <1> QED
    BY <1>1, <1>5, BpMovedCandidate

(* What somebody has of their own may be anything but a commit of a branch.   *)
LEMMA BpElsewhere ==
    ASSUME BpInv, NEW commit \in Elsewhere, Len(bpCommits) < MaxCommits
    PROVE  LET commits == Append(bpCommits, commit) IN Lengthened(commits) /\ Len(bpCommits) + 1 \in 1 .. Len(commits)
  <1> DEFINE n == Len(bpCommits)
  <1>1. PICK of \in {NoCommit, bpHeads["main"]}, at \in 0 .. bpNow :
          commit = [NewCommit("elsewhere", bpHeads["dev"], of, NoCommit, "work") EXCEPT !.at = at]
    BY DEF Elsewhere
  <1>2. of \in 0 .. n /\ NoCommit \in 0 .. n /\ bpHeads["dev"] \in 1 .. n
    BY <1>1, BpTimes DEF NoCommit, Branches
  <1> DEFINE new == NewCommit("elsewhere", bpHeads["dev"], of, NoCommit, "work")
  <1>3. new \in Commit /\ new.on = "elsewhere" /\ new.made = bpNow /\ Dated(new, n, bpNow, bpRules)
    <2>1. "elsewhere" \in CommitPlaces /\ "work" \in Ways
      BY DEF CommitPlaces, Ways
    <2> QED
      BY <1>2, <2>1, BpNewCommit
  <1>4. commit = [new EXCEPT !.at = at] /\ at \in Nat /\ at <= bpNow /\ bpRules \subseteq Guards
    BY <1>1, BpTimes DEF BpInv
  <1> HIDE DEF new
  <1>5. /\ commit \in Commit /\ commit.on = "elsewhere" /\ commit.at = at /\ commit.made = new.made
        /\ commit.past = new.past /\ commit.of = new.of /\ commit.from = new.from
    BY <1>3, <1>4 DEF Commit
  <1>6. Dated(commit, n, bpNow, bpRules) /\ Justified(commit, bpCommits, bpRules)
    BY <1>3, <1>4, <1>5 DEF Dated, Justified, Guards
  <1> QED
    BY <1>5, <1>6, BpOneMore

(* A head or new work lands on a branch.                                     *)
LEMMA BpLanding ==
    ASSUME BpInv, NEW branch \in Branches, NEW head \in 0 .. Len(bpCommits), NEW via \in Ways,
           NEW commit \in Landings(branch, head, via)
    PROVE  /\ commit \in Commit /\ commit.on = branch /\ commit.from = head /\ commit.via = via
           /\ commit.at = bpNow /\ commit.made = bpNow
           /\ Dated(commit, Len(bpCommits), bpNow, bpRules)
           /\ bpCommits[bpHeads[branch]].past \subseteq commit.past
  <1>1. PICK of \in {head, NoCommit} : commit = NewCommit(branch, bpHeads[branch], of, head, via)
    BY DEF Landings
  <1>2. of \in 0 .. Len(bpCommits) /\ bpHeads[branch] \in 1 .. Len(bpCommits) /\ branch \in CommitPlaces
    BY BpTimes DEF NoCommit, CommitPlaces
  <1> QED
    BY <1>1, <1>2, BpNewCommit

LEMMA BpMergeInv ==
    ASSUME BpInv, NEW pr \in bpPrs, MergePr(pr)
    PROVE  BpInv'
  <1>1. PICK commit \in Landings(pr.target, pr.head, "promotion") : MoveBranch(pr.target, commit, {pr})
    BY Zenon DEF MergePr
  <1>2. /\ pr \in PullRequest /\ PrSound(pr, bpCommits, bpNow, bpRules) /\ (pr.target \in bpRules => pr.passed)
        /\ UNCHANGED bpActs
    BY DEF BpInv, PrsSound, MergePr
  <1>3. /\ pr.target \in Branches /\ pr.head \in 1 .. Len(bpCommits) /\ pr.head \in 0 .. Len(bpCommits)
        /\ "promotion" \in Ways /\ pr.head # NoCommit
    BY <1>2, BpTimes DEF PullRequest, Branches, PrSound, Ways, NoCommit
  <1>4. /\ commit \in Commit /\ commit.on = pr.target /\ commit.from = pr.head /\ commit.via = "promotion"
        /\ commit.made = bpNow /\ Dated(commit, Len(bpCommits), bpNow, bpRules)
    BY <1>1, <1>3, BpLanding
  <1>5. ASSUME pr.target \in bpRules, "refs" \in bpRules
        PROVE  Came(bpCommits, pr.head, Feeds(pr.target), bpRules)
    <2>1. Source(pr) = pr.head
      BY <1>2, <1>5 DEF PrSound, Source
    <2> QED
      BY <1>2, <1>5, <2>1 DEF PrSound
  <1>6. Justified(commit, bpCommits, bpRules)
    <2>1. ASSUME pr.target = "main", "main" \in bpRules
          PROVE  /\ IsMerge(bpCommits, pr.head) /\ bpNow >= bpCommits[pr.head].at + MinDwell
                 /\ bpRules = Guards => bpCommits[pr.head].on = "staged"
      BY <1>2, <1>5, <2>1 DEF PrSound, Came, Feeds, Guards
    <2>2. ASSUME pr.target = "staged", {"staged", "refs"} \subseteq bpRules
          PROVE  bpCommits[pr.head].on = "dev"
      BY <1>5, <2>2 DEF Came, Feeds
    <2> QED
      BY <1>2, <1>3, <1>4, <2>1, <2>2 DEF Justified
  <1> QED
    BY <1>1, <1>2, <1>3, <1>4, <1>6, BpMoved

(* Landings that no check was required for, or that the policy exempts.       *)
LEMMA BpLandsInv ==
    ASSUME BpInv, NEW branch \in Branches, NEW head \in {NoCommit} \cup DOMAIN bpCommits, NEW at \in 0 .. bpNow,
           \/ branch \in {"dev", "staged"} /\ BackMerge(branch, head)
           \/ LandUnchecked(branch, head, at)
    PROVE  BpInv'
  <1>1. head \in 0 .. Len(bpCommits) /\ bpNow \in Nat /\ at \in Nat /\ at <= bpNow
    BY BpTimes DEF NoCommit
  <1>2. CASE branch \in {"dev", "staged"} /\ BackMerge(branch, head)
    <2>1. PICK commit \in Landings(branch, head, "back-merge") : MoveBranch(branch, commit, {})
      BY <1>2, Zenon DEF BackMerge
    <2>2. "back-merge" \in Ways /\ Acts
      BY <1>2 DEF Ways, BackMerge
    <2>3. /\ commit \in Commit /\ commit.on = branch /\ commit.via = "back-merge"
          /\ Dated(commit, Len(bpCommits), bpNow, bpRules)
      BY <1>1, <2>1, <2>2, BpLanding
    <2>4. Justified(commit, bpCommits, bpRules)
      BY <1>2, <2>3 DEF Justified
    <2> QED
      BY <2>1, <2>2, <2>3, <2>4, BpMoved
  <1>3. CASE LandUnchecked(branch, head, at)
    <2>1. PICK commit \in Landings(branch, head, "unchecked") : MoveBranch(branch, [commit EXCEPT !.at = at], {})
      BY <1>3, Zenon DEF LandUnchecked
    <2>2. "unchecked" \in Ways /\ Acts /\ branch \notin bpRules
      BY <1>3 DEF Ways, LandUnchecked
    <2>3. /\ commit \in Commit /\ commit.on = branch /\ commit.made = bpNow
          /\ Dated(commit, Len(bpCommits), bpNow, bpRules)
      BY <1>1, <2>1, <2>2, BpLanding
    <2> DEFINE new == [commit EXCEPT !.at = at]
    <2>4. /\ new \in Commit /\ new.on = branch /\ new.at = at /\ new.made = commit.made
          /\ new.past = commit.past /\ new.of = commit.of /\ new.from = commit.from
      BY <1>1, <2>3 DEF Commit
    <2>5. MoveBranch(branch, new, {})
      BY <2>1
    <2> HIDE DEF new
    <2>6. Dated(new, Len(bpCommits), bpNow, bpRules) /\ Justified(new, bpCommits, bpRules)
      BY <1>1, <2>2, <2>3, <2>4 DEF Dated, Justified
    <2> QED
      BY <2>2, <2>4, <2>5, <2>6, BpMoved
  <1> QED
    BY <1>2, <1>3

LEMMA BpStepInv == BpInv /\ [BpNext]_bpVars => BpInv'
  <1> SUFFICES ASSUME BpInv, [BpNext]_bpVars PROVE BpInv'
    OBVIOUS
  <1>1. ASSUME NEW form, NEW checklist, WorkLands(form, checklist)
        PROVE  BpInv'
    <2> DEFINE new == NewCommit("dev", bpHeads["dev"], NoCommit, NoCommit, "work")
    <2>1. MoveBranch("dev", new, {}) /\ UNCHANGED bpActs
      BY <1>1 DEF WorkLands
    <2>2. /\ bpHeads["dev"] \in 1 .. Len(bpCommits) /\ NoCommit \in 0 .. Len(bpCommits)
          /\ "dev" \in CommitPlaces /\ "dev" \in Branches /\ "work" \in Ways
      BY BpTimes DEF Branches, NoCommit, CommitPlaces, Ways
    <2>3. new \in Commit /\ new.on = "dev" /\ Dated(new, Len(bpCommits), bpNow, bpRules)
      BY <2>2, BpNewCommit
    <2> HIDE DEF new
    <2>4. Justified(new, bpCommits, bpRules)
      BY <2>3 DEF Justified
    <2> QED
      BY <2>1, <2>2, <2>3, <2>4, BpMoved
  <1>2. ASSUME NEW head \in {NoCommit} \cup DOMAIN bpCommits, NEW branch \in {"dev", "staged", "main"}, NEW at \in 0 .. bpNow,
               (branch \in {"dev", "staged"} /\ BackMerge(branch, head)) \/ LandUnchecked(branch, head, at)
        PROVE  BpInv'
    BY <1>2, BpLandsInv DEF Branches
  <1>3. ASSUME NEW head \in DOMAIN bpCommits
        PROVE  /\ ForceStaged(head) => BpInv'
               /\ \A target \in {"staged", "main"} : OpenByHand(target, bpCommits, head) => BpInv'
               /\ \A pr \in bpPrs : PushCandidate(pr, head) => BpInv'
    <2>1. head \in 1 .. Len(bpCommits) /\ Lengthened(bpCommits)
      BY BpTimes, BpSame
    <2>2. ASSUME ForceStaged(head) PROVE BpInv'
      <3>1. Acts /\ "staged" \notin bpRules /\ StandAt("staged", bpCommits, head, {})
        BY <2>2 DEF ForceStaged
      <3>2. Came(bpCommits, head, "staged", bpRules)
        BY <2>1, <3>1 DEF Came
      <3> QED
        BY <2>1, <3>1, <3>2, BpStood DEF Branches
    <2>3. ASSUME NEW pr \in bpPrs, PushCandidate(pr, head) PROVE BpInv'
      BY <2>1, <2>3, BpMovedCandidate DEF PushCandidate
    <2> QED
      BY <2>1, <2>2, <2>3, BpByHandInv
  <1>4. ASSUME NEW commit \in Elsewhere, NEW target \in {"staged", "main"},
               OpenByHand(target, Append(bpCommits, commit), Len(bpCommits) + 1)
        PROVE  BpInv'
    <2>1. Len(Append(bpCommits, commit)) = Len(bpCommits) + 1 /\ Len(bpCommits) \in Nat
      BY DEF BpInv
    <2>2. Len(bpCommits) < MaxCommits
      BY <1>4, <2>1, PromotionAssumption DEF OpenByHand
    <2> QED
      BY <1>4, <2>2, BpElsewhere, BpByHandInv
  <1>5. ASSUME UNCHANGED <<bpRules, bpCommits, bpHeads, bpPrs, bpRuns, bpActs>>,
               bpNow' \in 0 .. MaxPromotionTime, bpNow <= bpNow',
               bpPending' \in {bpPending, [bpPending EXCEPT !["schedule"] = bpHeads["staged"]]}
        PROVE  BpInv'
    <2>1. \A c \in 1 .. Len(bpCommits) : CommitSound(bpCommits, c, bpNow', bpRules)
      <3>1. \A c \in 1 .. Len(bpCommits) : bpCommits[c].made \in Nat
        BY BpTimes DEF Commit
      <3>2. \A c \in 1 .. Len(bpCommits) : bpCommits[c].made <= bpNow => bpCommits[c].made <= bpNow'
        BY <1>5, <3>1 DEF BpInv
      <3> QED
        BY <3>2 DEF BpInv, CommitSound, Dated
    <2>2. \A pr \in bpPrs : PrSound(pr, bpCommits, bpNow', bpRules)
      <3>1. \A pr \in bpPrs : pr.head \in 1 .. Len(bpCommits)
        BY DEF BpInv, PrsSound, PrSound
      <3>2. \A pr \in bpPrs : bpCommits[pr.head].at + MinDwell \in Nat
        BY <3>1, BpTimes, PromotionAssumption
      <3>3. \A pr \in bpPrs : bpNow >= bpCommits[pr.head].at + MinDwell => bpNow' >= bpCommits[pr.head].at + MinDwell
        BY <1>5, <3>2 DEF BpInv
      <3> QED
        BY <3>3 DEF BpInv, PrsSound, PrSound
    <2>3. PrsSound(bpPrs, bpCommits, bpNow', bpRules)
      BY <2>2 DEF BpInv, PrsSound
    <2>4. /\ bpPending' \in [Queues -> Nat]
          /\ \A q \in Queues : bpPending'[q] # NoCommit => Came(bpCommits, bpPending'[q], SourceOf(q), bpRules)
      <3>1. bpHeads["staged"] \in Nat /\ Came(bpCommits, bpHeads["staged"], SourceOf("schedule"), bpRules)
        BY DEF BpInv, Branches, SourceOf
      <3> QED
        BY <1>5, <3>1 DEF BpInv, Queues
    <2> QED
      BY <1>5, <2>1, <2>3, <2>4 DEF BpInv
  <1>6. CASE BpTick
    BY <1>5, <1>6, PromotionAssumption DEF BpTick, BpInv
  <1>7. CASE UNCHANGED bpVars
    BY <1>5, <1>7, PromotionAssumption DEF bpVars, BpInv
  <1>8. \A head, branch : BackMerge(branch, head) => 0 \in 0 .. bpNow
    BY BpTimes
  <1> QED
    BY <1>1, <1>2, <1>3, <1>4, <1>6, <1>7, <1>8, BpRunsInv, BpDirectInv, BpEditInv, BpUpdateInv, BpMergeInv DEF BpNext

(* No branch that refuses forced pushes loses a commit.                      *)
LEMMA BpBranchesGrow ==
    ASSUME BpInv, BpNext, NEW b \in Branches, b # "staged" \/ "staged" \in bpRules
    PROVE  bpCommits[bpHeads[b]].past \subseteq bpCommits'[bpHeads'[b]].past
  <1>0. bpHeads[b] \in 1 .. Len(bpCommits) /\ bpCommits \in Seq(Commit) /\ bpHeads \in [Branches -> Nat]
    BY BpTimes DEF BpInv
  <1>1. ASSUME NEW new, bpCommits' = Append(bpCommits, new), bpHeads' = bpHeads
        PROVE  bpCommits[bpHeads[b]].past \subseteq bpCommits'[bpHeads'[b]].past
    BY <1>0, <1>1
  <1>2. ASSUME NEW branch \in Branches, NEW new \in Commit, NEW closed,
               bpCommits[bpHeads[branch]].past \subseteq new.past, MoveBranch(branch, new, closed)
        PROVE  bpCommits[bpHeads[b]].past \subseteq bpCommits'[bpHeads'[b]].past
    <2> DEFINE commits == Append(bpCommits, new)
    <2>1. bpCommits' = commits /\ bpHeads' = [bpHeads EXCEPT ![branch] = Len(bpCommits) + 1]
      BY <1>2 DEF MoveBranch, StandAt
    <2>2. commits[Len(bpCommits) + 1] = new /\ commits[bpHeads[b]] = bpCommits[bpHeads[b]]
      BY <1>0
    <2> QED
      BY <1>0, <1>2, <2>1, <2>2
  <1>3. ASSUME NEW branch \in Branches, NEW head \in 0 .. Len(bpCommits), NEW via \in Ways, NEW closed,
               NEW commit \in Landings(branch, head, via), NEW at \in Nat,
               MoveBranch(branch, commit, closed) \/ MoveBranch(branch, [commit EXCEPT !.at = at], closed)
        PROVE  bpCommits[bpHeads[b]].past \subseteq bpCommits'[bpHeads'[b]].past
    <2> DEFINE new == [commit EXCEPT !.at = at]
    <2>1. commit \in Commit /\ bpCommits[bpHeads[branch]].past \subseteq commit.past
      BY <1>3, BpLanding
    <2>2. new \in Commit /\ new.past = commit.past
      BY <2>1 DEF Commit
    <2>3. MoveBranch(branch, commit, closed) \/ MoveBranch(branch, new, closed)
      BY <1>3
    <2> HIDE DEF new
    <2> QED
      BY <1>2, <2>1, <2>2, <2>3
  <1>4. ASSUME NEW pr \in bpPrs, MergePr(pr)
        PROVE  bpCommits[bpHeads[b]].past \subseteq bpCommits'[bpHeads'[b]].past
    <2>1. PICK commit \in Landings(pr.target, pr.head, "promotion") : MoveBranch(pr.target, commit, {pr})
      BY <1>4, Zenon DEF MergePr
    <2>2. pr.target \in Branches /\ pr.head \in 0 .. Len(bpCommits) /\ "promotion" \in Ways
      BY BpTimes DEF BpInv, PrsSound, PrSound, PullRequest, Branches, Ways
    <2> QED
      BY <1>3, <2>1, <2>2
  <1>5. ASSUME NEW head \in {NoCommit} \cup DOMAIN bpCommits, NEW branch \in Branches, NEW at \in 0 .. bpNow,
               BackMerge(branch, head) \/ LandUnchecked(branch, head, at)
        PROVE  bpCommits[bpHeads[b]].past \subseteq bpCommits'[bpHeads'[b]].past
    <2>1. head \in 0 .. Len(bpCommits) /\ at \in Nat /\ {"back-merge", "unchecked"} \subseteq Ways
      BY BpTimes DEF NoCommit, Ways
    <2>2. \E via \in {"back-merge", "unchecked"} : \E commit \in Landings(branch, head, via) :
            MoveBranch(branch, commit, {}) \/ MoveBranch(branch, [commit EXCEPT !.at = at], {})
      BY <1>5, Zenon DEF BackMerge, LandUnchecked
    <2> QED
      BY <1>3, <2>1, <2>2
  <1>6. ASSUME NEW form, NEW checklist, WorkLands(form, checklist)
        PROVE  bpCommits[bpHeads[b]].past \subseteq bpCommits'[bpHeads'[b]].past
    <2> DEFINE new == NewCommit("dev", bpHeads["dev"], NoCommit, NoCommit, "work")
    <2>1. MoveBranch("dev", new, {})
      BY <1>6 DEF WorkLands
    <2>2. /\ bpHeads["dev"] \in 1 .. Len(bpCommits) /\ NoCommit \in 0 .. Len(bpCommits)
          /\ "dev" \in CommitPlaces /\ "dev" \in Branches /\ "work" \in Ways
      BY BpTimes DEF Branches, NoCommit, CommitPlaces, Ways
    <2>3. new \in Commit /\ bpCommits[bpHeads["dev"]].past \subseteq new.past
      BY <2>2, BpNewCommit
    <2> QED
      BY <1>2, <2>1, <2>2, <2>3
  <1>7. ASSUME NEW pr \in bpPrs, NEW commits, NEW head, MoveCandidate(pr, commits, head),
               commits = bpCommits \/ \E new : commits = Append(bpCommits, new)
        PROVE  bpCommits[bpHeads[b]].past \subseteq bpCommits'[bpHeads'[b]].past
    BY <1>1, <1>7, Zenon DEF MoveCandidate
  <1>8. ASSUME NEW target, NEW commits, NEW name, OpenByHand(target, commits, name),
               commits = bpCommits \/ \E new : commits = Append(bpCommits, new)
        PROVE  bpCommits[bpHeads[b]].past \subseteq bpCommits'[bpHeads'[b]].past
    BY <1>1, <1>8, Zenon DEF OpenByHand
  <1>9. ASSUME NEW head, ForceStaged(head)
        PROVE  bpCommits[bpHeads[b]].past \subseteq bpCommits'[bpHeads'[b]].past
    <2>1. bpCommits' = bpCommits /\ bpHeads' = [bpHeads EXCEPT !["staged"] = head] /\ b # "staged"
      BY <1>9, Zenon DEF ForceStaged, StandAt
    <2> QED
      BY <1>0, <2>1
  <1>10. CASE UNCHANGED <<bpCommits, bpHeads>>
    BY <1>10
  <1>11. ASSUME NEW pr \in bpPrs, NEW head, UpdateBranch(pr) \/ PushCandidate(pr, head)
         PROVE  bpCommits[bpHeads[b]].past \subseteq bpCommits'[bpHeads'[b]].past
    BY <1>7, <1>11, Zenon DEF UpdateBranch, PushCandidate
  <1>12. \A head, branch : BackMerge(branch, head) => 0 \in 0 .. bpNow
    BY BpTimes
  <1> QED
    BY <1>4, <1>5, <1>6, <1>8, <1>9, <1>10, <1>11, <1>12, Zenon
    DEF BpNext, StartRun, CaptureEvidence, DetectCandidate, PublishRef, OpenCandidatePr, ReviewCandidate,
        OpenDirectPr, EditPr, BpTick, Branches

(* Where the refs are the workflow's, a candidate's pull request has the head   *)
(* it had, or a newer one.                                                  *)
LEMMA BpHeadsNewer ==
    ASSUME BpInv, BpNext, NEW p \in bpPrs, NEW q \in bpPrs', "refs" \in bpRules,
           p.target = q.target, p.name = q.name, p.name # NoCommit
    PROVE  q.head \in {p.head, Len(bpCommits) + 1}
  <1>0. /\ \A r \in bpPrs : r.target = p.target /\ r.name = p.name => r = p
        /\ bpPrs \subseteq PullRequest
    BY DEF BpInv, PrsSound
  <1>1. CASE bpPrs' \subseteq bpPrs
    BY <1>0, <1>1
  <1>2. ASSUME NEW branch, NEW commits, NEW head, NEW closed, StandAt(branch, commits, head, closed)
        PROVE  q = p
    <2> DEFINE heads == [bpHeads EXCEPT ![branch] = head]
               follows(pr) == /\ pr.name = NoCommit
                              /\ pr.target = IF branch = "dev" THEN "staged" ELSE IF branch = "staged" THEN "main" ELSE "none"
    <2>1. PICK r \in bpPrs : q = IF follows(r) THEN Checked([r EXCEPT !.head = head], commits, heads) ELSE r
      BY <1>2, Zenon DEF StandAt
    <2>2. r \in PullRequest
      BY <1>0
    <2>3. q.name = r.name
      BY <2>1, <2>2 DEF Checked, PullRequest
    <2>4. q = r
      BY <2>1, <2>3
    <2> QED
      BY <1>0, <2>4
  <1>3. ASSUME NEW queue \in Queues, OpenCandidatePr(queue)
        PROVE  q \in bpPrs
    <2> DEFINE run == bpRuns[queue]
               target == TargetOf(queue)
               pr == [target |-> target, name |-> run.source, head |-> run.source, base |-> run.target,
                      complete |-> target = "staged", passed |-> FALSE]
               new == Checked(pr, bpCommits, bpHeads)
    <2>1. bpPrs' = bpPrs \/ (PrsFor(target, run.source) = {} /\ bpPrs' = bpPrs \cup {new})
      BY <1>3, Zenon DEF OpenCandidatePr
    <2>2. new.target = target /\ new.name = run.source
      BY DEF Checked
    <2> HIDE DEF new
    <2> QED
      BY <2>1, <2>2 DEF PrsFor
  <1>4. ASSUME NEW target, OpenDirectPr(target)
        PROVE  q \in bpPrs
    BY <1>4 DEF OpenDirectPr, Checked
  <1>5. ASSUME NEW pr \in bpPrs, EditPr(pr)
        PROVE  q.head = p.head
    <2>1. PICK base : bpPrs' = (bpPrs \ {pr}) \cup
            {Checked([pr EXCEPT !.complete = TRUE, !.base = IF pr.name = NoCommit THEN @ ELSE base],
                     bpCommits, bpHeads)}
      BY <1>5, Zenon DEF EditPr
    <2> DEFINE new == Checked([pr EXCEPT !.complete = TRUE, !.base = IF pr.name = NoCommit THEN @ ELSE base],
                              bpCommits, bpHeads)
    <2>2. new.target = pr.target /\ new.name = pr.name /\ new.head = pr.head
      BY <1>0 DEF Checked, PullRequest
    <2>3. q \in bpPrs \/ q = new
      BY <2>1
    <2> HIDE DEF new
    <2> QED
      BY <1>0, <2>2, <2>3
  <1>6. ASSUME NEW pr \in bpPrs, UpdateBranch(pr)
        PROVE  q.head \in {p.head, Len(bpCommits) + 1}
    <2> DEFINE commits == Append(bpCommits, NewCommit("candidate", pr.head, bpHeads[pr.target], NoCommit, "update"))
               new == Checked([pr EXCEPT !.head = Len(bpCommits) + 1], commits, bpHeads)
    <2>1. bpPrs' = (bpPrs \ {pr}) \cup {new}
      BY <1>6 DEF UpdateBranch, MoveCandidate
    <2> HIDE DEF commits
    <2>2. new.head = Len(bpCommits) + 1
      BY <1>0 DEF Checked, PullRequest
    <2> HIDE DEF new
    <2> QED
      BY <1>0, <2>1, <2>2
  <1>7. /\ \A pr, head : ~PushCandidate(pr, head)
        /\ \A target, commits, name : ~OpenByHand(target, commits, name)
    BY DEF PushCandidate, OpenByHand
  <1>8. ASSUME NEW branch, NEW commit, NEW closed, MoveBranch(branch, commit, closed)
        PROVE  q = p
    BY <1>2, <1>8 DEF MoveBranch
  <1>9. ASSUME \/ \E form, checklist : WorkLands(form, checklist)
               \/ \E branch, head, at : BackMerge(branch, head) \/ LandUnchecked(branch, head, at)
               \/ \E head : ForceStaged(head)
               \/ \E pr : MergePr(pr)
        PROVE  q = p
    BY <1>2, <1>8, <1>9, Zenon DEF WorkLands, BackMerge, LandUnchecked, ForceStaged, MergePr
  <1> QED
    BY <1>0, <1>1, <1>3, <1>4, <1>5, <1>6, <1>7, <1>9, Zenon
    DEF BpNext, StartRun, CaptureEvidence, DetectCandidate, PublishRef, ReviewCandidate, BpTick

LEMMA BpStepFinal == BpInv /\ BpNext => BpFinal
  <1> SUFFICES ASSUME BpInv, BpNext PROVE BpFinal
    OBVIOUS
  <1>1. DOMAIN bpHeads = Branches
    BY DEF BpInv
  <1>2. BpInv'
    BY BpStepInv
  <1>3. ASSUME NEW p \in bpPrs, NEW q \in bpPrs', "refs" \in bpRules,
               p.target = q.target, p.name = q.name, p.name # NoCommit, p.head # p.name, q.passed
        PROVE  FALSE
    <2>1. q.head = q.name
      BY <1>2, <1>3 DEF BpInv, PrsSound, PrSound
    <2>2. p.name \in 1 .. Len(bpCommits)
      BY <1>3 DEF BpInv, PrsSound, PrSound, Source
    <2>3. p.name # Len(bpCommits) + 1
      BY <2>2, BpTimes
    <2> QED
      BY <1>3, <2>1, <2>3, BpHeadsNewer
  <1> QED
    BY <1>1, <1>3, BpBranchesGrow DEF BpFinal

(* Theorem: where main requires the check, what came onto main brought a merge *)
(* past the dwell time; under all the rules that merge was made on staged and     *)
(* really stayed there, and what came onto staged was made on dev or came as a     *)
(* back-merge.  No candidate is opened twice (BpSound).                      *)
THEOREM PromotionSound == BpInit /\ [][BpNext]_bpVars => []BpSound
  BY BpInitInv, BpStepInv, BpInvSound, PTL

(* Theorem: no branch whose rules refuse it loses a commit, and a candidate of *)
(* the workflow whose head was moved never passes again, however it is edited    *)
(* (BpFinal).                                                               *)
THEOREM PromotionFinal == BpInit /\ [][BpNext]_bpVars => [][BpFinal]_bpVars
  <1>1. BpInv /\ [BpNext]_bpVars => [BpFinal]_bpVars
    BY BpStepFinal
  <1> QED
    BY <1>1, BpInitInv, BpStepInv, PTL

(***************************************************************************)
(* A task of a swarm.                                                       *)
(***************************************************************************)

(* The reports that were ever sent are one history of the agent, of which      *)
(* sdReported is the last: one report of each number.                        *)
OneHistory ==
    /\ \A m \in sdSent : m.report \in Reports /\ m.report.sequence \in 1 .. sdReported.sequence
    /\ \A m, n \in sdSent : m.report.sequence = n.report.sequence => m.report = n.report
    /\ \A m \in sdSent : m.report.sequence = sdReported.sequence => m.report = sdReported

SdInv ==
    /\ sdReported \in Reports /\ sdKnown \in Reports
    /\ sdReported.sequence = 0 => sdReported = Proposed
    /\ OneHistory
    /\ sdKnown = Proposed \/ \E m \in sdSent : m.report = sdKnown
    /\ sdRequirements \in TaskRequirements /\ sdAgent \in DOMAIN AgentOffers \cup {NoAgent}
    /\ sdAgent # NoAgent => Met(sdAgent) = sdRequirements

LEMMA ProposedReport == Proposed \in Reports /\ Proposed.sequence = 0
  BY SwarmDelegationAssumption DEF Proposed, Reports, LifecycleStates

LEMMA SdInitInv == SdInit => SdInv
  BY ProposedReport DEF SdInit, SdInv, OneHistory

(* The range "^" of a version admits what agrees with it in the first number   *)
(* that is not 0.                                                           *)
LEMMA CaretCompatible ==
    ASSUME NEW v \in Nat \X Nat \X Nat, NEW range, range.op # "*" => range.version \in Nat \X Nat \X Nat,
           Satisfies(v, range)
    PROVE  Compatible(v, range)
  <1> SUFFICES ASSUME range.op = "^" PROVE Compatible(v, range)
    BY DEF Compatible
  <1> DEFINE w == range.version
             First(i) == (w[i] > 0 \/ i = 3) /\ \A j \in 1 .. i - 1 : w[j] = 0
             leading == CHOOSE i \in 1 .. 3 : First(i)
  <1>1. w \in Nat \X Nat \X Nat
    OBVIOUS
  <1>2. AtLeast(v, w) /\ ~AtLeast(v, CaretCeiling(w))
    BY DEF Satisfies
  <1>3. \E i \in 1 .. 3 : First(i)
    <2>1. CASE w[1] > 0
      BY <2>1
    <2>2. CASE w[1] = 0 /\ w[2] > 0
      <3>1. First(2)
        BY <2>2
      <3> QED
        BY <3>1
    <2>3. CASE w[1] = 0 /\ w[2] = 0
      <3>1. First(3)
        BY <2>3
      <3> QED
        BY <3>1
    <2> QED
      BY <1>1, <2>1, <2>2, <2>3
  <1>4. leading \in 1 .. 3 /\ First(leading)
    BY <1>3
  <1>5. \A i \in 1 .. leading : v[i] = w[i]
    <2>1. CASE w[1] > 0
      <3>1. leading = 1
        BY <1>4, <2>1
      <3>2. CaretCeiling(w) = <<w[1] + 1, 0, 0>>
        BY <2>1 DEF CaretCeiling
      <3> QED
        BY <1>1, <1>2, <3>1, <3>2 DEF AtLeast
    <2>2. CASE w[1] = 0 /\ w[2] > 0
      <3>1. leading = 2
        BY <1>4, <2>2
      <3>2. CaretCeiling(w) = <<0, w[2] + 1, 0>>
        BY <2>2 DEF CaretCeiling
      <3>3. v[1] = w[1] /\ v[2] = w[2]
        BY <1>1, <1>2, <3>2, <2>2 DEF AtLeast
      <3> QED
        BY <3>1, <3>3
    <2>3. CASE w[1] = 0 /\ w[2] = 0
      <3>1. CaretCeiling(w) = <<0, 0, w[3] + 1>>
        BY <2>3 DEF CaretCeiling
      <3>2. v[1] = w[1] /\ v[2] = w[2] /\ v[3] = w[3]
        BY <1>1, <1>2, <3>1, <2>3 DEF AtLeast
      <3> QED
        BY <1>4, <3>2
    <2> QED
      BY <1>1, <2>1, <2>2, <2>3
  <1> QED
    BY <1>5 DEF Compatible

LEMMA SdInvSound == SdInv => SdSound
  <1> SUFFICES ASSUME SdInv PROVE SdSound
    OBVIOUS
  <1>1. sdKnown = Proposed \/ \E m \in sdSent : m.report = sdKnown
    BY DEF SdInv
  <1>2. /\ sdKnown.sequence <= sdReported.sequence
        /\ sdKnown.sequence = sdReported.sequence => sdKnown = sdReported
    BY <1>1, ProposedReport, SwarmDelegationAssumption DEF SdInv, OneHistory, Reports
  <1>3. ASSUME sdAgent # NoAgent, NEW q \in sdRequirements, NEW range \in q.ranges
        PROVE  Compatible(AgentOffers[sdAgent].offers[q.capability].version, range)
    <2>1. Meets(sdAgent, q) /\ sdAgent \in DOMAIN AgentOffers
      BY <1>3 DEF SdInv, Met
    <2>2. /\ q.capability \in DOMAIN AgentOffers[sdAgent].offers
          /\ Satisfies(AgentOffers[sdAgent].offers[q.capability].version, range)
      BY <2>1 DEF Meets
    <2>3. /\ AgentOffers[sdAgent].offers[q.capability].version \in Nat \X Nat \X Nat
          /\ range.op # "*" => range.version \in Nat \X Nat \X Nat
      BY <2>1, <2>2, SwarmDelegationAssumption DEF SdInv
    <2> QED
      BY <2>2, <2>3, CaretCompatible
  <1> QED
    BY <1>1, <1>2, <1>3 DEF SdSound

LEMMA SuccessorStates == \A s \in LifecycleStates : Successors[s] \subseteq LifecycleStates
  BY DEF Successors, LifecycleStates

LEMMA EnvelopeReport == \A r : Envelope(r).report = r
  BY DEF Envelope

LEMMA SdStepInv == SdInv /\ [SdNext]_sdVars => SdInv'
  <1> SUFFICES ASSUME SdInv, [SdNext]_sdVars PROVE SdInv'
    OBVIOUS
  <1>1. ASSUME NEW a \in DOMAIN AgentOffers, Delegate(a) PROVE SdInv'
    BY <1>1 DEF Delegate, SdInv, OneHistory, SelectedCandidates, Met, Meets
  <1>2. ASSUME NEW to \in LifecycleStates, ReportLifecycle(to) PROVE SdInv'
    <2>1. PICK next : /\ next = [state |-> to, sequence |-> sdReported.sequence + 1]
                      /\ sdReported' = next /\ sdSent' = sdSent \cup {Envelope(next)}
      BY <1>2 DEF ReportLifecycle
    <2>2. next \in Reports /\ next.sequence = sdReported.sequence + 1 /\ next.sequence \in 1 .. next.sequence
      BY <1>2, <2>1, SwarmDelegationAssumption DEF ReportLifecycle, SdInv, Reports
    <2>3. \A m \in sdSent : m.report.sequence \in Nat /\ m.report.sequence < next.sequence /\ m.report.sequence >= 1
      BY <2>2 DEF SdInv, OneHistory, Reports
    <2>4. OneHistory'
      BY <2>1, <2>2, <2>3, EnvelopeReport DEF SdInv, OneHistory, Reports
    <2>5. next.sequence # 0
      BY <2>2
    <2>6. sdReported' \in Reports /\ sdReported'.sequence # 0
      BY <2>1, <2>2, <2>5
    <2> QED
      BY <1>2, <2>1, <2>4, <2>6 DEF ReportLifecycle, SdInv, Met, Meets
  <1>3. CASE ReportAgain
    <2>1. sdReported.sequence \in 1 .. sdReported.sequence
      BY <1>3, SwarmDelegationAssumption DEF ReportAgain, SdInv, Reports
    <2>2. OneHistory'
      BY <1>3, <2>1, EnvelopeReport DEF ReportAgain, SdInv, OneHistory
    <2> QED
      BY <1>3, <2>2 DEF ReportAgain, SdInv, Met, Meets
  <1>4. ASSUME NEW m \in sdSent, Accept(m) PROVE SdInv'
    BY <1>4 DEF Accept, SdInv, OneHistory, Met, Meets
  <1>5. CASE SdTick \/ UNCHANGED sdVars
    BY <1>5 DEF SdTick, sdVars, SdInv, OneHistory, Met, Meets
  <1> QED
    BY <1>1, <1>2, <1>3, <1>4, <1>5 DEF SdNext

LEMMA SdStepFinal == SdInv /\ SdNext => SdFinal
  <1> SUFFICES ASSUME SdInv, SdNext PROVE SdFinal
    OBVIOUS
  <1>1. CASE \E a \in DOMAIN AgentOffers : Delegate(a)
    BY <1>1 DEF Delegate, SdFinal
  <1>2. CASE \E to \in LifecycleStates : ReportLifecycle(to)
    BY <1>2 DEF ReportLifecycle, ValidTransition, SdFinal, Terminal
  <1>3. CASE \E m \in sdSent : Accept(m)
    BY <1>3 DEF Accept, ValidTransition, SdFinal, Terminal
  <1>4. CASE ReportAgain \/ SdTick
    BY <1>4 DEF ReportAgain, SdTick, SdFinal
  <1> QED
    BY <1>1, <1>2, <1>3, <1>4 DEF SdNext

(* Theorem: however envelopes are lost, repeated, reordered or late, what the    *)
(* coordinator knows of a task the agent reported, and it agrees with the agent  *)
(* when it knows the agent's last; the agent at work offers, for every "^"         *)
(* range, what agrees in the first number that is not 0 (SdSound).           *)
THEOREM DelegationSound == SdInit /\ [][SdNext]_sdVars => []SdSound
  BY SdInitInv, SdStepInv, SdInvSound, PTL

(* Theorem: a task that is over stays over on both sides, the coordinator skips  *)
(* no report, and nobody else gets the task (SdFinal).                        *)
THEOREM DelegationFinal == SdInit /\ [][SdNext]_sdVars => [][SdFinal]_sdVars
  <1>1. SdInv /\ [SdNext]_sdVars => [SdFinal]_sdVars
    BY SdStepFinal
  <1> QED
    BY <1>1, SdInitInv, SdStepInv, PTL

(***************************************************************************)
(* What agents may be given.                                                *)
(***************************************************************************)
SnapshotTold(s) ==
    /\ s.missing = RequiredSources(s.allowlist) \ HeldSources(s.entries)
    /\ s.entries \subseteq s.given /\ Keys(s.entries) = Keys(s.given)
    /\ RequiredSources(s.allowlist) \subseteq HeldSources(s.given)

DtInv ==
    /\ \A a \in dtAllowlists : a.inputs = InputKeys
    /\ \A s \in dtSnapshots : s.allowlist \in dtAllowlists /\ SnapshotTold(s)

LEMMA DtInitInv == DtInit => DtInv
  BY DEF DtInit, DtInv

(* The keys and the sources of what is put together are those of its parts.    *)
LEMMA PutTogether ==
    ASSUME NEW r, NEW s
    PROVE  /\ Keys(r \cup s) = Keys(r) \cup Keys(s)
           /\ HeldSources(r \cup s) = HeldSources(r) \cup HeldSources(s)
           /\ r \subseteq s => HeldSources(r) \subseteq HeldSources(s)
  BY DEF Keys, HeldSources

(* What is kept was given, and every key is kept.                            *)
LEMMA KeptOfGiven ==
    ASSUME NEW given, NEW entries \in Resolutions(given)
    PROVE  entries \subseteq given /\ Keys(entries) = Keys(given)
  BY DEF Resolutions

LEMMA DtStepInv == DtInv /\ [DtNext]_dtVars => DtInv'
  <1> SUFFICES ASSUME DtInv, [DtNext]_dtVars PROVE DtInv'
    OBVIOUS
  <1>1. ASSUME NEW d, NEW wanted, NEW requiredInputs, DeriveContextAllowlist(d, wanted, InputKeys, requiredInputs)
        PROVE  DtInv'
    <2>1. Derived(d, dtAnchor, wanted, InputKeys, requiredInputs).inputs = InputKeys
      BY DEF Derived
    <2> QED
      BY <1>1, <2>1 DEF DeriveContextAllowlist, DtInv
  <1>2. ASSUME NEW s, KeepSnapshot(s), s.allowlist \in dtAllowlists, SnapshotTold(s)
        PROVE  DtInv'
    <2>1. dtSnapshots' \subseteq dtSnapshots \cup {s} /\ dtAllowlists' = dtAllowlists
      BY <1>2 DEF KeepSnapshot
    <2> QED
      BY <1>2, <2>1, Zenon DEF DtInv
  <1>3. ASSUME NEW allowlist \in dtAllowlists, NEW d, NEW given, PackageUnder(allowlist, d, given)
        PROVE  DtInv'
    <2>1. PICK entries \in Resolutions(given) :
            /\ RequiredSources(allowlist) \subseteq HeldSources(entries)
            /\ KeepSnapshot(SnapshotOf(allowlist, entries, given))
      BY <1>3 DEF PackageUnder
    <2>2. entries \subseteq given /\ Keys(entries) = Keys(given)
      BY KeptOfGiven
    <2>3. RequiredSources(allowlist) \subseteq HeldSources(given)
      BY <2>1, <2>2, PutTogether
    <2>4. SnapshotTold(SnapshotOf(allowlist, entries, given))
      BY <2>2, <2>3 DEF SnapshotTold, SnapshotOf
    <2>5. SnapshotOf(allowlist, entries, given).allowlist \in dtAllowlists
      BY DEF SnapshotOf
    <2> QED
      BY <1>2, <2>1, <2>4, <2>5
  <1>4. ASSUME NEW r \in dtSnapshots, NEW s \in dtSnapshots, NEW d, MergeUnder(r, s, d) PROVE DtInv'
    <2>1. PICK entries \in Resolutions(r.entries \cup s.entries) :
            /\ ValidSnapshot(s, r.allowlist, d, dtAnchor)
            /\ KeepSnapshot(SnapshotOf(r.allowlist, entries, r.given \cup s.given))
      BY <1>4 DEF MergeUnder
    <2>2. r.allowlist \in dtAllowlists /\ SnapshotTold(r) /\ SnapshotTold(s)
      BY DEF DtInv
    <2>3. entries \subseteq r.entries \cup s.entries /\ Keys(entries) = Keys(r.entries \cup s.entries)
      BY KeptOfGiven, Zenon
    <2>4. entries \subseteq r.given \cup s.given /\ Keys(entries) = Keys(r.given \cup s.given)
      <3>1. Keys(r.entries \cup s.entries) = Keys(r.entries) \cup Keys(s.entries)
        BY PutTogether, Zenon
      <3>2. Keys(r.given \cup s.given) = Keys(r.given) \cup Keys(s.given)
        BY PutTogether, Zenon
      <3>3. Keys(r.entries) = Keys(r.given) /\ Keys(s.entries) = Keys(s.given)
        BY <2>2, Zenon DEF SnapshotTold
      <3>4. r.entries \subseteq r.given /\ s.entries \subseteq s.given
        BY <2>2, Zenon DEF SnapshotTold
      <3>5. entries \subseteq r.given \cup s.given
        BY <2>3, <3>4, Zenon
      <3>6. Keys(entries) = Keys(r.given \cup s.given)
        BY <2>3, <3>1, <3>2, <3>3, Zenon
      <3> QED
        BY <3>5, <3>6
    <2>5. RequiredSources(r.allowlist) \subseteq HeldSources(r.given \cup s.given)
      <3>1. RequiredSources(r.allowlist) \subseteq HeldSources(r.given)
        BY <2>2, Zenon DEF SnapshotTold
      <3>2. HeldSources(r.given \cup s.given) = HeldSources(r.given) \cup HeldSources(s.given)
        BY PutTogether, Zenon
      <3> QED
        BY <3>1, <3>2, Zenon
    <2>6. SnapshotTold(SnapshotOf(r.allowlist, entries, r.given \cup s.given))
      BY <2>4, <2>5 DEF SnapshotTold, SnapshotOf
    <2>7. SnapshotOf(r.allowlist, entries, r.given \cup s.given).allowlist \in dtAllowlists
      BY <2>2 DEF SnapshotOf
    <2> QED
      BY <1>2, <2>1, <2>6, <2>7
  <1>5. CASE \/ \E w \in Overwrites : Overwrite(w)
             \/ \E d \in Discoveries(dtTexts) : BuildDiscoveryTrustAnchor(d)
             \/ UNCHANGED dtVars
    BY <1>5 DEF Overwrite, BuildDiscoveryTrustAnchor, dtVars, DtInv
  <1> QED
    BY <1>1, <1>3, <1>4, <1>5, Zenon DEF DtNext

(* What is derived of a discovery names the anchor it was derived under, and    *)
(* no path that was not found.                                              *)
LEMMA ProvenanceBinds ==
    ASSUME NEW a, NEW d, NEW anchor, Provenance(a, d, anchor)
    PROVE  /\ a.anchor = anchor /\ a.discovery = d
           /\ {"manifest", "registry"} \subseteq DOMAIN a.paths
           /\ DOMAIN a.paths \subseteq DOMAIN Projection(d)
           /\ Projectable(d) /\ Agrees(d, anchor)
  <1>1. a = Derived(d, anchor, a.paths, a.inputs, a.requiredInputs)
    BY DEF Provenance
  <1>2. a.anchor = anchor /\ a.discovery = d
    BY <1>1 DEF Derived
  <1>3. DOMAIN a.paths = DOMAIN a.paths \cup {"manifest", "registry"}
    BY <1>1 DEF Derived
  <1> QED
    BY <1>2, <1>3 DEF Provenance, Derivable

LEMMA ProjectionDomain ==
    ASSUME NEW d
    PROVE  DOMAIN Projection(d) =
             {"manifest", "registry"} \cup PathsOf(d.required) \cup PathsOf(d.skills) \cup PathsOf(d.optional)
  BY DEF Projection

LEMMA PathsFound ==
    ASSUME NEW attested, NEW p
    PROVE  p \in PathsOf(attested) <=> \E x \in attested : x.path = p
  BY DEF PathsOf

LEMMA DtInvSound == DtInv => DtSound
  <1> SUFFICES ASSUME DtInv, NEW s \in dtSnapshots, StillUsable(s, dtAnchor)
               PROVE  LET found == s.allowlist.discovery
                          trusted == dtAnchor.required \cup dtAnchor.optional \cup dtAnchor.skills
                      IN
                      /\ Keys(s.entries) = Keys(s.given)
                      /\ s.missing = RequiredSources(s.allowlist) \ HeldSources(s.entries)
                      /\ \A p \in s.missing : \E g \in s.given, h \in s.entries :
                          g.source = p /\ g.key = h.key
                      /\ \A p \in HeldSources(s.entries) \ (InputKeys \cup {"manifest", "registry"}) :
                          /\ \E x \in trusted : x.path = p /\ x \in found.required \cup found.optional \cup found.skills
                          /\ p \notin HiddenPaths
                      /\ DOMAIN s.allowlist.paths \subseteq DOMAIN Projection(dtAnchor)
                      /\ {"manifest", "registry"} \subseteq DOMAIN s.allowlist.paths
    BY DEF DtSound
  <1> DEFINE a == s.allowlist
             trusted == dtAnchor.required \cup dtAnchor.optional \cup dtAnchor.skills
             found == a.discovery.required \cup a.discovery.optional \cup a.discovery.skills
  <1>1. Provenance(a, a.discovery, dtAnchor) /\ HeldSources(s.entries) \subseteq AllowedSources(a)
    <2>1. PICK d : ValidSnapshot(s, a, d, dtAnchor)
      BY DEF StillUsable
    <2> QED
      BY <2>1, ProvenanceBinds DEF ValidSnapshot
  <1>2. /\ {"manifest", "registry"} \subseteq DOMAIN a.paths
        /\ DOMAIN a.paths \subseteq DOMAIN Projection(a.discovery)
        /\ Projectable(a.discovery) /\ Agrees(a.discovery, dtAnchor)
    BY <1>1, ProvenanceBinds
  <1>3. found \subseteq trusted
    BY <1>2 DEF Agrees
  <1>4. ASSUME NEW p \in DOMAIN a.paths, p \notin {"manifest", "registry"}
        PROVE  p \notin HiddenPaths /\ \E x \in found : x.path = p
    <2>1. p \in PathsOf(a.discovery.required) \cup PathsOf(a.discovery.skills) \cup PathsOf(a.discovery.optional)
      BY <1>2, <1>4, ProjectionDomain, Zenon
    <2>2. PICK x \in found : x.path = p
      BY <2>1, PathsFound
    <2>3. p \in PathsOf(found)
      BY <2>2, PathsFound
    <2> QED
      BY <1>2, <2>2, <2>3 DEF Projectable
  <1>5. DOMAIN a.paths \subseteq DOMAIN Projection(dtAnchor)
    <2> SUFFICES ASSUME NEW p \in DOMAIN a.paths, p \notin {"manifest", "registry"}
                 PROVE  p \in DOMAIN Projection(dtAnchor)
      BY ProjectionDomain, Zenon
    <2>1. PICK x \in trusted : x.path = p
      BY <1>3, <1>4
    <2> QED
      BY <2>1, ProjectionDomain, PathsFound, Zenon
  <1>6. a.inputs = InputKeys /\ SnapshotTold(s)
    BY DEF DtInv
  <1>7. ASSUME NEW p \in HeldSources(s.entries) \ (InputKeys \cup {"manifest", "registry"})
        PROVE  p \notin HiddenPaths /\ \E x \in trusted : x.path = p /\ x \in found
    <2>1. p \in DOMAIN a.paths
      BY <1>1, <1>6 DEF AllowedSources
    <2> QED
      BY <1>3, <1>4, <2>1
  <1>8. ASSUME NEW p \in s.missing PROVE \E g \in s.given, h \in s.entries : g.source = p /\ g.key = h.key
    <2>1. p \in HeldSources(s.given)
      BY <1>6 DEF SnapshotTold
    <2>2. PICK g \in s.given : g.source = p
      BY <2>1 DEF HeldSources
    <2>3. g.key \in Keys(s.entries)
      BY <1>6 DEF SnapshotTold, Keys
    <2> QED
      BY <2>2, <2>3 DEF Keys
  <1> QED
    BY <1>2, <1>5, <1>6, <1>7, <1>8 DEF SnapshotTold

LEMMA DtStepFinal == DtNext => DtFinal
  <1>1. \A s, anchor : StillUsable(s, anchor) => s.allowlist.anchor = anchor
    BY ProvenanceBinds DEF StillUsable, ValidSnapshot
  <1> QED
    BY <1>1 DEF DtFinal

(* Theorem: however a snapshot that can still be used was packaged and merged, it  *)
(* says rightly what required sources it lacks, and lacks one only where another     *)
(* came under the same key; each file in it is one the anchor trusts, discovered     *)
(* with the content that is trusted and not hidden (DtSound).                   *)
THEOREM TrustSound == DtInit /\ [][DtNext]_dtVars => []DtSound
  BY DtInitInv, DtStepInv, DtInvSound, PTL

(* Theorem: when the deployment trusts something else, no snapshot that could be   *)
(* used remains usable (DtFinal).                                            *)
THEOREM TrustFinal == DtInit /\ [][DtNext]_dtVars => [][DtFinal]_dtVars
  <1>1. [DtNext]_dtVars => [DtFinal]_dtVars
    BY DtStepFinal
  <1> QED
    BY <1>1, PTL

(***************************************************************************)
(* Context snapshots.                                                       *)
(***************************************************************************)
Alive(e, now) == IF ExpiredAt(e, now) THEN 0 ELSE 1

Fresh(e, now) == IF StaleAt(e, now) THEN 0 ELSE 1

(* Above, component by component.                                            *)
Higher(d, e, now) ==
    \/ Alive(d, now) > Alive(e, now)
    \/ /\ Alive(d, now) = Alive(e, now)
       /\ \/ Fresh(d, now) > Fresh(e, now)
          \/ /\ Fresh(d, now) = Fresh(e, now)
             /\ \/ d.precedence > e.precedence
                \/ /\ d.precedence = e.precedence
                   /\ d.captured > e.captured \/ (d.captured = e.captured /\ d.id < e.id)

LEMMA AboveForm ==
    ASSUME NEW d \in ContextEntries, NEW e \in ContextEntries, NEW now
    PROVE  Above(d, e, now) <=> Higher(d, e, now)
  <1>1. PICK p, q : p = EntryRank(d, now) /\ q = EntryRank(e, now)
    OBVIOUS
  <1>2. /\ p[1] = Alive(d, now) /\ p[2] = Fresh(d, now) /\ p[3] = d.precedence
        /\ p[4] = d.captured /\ p[5] = -d.id
        /\ q[1] = Alive(e, now) /\ q[2] = Fresh(e, now) /\ q[3] = e.precedence
        /\ q[4] = e.captured /\ q[5] = -e.id
    BY <1>1 DEF EntryRank, Alive, Fresh
  <1>3. /\ Alive(d, now) \in 0 .. 1 /\ Fresh(d, now) \in 0 .. 1 /\ d.precedence \in Nat /\ d.captured \in Nat /\ d.id \in Nat
        /\ Alive(e, now) \in 0 .. 1 /\ Fresh(e, now) \in 0 .. 1 /\ e.precedence \in Nat /\ e.captured \in Nat /\ e.id \in Nat
    BY SwarmContextAssumption DEF Alive, Fresh
  <1>4. Above(d, e, now) <=> \E i \in 1 .. 5 : p[i] > q[i] /\ \A j \in 1 .. i - 1 : p[j] = q[j]
    BY <1>1 DEF Above
  <1>5. (\E i \in 1 .. 5 : p[i] > q[i] /\ \A j \in 1 .. i - 1 : p[j] = q[j]) <=>
            \/ p[1] > q[1]
            \/ p[1] = q[1] /\ p[2] > q[2]
            \/ p[1] = q[1] /\ p[2] = q[2] /\ p[3] > q[3]
            \/ p[1] = q[1] /\ p[2] = q[2] /\ p[3] = q[3] /\ p[4] > q[4]
            \/ p[1] = q[1] /\ p[2] = q[2] /\ p[3] = q[3] /\ p[4] = q[4] /\ p[5] > q[5]
    <2>1. \A j \in 1 .. 1 - 1 : p[j] = q[j]
      OBVIOUS
    <2>2. (\A j \in 1 .. 2 - 1 : p[j] = q[j]) <=> p[1] = q[1]
      OBVIOUS
    <2>3. (\A j \in 1 .. 3 - 1 : p[j] = q[j]) <=> p[1] = q[1] /\ p[2] = q[2]
      OBVIOUS
    <2>4. (\A j \in 1 .. 4 - 1 : p[j] = q[j]) <=> p[1] = q[1] /\ p[2] = q[2] /\ p[3] = q[3]
      OBVIOUS
    <2>5. (\A j \in 1 .. 5 - 1 : p[j] = q[j]) <=> p[1] = q[1] /\ p[2] = q[2] /\ p[3] = q[3] /\ p[4] = q[4]
      OBVIOUS
    <2>6. \A i : i \in 1 .. 5 <=> i = 1 \/ i = 2 \/ i = 3 \/ i = 4 \/ i = 5
      OBVIOUS
    <2> QED
      BY <2>1, <2>2, <2>3, <2>4, <2>5, <2>6
  <1>6. p[5] > q[5] <=> d.id < e.id
    BY <1>2, <1>3
  <1> QED
    BY <1>2, <1>4, <1>5, <1>6 DEF Higher

(* A strict order that tells all entries apart.                              *)
LEMMA AboveOrder ==
    ASSUME NEW c \in ContextEntries, NEW d \in ContextEntries, NEW e \in ContextEntries, NEW now
    PROVE  /\ ~Above(e, e, now)
           /\ Above(c, d, now) /\ Above(d, e, now) => Above(c, e, now)
           /\ d = e \/ Above(d, e, now) \/ Above(e, d, now)
  <1>1. \A x \in ContextEntries : /\ Alive(x, now) \in 0 .. 1 /\ Fresh(x, now) \in 0 .. 1
                                  /\ x.precedence \in Nat /\ x.captured \in Nat /\ x.id \in Nat
    BY SwarmContextAssumption DEF Alive, Fresh
  <1>2. ~Higher(e, e, now)
    BY <1>1 DEF Higher
  <1>3. Higher(c, d, now) /\ Higher(d, e, now) => Higher(c, e, now)
    BY <1>1 DEF Higher
  <1>4. d = e \/ Higher(d, e, now) \/ Higher(e, d, now)
    <2>1. d.id = e.id => d = e
      BY SwarmContextAssumption
    <2> QED
      BY <1>1, <2>1 DEF Higher
  <1> QED
    BY <1>2, <1>3, <1>4, AboveForm

(* What is current goes before what is not.                                  *)
LEMMA AboveCurrent ==
    ASSUME NEW d \in ContextEntries, NEW e \in ContextEntries, NEW now,
           Above(d, e, now), Current(e, now)
    PROVE  Current(d, now)
  <1>1. Higher(d, e, now)
    BY AboveForm
  <1> QED
    BY <1>1 DEF Higher, Current, Alive, Fresh

(* Of the entries of a finite set, each is kept or loses to one that is kept:  *)
(* take the one above it that has the fewest others above it.                *)
LEMMA ResolvedKeeps ==
    ASSUME NEW entries, entries \subseteq ContextEntries, IsFiniteSet(entries), NEW now, NEW e \in entries
    PROVE  \E w \in Resolved(entries, now) : w.key = e.key /\ (w = e \/ Above(w, e, now))
  <1> DEFINE Rivals(x) == {d \in entries : d.key = x.key /\ Above(d, x, now)}
             Candidates == {x \in entries : x.key = e.key /\ (x = e \/ Above(x, e, now))}
             Sizes == {Cardinality(Rivals(x)) : x \in Candidates}
  <1>1. \A x : IsFiniteSet(Rivals(x)) /\ Cardinality(Rivals(x)) \in Nat
    <2>1. \A x : Rivals(x) \subseteq entries
      OBVIOUS
    <2> QED
      BY <2>1, FS_Subset, FS_CardinalityType
  <1>2. e \in Candidates
    OBVIOUS
  <1>3. Sizes \subseteq Nat /\ Sizes # {}
    BY <1>1, <1>2, Zenon
  <1>4. PICK m \in Sizes : \A n \in Sizes : m <= n
    BY <1>3, LeastElement, Zenon
  <1>5. PICK w \in Candidates : m = Cardinality(Rivals(w))
    BY <1>4
  <1>6. ASSUME NEW d \in Rivals(w) PROVE FALSE
    <2>1. d \in entries /\ d.key = w.key /\ Above(d, w, now)
      BY <1>6
    <2>2. d \in Candidates
      BY <1>5, <2>1, AboveOrder
    <2>3. \A x \in entries : Above(x, d, now) => Above(x, w, now)
      BY <1>5, <2>1, AboveOrder
    <2>4. Rivals(d) \subseteq Rivals(w)
      BY <2>1, <2>3
    <2>5. d \in Rivals(w) /\ d \notin Rivals(d)
      BY <1>6, <2>1, AboveOrder
    <2>6. Cardinality(Rivals(d)) < Cardinality(Rivals(w))
      <3> HIDE DEF Rivals
      <3> QED
        BY <1>1, <2>4, <2>5, FS_Subset
    <2>7. Cardinality(Rivals(d)) \in Sizes
      BY <2>2, Zenon
    <2>8. m <= Cardinality(Rivals(d))
      BY <1>4, <2>7, Zenon
    <2> QED
      <3> HIDE DEF Rivals
      <3>1. Cardinality(Rivals(d)) \in Nat /\ Cardinality(Rivals(w)) \in Nat
        BY <1>1
      <3> QED
        BY <1>5, <2>6, <2>8, <3>1
  <1>7. w \in Resolved(entries, now)
    BY <1>5, <1>6 DEF Resolved
  <1> QED
    BY <1>5, <1>7

LEMMA ResolvedSubset == \A entries, now : Resolved(entries, now) \subseteq entries
  BY DEF Resolved

(* One entry for each key.                                                   *)
LEMMA ResolvedUnique ==
    ASSUME NEW entries, entries \subseteq ContextEntries, NEW now,
           NEW w \in Resolved(entries, now), NEW x \in Resolved(entries, now), w.key = x.key
    PROVE  w = x
  BY AboveOrder DEF Resolved

KeysOf(entries) == {e.key : e \in entries}

LEMMA KeysJoined == \A A, B : KeysOf(A \cup B) = KeysOf(A) \cup KeysOf(B)
  BY DEF KeysOf

LEMMA ResolvedKeys ==
    ASSUME NEW entries, entries \subseteq ContextEntries, IsFiniteSet(entries), NEW now
    PROVE  KeysOf(Resolved(entries, now)) = KeysOf(entries)
  <1>1. \A e \in entries : \E w \in Resolved(entries, now) : w.key = e.key
    BY ResolvedKeeps
  <1> QED
    BY <1>1, ResolvedSubset DEF KeysOf

(* Resolving what was resolved at the same moment is resolving everything.    *)
LEMMA ResolvedTwice ==
    ASSUME NEW A, A \subseteq ContextEntries, IsFiniteSet(A),
           NEW B, B \subseteq ContextEntries, IsFiniteSet(B), NEW now
    PROVE  Resolved(Resolved(A, now) \cup Resolved(B, now), now) = Resolved(A \cup B, now)
  <1> DEFINE C == Resolved(A, now) \cup Resolved(B, now)
  <1>1. C \subseteq A \cup B
    BY ResolvedSubset
  <1>2. ASSUME NEW e \in A \cup B PROVE \E w \in C : w.key = e.key /\ (w = e \/ Above(w, e, now))
    BY <1>2, ResolvedKeeps
  <1>3. ASSUME NEW w \in Resolved(C, now) PROVE w \in Resolved(A \cup B, now)
    <2>1. w \in A \cup B /\ \A d \in C : d.key = w.key => ~Above(d, w, now)
      BY <1>1, <1>3 DEF Resolved
    <2>2. ASSUME NEW d \in A \cup B, d.key = w.key, Above(d, w, now) PROVE FALSE
      <3>1. PICK x \in C : x.key = d.key /\ (x = d \/ Above(x, d, now))
        BY <1>2
      <3>2. Above(x, w, now)
        BY <1>1, <2>1, <2>2, <3>1, AboveOrder
      <3> QED
        BY <2>1, <2>2, <3>1, <3>2
    <2> QED
      BY <2>1, <2>2 DEF Resolved
  <1>4. ASSUME NEW w \in Resolved(A \cup B, now) PROVE w \in Resolved(C, now)
    <2>1. w \in A \cup B /\ \A d \in A \cup B : d.key = w.key => ~Above(d, w, now)
      BY <1>4 DEF Resolved
    <2>2. w \in C
      BY <2>1 DEF Resolved
    <2> QED
      BY <1>1, <2>1, <2>2 DEF Resolved
  <1> QED
    BY <1>3, <1>4, Zenon

(* What is true of a snapshot: what it dropped had lost at some moment.       *)
SnapshotTrue(s) ==
    /\ s.inputs \subseteq ContextEntries /\ IsFiniteSet(s.inputs)
    /\ s.entries \subseteq s.inputs
    /\ \A e \in s.inputs : e.token \in Allowed
    /\ KeysOf(s.entries) = KeysOf(s.inputs)
    /\ \A w, x \in s.entries : w.key = x.key => w = x
    /\ s.evaluated \in Nat /\ s.evaluated \in s.moments /\ s.moments \subseteq 0 .. s.evaluated
    /\ s.moments = {s.evaluated} => s.entries = Resolved(s.inputs, s.evaluated)
    /\ \A e \in s.inputs \ s.entries :
        \E now \in s.moments, d \in s.inputs : d.key = e.key /\ Above(d, e, now)

ScInv ==
    /\ scNow \in 0 .. MaxContextTime
    /\ \A s \in scSnapshots : SnapshotTrue(s) /\ s.evaluated <= scNow
    /\ scHandover # NoHandover =>
        scHandover.expires \in Nat /\ scHandover.snapshot.entries \subseteq ContextEntries

LEMMA ScInitInv == ScInit => ScInv
  <1>1. 0 \in 0 .. MaxContextTime
    BY SwarmContextAssumption
  <1> QED
    BY <1>1 DEF ScInit, ScInv

LEMMA ScPackageInv ==
    ASSUME ScInv, NEW inputs \in ContextPackages, NEW required, NEW allowStale,
           PackageContext(inputs, required, allowStale)
    PROVE  ScInv'
  <1>1. PICK s : /\ s.inputs = inputs /\ s.entries = Resolved(inputs, scNow)
                 /\ s.moments = {scNow} /\ s.evaluated = scNow
                 /\ scSnapshots' = scSnapshots \cup {s}
    BY Zenon DEF PackageContext, Keep
  <1>2. scNow' = scNow /\ scHandover' = scHandover
    BY DEF PackageContext, Keep
  <1>3. inputs \subseteq ContextEntries /\ IsFiniteSet(inputs) /\ \A e \in inputs : e.token \in Allowed
    BY SwarmContextAssumption DEF PackageContext, Admitted
  <1>4. scNow \in Nat /\ {scNow} \subseteq 0 .. scNow
    BY SwarmContextAssumption DEF ScInv
  <1>5. \A e \in inputs \ Resolved(inputs, scNow) : \E d \in inputs : d.key = e.key /\ Above(d, e, scNow)
    BY DEF Resolved
  <1>6. SnapshotTrue(s)
    <2>1. KeysOf(s.entries) = KeysOf(s.inputs)
      BY <1>1, <1>3, ResolvedKeys
    <2>2. \A w, x \in s.entries : w.key = x.key => w = x
      BY <1>1, <1>3, ResolvedUnique
    <2>3. s.entries \subseteq s.inputs
      BY <1>1, ResolvedSubset
    <2> QED
      BY <1>1, <1>3, <1>4, <1>5, <2>1, <2>2, <2>3 DEF SnapshotTrue
  <1>7. s.evaluated <= scNow
    BY <1>1, <1>4
  <1> QED
    BY <1>1, <1>2, <1>6, <1>7 DEF ScInv

LEMMA ScMergeInv ==
    ASSUME ScInv, NEW r \in scSnapshots, NEW s \in scSnapshots, MergeSnapshots(r, s)
    PROVE  ScInv'
  <1>1. PICK t : /\ t.inputs = r.inputs \cup s.inputs /\ t.entries = Resolved(r.entries \cup s.entries, scNow)
                 /\ t.moments = r.moments \cup s.moments \cup {scNow} /\ t.evaluated = scNow
                 /\ scSnapshots' = scSnapshots \cup {t}
    BY Zenon DEF MergeSnapshots, Keep
  <1>2. scNow' = scNow /\ scHandover' = scHandover
    BY DEF MergeSnapshots, Keep
  <1>3. scNow \in Nat /\ scNow \in 0 .. scNow
    BY SwarmContextAssumption DEF ScInv
  <1>4. SnapshotTrue(r) /\ SnapshotTrue(s) /\ r.evaluated <= scNow /\ s.evaluated <= scNow
    BY DEF ScInv
  <1>5. /\ r.inputs \subseteq ContextEntries /\ IsFiniteSet(r.inputs) /\ r.entries \subseteq r.inputs
        /\ s.inputs \subseteq ContextEntries /\ IsFiniteSet(s.inputs) /\ s.entries \subseteq s.inputs
    BY <1>4 DEF SnapshotTrue
  <1>6. IsFiniteSet(r.entries \cup s.entries) /\ IsFiniteSet(t.inputs) /\ r.entries \cup s.entries \subseteq ContextEntries
    BY <1>1, <1>5, FS_Subset, FS_Union, Zenon
  <1>7. t.entries \subseteq r.entries \cup s.entries
    BY <1>1, ResolvedSubset
  <1>8. KeysOf(t.entries) = KeysOf(t.inputs)
    <2>1. KeysOf(t.entries) = KeysOf(r.entries \cup s.entries)
      BY <1>1, <1>6, ResolvedKeys
    <2>2. KeysOf(r.entries) = KeysOf(r.inputs) /\ KeysOf(s.entries) = KeysOf(s.inputs)
      BY <1>4 DEF SnapshotTrue
    <2>3. /\ KeysOf(r.entries \cup s.entries) = KeysOf(r.entries) \cup KeysOf(s.entries)
          /\ KeysOf(r.inputs \cup s.inputs) = KeysOf(r.inputs) \cup KeysOf(s.inputs)
      BY KeysJoined
    <2> QED
      BY <1>1, <2>1, <2>2, <2>3, Zenon
  <1>9. \A w, x \in t.entries : w.key = x.key => w = x
    BY <1>1, <1>6, ResolvedUnique
  <1>10. t.moments \subseteq 0 .. scNow
    BY <1>1, <1>3, <1>4 DEF SnapshotTrue
  <1>11. ASSUME t.moments = {scNow} PROVE t.entries = Resolved(t.inputs, scNow)
    <2>1. r.moments = {scNow} /\ s.moments = {scNow} /\ r.evaluated = scNow /\ s.evaluated = scNow
      BY <1>1, <1>4, <1>11 DEF SnapshotTrue
    <2>2. r.entries = Resolved(r.inputs, scNow) /\ s.entries = Resolved(s.inputs, scNow)
      BY <1>4, <2>1 DEF SnapshotTrue
    <2> QED
      BY <1>1, <1>5, <2>2, ResolvedTwice
  <1>12. ASSUME NEW e \in t.inputs \ t.entries
         PROVE  \E now \in t.moments, d \in t.inputs : d.key = e.key /\ Above(d, e, now)
    <2>1. CASE e \in r.entries \cup s.entries
      <3>1. PICK d \in r.entries \cup s.entries : d.key = e.key /\ Above(d, e, scNow)
        BY <1>1, <1>12, <2>1 DEF Resolved
      <3> QED
        BY <1>1, <1>5, <3>1
    <2>2. CASE e \in r.inputs \ r.entries
      <3>1. PICK now \in r.moments, d \in r.inputs : d.key = e.key /\ Above(d, e, now)
        BY <1>4, <2>2 DEF SnapshotTrue
      <3> QED
        BY <1>1, <3>1
    <2>3. CASE e \in s.inputs \ s.entries
      <3>1. PICK now \in s.moments, d \in s.inputs : d.key = e.key /\ Above(d, e, now)
        BY <1>4, <2>3 DEF SnapshotTrue
      <3> QED
        BY <1>1, <3>1
    <2> QED
      BY <1>1, <1>12, <2>1, <2>2, <2>3
  <1>13. SnapshotTrue(t)
    <2>1. t.inputs \subseteq ContextEntries /\ t.entries \subseteq t.inputs
      BY <1>1, <1>5, <1>7, Zenon
    <2>2. \A e \in t.inputs : e.token \in Allowed
      BY <1>1, <1>4 DEF SnapshotTrue
    <2> QED
      BY <1>1, <1>3, <1>6, <1>8, <1>9, <1>10, <1>11, <1>12, <2>1, <2>2, Zenon DEF SnapshotTrue
  <1>14. t.evaluated <= scNow
    BY <1>1, <1>3
  <1> QED
    BY <1>1, <1>2, <1>13, <1>14 DEF ScInv

LEMMA ScStepInv == ScInv /\ [ScNext]_scVars => ScInv'
  <1> SUFFICES ASSUME ScInv, [ScNext]_scVars PROVE ScInv'
    OBVIOUS
  <1>1. ASSUME NEW s \in scSnapshots, NEW lifetime \in Lifetimes, NEW undecided, CreateHandover(s, lifetime, undecided)
        PROVE  ScInv'
    <2>1. PICK h : /\ h.snapshot = s /\ h.expires = scNow + lifetime /\ scHandover' = h
      BY <1>1 DEF CreateHandover
    <2>2. h.expires \in Nat
      BY <2>1, SwarmContextAssumption DEF ScInv
    <2>3. h.snapshot.entries \subseteq ContextEntries
      BY <2>1 DEF ScInv, SnapshotTrue
    <2> QED
      BY <1>1, <2>1, <2>2, <2>3 DEF CreateHandover, ScInv
  <1>2. CASE Resume
    BY <1>2 DEF Resume, ScInv
  <1>3. CASE ScTick
    <2>1. scNow' \in 0 .. MaxContextTime /\ scNow <= scNow' /\ scNow \in Nat
      BY <1>3, SwarmContextAssumption DEF ScTick, ScInv
    <2>2. \A s \in scSnapshots : SnapshotTrue(s) /\ s.evaluated <= scNow'
      BY <2>1 DEF ScInv, SnapshotTrue
    <2> QED
      BY <1>3, <2>1, <2>2 DEF ScTick, ScInv
  <1>4. CASE UNCHANGED scVars
    BY <1>4 DEF scVars, ScInv
  <1> QED
    BY <1>1, <1>2, <1>3, <1>4, ScPackageInv, ScMergeInv DEF ScNext

(* Time only takes away.                                                     *)
LEMMA CurrentEarlier ==
    ASSUME NEW e \in ContextEntries, NEW now \in Nat, NEW then \in Nat, now <= then
    PROVE  /\ ~ExpiredAt(e, then) => ~ExpiredAt(e, now)
           /\ ~StaleAt(e, then) => ~StaleAt(e, now)
  BY SwarmContextAssumption DEF ExpiredAt, StaleAt

LEMMA ScInvSound == ScInv => ScSound
  <1> SUFFICES ASSUME ScInv, NEW s \in scSnapshots
               PROVE  /\ {e.key : e \in s.entries} = {e.key : e \in s.inputs}
                      /\ \A w, x \in s.entries : w.key = x.key => w = x
                      /\ \A w \in s.entries : w.token \in Allowed
                      /\ Cardinality(s.moments) = 1 => s.entries = Resolved(s.inputs, s.evaluated)
                      /\ \A w \in s.entries, e \in s.inputs :
                          w.key = e.key /\ ~Current(w, s.evaluated) /\ Current(e, s.evaluated) =>
                              \E now \in s.moments, d \in s.inputs :
                                  d.key = e.key /\ Current(d, now) /\ Above(d, e, now)
    BY DEF ScSound
  <1>1. SnapshotTrue(s)
    BY DEF ScInv
  <1>2. ASSUME Cardinality(s.moments) = 1 PROVE s.entries = Resolved(s.inputs, s.evaluated)
    <2>1. IsFiniteSet(s.moments)
      <3>1. s.moments \subseteq 0 .. s.evaluated /\ s.evaluated \in Nat
        BY <1>1 DEF SnapshotTrue
      <3>2. IsFiniteSet(0 .. s.evaluated)
        BY <3>1, FS_Interval
      <3> QED
        BY <3>1, <3>2, FS_Subset
    <2>2. \E m : s.moments = {m}
      BY <1>2, <2>1, FS_Singleton
    <2> QED
      BY <1>1, <2>2 DEF SnapshotTrue
  <1>3. ASSUME NEW w \in s.entries, NEW e \in s.inputs,
               w.key = e.key, ~Current(w, s.evaluated), Current(e, s.evaluated)
        PROVE  \E now \in s.moments, d \in s.inputs : d.key = e.key /\ Current(d, now) /\ Above(d, e, now)
    <2>1. e \notin s.entries
      BY <1>1, <1>3 DEF SnapshotTrue
    <2>2. PICK now \in s.moments, d \in s.inputs : d.key = e.key /\ Above(d, e, now)
      BY <1>1, <2>1 DEF SnapshotTrue
    <2>3. now \in Nat /\ s.evaluated \in Nat /\ now <= s.evaluated /\ d \in ContextEntries /\ e \in ContextEntries
      BY <1>1 DEF SnapshotTrue
    <2>4. Current(e, now)
      BY <1>3, <2>3, CurrentEarlier DEF Current
    <2> QED
      BY <2>2, <2>3, <2>4, AboveCurrent
  <1> QED
    BY <1>1, <1>2, <1>3, Zenon DEF SnapshotTrue, KeysOf

(* The first entry of a source is one of its entries.                        *)
LEMMA FirstPresent ==
    ASSUME NEW entries, entries \subseteq ContextEntries, NEW token, Present(token, entries)
    PROVE  FirstFor(token, entries) \in ContextEntries
  <1> DEFINE HeldKeys == {e.key : e \in For(token, entries)}
  <1>1. For(token, entries) \subseteq ContextEntries /\ For(token, entries) # {}
    BY DEF For, Present
  <1>2. HeldKeys \subseteq Nat /\ HeldKeys # {}
    BY <1>1, SwarmContextAssumption
  <1>3. PICK k \in HeldKeys : \A n \in HeldKeys : k <= n
    BY <1>2, LeastElement, Zenon
  <1>4. PICK e \in For(token, entries) : e.key = k
    BY <1>3
  <1>5. \A d \in For(token, entries) : d.key >= e.key
    <2>1. \A d \in For(token, entries) : d.key \in HeldKeys
      OBVIOUS
    <2> QED
      BY <1>2, <1>3, <1>4, <2>1
  <1>6. \E x \in For(token, entries) : \A d \in For(token, entries) : d.key >= x.key
    BY <1>5
  <1>7. FirstFor(token, entries) \in For(token, entries)
    BY <1>6 DEF FirstFor
  <1> QED
    BY <1>1, <1>7

LEMMA ValidEarlier ==
    ASSUME NEW s, s.entries \subseteq ContextEntries, NEW now \in Nat, NEW then \in Nat, now <= then, Valid(s, then)
    PROVE  Valid(s, now)
  BY FirstPresent, CurrentEarlier DEF Valid

LEMMA ScStepFinal == ScInv /\ ScNext => ScFinal
  <1> SUFFICES ASSUME ScInv, ScNext PROVE ScFinal
    OBVIOUS
  <1>1. scNow \in Nat /\ scNow' \in Nat /\ scNow <= scNow' /\ scSnapshots \subseteq scSnapshots'
    <2>1. scNow \in Nat
      BY SwarmContextAssumption DEF ScInv
    <2>2. scSnapshots \subseteq scSnapshots' /\ (scNow' = scNow \/ scNow' = scNow + 1)
      BY Zenon DEF ScNext, PackageContext, MergeSnapshots, Keep, CreateHandover, Resume, ScTick
    <2> QED
      BY <2>1, <2>2
  <1>2. ASSUME NEW s \in scSnapshots, Valid(s, scNow') PROVE Valid(s, scNow)
    <2>1. s.entries \subseteq ContextEntries
      BY DEF ScInv, SnapshotTrue
    <2> QED
      BY <1>1, <1>2, <2>1, ValidEarlier
  <1>3. ASSUME scHandover # NoHandover, scHandover' = scHandover, Resumable' PROVE Resumable
    <2>1. scHandover.expires \in Nat /\ scHandover.snapshot.entries \subseteq ContextEntries
      BY <1>3 DEF ScInv
    <2>2. scHandover.expires > scNow' /\ Valid(scHandover.snapshot, scNow') /\ ~scHandover.undecided
      BY <1>3 DEF Resumable, Valid
    <2>3. Valid(scHandover.snapshot, scNow)
      BY <1>1, <2>1, <2>2, ValidEarlier
    <2> QED
      BY <1>1, <1>3, <2>1, <2>2, <2>3 DEF Resumable
  <1> QED
    BY <1>1, <1>2, <1>3 DEF ScFinal

(* Theorem: snapshots, however often merged, keep one entry for each key of all    *)
(* their inputs, all of allowed sources, and an outdated one beside a current       *)
(* input only when that input had lost to one that was current as well (ScSound).*)
THEOREM ContextSound == ScInit /\ [][ScNext]_scVars => []ScSound
  BY ScInitInv, ScStepInv, ScInvSound, PTL

(* Theorem: a handover that was not resumable never becomes so, and of a snapshot  *)
(* that was valid nothing is missing later (ScFinal).                         *)
THEOREM ContextFinal == ScInit /\ [][ScNext]_scVars => [][ScFinal]_scVars
  <1>1. ScInv /\ [ScNext]_scVars => [ScFinal]_scVars
    BY ScStepFinal
  <1> QED
    BY <1>1, ScInitInv, ScStepInv, PTL

(***************************************************************************)
(* Results of a graph of tasks.                                             *)
(***************************************************************************)
SwInv ==
    /\ swGraph \in TaskGraphs /\ ValidGraph(swGraph)
    /\ swDelivered \subseteq Deliveries /\ \A d \in swDelivered : ValidResult(d.result)
    /\ swCancelled \in BOOLEAN

LEMMA SwInitInv == SwInit => SwInv
  BY Zenon DEF SwInit, SwInv

LEMMA SwStepInv == SwInv /\ [SwNext]_swVars => SwInv'
  <1> SUFFICES ASSUME SwInv, [SwNext]_swVars PROVE SwInv'
    OBVIOUS
  <1>1. ASSUME NEW d \in Deliveries, Receive(d) PROVE SwInv'
    BY <1>1 DEF Receive, SwInv
  <1>2. CASE Cancel
    BY <1>2 DEF Cancel, SwInv
  <1>3. CASE UNCHANGED swVars
    BY <1>3 DEF swVars, SwInv
  <1> QED
    BY <1>1, <1>2, <1>3 DEF SwNext

---------------------------------------------------------------------------
(* What the tasks of a valid graph depend on are tasks of it.                 *)
LEMMA DependsOnTasks ==
    ASSUME SwInv
    PROVE  \A t \in Tasks(swGraph) : swGraph.nodes[t].dependsOn \subseteq Tasks(swGraph)
  BY DEF SwInv, ValidGraph

(* Judged looks at the states of what the task depends on, and at no other.    *)
LEMMA JudgedLocal ==
    ASSUME NEW t, NEW f, NEW g, \A d \in swGraph.nodes[t].dependsOn : f[d] = g[d]
    PROVE  Judged(t, f) = Judged(t, g)
  BY DEF Judged

(* The states of the tasks are defined, by induction on their depths.          *)
LEMMA StatesDefined ==
    ASSUME SwInv
    PROVE  TaskStates = [t \in Tasks(swGraph) |-> Judged(t, TaskStates)]
  <1>1. PICK T : T = Tasks(swGraph)
    OBVIOUS
  <1>2. swGraph.limits.depth \in Nat
    BY SwarmResultsAssumption DEF SwInv
  <1>3. PICK limit \in Nat : limit = swGraph.limits.depth
    BY <1>2
  <1>4. PICK depth \in [T -> 1 .. limit] :
            \A t \in T : \A d \in swGraph.nodes[t].dependsOn : depth[d] < depth[t]
    BY <1>1, <1>3 DEF SwInv, ValidGraph, Depths
  <1>5. \A t \in T : swGraph.nodes[t].dependsOn \subseteq T
    BY <1>1, DependsOnTasks
  <1>6. PICK Undefined : Undefined =
            {n \in Nat : ~\E f : \A t \in T : depth[t] <= n => f[t] = Judged(t, f)}
    BY Zenon
  <1>7. Undefined = {}
    <2> SUFFICES ASSUME Undefined # {} PROVE FALSE
      OBVIOUS
    <2>1. PICK n \in Undefined : \A m \in Undefined : n <= m
      BY <1>6, LeastElement, Zenon
    <2>2. n \in Nat /\ ~\E f : \A t \in T : depth[t] <= n => f[t] = Judged(t, f)
      BY <1>6
    <2>3. CASE n = 0
      <3>1. \A t \in T : ~(depth[t] <= n)
        BY <1>4, <2>3
      <3> QED
        BY <2>2, <3>1
    <2>4. CASE n # 0
      <3>1. n - 1 \in Nat /\ n - 1 \notin Undefined
        BY <2>1, <2>2, <2>4
      <3>2. PICK f : \A t \in T : depth[t] <= n - 1 => f[t] = Judged(t, f)
        BY <1>6, <3>1
      <3>3. PICK g : g = [t \in T |-> IF depth[t] <= n - 1 THEN f[t] ELSE Judged(t, f)]
        BY Zenon
      <3>4. ASSUME NEW t \in T, depth[t] <= n PROVE g[t] = Judged(t, g)
        <4>1. \A d \in swGraph.nodes[t].dependsOn : f[d] = g[d]
          <5> SUFFICES ASSUME NEW d \in swGraph.nodes[t].dependsOn PROVE f[d] = g[d]
            OBVIOUS
          <5>1. d \in T /\ depth[d] < depth[t]
            BY <1>4, <1>5
          <5>2. depth[d] <= n - 1
            BY <1>4, <2>2, <3>4, <5>1
          <5> QED
            BY <3>3, <5>1, <5>2
        <4>2. Judged(t, f) = Judged(t, g)
          BY <4>1, JudgedLocal
        <4>3. g[t] = Judged(t, f)
          BY <3>2, <3>3
        <4> QED
          BY <4>2, <4>3
      <3> QED
        BY <2>2, <3>4
    <2> QED
      BY <2>3, <2>4
  <1>8. limit \notin Undefined
    BY <1>7
  <1>9. PICK f : \A t \in T : depth[t] <= limit => f[t] = Judged(t, f)
    BY <1>6, <1>8
  <1>10. PICK g : g = [t \in T |-> f[t]]
    BY Zenon
  <1>11. g = [t \in T |-> Judged(t, g)]
    <2> SUFFICES ASSUME NEW t \in T PROVE f[t] = Judged(t, g)
      BY <1>10
    <2>1. \A d \in swGraph.nodes[t].dependsOn : f[d] = g[d]
      BY <1>5, <1>10
    <2>2. depth[t] <= limit
      BY <1>4
    <2> QED
      BY <1>9, <2>1, <2>2, JudgedLocal
  <1>12. g = [t \in Tasks(swGraph) |-> Judged(t, g)]
    BY <1>1, <1>11
  <1> QED
    BY <1>12 DEF TaskStates

LEMMA StateOf ==
    ASSUME SwInv, NEW t \in Tasks(swGraph)
    PROVE  TaskStates[t] = Judged(t, TaskStates)
  <1>1. PICK f : f = TaskStates
    OBVIOUS
  <1>2. f = [u \in Tasks(swGraph) |-> Judged(u, f)]
    BY <1>1, StatesDefined
  <1>3. f[t] = Judged(t, f)
    BY <1>2
  <1> QED
    BY <1>1, <1>3

---------------------------------------------------------------------------
(* The result that is selected is one of the task's, a successful one if there *)
(* is any.                                                                  *)
LEMMA EarliestIn ==
    ASSUME NEW results, results # {}, \A r \in results : r.attempt \in Nat
    PROVE  Earliest(results) \in results
  <1>1. PICK attempts : attempts = {r.attempt : r \in results}
    BY Zenon
  <1>2. PICK m \in attempts : \A n \in attempts : m <= n
    <2>1. attempts \subseteq Nat /\ attempts # {}
      BY <1>1
    <2> QED
      BY <2>1, LeastElement, Zenon
  <1>3. PICK r \in results : r.attempt = m
    BY <1>1, <1>2
  <1>4. \A s \in results : r.attempt <= s.attempt
    BY <1>1, <1>2, <1>3
  <1> QED
    BY <1>4 DEF Earliest

LEMMA SelectedIn ==
    ASSUME SwInv, NEW t, ResultsOf(t) # {}
    PROVE  /\ Selected(ResultsOf(t)) \in ResultsOf(t)
           /\ Selected(ResultsOf(t)).status \in ResultStatuses
           /\ Selected(ResultsOf(t)).status = "SUCCEEDED" <=> Successes(ResultsOf(t)) # {}
  <1>1. PICK R : R = ResultsOf(t)
    OBVIOUS
  <1>2. \A r \in R : r.attempt \in Nat /\ r.status \in ResultStatuses
    BY <1>1 DEF ResultsOf, UniqueResults, SwInv, ValidResult
  <1>3. Successes(R) \subseteq R /\ \A r \in Successes(R) : r.status = "SUCCEEDED"
    BY DEF Successes
  <1>4. CASE Successes(R) # {}
    <2>1. Earliest(Successes(R)) \in Successes(R)
      BY <1>2, <1>3, <1>4, EarliestIn
    <2> QED
      BY <1>1, <1>2, <1>3, <1>4, <2>1 DEF Selected
  <1>5. CASE Successes(R) = {}
    <2>1. Earliest(R) \in R
      BY <1>1, <1>2, EarliestIn
    <2>2. Earliest(R).status # "SUCCEEDED"
      BY <1>5, <2>1 DEF Successes
    <2> QED
      BY <1>1, <1>2, <1>5, <2>1, <2>2 DEF Selected
  <1> QED
    BY <1>4, <1>5

LEMMA ResultsAreAnswers == \A t : ResultsOf(t) = Answers(t)
  <1> SUFFICES ASSUME NEW t PROVE ResultsOf(t) = Answers(t)
    OBVIOUS
  <1>1. \A r : r \in ResultsOf(t) <=> \E d \in swDelivered : r = d.result /\ d.result.task = t
    BY DEF ResultsOf, UniqueResults
  <1>2. \A r : r \in Answers(t) <=> \E d \in swDelivered : r = d.result /\ d.result.task = t
    BY DEF Answers
  <1> QED
    BY <1>1, <1>2, Zenon

(* When no result is refused, a task is in conflict when two answers to it of   *)
(* one attempt differ.                                                       *)
Contradicted(t) == \E r, s \in Answers(t) : r.attempt = s.attempt /\ r # s

LEMMA ConflictOf ==
    ASSUME ~AggregateRefused, NEW t
    PROVE  InConflict(t) <=> Contradicted(t)
  <1>1. ASSUME InConflict(t) PROVE Contradicted(t)
    <2>1. PICK k \in ResultConflicts(swDelivered) : k[2] = t
      BY <1>1 DEF InConflict
    <2>2. PICK r \in UniqueResults(swDelivered), s \in UniqueResults(swDelivered) :
            k = ReplayKey(r) /\ ReplayKey(s) = ReplayKey(r) /\ s # r
      BY <2>1 DEF ResultConflicts
    <2>3. r.task = t /\ s.task = t /\ r.attempt = s.attempt
      BY <2>1, <2>2 DEF ReplayKey
    <2>4. r \in Answers(t) /\ s \in Answers(t)
      BY <2>2, <2>3 DEF UniqueResults, Answers
    <2> QED
      BY <2>2, <2>3, <2>4 DEF Contradicted
  <1>2. ASSUME Contradicted(t) PROVE InConflict(t)
    <2>1. PICK r \in Answers(t), s \in Answers(t) : r.attempt = s.attempt /\ r # s
      BY <1>2 DEF Contradicted
    <2>2. /\ r \in UniqueResults(swDelivered) /\ s \in UniqueResults(swDelivered)
          /\ r.task = t /\ s.task = t /\ r.graph = swGraph.id /\ s.graph = swGraph.id
      BY <2>1 DEF Answers, UniqueResults, AggregateRefused, Fits
    <2>3. ReplayKey(r) = ReplayKey(s) /\ ReplayKey(r)[2] = t
      BY <2>1, <2>2 DEF ReplayKey
    <2>4. ReplayKey(r) \in ResultConflicts(swDelivered)
      BY <2>1, <2>2, <2>3 DEF ResultConflicts
    <2> QED
      BY <2>3, <2>4 DEF InConflict
  <1> QED
    BY <1>1, <1>2

GaveAnswer(t) == \E r \in Answers(t) : r.status = "SUCCEEDED"

LEMMA SucceededWhen ==
    ASSUME SwInv, ~AggregateRefused, NEW t \in Tasks(swGraph)
    PROVE  TaskStates[t] = "SUCCEEDED" <=>
                /\ ~Contradicted(t) /\ GaveAnswer(t)
                /\ \A d \in swGraph.nodes[t].dependsOn : TaskStates[d] = "SUCCEEDED"
  <1>1. PICK f : f = TaskStates
    OBVIOUS
  <1>2. f[t] = Judged(t, f)
    BY <1>1, StateOf
  <1>3. InConflict(t) <=> Contradicted(t)
    BY ConflictOf
  <1>4. Successes(ResultsOf(t)) # {} <=> GaveAnswer(t)
    BY ResultsAreAnswers DEF Successes, GaveAnswer
  <1>5. ResultsOf(t) # {} => (Selected(ResultsOf(t)).status = "SUCCEEDED" <=> Successes(ResultsOf(t)) # {})
    BY SelectedIn
  <1>6. ResultsOf(t) = {} => ~GaveAnswer(t)
    BY <1>4 DEF Successes
  <1> QED
    BY <1>1, <1>2, <1>3, <1>4, <1>5, <1>6 DEF Judged

LEMMA DoneWhen == \A t : Done(t) <=> \A u \in Below(t) : GaveAnswer(u) /\ ~Contradicted(u)
  BY DEF Done, GaveAnswer, Contradicted

(* A task and what it depends on are among what it rests on.                  *)
LEMMA BelowRests ==
    ASSUME SwInv, NEW t \in Tasks(swGraph)
    PROVE  /\ t \in Below(t) /\ Below(t) \subseteq Tasks(swGraph)
           /\ \A u \in Below(t) : swGraph.nodes[u].dependsOn \subseteq Below(t)
  <1>1. t \in Below(t) /\ Below(t) \subseteq Tasks(swGraph)
    BY DEF Below
  <1>2. ASSUME NEW u \in Below(t), NEW d \in swGraph.nodes[u].dependsOn PROVE d \in Below(t)
    <2>1. u \in Tasks(swGraph) /\ d \in Tasks(swGraph)
      BY <1>2, DependsOnTasks DEF Below
    <2>2. ASSUME NEW tasks \in Rested, t \in tasks PROVE d \in tasks
      BY <1>2, <2>2 DEF Below, Rested
    <2> QED
      BY <2>1, <2>2 DEF Below
  <1> QED
    BY <1>1, <1>2

(* A task succeeds exactly when it and all it rests on are done.              *)
LEMMA SucceededIsDone ==
    ASSUME SwInv, ~AggregateRefused, NEW t \in Tasks(swGraph)
    PROVE  TaskStates[t] = "SUCCEEDED" <=> Done(t)
  <1>1. ASSUME TaskStates[t] = "SUCCEEDED" PROVE Done(t)
    <2>1. PICK S : S = {u \in Tasks(swGraph) : TaskStates[u] = "SUCCEEDED"}
      BY Zenon
    <2>2. S \in Rested
      <3>1. ASSUME NEW u \in S, NEW d \in swGraph.nodes[u].dependsOn PROVE d \in S
        <4>1. u \in Tasks(swGraph) /\ TaskStates[u] = "SUCCEEDED"
          BY <2>1
        <4>2. TaskStates[d] = "SUCCEEDED"
          BY <4>1, SucceededWhen
        <4>3. d \in Tasks(swGraph)
          BY <4>1, DependsOnTasks
        <4> QED
          BY <2>1, <4>2, <4>3
      <3> QED
        BY <2>1, <3>1 DEF Rested
    <2>3. Below(t) \subseteq S
      BY <1>1, <2>1, <2>2 DEF Below
    <2>4. \A u \in S : GaveAnswer(u) /\ ~Contradicted(u)
      BY <2>1, SucceededWhen
    <2> QED
      BY <2>3, <2>4, DoneWhen
  <1>2. ASSUME Done(t), TaskStates[t] # "SUCCEEDED" PROVE FALSE
    <2>1. PICK S : S = {u \in Below(t) : TaskStates[u] # "SUCCEEDED"}
      BY Zenon
    <2>2. PICK limit, depth : depth \in [Tasks(swGraph) -> 1 .. limit] /\ limit \in Nat
            /\ \A u \in Tasks(swGraph) : \A d \in swGraph.nodes[u].dependsOn : depth[d] < depth[u]
      <3>1. swGraph.limits.depth \in Nat
        BY SwarmResultsAssumption DEF SwInv
      <3> QED
        BY <3>1 DEF SwInv, ValidGraph, Depths
    <2>3. t \in S /\ S \subseteq Tasks(swGraph)
      BY <1>2, <2>1, BelowRests
    <2>4. PICK ranks : ranks = {depth[u] : u \in S}
      BY Zenon
    <2>5. ranks \subseteq Nat /\ ranks # {}
      BY <2>2, <2>3, <2>4
    <2>6. PICK m \in ranks : \A n \in ranks : m <= n
      BY <2>5, LeastElement, Zenon
    <2>7. PICK u \in S : depth[u] = m
      BY <2>4
    <2>8. \A d \in swGraph.nodes[u].dependsOn : TaskStates[d] = "SUCCEEDED"
      <3> SUFFICES ASSUME NEW d \in swGraph.nodes[u].dependsOn, TaskStates[d] # "SUCCEEDED" PROVE FALSE
        OBVIOUS
      <3>1. d \in S
        BY <2>1, BelowRests
      <3>2. depth[d] < depth[u] /\ depth[d] \in ranks /\ depth[d] \in Nat /\ depth[u] \in Nat
        BY <2>2, <2>3, <2>4, <3>1
      <3> QED
        BY <2>6, <2>7, <3>2
    <2>9. GaveAnswer(u) /\ ~Contradicted(u)
      BY <1>2, <2>1, DoneWhen
    <2>10. u \in Tasks(swGraph) /\ TaskStates[u] # "SUCCEEDED"
      BY <2>1, <2>3
    <2> QED
      BY <2>8, <2>9, <2>10, SucceededWhen
  <1> QED
    BY <1>1, <1>2

---------------------------------------------------------------------------
LEMMA ConflictsNamed ==
    ASSUME ~AggregateRefused
    PROVE  ResultConflicts(swDelivered) # {} <=> \E t \in Tasks(swGraph) : Contradicted(t)
  <1>1. ASSUME ResultConflicts(swDelivered) # {} PROVE \E t \in Tasks(swGraph) : Contradicted(t)
    <2>1. PICK r \in UniqueResults(swDelivered) : ReplayKey(r) \in ResultConflicts(swDelivered)
      BY <1>1 DEF ResultConflicts
    <2>2. r.task \in Tasks(swGraph)
      BY <2>1 DEF UniqueResults, AggregateRefused, Fits
    <2>3. InConflict(r.task)
      BY <2>1 DEF InConflict, ReplayKey
    <2> QED
      BY <2>2, <2>3, ConflictOf
  <1>2. ASSUME NEW t, Contradicted(t) PROVE ResultConflicts(swDelivered) # {}
    BY <1>2, ConflictOf DEF InConflict
  <1> QED
    BY <1>1, <1>2

(* What a task can be reported as.                                           *)
LEMMA StatesKnown ==
    ASSUME SwInv, ~AggregateRefused, NEW t \in Tasks(swGraph)
    PROVE  /\ TaskStates[t] \in {"CONFLICT", "PENDING"} \cup ResultStatuses
           /\ TaskStates[t] = "CONFLICT" => ResultConflicts(swDelivered) # {}
           /\ TaskStates[t] \in {"FAILED", "EXPIRED"} => Answers(t) # {}
  <1>1. PICK f : f = TaskStates
    OBVIOUS
  <1>2. f[t] = Judged(t, f)
    BY <1>1, StateOf
  <1>3. ResultsOf(t) # {} => Selected(ResultsOf(t)).status \in ResultStatuses
    BY SelectedIn
  <1>4. InConflict(t) => ResultConflicts(swDelivered) # {}
    BY DEF InConflict
  <1>5. ResultsOf(t) = Answers(t)
    BY ResultsAreAnswers
  <1>6. CASE InConflict(t)
    BY <1>1, <1>2, <1>4, <1>6 DEF Judged
  <1>7. CASE ~InConflict(t)
    BY <1>1, <1>2, <1>3, <1>5, <1>7 DEF Judged, ResultStatuses
  <1> QED
    BY <1>6, <1>7

LEMMA SwInvSound == SwInv => SwSound
  <1> SUFFICES ASSUME SwInv, Aggregate.status # "REFUSED"
               PROVE  /\ \A t \in Tasks(swGraph) : Aggregate.states[t] = "SUCCEEDED" <=> Done(t)
                      /\ Aggregate.status = "COMPLETE" <=> ~swCancelled /\ \A t \in Tasks(swGraph) : Done(t)
                      /\ Aggregate.status = "PARTIAL" => \A t \in Required : Done(t)
                      /\ Aggregate.status = "FAILED" => \E t \in Required : Answers(t) # {} /\ ~Done(t)
    BY DEF SwSound
  <1>1. ~AggregateRefused
    BY DEF Aggregate, NoReport
  <1>2. Aggregate.states = TaskStates /\ Aggregate.status = Status(TaskStates)
    BY <1>1 DEF Aggregate
  <1>3. \A t \in Tasks(swGraph) : TaskStates[t] = "SUCCEEDED" <=> Done(t)
    BY <1>1, SucceededIsDone
  <1>4. Required \subseteq Tasks(swGraph) /\ Optional = Tasks(swGraph) \ Required
    BY DEF Required, Optional
  <1>5. \A t \in Tasks(swGraph) :
            /\ TaskStates[t] \in {"CONFLICT", "PENDING"} \cup ResultStatuses
            /\ TaskStates[t] = "CONFLICT" => ResultConflicts(swDelivered) # {}
            /\ TaskStates[t] \in {"FAILED", "EXPIRED"} => Answers(t) # {}
    BY <1>1, StatesKnown
  <1>6. ASSUME Status(TaskStates) \in {"COMPLETE", "PARTIAL"}
        PROVE  ~swCancelled /\ \A t \in Required : TaskStates[t] = "SUCCEEDED"
    <2>1. /\ ResultConflicts(swDelivered) = {} /\ ~swCancelled
          /\ \A t \in Tasks(swGraph) : TaskStates[t] # "CANCELLED"
          /\ \A t \in Required : TaskStates[t] \notin {"FAILED", "EXPIRED", "BLOCKED", "PENDING"}
      BY <1>6 DEF Status, Some
    <2> QED
      BY <1>4, <1>5, <2>1 DEF ResultStatuses
  <1>7. Status(TaskStates) = "COMPLETE" => \A t \in Optional : TaskStates[t] = "SUCCEEDED"
    BY DEF Status
  <1>8. ASSUME ~swCancelled, \A t \in Tasks(swGraph) : TaskStates[t] = "SUCCEEDED"
        PROVE  Status(TaskStates) = "COMPLETE"
    <2>1. ResultConflicts(swDelivered) = {}
      BY <1>1, <1>8, ConflictsNamed, SucceededWhen
    <2> QED
      BY <1>4, <1>8, <2>1 DEF Status, Some
  <1>9. ASSUME Status(TaskStates) = "FAILED"
        PROVE  \E t \in Required : TaskStates[t] \in {"FAILED", "EXPIRED"}
    BY <1>9 DEF Status, Some
  <1>10. Status(TaskStates) = "FAILED" => \E t \in Required : Answers(t) # {} /\ ~Done(t)
    BY <1>3, <1>4, <1>5, <1>9
  <1>11. Status(TaskStates) = "COMPLETE" => ~swCancelled /\ \A t \in Tasks(swGraph) : Done(t)
    BY <1>3, <1>4, <1>6, <1>7
  <1>12. Status(TaskStates) = "PARTIAL" => \A t \in Required : Done(t)
    BY <1>3, <1>4, <1>6
  <1> QED
    BY <1>2, <1>3, <1>8, <1>10, <1>11, <1>12

(* Theorem: the report on a graph of tasks is what the results say and no more:  *)
(* a task is reported SUCCEEDED exactly when it and all it rests on, however     *)
(* deep, have a successful result and none in conflict, and COMPLETE, PARTIAL     *)
(* and FAILED follow (SwSound).                                              *)
THEOREM ResultsSound == SwInit /\ [][SwNext]_swVars => []SwSound
  BY SwInitInv, SwStepInv, SwInvSound, PTL

(* The same of the state a step leads to.                                    *)
LEMMA DoneThen ==
    SwInv' /\ ~AggregateRefused' => (\A t \in Tasks(swGraph) : TaskStates[t] = "SUCCEEDED" <=> Done(t))'
  <1>1. SwInv /\ ~AggregateRefused => \A t \in Tasks(swGraph) : TaskStates[t] = "SUCCEEDED" <=> Done(t)
    BY SucceededIsDone
  <1> QED
    BY <1>1, PTL

LEMMA ConflictThen ==
    ~AggregateRefused' => (\A t \in Tasks(swGraph) : InConflict(t) <=> Contradicted(t))'
  <1>1. ~AggregateRefused => \A t \in Tasks(swGraph) : InConflict(t) <=> Contradicted(t)
    BY ConflictOf
  <1> QED
    BY <1>1, PTL

LEMMA SwStepFinal == SwInv /\ SwNext => SwFinal
  <1> SUFFICES ASSUME SwInv, SwNext PROVE SwFinal
    OBVIOUS
  <1>1. /\ swGraph' = swGraph /\ swDelivered \subseteq swDelivered'
        /\ swCancelled => swCancelled'
    BY DEF SwNext, Receive, Cancel
  <1>2. SwInv'
    BY SwStepInv
  <1>3. UniqueEnvelopes(swDelivered) \subseteq
            UniqueEnvelopes(swDelivered') \cup {d \in swDelivered : d.key \in EnvelopeConflicts(swDelivered')}
    BY <1>1 DEF UniqueEnvelopes, EnvelopeConflicts
  <1>4. EnvelopeConflicts(swDelivered) \subseteq EnvelopeConflicts(swDelivered')
    BY <1>1 DEF EnvelopeConflicts
  <1>5. AggregateRefused => AggregateRefused'
    BY <1>1 DEF AggregateRefused
  <1>6. ResultConflicts(swDelivered) \subseteq ResultConflicts(swDelivered')
    BY <1>1 DEF ResultConflicts, UniqueResults
  <1>7. (~AggregateRefused => Aggregate.states = TaskStates /\ Aggregate.status = Status(TaskStates))
        /\ (AggregateRefused => Aggregate.status = "REFUSED")
    BY DEF Aggregate, NoReport
  <1>8. (~AggregateRefused' => Aggregate.states' = TaskStates' /\ Aggregate.status' = Status(TaskStates)')
        /\ (AggregateRefused' => Aggregate.status' = "REFUSED")
    BY DEF Aggregate, NoReport
  <1>9. Status(TaskStates) # "REFUSED" /\ Status(TaskStates)' # "REFUSED"
    BY DEF Status
  <1>10. Aggregate.status = "REFUSED" => Aggregate.status' = "REFUSED"
    BY <1>5, <1>7, <1>8, <1>9
  <1>11. Aggregate.status = "CONFLICT" => Aggregate.status' \in {"CONFLICT", "REFUSED"}
    <2>1. Status(TaskStates) = "CONFLICT" => ResultConflicts(swDelivered) # {}
      BY DEF Status
    <2>2. ResultConflicts(swDelivered') # {} => Status(TaskStates)' = "CONFLICT"
      BY DEF Status
    <2> QED
      BY <1>6, <1>7, <1>8, <2>1, <2>2
  <1>12. swCancelled => Aggregate.status' # "COMPLETE"
    <2>1. swCancelled' => Status(TaskStates)' # "COMPLETE"
      BY DEF Status
    <2> QED
      BY <1>1, <1>8, <2>1
  <1>13. ASSUME ~AggregateRefused, ~AggregateRefused', NEW t \in Tasks(swGraph), TaskStates[t] = "SUCCEEDED"
         PROVE  TaskStates'[t] = "SUCCEEDED" \/ \E u \in Below(t) : InConflict(u)'
    <2>1. Done(t)
      BY <1>13, SucceededIsDone
    <2>2. /\ t \in Tasks(swGraph)' /\ (TaskStates[t] = "SUCCEEDED" <=> Done(t))'
          /\ \A u \in Tasks(swGraph) : InConflict(u)' <=> Contradicted(u)'
      <3>1. Tasks(swGraph)' = Tasks(swGraph)
        BY <1>1
      <3> QED
        BY <1>2, <1>13, <3>1, DoneThen, ConflictThen
    <2>3. Below(t)' = Below(t) /\ Below(t) \subseteq Tasks(swGraph)
      BY <1>1 DEF Below, Rested
    <2>4. \A u : Answers(u) \subseteq Answers(u)'
      BY <1>1 DEF Answers
    <2>5. \A u \in Below(t) : \E r \in Answers(u) : r.status = "SUCCEEDED"
      BY <2>1 DEF Done
    <2>6. \A u \in Below(t) : \E r \in Answers(u)' : r.status = "SUCCEEDED"
      BY <2>4, <2>5
    <2>7. (\A u \in Below(t) : ~Contradicted(u)') => Done(t)'
      BY <2>3, <2>6 DEF Done, Contradicted
    <2> QED
      BY <2>2, <2>3, <2>7
  <1> QED
    BY <1>3, <1>4, <1>7, <1>8, <1>9, <1>10, <1>11, <1>12, <1>13 DEF SwFinal

(* Theorem: what arrives late changes nothing for the worse but by a conflict:   *)
(* a task that succeeded stays so unless it or what it rests on is in conflict,   *)
(* and a conflict, a cancellation and a refusal last (SwFinal).               *)
THEOREM ResultsFinal == SwInit /\ [][SwNext]_swVars => [][SwFinal]_swVars
  <1>1. SwInv /\ [SwNext]_swVars => [SwFinal]_swVars
    BY SwStepFinal
  <1> QED
    BY <1>1, SwInitInv, SwStepInv, PTL

(***************************************************************************)
(* Discovery of a repository.                                               *)
(***************************************************************************)
CallFields ==
    {"phase", "request", "manifest", "present", "contexts", "warnings", "registry", "found", "skills", "done"}

(* While nobody has changed the repository since the call began.               *)
Still(past, disk) == past = {disk}

GoodDisk(disk) ==
    DOMAIN disk = DOMAIN FirstDisk /\ \A path \in DOMAIN FirstDisk : Legible(disk[path])

There(disk, entry) == disk[entry.path].kind = "file"

(* What a description of a repository tells of its first k entries.           *)
ContextsTo(disk, entries, k, optional) ==
    {[path |-> entries[n].path, text |-> disk[entries[n].path].is] :
        n \in {n \in 1 .. k : There(disk, entries[n]) /\ (entries[n].required \/ optional)}}

WarningsTo(disk, entries, k) == {entries[n].path : n \in {n \in 1 .. k : ~There(disk, entries[n])}}

(* What the manifest that was read declares.                                *)
ManifestRead(c, past, disk) ==
    /\ Listed(c.manifest)
    /\ \A m, n \in DOMAIN c.manifest : m < n => c.manifest[m].path # c.manifest[n].path
    /\ Still(past, disk) => /\ disk["manifest"].kind = "file" /\ ParsedManifest(disk["manifest"])
                            /\ c.manifest = DeclaredEntries(disk)

(* What the inspection of its entries found.                                *)
Inspected(c, past, disk) ==
    /\ c.present \in Seq(BOOLEAN) /\ Len(c.present) <= Len(c.manifest)
    /\ \A n \in 1 .. Len(c.present) :
        /\ c.present[n] => \E seen \in past : There(seen, c.manifest[n])
        /\ c.manifest[n].required => c.present[n]
        /\ Still(past, disk) => /\ c.present[n] <=> There(disk, c.manifest[n])
                                /\ Inspectable(disk[c.manifest[n].path], c.manifest[n].required)

(* What the first k of them were read as.                                    *)
ReadTo(c, k, past, disk) ==
    /\ \A x \in c.contexts : \E n \in 1 .. k :
        /\ x.path = c.manifest[n].path /\ c.present[n]
        /\ \E seen \in past : seen[x.path].is = x.text
    /\ \A w \in c.warnings : \E n \in 1 .. k : w = c.manifest[n].path /\ ~c.present[n]
    /\ \A n \in 1 .. k : c.manifest[n].required => \E x \in c.contexts : x.path = c.manifest[n].path
    /\ Still(past, disk) => /\ c.contexts = ContextsTo(disk, c.manifest, k, c.request.optional)
                            /\ c.warnings = WarningsTo(disk, c.manifest, k)

(* The registry, and where its skills were found.                            *)
RegistryRead(c, past, disk) ==
    /\ Listed(c.registry) /\ c.found \in Seq(BOOLEAN) /\ Len(c.found) <= Len(c.registry)
    /\ Still(past, disk) =>
        /\ disk["registry"].kind = "file" /\ ParsedRegistry(disk["registry"]) /\ c.registry = SkillsOf(disk)
        /\ \A n \in 1 .. Len(c.found) :
            /\ c.found[n] <=> disk[c.registry[n].path].kind = "file"
            /\ Inspectable(disk[c.registry[n].path], FALSE)

OffersSkill(disk, registry, id) ==
    \E k \in DOMAIN registry :
        /\ registry[k].id = id /\ registry[k].status = "active"
        /\ disk[registry[k].path].kind = "file" /\ ParsedFrontmatter(disk[registry[k].path], id)

(* The first k skills of the selection.                                      *)
SelectedTo(c, ids, k, past, disk) ==
    /\ c.skills = {ids[n] : n \in 1 .. k}
    /\ \A n \in 1 .. k :
        /\ \E j \in DOMAIN c.registry : c.registry[j].id = ids[n] /\ c.registry[j].status = "active"
        /\ Still(past, disk) => OffersSkill(disk, c.registry, ids[n])

(* What a call has gathered when it is so far.                               *)
ContextInspected(c, past, disk) ==
    ManifestRead(c, past, disk) /\ Inspected(c, past, disk) /\ Len(c.present) = Len(c.manifest)

ContextRead(c, past, disk) == ContextInspected(c, past, disk) /\ ReadTo(c, Len(c.manifest), past, disk)

NoSkills(c) == c.found = <<>> /\ c.skills = {}

AtManifest(c) == c.present = <<>> /\ c.contexts = {} /\ c.warnings = {} /\ NoSkills(c)

AtInspect(c, past, disk) ==
    ManifestRead(c, past, disk) /\ Inspected(c, past, disk) /\ c.contexts = {} /\ c.warnings = {} /\ NoSkills(c)

AtRead(c, past, disk) ==
    /\ ContextInspected(c, past, disk) /\ NoSkills(c)
    /\ c.done \in 0 .. Len(c.manifest) /\ ReadTo(c, c.done, past, disk)

AtRegistry(c, past, disk) == ContextRead(c, past, disk) /\ NoSkills(c) /\ c.done = 0

AtSkills(c, past, disk) ==
    ContextRead(c, past, disk) /\ RegistryRead(c, past, disk) /\ c.skills = {} /\ c.done = 0

AtSelect(c, past, disk) ==
    LET ids == SelectedIds(c.registry, c.request) IN
    /\ ContextRead(c, past, disk) /\ RegistryRead(c, past, disk) /\ Len(c.found) = Len(c.registry)
    /\ c.done \in 0 .. Len(ids) /\ SelectedTo(c, ids, c.done, past, disk)

Selectable(ids) == ids # <<>> /\ \A k, m \in DOMAIN ids : ids[k] = ids[m] => k = m

AtDone(c, past, disk) ==
    LET ids == SelectedIds(c.registry, c.request) IN
    /\ ContextRead(c, past, disk) /\ RegistryRead(c, past, disk) /\ Len(c.found) = Len(c.registry)
    /\ SelectedTo(c, ids, Len(ids), past, disk) /\ Selectable(ids)

Gathered(c, past, disk) ==
    /\ c.phase = "manifest" => AtManifest(c) /\ (Still(past, disk) => disk["manifest"].kind = "file")
    /\ c.phase = "inspect" => AtInspect(c, past, disk)
    /\ c.phase = "read" => AtRead(c, past, disk)
    /\ c.phase \in {"registry", "parse"} => AtRegistry(c, past, disk)
    /\ c.phase = "parse" => (Still(past, disk) => disk["registry"].kind = "file")
    /\ c.phase = "skills" => AtSkills(c, past, disk)
    /\ c.phase = "select" => AtSelect(c, past, disk)
    /\ c.phase = "done" => AtDone(c, past, disk)

GoodCall(c, past, disk) ==
    /\ DOMAIN c = CallFields
    /\ c.phase \in {"idle", "manifest", "inspect", "read", "registry", "parse", "skills", "select", "done", "failed"}
    /\ c.phase # "idle" => disk \in past /\ Listed(c.request.skills)
    /\ Gathered(c, past, disk)

DsInv ==
    /\ GoodDisk(dsDisk) /\ GoodCall(dsCall, dsPast, dsDisk)
    /\ dsChanges \in 0 .. MaxDiskChanges
    /\ IsFiniteSet(dsPast) /\ Cardinality(dsPast) <= dsChanges + 1

LEMMA DsInitInv == DsInit => DsInv
  <1> SUFFICES ASSUME DsInit PROVE DsInv
    OBVIOUS
  <1>1. GoodDisk(dsDisk)
    BY DiscoveryAssumption DEF DsInit, GoodDisk
  <1>2. GoodCall(dsCall, dsPast, dsDisk)
    BY DEF DsInit, Idle, GoodCall, CallFields, Gathered
  <1>3. IsFiniteSet(dsPast) /\ Cardinality(dsPast) = 0
    BY FS_EmptySet DEF DsInit
  <1> QED
    BY <1>1, <1>2, <1>3, DiscoveryAssumption DEF DsInv, DsInit

---------------------------------------------------------------------------
(* A change by others makes nothing that was gathered wrong.                   *)
LEMMA ChangedInv == DsInv /\ ChangeDisk => DsInv'
  <1> SUFFICES ASSUME DsInv, ChangeDisk PROVE DsInv'
    OBVIOUS
  <1>1. PICK change \in DiskChanges :
            dsDisk[change.path] # change.file /\ dsDisk' = [dsDisk EXCEPT ![change.path] = change.file]
    BY Zenon DEF ChangeDisk
  <1>2. dsChanges < MaxDiskChanges /\ dsChanges' = dsChanges + 1 /\ dsPast' = dsPast \cup {dsDisk'} /\ dsCall' = dsCall
    BY DEF ChangeDisk
  <1>3. change.path \in DOMAIN FirstDisk /\ Legible(change.file)
    BY DiscoveryAssumption
  <1>4. GoodDisk(dsDisk) /\ dsChanges \in 0 .. MaxDiskChanges
    BY DEF DsInv
  <1>5. GoodDisk(dsDisk')
    BY <1>1, <1>3, <1>4 DEF GoodDisk
  <1>6. dsDisk' # dsDisk
    BY <1>1, <1>3, <1>4 DEF GoodDisk
  <1>7. IsFiniteSet(dsPast') /\ Cardinality(dsPast') <= dsChanges' + 1
    <2>1. IsFiniteSet(dsPast) /\ Cardinality(dsPast) <= dsChanges + 1 /\ Cardinality(dsPast) \in Nat
      BY FS_CardinalityType DEF DsInv
    <2>2. IsFiniteSet(dsPast') /\ Cardinality(dsPast') \in {Cardinality(dsPast), Cardinality(dsPast) + 1}
      BY <1>2, <2>1, FS_AddElement
    <2> QED
      BY <1>2, <1>4, <2>1, <2>2
  <1>8. GoodCall(dsCall, dsPast', dsDisk')
    <2>1. PICK c, past, disk, then : c = dsCall /\ past = dsPast /\ disk = dsDisk /\ then = dsPast'
      OBVIOUS
    <2>2. GoodCall(c, past, disk) /\ past \subseteq then /\ dsDisk' \in then
      BY <1>2, <2>1 DEF DsInv
    <2>3. c.phase # "idle" => ~Still(then, dsDisk')
      BY <1>6, <2>1, <2>2 DEF Still, GoodCall
    <2>4. ASSUME c.phase # "idle", ManifestRead(c, past, disk) PROVE ManifestRead(c, then, dsDisk')
      BY <2>3, <2>4 DEF ManifestRead
    <2>5. ASSUME c.phase # "idle", Inspected(c, past, disk) PROVE Inspected(c, then, dsDisk')
      BY <2>2, <2>3, <2>5 DEF Inspected
    <2>6. ASSUME c.phase # "idle", NEW k, ReadTo(c, k, past, disk) PROVE ReadTo(c, k, then, dsDisk')
      BY <2>2, <2>3, <2>6 DEF ReadTo
    <2>7. ASSUME c.phase # "idle", RegistryRead(c, past, disk) PROVE RegistryRead(c, then, dsDisk')
      BY <2>3, <2>7, Zenon DEF RegistryRead
    <2>8. ASSUME c.phase # "idle", NEW ids, NEW k, SelectedTo(c, ids, k, past, disk)
          PROVE  SelectedTo(c, ids, k, then, dsDisk')
      BY <2>3, <2>8 DEF SelectedTo
    <2>9. ASSUME c.phase # "idle", ContextInspected(c, past, disk) PROVE ContextInspected(c, then, dsDisk')
      BY <2>4, <2>5, <2>9 DEF ContextInspected
    <2>10. ASSUME c.phase # "idle", ContextRead(c, past, disk) PROVE ContextRead(c, then, dsDisk')
      BY <2>6, <2>9, <2>10 DEF ContextRead
    <2>11. ASSUME c.phase # "idle", Gathered(c, past, disk) PROVE Gathered(c, then, dsDisk')
      BY <2>3, <2>4, <2>5, <2>6, <2>7, <2>8, <2>9, <2>10, <2>11
      DEF Gathered, AtInspect, AtRead, AtRegistry, AtSkills, AtSelect, AtDone
    <2>12. CASE c.phase = "idle"
      BY <2>1, <2>2, <2>12 DEF GoodCall, Gathered
    <2>13. CASE c.phase # "idle"
      BY <2>1, <2>2, <2>11, <2>13 DEF GoodCall
    <2> QED
      BY <2>1, <2>12, <2>13
  <1>9. dsChanges' \in 0 .. MaxDiskChanges
    BY <1>2, <1>4, DiscoveryAssumption
  <1>10. GoodCall(dsCall', dsPast', dsDisk')
    BY <1>2, <1>8
  <1> QED
    BY <1>5, <1>7, <1>9, <1>10 DEF DsInv

---------------------------------------------------------------------------
(* A call that goes on with other fields than those of the context, or of the   *)
(* registry, keeps what it knows of them.                                    *)
LEMMA SameContext ==
    ASSUME NEW c, NEW e, NEW past, NEW disk,
           e.manifest = c.manifest, e.present = c.present, e.contexts = c.contexts, e.warnings = c.warnings,
           e.request = c.request
    PROVE  /\ ManifestRead(c, past, disk) => ManifestRead(e, past, disk)
           /\ Inspected(c, past, disk) => Inspected(e, past, disk)
           /\ ContextInspected(c, past, disk) => ContextInspected(e, past, disk)
           /\ \A k : ReadTo(c, k, past, disk) => ReadTo(e, k, past, disk)
           /\ ContextRead(c, past, disk) => ContextRead(e, past, disk)
  <1>1. ManifestRead(c, past, disk) => ManifestRead(e, past, disk)
    BY DEF ManifestRead
  <1>2. Inspected(c, past, disk) => Inspected(e, past, disk)
    BY DEF Inspected
  <1>3. \A k : ReadTo(c, k, past, disk) => ReadTo(e, k, past, disk)
    BY DEF ReadTo
  <1>4. ContextInspected(c, past, disk) => ContextInspected(e, past, disk)
    BY <1>1, <1>2 DEF ContextInspected
  <1> QED
    BY <1>1, <1>2, <1>3, <1>4 DEF ContextRead

LEMMA SameRegistry ==
    ASSUME NEW c, NEW e, NEW past, NEW disk, e.registry = c.registry, e.found = c.found,
           RegistryRead(c, past, disk)
    PROVE  RegistryRead(e, past, disk)
  BY Zenon DEF RegistryRead

(* Two calls that differ in some fields only.                                *)
Differ(c, e, fields) ==
    /\ DOMAIN e = CallFields
    /\ "phase" \notin fields => e.phase = c.phase
    /\ "request" \notin fields => e.request = c.request
    /\ "manifest" \notin fields => e.manifest = c.manifest
    /\ "present" \notin fields => e.present = c.present
    /\ "contexts" \notin fields => e.contexts = c.contexts
    /\ "warnings" \notin fields => e.warnings = c.warnings
    /\ "registry" \notin fields => e.registry = c.registry
    /\ "found" \notin fields => e.found = c.found
    /\ "skills" \notin fields => e.skills = c.skills
    /\ "done" \notin fields => e.done = c.done

LEMMA FailedCall ==
    ASSUME DsInv, FailDiscovery, dsCall.phase # "idle"
    PROVE  DsInv' /\ dsCall'.phase = "failed" /\ Differ(dsCall, dsCall', {"phase"})
  <1>1. dsCall' = [dsCall EXCEPT !.phase = "failed"] /\ UNCHANGED <<dsDisk, dsChanges, dsPast>>
    BY DEF FailDiscovery, Advance
  <1>2. PICK c, e : c = dsCall /\ e = dsCall' /\ e = [c EXCEPT !.phase = "failed"] /\ DOMAIN c = CallFields
    BY <1>1 DEF DsInv, GoodCall
  <1>3. e.phase = "failed" /\ Differ(c, e, {"phase"})
    BY <1>2 DEF CallFields, Differ
  <1>4. GoodCall(e, dsPast, dsDisk)
    BY <1>2, <1>3 DEF DsInv, GoodCall, Gathered, Differ
  <1> QED
    BY <1>1, <1>2, <1>3, <1>4 DEF DsInv

LEMMA FailedInv ==
    ASSUME DsInv, FailDiscovery, dsCall.phase # "idle",
           Still(dsPast, dsDisk) => ~Discoverable(dsDisk, dsCall.request)
    PROVE  DsInv' /\ DsFinal
  <1>1. DsInv' /\ dsCall'.phase = "failed" /\ dsCall'.request = dsCall.request
    BY FailedCall DEF Differ
  <1>2. dsPast' = dsPast /\ dsDisk' = dsDisk
    BY DEF FailDiscovery, Advance
  <1> QED
    BY <1>1, <1>2 DEF DsFinal, Still

LEMMA AdvancedInv ==
    ASSUME DsInv, NEW e, Advance(e), GoodCall(e, dsPast, dsDisk), e.phase # "failed",
           dsCall.contexts \subseteq e.contexts, dsCall.warnings \subseteq e.warnings,
           dsCall.skills \subseteq e.skills
    PROVE  DsInv' /\ DsFinal
  <1>1. dsCall' = e /\ dsDisk' = dsDisk /\ dsPast' = dsPast /\ dsChanges' = dsChanges
    BY DEF Advance
  <1> QED
    BY <1>1 DEF DsInv, DsFinal

LEMMA FoundInv == ASSUME DsInv, NEW request \in SkillRequests, FindRepository(request) PROVE DsInv' /\ DsFinal
  <1>1. PICK there : there = IF dsDisk["manifest"].kind = "file" THEN "manifest" ELSE "failed"
    OBVIOUS
  <1>2. PICK e : e = [Idle EXCEPT !.request = request, !.phase = there]
    OBVIOUS
  <1>3. dsCall' = e /\ dsPast' = {dsDisk} /\ dsDisk' = dsDisk /\ dsChanges' = dsChanges
    BY <1>1, <1>2 DEF FindRepository
  <1>4. /\ DOMAIN e = CallFields /\ e.phase = there /\ e.request = request /\ e.present = <<>>
        /\ e.contexts = {} /\ e.warnings = {} /\ e.found = <<>> /\ e.skills = {}
    BY <1>2 DEF Idle, CallFields
  <1>5. GoodCall(e, {dsDisk}, dsDisk)
    BY <1>1, <1>4, DiscoveryAssumption DEF GoodCall, Gathered, AtManifest, NoSkills
  <1>6. IsFiniteSet(dsPast') /\ Cardinality(dsPast') <= dsChanges' + 1
    <2>1. IsFiniteSet({dsDisk}) /\ Cardinality({dsDisk}) = 1
      BY FS_Singleton, Zenon
    <2>2. dsChanges \in Nat
      BY DiscoveryAssumption DEF DsInv
    <2>3. IsFiniteSet(dsPast') /\ Cardinality(dsPast') = 1
      BY <1>3, <2>1
    <2> QED
      BY <1>3, <2>2, <2>3
  <1>7. DsInv'
    BY <1>3, <1>5, <1>6 DEF DsInv
  <1>8. there = "failed" => ~Discoverable(dsDisk, request)
    BY <1>1, Zenon DEF Discoverable
  <1> QED
    BY <1>1, <1>3, <1>4, <1>7, <1>8 DEF DsFinal

LEMMA ManifestInv == DsInv /\ ReadManifest => DsInv' /\ DsFinal
  <1> SUFFICES ASSUME DsInv, ReadManifest PROVE DsInv' /\ DsFinal
    OBVIOUS
  <1>1. /\ dsCall.phase = "manifest" /\ GoodCall(dsCall, dsPast, dsDisk) /\ AtManifest(dsCall)
        /\ Still(dsPast, dsDisk) => dsDisk["manifest"].kind = "file"
    BY DEF ReadManifest, DsInv, GoodCall, Gathered
  <1>2. CASE ~(GivesText(dsDisk["manifest"]) /\ ParsedManifest(dsDisk["manifest"]))
    <2>1. FailDiscovery /\ ~Discoverable(dsDisk, dsCall.request)
      BY <1>2, Zenon DEF ReadManifest, Discoverable, GivesText
    <2> QED
      BY <1>1, <2>1, FailedInv
  <1>3. CASE GivesText(dsDisk["manifest"]) /\ ParsedManifest(dsDisk["manifest"])
    <2>1. PICK c, entries : c = dsCall /\ entries = dsDisk["manifest"].is.entries
      OBVIOUS
    <2>2. PICK e : e = [c EXCEPT !.phase = "inspect", !.manifest = entries]
      OBVIOUS
    <2>3. Advance(e)
      BY <1>3, <2>1, <2>2 DEF ReadManifest
    <2>4. e.phase = "inspect" /\ e.manifest = entries /\ Differ(c, e, {"phase", "manifest"})
      BY <1>1, <2>1, <2>2 DEF GoodCall, CallFields, Differ
    <2>5. Listed(entries)
      BY <1>3, <2>1, DiscoveryAssumption DEF DsInv, GoodDisk, Legible, ParsedManifest
    <2>6. ManifestRead(e, dsPast, dsDisk)
      BY <1>1, <1>3, <2>1, <2>4, <2>5 DEF ManifestRead, ParsedManifest, DeclaredEntries, Listed
    <2>7. Inspected(e, dsPast, dsDisk)
      <3>1. <<>> \in Seq(BOOLEAN) /\ Len(<<>>) = 0
        OBVIOUS
      <3>2. e.present = <<>> /\ Len(e.manifest) \in Nat
        BY <1>1, <2>1, <2>4, <2>5 DEF AtManifest, Differ, Listed
      <3>3. e.present \in Seq(BOOLEAN) /\ Len(e.present) = 0
        BY <3>1, <3>2
      <3> QED
        BY <3>2, <3>3 DEF Inspected
    <2>8. GoodCall(e, dsPast, dsDisk)
      BY <1>1, <2>1, <2>4, <2>6, <2>7 DEF GoodCall, Gathered, AtManifest, AtInspect, NoSkills, Differ
    <2> QED
      BY <2>1, <2>3, <2>4, <2>8, AdvancedInv DEF Differ
  <1> QED
    BY <1>2, <1>3

LEMMA NoneTold == \A disk, entries, optional :
    ContextsTo(disk, entries, 0, optional) = {} /\ WarningsTo(disk, entries, 0) = {}
  BY DEF ContextsTo, WarningsTo

(* What one entry adds.                                                     *)
ContextAdded(disk, entry, optional) ==
    IF There(disk, entry) /\ (entry.required \/ optional)
    THEN {[path |-> entry.path, text |-> disk[entry.path].is]} ELSE {}

WarningAdded(disk, entry) == IF There(disk, entry) THEN {} ELSE {entry.path}

AddsEntry(disk, entries, optional, k, n) ==
    /\ ContextsTo(disk, entries, n, optional) =
        ContextsTo(disk, entries, k, optional) \cup ContextAdded(disk, entries[n], optional)
    /\ WarningsTo(disk, entries, n) = WarningsTo(disk, entries, k) \cup WarningAdded(disk, entries[n])

LEMMA OneMoreTold == \A disk, entries, optional : \A k \in Nat : AddsEntry(disk, entries, optional, k, k + 1)
  <1> SUFFICES ASSUME NEW disk, NEW entries, NEW optional, NEW k \in Nat, NEW n, n = k + 1
               PROVE  AddsEntry(disk, entries, optional, k, n)
    OBVIOUS
  <1>1. \A m : m \in 1 .. n <=> m \in 1 .. k \/ m = n
    OBVIOUS
  <1>2. PICK A, B : /\ A = {m \in 1 .. n : There(disk, entries[m]) /\ (entries[m].required \/ optional)}
                    /\ B = {m \in 1 .. k : There(disk, entries[m]) /\ (entries[m].required \/ optional)}
    BY Zenon
  <1>3. \A m : m \in A <=> m \in B \/ (m = n /\ There(disk, entries[m]) /\ (entries[m].required \/ optional))
    BY <1>1, <1>2
  <1>4. ContextsTo(disk, entries, n, optional) =
            {[path |-> entries[m].path, text |-> disk[entries[m].path].is] : m \in A}
        /\ ContextsTo(disk, entries, k, optional) =
            {[path |-> entries[m].path, text |-> disk[entries[m].path].is] : m \in B}
    BY <1>2 DEF ContextsTo
  <1>5. ContextsTo(disk, entries, n, optional) =
            ContextsTo(disk, entries, k, optional) \cup ContextAdded(disk, entries[n], optional)
    BY <1>3, <1>4 DEF ContextAdded
  <1>6. WarningsTo(disk, entries, n) = WarningsTo(disk, entries, k) \cup WarningAdded(disk, entries[n])
    BY <1>1 DEF WarningsTo, WarningAdded
  <1> QED
    BY <1>5, <1>6 DEF AddsEntry

LEMMA InspectedInv == DsInv /\ InspectContext => DsInv' /\ DsFinal
  <1> SUFFICES ASSUME DsInv, InspectContext PROVE DsInv' /\ DsFinal
    OBVIOUS
  <1>1. PICK c, past, disk, n : c = dsCall /\ past = dsPast /\ disk = dsDisk /\ n = Len(c.present) + 1
    OBVIOUS
  <1>2. c.phase = "inspect" /\ GoodCall(c, past, disk) /\ AtInspect(c, past, disk)
    BY <1>1 DEF InspectContext, DsInv, GoodCall, Gathered
  <1>3. /\ Len(c.manifest) \in Nat /\ c.present \in Seq(BOOLEAN) /\ Len(c.present) \in Nat
        /\ Len(c.present) <= Len(c.manifest) /\ DOMAIN c.manifest = 1 .. Len(c.manifest)
    BY <1>2 DEF AtInspect, ManifestRead, Inspected, Listed
  <1>4. CASE n > Len(c.manifest)
    <2>1. PICK e : e = [c EXCEPT !.phase = "read", !.done = 0]
      OBVIOUS
    <2>2. Advance(e)
      BY <1>1, <1>4, <2>1 DEF InspectContext
    <2>3. e.phase = "read" /\ e.done = 0 /\ Differ(c, e, {"phase", "done"})
      BY <1>2, <2>1 DEF GoodCall, CallFields, Differ
    <2>4. ContextInspected(e, past, disk)
      <3>1. Len(c.present) = Len(c.manifest)
        BY <1>1, <1>3, <1>4
      <3>2. ContextInspected(c, past, disk)
        BY <1>2, <3>1 DEF AtInspect, ContextInspected
      <3> QED
        BY <2>3, <3>2, SameContext DEF Differ
    <2>5. ReadTo(e, 0, past, disk)
      BY <1>2, <2>3, NoneTold DEF ReadTo, AtInspect, Differ
    <2>6. GoodCall(e, past, disk)
      <3>1. 0 \in 0 .. Len(c.manifest)
        BY <1>3
      <3> QED
        BY <1>2, <2>3, <2>4, <2>5, <3>1 DEF GoodCall, Gathered, AtInspect, AtRead, NoSkills, Differ
    <2> QED
      BY <1>1, <2>2, <2>3, <2>6, AdvancedInv DEF Differ
  <1>5. CASE ~(n > Len(c.manifest))
    <2>1. n \in 1 .. Len(c.manifest)
      BY <1>1, <1>3, <1>5
    <2>2. PICK entry, file : entry = c.manifest[n] /\ file = disk[entry.path]
      OBVIOUS
    <2>3. CASE ~Inspectable(file, entry.required)
      <3>1. FailDiscovery
        BY <1>1, <1>5, <2>2, <2>3 DEF InspectContext
      <3>2. Still(past, disk) => ~Discoverable(disk, c.request)
        BY <1>2, <1>3, <2>1, <2>2, <2>3, Zenon DEF AtInspect, ManifestRead, Discoverable
      <3> QED
        BY <1>1, <1>2, <3>1, <3>2, FailedInv
    <2>4. CASE Inspectable(file, entry.required)
      <3>1. PICK there : there = (file.kind = "file") /\ there \in BOOLEAN
        BY Zenon
      <3>2. PICK e : e = [c EXCEPT !.present = Append(c.present, there)]
        BY Zenon
      <3>3. Advance(e)
        BY <1>1, <1>5, <2>2, <2>4, <3>1, <3>2, Zenon DEF InspectContext
      <3>4. e.present = Append(c.present, there) /\ Differ(c, e, {"present"})
        BY <1>2, <3>2 DEF GoodCall, CallFields, Differ
      <3>5. /\ e.present \in Seq(BOOLEAN) /\ Len(e.present) = n /\ e.present[n] = there
            /\ \A k \in 1 .. Len(c.present) : e.present[k] = c.present[k]
        BY <1>1, <1>3, <3>1, <3>4
      <3>6. ManifestRead(e, past, disk)
        BY <1>2, <3>4 DEF AtInspect, ManifestRead, Differ
      <3>7. Inspected(e, past, disk)
        <4>1. e.manifest = c.manifest /\ Len(e.present) <= Len(e.manifest)
          BY <2>1, <3>4, <3>5 DEF Differ
        <4>2. ASSUME NEW k \in 1 .. Len(e.present)
              PROVE  /\ e.present[k] => \E seen \in past : There(seen, c.manifest[k])
                     /\ c.manifest[k].required => e.present[k]
                     /\ Still(past, disk) => /\ e.present[k] <=> There(disk, c.manifest[k])
                                             /\ Inspectable(disk[c.manifest[k].path], c.manifest[k].required)
          <5>1. CASE k = n
            BY <1>2, <2>2, <2>4, <3>1, <3>5, <5>1 DEF GoodCall, There, Inspectable
          <5>2. CASE k # n
            <6>1. k \in 1 .. Len(c.present)
              BY <1>1, <1>3, <3>5, <5>2
            <6> QED
              BY <1>2, <3>5, <6>1 DEF AtInspect, Inspected
          <5> QED
            BY <5>1, <5>2
        <4> QED
          BY <3>5, <4>1, <4>2 DEF Inspected
      <3>8. GoodCall(e, past, disk)
        BY <1>2, <3>4, <3>6, <3>7 DEF GoodCall, Gathered, AtInspect, NoSkills, Differ
      <3> QED
        BY <1>1, <1>2, <3>3, <3>4, <3>8, AdvancedInv DEF Differ
    <2> QED
      BY <2>3, <2>4
  <1> QED
    BY <1>4, <1>5

LEMMA ReadInv == DsInv /\ ReadContext => DsInv' /\ DsFinal
  <1> SUFFICES ASSUME DsInv, ReadContext PROVE DsInv' /\ DsFinal
    OBVIOUS
  <1>1. PICK c, past, disk, n : c = dsCall /\ past = dsPast /\ disk = dsDisk /\ n = c.done + 1
    OBVIOUS
  <1>2. c.phase = "read" /\ GoodCall(c, past, disk) /\ AtRead(c, past, disk)
    BY <1>1 DEF ReadContext, DsInv, GoodCall, Gathered
  <1>3. /\ Len(c.manifest) \in Nat /\ DOMAIN c.manifest = 1 .. Len(c.manifest)
        /\ Len(c.present) = Len(c.manifest) /\ c.done \in 0 .. Len(c.manifest)
        /\ ReadTo(c, c.done, past, disk) /\ ContextInspected(c, past, disk)
        /\ ManifestRead(c, past, disk) /\ Inspected(c, past, disk)
    BY <1>2 DEF AtRead, ContextInspected, ManifestRead, Listed
  <1>4. CASE n > Len(c.manifest)
    <2>1. PICK e : e = [c EXCEPT !.phase = "registry", !.done = 0]
      OBVIOUS
    <2>2. Advance(e)
      BY <1>1, <1>4, <2>1 DEF ReadContext
    <2>3. e.phase = "registry" /\ e.done = 0 /\ Differ(c, e, {"phase", "done"})
      BY <1>2, <2>1 DEF GoodCall, CallFields, Differ
    <2>4. c.done = Len(c.manifest)
      BY <1>1, <1>3, <1>4
    <2>5. ContextRead(c, past, disk)
      BY <1>3, <2>4 DEF ContextRead
    <2>6. ContextRead(e, past, disk)
      BY <2>3, <2>5, SameContext DEF Differ
    <2>7. GoodCall(e, past, disk)
      BY <1>2, <2>3, <2>6 DEF GoodCall, Gathered, AtRead, AtRegistry, NoSkills, Differ
    <2> QED
      BY <1>1, <2>2, <2>3, <2>7, AdvancedInv DEF Differ
  <1>5. CASE ~(n > Len(c.manifest))
    <2>1. n \in 1 .. Len(c.manifest) /\ n \in 1 .. n /\ c.done \in Nat /\ n = c.done + 1
          /\ \A k : k \in 1 .. n <=> k \in 1 .. c.done \/ k = n
      BY <1>1, <1>3, <1>5
    <2>2. PICK entry, file : entry = c.manifest[n] /\ file = disk[entry.path]
      OBVIOUS
    <2>3. /\ entry.required => c.present[n]
          /\ Still(past, disk) => (c.present[n] <=> file.kind = "file")
      BY <1>3, <2>1, <2>2, Zenon DEF Inspected, There
    <2>4. /\ ContextsTo(disk, c.manifest, n, c.request.optional) =
                ContextsTo(disk, c.manifest, c.done, c.request.optional) \cup
                IF file.kind = "file" /\ (entry.required \/ c.request.optional)
                THEN {[path |-> entry.path, text |-> file.is]} ELSE {}
          /\ WarningsTo(disk, c.manifest, n) = WarningsTo(disk, c.manifest, c.done) \cup
                IF file.kind = "file" THEN {} ELSE {entry.path}
      <3>1. AddsEntry(disk, c.manifest, c.request.optional, c.done, n)
        BY <2>1, OneMoreTold
      <3> QED
        BY <2>2, <3>1 DEF AddsEntry, ContextAdded, WarningAdded, There
    <2>5. ASSUME NEW e, Advance(e), Differ(c, e, {"done", "contexts", "warnings"}), e.done = n,
                 ReadTo(e, n, past, disk),
                 c.contexts \subseteq e.contexts, c.warnings \subseteq e.warnings
          PROVE  DsInv' /\ DsFinal
      <3>1. ContextInspected(e, past, disk)
        BY <1>3, <2>5 DEF ContextInspected, ManifestRead, Inspected, Differ
      <3>2. n \in 0 .. Len(c.manifest)
        BY <2>1
      <3>3. GoodCall(e, past, disk)
        BY <1>2, <2>5, <3>1, <3>2 DEF GoodCall, Gathered, AtRead, NoSkills, Differ
      <3> QED
        BY <1>1, <1>2, <2>5, <3>3, AdvancedInv DEF Differ
    <2>6. CASE ~entry.required /\ ~c.present[n]
      <3>1. PICK e : e = [c EXCEPT !.done = n, !.warnings = c.warnings \cup {entry.path}]
        OBVIOUS
      <3>2. Advance(e)
        BY <1>1, <1>5, <2>2, <2>6, <3>1 DEF ReadContext
      <3>3. /\ e.done = n /\ e.warnings = c.warnings \cup {entry.path} /\ e.contexts = c.contexts
            /\ Differ(c, e, {"done", "warnings"})
        BY <1>2, <3>1 DEF GoodCall, CallFields, Differ
      <3>4. Differ(c, e, {"done", "contexts", "warnings"})
        BY <3>3 DEF Differ
      <3>5. ReadTo(e, n, past, disk)
        <4>1. \A y \in e.contexts : \E k \in 1 .. n :
                /\ y.path = e.manifest[k].path /\ e.present[k]
                /\ \E seen \in past : seen[y.path].is = y.text
          <5>1. ASSUME NEW y \in c.contexts
                PROVE  \E k \in 1 .. n : /\ y.path = c.manifest[k].path /\ c.present[k]
                                         /\ \E seen \in past : seen[y.path].is = y.text
            BY <1>3, <2>1, <5>1 DEF ReadTo
          <5> QED
            BY <3>3, <3>4, <5>1 DEF Differ
        <4>2. \A w \in e.warnings : \E k \in 1 .. n : w = e.manifest[k].path /\ ~e.present[k]
          BY <1>3, <2>1, <2>2, <2>6, <3>3, <3>4 DEF ReadTo, Differ
        <4>3. ASSUME NEW k \in 1 .. n, e.manifest[k].required
              PROVE  \E y \in e.contexts : y.path = e.manifest[k].path
          <5>1. e.manifest = c.manifest
            BY <3>3 DEF Differ
          <5>2. k # n
            BY <2>2, <2>6, <4>3, <5>1
          <5>3. k \in 1 .. c.done
            BY <2>1, <5>2
          <5>4. \E y \in c.contexts : y.path = c.manifest[k].path
            BY <1>3, <4>3, <5>1, <5>3, Zenon DEF ReadTo
          <5> QED
            BY <3>3, <5>1, <5>4
        <4>4. Still(past, disk) => /\ e.contexts = ContextsTo(disk, e.manifest, n, e.request.optional)
                                   /\ e.warnings = WarningsTo(disk, e.manifest, n)
          BY <1>3, <2>3, <2>4, <2>6, <3>3, <3>4, Zenon DEF ReadTo, Differ
        <4> QED
          BY <4>1, <4>2, <4>3, <4>4 DEF ReadTo
      <3> QED
        BY <2>5, <3>2, <3>3, <3>4, <3>5
    <2>7. CASE ~entry.required /\ c.present[n] /\ ~c.request.optional
      <3>1. PICK e : e = [c EXCEPT !.done = n]
        BY Zenon
      <3>2. Advance(e)
        BY <1>1, <1>5, <2>2, <2>7, <3>1 DEF ReadContext
      <3>3. /\ e.done = n /\ e.warnings = c.warnings /\ e.contexts = c.contexts
            /\ Differ(c, e, {"done"})
        BY <1>2, <3>1 DEF GoodCall, CallFields, Differ
      <3>4. Differ(c, e, {"done", "contexts", "warnings"})
        BY <3>3 DEF Differ
      <3>5. ReadTo(e, n, past, disk)
        <4>1. \A y \in e.contexts : \E k \in 1 .. n :
                /\ y.path = e.manifest[k].path /\ e.present[k]
                /\ \E seen \in past : seen[y.path].is = y.text
          <5>1. ASSUME NEW y \in c.contexts
                PROVE  \E k \in 1 .. n : /\ y.path = c.manifest[k].path /\ c.present[k]
                                         /\ \E seen \in past : seen[y.path].is = y.text
            BY <1>3, <2>1, <5>1 DEF ReadTo
          <5> QED
            BY <3>3, <3>4, <5>1 DEF Differ
        <4>2. \A w \in e.warnings : \E k \in 1 .. n : w = e.manifest[k].path /\ ~e.present[k]
          BY <1>3, <2>1, <2>2, <2>7, <3>3, <3>4 DEF ReadTo, Differ
        <4>3. \A k \in 1 .. n : e.manifest[k].required => \E y \in e.contexts : y.path = e.manifest[k].path
          BY <1>3, <2>1, <2>2, <2>7, <3>3, <3>4 DEF ReadTo, Differ
        <4>4. Still(past, disk) => /\ e.contexts = ContextsTo(disk, e.manifest, n, e.request.optional)
                                   /\ e.warnings = WarningsTo(disk, e.manifest, n)
          BY <1>3, <2>3, <2>4, <2>7, <3>3, <3>4, Zenon DEF ReadTo, Differ
        <4> QED
          BY <4>1, <4>2, <4>3, <4>4 DEF ReadTo
      <3> QED
        BY <2>5, <3>2, <3>3, <3>4, <3>5
    <2>8. CASE ~(~entry.required /\ ~c.present[n]) /\ ~(~entry.required /\ c.present[n] /\ ~c.request.optional)
      <3>1. c.present[n] /\ (entry.required \/ c.request.optional)
        BY <2>3, <2>8
      <3>2. CASE file.kind \in {"file", "outside"}
        <4>1. PICK x : x = [path |-> entry.path, text |-> file.is]
          BY Zenon
        <4>8. x.path = entry.path /\ x.text = file.is
          BY <4>1
        <4>2. PICK e : e = [c EXCEPT !.done = n, !.contexts = c.contexts \cup {x}]
          OBVIOUS
        <4>3. Advance(e)
          BY <1>1, <1>5, <2>2, <2>8, <3>2, <4>1, <4>2 DEF ReadContext, GivesText
        <4>4. /\ e.done = n /\ e.contexts = c.contexts \cup {x} /\ e.warnings = c.warnings
              /\ Differ(c, e, {"done", "contexts"})
          BY <1>2, <4>2 DEF GoodCall, CallFields, Differ
        <4>5. Differ(c, e, {"done", "contexts", "warnings"})
          BY <4>4 DEF Differ
        <4>6. disk \in past
          BY <1>2 DEF GoodCall
        <4>7. ReadTo(e, n, past, disk)
          <5>1. \A y \in e.contexts : \E k \in 1 .. n :
                    /\ y.path = e.manifest[k].path /\ e.present[k]
                    /\ \E seen \in past : seen[y.path].is = y.text
            <6>1. ASSUME NEW y \in c.contexts
                  PROVE  \E k \in 1 .. n : /\ y.path = e.manifest[k].path /\ e.present[k]
                                           /\ \E seen \in past : seen[y.path].is = y.text
              BY <1>3, <2>1, <4>5, <6>1, Zenon DEF ReadTo, Differ
            <6>2. /\ x.path = e.manifest[n].path /\ e.present[n]
                  /\ \E seen \in past : seen[x.path].is = x.text
              BY <2>2, <3>1, <4>5, <4>6, <4>8 DEF Differ
            <6> QED
              BY <2>1, <4>4, <6>1, <6>2
          <5>2. \A w \in e.warnings : \E k \in 1 .. n : w = e.manifest[k].path /\ ~e.present[k]
            <6>1. \A w \in c.warnings : \E k \in 1 .. c.done : w = c.manifest[k].path /\ ~c.present[k]
              BY <1>3 DEF ReadTo
            <6>2. e.manifest = c.manifest /\ e.present = c.present /\ e.warnings = c.warnings
              BY <4>4, <4>5 DEF Differ
            <6> QED
              BY <2>1, <6>1, <6>2, Zenon
          <5>3. \A k \in 1 .. n : e.manifest[k].required => \E y \in e.contexts : y.path = e.manifest[k].path
            BY <1>3, <2>1, <2>2, <4>4, <4>5, <4>8 DEF ReadTo, Differ
          <5>4. Still(past, disk) => /\ e.contexts = ContextsTo(disk, e.manifest, n, e.request.optional)
                                     /\ e.warnings = WarningsTo(disk, e.manifest, n)
            BY <1>3, <2>3, <2>4, <3>1, <4>1, <4>4, <4>5, Zenon DEF ReadTo, Differ
          <5> QED
            BY <5>1, <5>2, <5>3, <5>4 DEF ReadTo
        <4> QED
          BY <2>5, <4>3, <4>4, <4>5, <4>7
      <3>3. CASE file.kind \notin {"file", "outside"}
        <4>1. FailDiscovery
          BY <1>1, <1>5, <2>2, <2>8, <3>3 DEF ReadContext, GivesText
        <4>2. ~Still(past, disk)
          BY <2>3, <3>1, <3>3
        <4> QED
          BY <1>1, <1>2, <4>1, <4>2, FailedInv
      <3> QED
        BY <3>2, <3>3
    <2> QED
      BY <2>6, <2>7, <2>8
  <1> QED
    BY <1>4, <1>5

LEMMA RegistryInv == DsInv /\ InspectRegistry => DsInv' /\ DsFinal
  <1> SUFFICES ASSUME DsInv, InspectRegistry PROVE DsInv' /\ DsFinal
    OBVIOUS
  <1>1. PICK c, past, disk : c = dsCall /\ past = dsPast /\ disk = dsDisk
    OBVIOUS
  <1>2. c.phase = "registry" /\ GoodCall(c, past, disk) /\ AtRegistry(c, past, disk)
    BY <1>1 DEF InspectRegistry, DsInv, GoodCall, Gathered
  <1>3. CASE Inspectable(disk["registry"], TRUE)
    <2>1. PICK e : e = [c EXCEPT !.phase = "parse"]
      BY Zenon
    <2>2. Advance(e)
      BY <1>1, <1>3, <2>1 DEF InspectRegistry
    <2>3. e.phase = "parse" /\ Differ(c, e, {"phase"})
      BY <1>2, <2>1 DEF GoodCall, CallFields, Differ
    <2>4. ContextRead(e, past, disk)
      BY <1>2, <2>3, SameContext DEF AtRegistry, Differ
    <2>5. GoodCall(e, past, disk)
      BY <1>2, <1>3, <2>3, <2>4 DEF GoodCall, Gathered, AtRegistry, NoSkills, Differ, Inspectable
    <2> QED
      BY <1>1, <2>2, <2>3, <2>5, AdvancedInv DEF Differ
  <1>4. CASE ~Inspectable(disk["registry"], TRUE)
    <2>1. FailDiscovery /\ ~Discoverable(disk, c.request)
      BY <1>1, <1>4 DEF InspectRegistry, Discoverable, Inspectable
    <2> QED
      BY <1>1, <1>2, <2>1, FailedInv
  <1> QED
    BY <1>3, <1>4, Zenon

LEMMA ParsedInv == DsInv /\ ReadRegistry => DsInv' /\ DsFinal
  <1> SUFFICES ASSUME DsInv, ReadRegistry PROVE DsInv' /\ DsFinal
    OBVIOUS
  <1>1. PICK c, past, disk : c = dsCall /\ past = dsPast /\ disk = dsDisk
    OBVIOUS
  <1>2. /\ c.phase = "parse" /\ GoodCall(c, past, disk) /\ AtRegistry(c, past, disk)
        /\ Still(past, disk) => disk["registry"].kind = "file"
    BY <1>1 DEF ReadRegistry, DsInv, GoodCall, Gathered
  <1>3. CASE GivesText(disk["registry"]) /\ ParsedRegistry(disk["registry"])
    <2>1. PICK e, skills : e = [c EXCEPT !.phase = "skills", !.registry = skills] /\ skills = disk["registry"].is.skills
      BY Zenon
    <2>2. Advance(e)
      BY <1>1, <1>3, <2>1 DEF ReadRegistry
    <2>3. e.phase = "skills" /\ e.registry = skills /\ Differ(c, e, {"phase", "registry"})
      BY <1>2, <2>1 DEF GoodCall, CallFields, Differ
    <2>4. ContextRead(e, past, disk)
      BY <1>2, <2>3, SameContext DEF AtRegistry, Differ
    <2>5. Listed(skills)
      BY <1>1, <1>3, <2>1, DiscoveryAssumption DEF DsInv, GoodDisk, Legible, ParsedRegistry
    <2>6. RegistryRead(e, past, disk)
      <3>1. <<>> \in Seq(BOOLEAN) /\ Len(<<>>) = 0
        OBVIOUS
      <3>2. e.found = <<>> /\ Len(e.registry) \in Nat
        BY <1>2, <2>3, <2>5 DEF AtRegistry, NoSkills, Differ, Listed
      <3>3. e.found \in Seq(BOOLEAN) /\ Len(e.found) = 0
        BY <3>1, <3>2
      <3>4. 1 .. Len(e.found) = {} /\ Len(e.found) <= Len(e.registry)
        BY <3>2, <3>3
      <3>5. e.registry = SkillsOf(disk) /\ Listed(e.registry)
        BY <2>1, <2>3, <2>5 DEF SkillsOf
      <3> QED
        BY <1>2, <1>3, <3>3, <3>4, <3>5 DEF RegistryRead
    <2>7. GoodCall(e, past, disk)
      BY <1>2, <2>3, <2>4, <2>6 DEF GoodCall, Gathered, AtRegistry, AtSkills, NoSkills, Differ
    <2> QED
      BY <1>1, <2>2, <2>3, <2>7, AdvancedInv DEF Differ
  <1>4. CASE ~(GivesText(disk["registry"]) /\ ParsedRegistry(disk["registry"]))
    <2>1. FailDiscovery /\ ~Discoverable(disk, c.request)
      BY <1>1, <1>4, Zenon DEF ReadRegistry, Discoverable, GivesText
    <2> QED
      BY <1>1, <1>2, <2>1, FailedInv
  <1> QED
    BY <1>3, <1>4

(* The identifiers of a selection are a list.                                *)
LEMMA SelectionListed ==
    ASSUME NEW registry, Listed(registry), NEW request, Listed(request.skills)
    PROVE  Listed(SelectedIds(registry, request))
  <1>1. PICK chosen : chosen = {k \in DOMAIN registry : registry[k].status = "active" /\ registry[k].default}
    BY Zenon
  <1>2. IsFiniteSet(chosen) /\ Cardinality(chosen) \in Nat
    <2>1. IsFiniteSet(1 .. Len(registry))
      BY FS_Interval DEF Listed
    <2>2. chosen \subseteq 1 .. Len(registry)
      BY <1>1 DEF Listed
    <2> QED
      BY <2>1, <2>2, FS_Subset, FS_CardinalityType, Zenon
  <1>3. PICK n : n = Cardinality(chosen) /\ n \in Nat
    BY <1>2
  <1>4. DefaultSkills(registry) =
            [m \in 1 .. n |-> registry[CHOOSE k \in chosen : Cardinality({j \in chosen : j <= k}) = m].id]
    BY <1>1, <1>3 DEF DefaultSkills
  <1>5. PICK list : list = DefaultSkills(registry)
    OBVIOUS
  <1>6. DOMAIN list = 1 .. n
    BY <1>4, <1>5
  <1>7. Len(list) = n
    <2>1. list = [m \in 1 .. n |-> list[m]]
      BY <1>4, <1>5
    <2>2. list \in [1 .. n -> {list[m] : m \in 1 .. n}]
      BY <2>1
    <2>3. list \in Seq({list[m] : m \in 1 .. n})
      BY <1>3, <2>2, SeqDef
    <2> QED
      BY <1>3, <1>6, <2>3, LenProperties
  <1>8. Listed(DefaultSkills(registry))
    BY <1>3, <1>5, <1>6, <1>7 DEF Listed
  <1> QED
    BY <1>8 DEF SelectedIds

LEMMA SkillFoundInv == DsInv /\ InspectSkill => DsInv' /\ DsFinal
  <1> SUFFICES ASSUME DsInv, InspectSkill PROVE DsInv' /\ DsFinal
    OBVIOUS
  <1>1. PICK c, past, disk, n : c = dsCall /\ past = dsPast /\ disk = dsDisk /\ n = Len(c.found) + 1
    OBVIOUS
  <1>2. c.phase = "skills" /\ GoodCall(c, past, disk) /\ AtSkills(c, past, disk)
    BY <1>1 DEF InspectSkill, DsInv, GoodCall, Gathered
  <1>3. /\ RegistryRead(c, past, disk) /\ Len(c.registry) \in Nat /\ c.found \in Seq(BOOLEAN)
        /\ Len(c.found) \in Nat /\ Len(c.found) <= Len(c.registry)
        /\ DOMAIN c.registry = 1 .. Len(c.registry)
    <2>1. RegistryRead(c, past, disk)
      BY <1>2 DEF AtSkills
    <2>2. c.found \in Seq(BOOLEAN) /\ Len(c.found) <= Len(c.registry) /\ Listed(c.registry)
      BY <2>1 DEF RegistryRead
    <2>3. Len(c.found) \in Nat
      BY <2>2
    <2> QED
      BY <2>1, <2>2, <2>3 DEF Listed
  <1>4. CASE n > Len(c.registry)
    <2>1. PICK e : e = [c EXCEPT !.phase = "select"]
      BY Zenon
    <2>2. Advance(e)
      BY <1>1, <1>4, <2>1 DEF InspectSkill
    <2>3. e.phase = "select" /\ Differ(c, e, {"phase"})
      BY <1>2, <2>1 DEF GoodCall, CallFields, Differ
    <2>4. ContextRead(e, past, disk)
      BY <1>2, <2>3, SameContext DEF AtSkills, Differ
    <2>5. RegistryRead(e, past, disk) /\ Len(e.found) = Len(e.registry)
      BY <1>1, <1>3, <1>4, <2>3, SameRegistry DEF Differ
    <2>6. PICK ids : ids = SelectedIds(e.registry, e.request)
      OBVIOUS
    <2>7. 0 \in 0 .. Len(ids)
      <3>1. Listed(e.request.skills) /\ Listed(e.registry)
        BY <1>2, <2>3, <2>5 DEF GoodCall, RegistryRead, Differ
      <3> QED
        BY <2>6, <3>1, SelectionListed DEF Listed
    <2>8. SelectedTo(e, ids, 0, past, disk)
      BY <1>2, <2>3 DEF AtSkills, SelectedTo, Differ
    <2>9. AtSelect(e, past, disk)
      BY <1>2, <2>3, <2>4, <2>5, <2>6, <2>7, <2>8 DEF AtSelect, AtSkills, Differ
    <2>10. GoodCall(e, past, disk)
      BY <1>2, <2>3, <2>9 DEF GoodCall, Gathered, Differ
    <2> QED
      BY <1>1, <2>2, <2>3, <2>10, AdvancedInv DEF Differ
  <1>5. CASE ~(n > Len(c.registry))
    <2>1. n \in 1 .. Len(c.registry)
      BY <1>1, <1>3, <1>5
    <2>2. PICK file : file = disk[c.registry[n].path]
      OBVIOUS
    <2>3. CASE ~Inspectable(file, FALSE)
      <3>1. FailDiscovery
        BY <1>1, <1>5, <2>2, <2>3 DEF InspectSkill
      <3>2. Still(past, disk) => ~Discoverable(disk, c.request)
        BY <1>3, <2>1, <2>2, <2>3, Zenon DEF RegistryRead, Discoverable
      <3> QED
        BY <1>1, <1>2, <3>1, <3>2, FailedInv
    <2>4. CASE Inspectable(file, FALSE)
      <3>1. PICK there : there = (file.kind = "file") /\ there \in BOOLEAN
        BY Zenon
      <3>2. PICK e : e = [c EXCEPT !.found = Append(c.found, there)]
        BY Zenon
      <3>3. Advance(e)
        BY <1>1, <1>5, <2>2, <2>4, <3>1, <3>2, Zenon DEF InspectSkill
      <3>4. e.found = Append(c.found, there) /\ Differ(c, e, {"found"})
        BY <1>2, <3>2 DEF GoodCall, CallFields, Differ
      <3>5. /\ e.found \in Seq(BOOLEAN) /\ Len(e.found) = n /\ e.found[n] = there
            /\ \A k \in 1 .. Len(c.found) : e.found[k] = c.found[k]
        BY <1>1, <1>3, <3>1, <3>4
      <3>6. ContextRead(e, past, disk)
        BY <1>2, <3>4, SameContext, Zenon DEF AtSkills, Differ
      <3>7. RegistryRead(e, past, disk)
        <4>1. e.registry = c.registry /\ Len(e.found) <= Len(e.registry)
          BY <2>1, <3>4, <3>5 DEF Differ
        <4>2. ASSUME Still(past, disk), NEW k \in 1 .. Len(e.found)
              PROVE  /\ e.found[k] <=> disk[c.registry[k].path].kind = "file"
                     /\ Inspectable(disk[c.registry[k].path], FALSE)
          <5>1. CASE k = n
            BY <2>2, <2>4, <3>1, <3>5, <5>1, Zenon
          <5>2. CASE k # n
            <6>1. k \in 1 .. Len(c.found)
              BY <1>1, <1>3, <3>5, <5>2
            <6> QED
              BY <1>3, <3>5, <4>2, <6>1, Zenon DEF RegistryRead
          <5> QED
            BY <5>1, <5>2, Zenon
        <4> QED
          BY <1>3, <3>5, <4>1, <4>2, Zenon DEF RegistryRead
      <3>8. GoodCall(e, past, disk)
        BY <1>2, <3>4, <3>6, <3>7 DEF GoodCall, Gathered, AtSkills, Differ
      <3> QED
        BY <1>1, <1>2, <3>3, <3>4, <3>8, AdvancedInv DEF Differ
    <2> QED
      BY <2>3, <2>4, Zenon
  <1> QED
    BY <1>4, <1>5

(* What ReadSkill asks of the skill that it reads next.                       *)
Readable(c, disk, id) ==
    \E k \in DOMAIN c.registry :
        LET skill == c.registry[k]  file == disk[skill.path] IN
        /\ skill.id = id /\ skill.status = "active" /\ c.found[k]
        /\ file.kind \in {"file", "outside"} /\ ParsedFrontmatter(file, id)

(* What makes a repository describable, by the parts.                       *)
Inspects(disk, entries) == \A n \in DOMAIN entries : Inspectable(disk[entries[n].path], entries[n].required)

Finds(disk, registry) == \A n \in DOMAIN registry : Inspectable(disk[registry[n].path], FALSE)

OffersAll(disk, registry, ids) == \A n \in DOMAIN ids : OffersSkill(disk, registry, ids[n])

LEMMA DiscoverableIs == \A disk, request :
    Discoverable(disk, request) <=>
        /\ disk["manifest"].kind = "file" /\ ParsedManifest(disk["manifest"])
        /\ disk["registry"].kind = "file" /\ ParsedRegistry(disk["registry"])
        /\ Inspects(disk, DeclaredEntries(disk)) /\ Finds(disk, SkillsOf(disk))
        /\ Selectable(SelectedIds(SkillsOf(disk), request))
        /\ OffersAll(disk, SkillsOf(disk), SelectedIds(SkillsOf(disk), request))
  BY DEF Discoverable, Inspects, Finds, Selectable, OffersAll, OffersSkill

LEMMA SkillReadInv == DsInv /\ ReadSkill => DsInv' /\ DsFinal
  <1> SUFFICES ASSUME DsInv, ReadSkill PROVE DsInv' /\ DsFinal
    OBVIOUS
  <1>1. PICK c, past, disk, n, ids :
            /\ c = dsCall /\ past = dsPast /\ disk = dsDisk /\ n = c.done + 1
            /\ ids = SelectedIds(c.registry, c.request)
    OBVIOUS
  <1>2. c.phase = "select" /\ GoodCall(c, past, disk) /\ AtSelect(c, past, disk)
    BY <1>1 DEF ReadSkill, DsInv, GoodCall, Gathered
  <1>3. /\ ContextRead(c, past, disk) /\ RegistryRead(c, past, disk) /\ Len(c.found) = Len(c.registry)
        /\ c.done \in 0 .. Len(ids) /\ SelectedTo(c, ids, c.done, past, disk)
    BY <1>1, <1>2 DEF AtSelect
  <1>4. Len(ids) \in Nat /\ DOMAIN ids = 1 .. Len(ids)
    BY <1>1, <1>2, <1>3, SelectionListed DEF GoodCall, RegistryRead, Listed
  <1>5. CASE ~Selectable(ids)
    <2>1. FailDiscovery
      BY <1>1, <1>5 DEF ReadSkill, Selectable
    <2>2. Still(past, disk) => ~Discoverable(disk, c.request)
      BY <1>1, <1>3, <1>5, DiscoverableIs DEF RegistryRead
    <2> QED
      BY <1>1, <1>2, <2>1, <2>2, FailedInv
  <1>6. CASE Selectable(ids) /\ n > Len(ids)
    <2>1. PICK e : e = [c EXCEPT !.phase = "done"]
      BY Zenon
    <2>2. Advance(e)
      BY <1>1, <1>6, <2>1 DEF ReadSkill, Selectable
    <2>3. e.phase = "done" /\ Differ(c, e, {"phase"})
      BY <1>2, <2>1 DEF GoodCall, CallFields, Differ
    <2>4. ContextRead(e, past, disk)
      BY <1>3, <2>3, SameContext, Zenon DEF Differ
    <2>5. RegistryRead(e, past, disk) /\ Len(e.found) = Len(e.registry)
      BY <1>3, <2>3, SameRegistry DEF Differ
    <2>6. c.done = Len(ids)
      BY <1>1, <1>3, <1>4, <1>6
    <2>7. SelectedTo(e, ids, Len(ids), past, disk)
      BY <1>3, <2>3, <2>6 DEF SelectedTo, Differ
    <2>8. AtDone(e, past, disk)
      BY <1>1, <1>6, <2>3, <2>4, <2>5, <2>7 DEF AtDone, Differ
    <2>9. GoodCall(e, past, disk)
      BY <1>2, <2>3, <2>8 DEF GoodCall, Gathered, Differ
    <2> QED
      BY <1>1, <2>2, <2>3, <2>9, AdvancedInv DEF Differ
  <1>7. CASE Selectable(ids) /\ ~(n > Len(ids))
    <2>1. n \in 1 .. Len(ids) /\ c.done \in Nat /\ \A k : k \in 1 .. n <=> k \in 1 .. c.done \/ k = n
      BY <1>1, <1>3, <1>4, <1>7
    <2>2. /\ DOMAIN c.registry = 1 .. Len(c.found)
          /\ Still(past, disk) => /\ c.registry = SkillsOf(disk)
                                  /\ \A k \in DOMAIN c.registry : c.found[k] <=> disk[c.registry[k].path].kind = "file"
      BY <1>3, Zenon DEF RegistryRead, Listed
    <2>3. CASE Readable(c, disk, ids[n])
      <3>1. PICK e : e = [c EXCEPT !.done = n, !.skills = c.skills \cup {ids[n]}]
        OBVIOUS
      <3>2. Advance(e)
        BY <1>1, <1>7, <2>3, <3>1 DEF ReadSkill, Selectable, Readable, GivesText
      <3>3. e.done = n /\ e.skills = c.skills \cup {ids[n]} /\ Differ(c, e, {"done", "skills"})
        BY <1>2, <3>1 DEF GoodCall, CallFields, Differ
      <3>4. ContextRead(e, past, disk)
        BY <1>3, <3>3, SameContext, Zenon DEF Differ
      <3>5. RegistryRead(e, past, disk) /\ Len(e.found) = Len(e.registry)
        BY <1>3, <3>3, SameRegistry DEF Differ
      <3>6. /\ \E j \in DOMAIN c.registry : c.registry[j].id = ids[n] /\ c.registry[j].status = "active"
            /\ Still(past, disk) => OffersSkill(disk, c.registry, ids[n])
        BY <2>2, <2>3 DEF Readable, OffersSkill
      <3>7. e.skills = {ids[k] : k \in 1 .. n}
        BY <1>3, <2>1, <3>3, Zenon DEF SelectedTo
      <3>8. SelectedTo(e, ids, n, past, disk)
        <4>1. e.registry = c.registry
          BY <3>3 DEF Differ
        <4>2. ASSUME NEW k \in 1 .. n
              PROVE  /\ \E j \in DOMAIN c.registry : c.registry[j].id = ids[k] /\ c.registry[j].status = "active"
                     /\ Still(past, disk) => OffersSkill(disk, c.registry, ids[k])
          <5>1. CASE k = n
            BY <3>6, <5>1
          <5>2. CASE k \in 1 .. c.done
            BY <1>3, <5>2 DEF SelectedTo
          <5> QED
            BY <2>1, <5>1, <5>2
        <4> QED
          BY <3>7, <4>1, <4>2 DEF SelectedTo
      <3>9. n \in 0 .. Len(ids)
        BY <2>1
      <3>10. AtSelect(e, past, disk)
        BY <1>1, <3>3, <3>4, <3>5, <3>8, <3>9 DEF AtSelect, Differ
      <3>11. GoodCall(e, past, disk)
        BY <1>2, <3>3, <3>10 DEF GoodCall, Gathered, Differ
      <3> QED
        BY <1>1, <1>2, <3>2, <3>3, <3>11, AdvancedInv DEF Differ
    <2>4. CASE ~Readable(c, disk, ids[n])
      <3>1. FailDiscovery
        BY <1>1, <1>7, <2>4 DEF ReadSkill, Selectable, Readable, GivesText
      <3>2. ASSUME Still(past, disk), Discoverable(disk, c.request) PROVE FALSE
        <4>1. c.registry = SkillsOf(disk)
          BY <2>2, <3>2
        <4>2. OffersSkill(disk, c.registry, ids[n])
          BY <1>1, <1>4, <2>1, <3>2, <4>1, DiscoverableIs DEF OffersAll
        <4> QED
          BY <2>2, <2>4, <3>2, <4>2 DEF OffersSkill, Readable
      <3> QED
        BY <1>1, <1>2, <3>1, <3>2, FailedInv
    <2> QED
      BY <2>3, <2>4
  <1> QED
    BY <1>5, <1>6, <1>7

LEMMA DsStepSafe == DsInv /\ DsNext => DsInv' /\ DsFinal
  <1>1. DsInv /\ ChangeDisk => DsFinal
    BY DEF ChangeDisk, DsFinal
  <1> QED
    BY <1>1, FoundInv, ManifestInv, InspectedInv, ReadInv, RegistryInv, ParsedInv, SkillFoundInv, SkillReadInv,
       ChangedInv DEF DsNext

LEMMA DsStepInv == DsInv /\ [DsNext]_dsVars => DsInv'
  <1>1. DsInv /\ UNCHANGED dsVars => DsInv'
    BY DEF dsVars, DsInv
  <1> QED
    BY <1>1, DsStepSafe

LEMMA DsStepFinal == DsInv /\ DsNext => DsFinal
  BY DsStepSafe

LEMMA DsInvSound == DsInv => DsSound
  <1> SUFFICES ASSUME DsInv, dsCall.phase = "done" PROVE DsSound
    BY DEF DsSound
  <1>1. PICK c, past, disk, ids :
            c = dsCall /\ past = dsPast /\ disk = dsDisk /\ ids = SelectedIds(c.registry, c.request)
    OBVIOUS
  <1>2. GoodCall(c, past, disk) /\ AtDone(c, past, disk)
    BY <1>1 DEF DsInv, GoodCall, Gathered
  <1>3. /\ ManifestRead(c, past, disk) /\ Inspected(c, past, disk) /\ Len(c.present) = Len(c.manifest)
        /\ ReadTo(c, Len(c.manifest), past, disk) /\ RegistryRead(c, past, disk)
        /\ Len(c.found) = Len(c.registry) /\ SelectedTo(c, ids, Len(ids), past, disk) /\ Selectable(ids)
    BY <1>1, <1>2 DEF AtDone, ContextRead, ContextInspected
  <1>4. /\ Len(c.manifest) \in Nat /\ DOMAIN c.manifest = 1 .. Len(c.manifest)
        /\ Len(c.registry) \in Nat /\ DOMAIN c.registry = 1 .. Len(c.registry)
    BY <1>3 DEF ManifestRead, RegistryRead, Listed
  <1>5. Len(ids) \in Nat /\ DOMAIN ids = 1 .. Len(ids)
    BY <1>1, <1>2, <1>3, SelectionListed DEF GoodCall, RegistryRead, Listed
  <1>6. ASSUME Still(past, disk)
        PROVE  /\ Discoverable(disk, c.request)
               /\ Described(disk, c.request) =
                    [contexts |-> c.contexts, warnings |-> c.warnings, skills |-> c.skills]
    <2>1. /\ disk["manifest"].kind = "file" /\ ParsedManifest(disk["manifest"])
          /\ c.manifest = DeclaredEntries(disk)
          /\ disk["registry"].kind = "file" /\ ParsedRegistry(disk["registry"])
          /\ c.registry = SkillsOf(disk)
      BY <1>3, <1>6 DEF ManifestRead, RegistryRead
    <2>2. \A n \in DOMAIN c.manifest : Inspectable(disk[c.manifest[n].path], c.manifest[n].required)
      BY <1>3, <1>4, <1>6 DEF Inspected
    <2>3. \A n \in DOMAIN c.registry : Inspectable(disk[c.registry[n].path], FALSE)
      BY <1>3, <1>4, <1>6, Zenon DEF RegistryRead
    <2>4. \A n \in DOMAIN ids : OffersSkill(disk, c.registry, ids[n])
      BY <1>3, <1>5, <1>6 DEF SelectedTo
    <2>5. Discoverable(disk, c.request)
      <3>1. Inspects(disk, c.manifest) /\ Finds(disk, c.registry) /\ OffersAll(disk, c.registry, ids)
        BY <2>2, <2>3, <2>4, Zenon DEF Inspects, Finds, OffersAll
      <3> QED
        BY <1>1, <1>3, <2>1, <3>1, DiscoverableIs
    <2>6. /\ c.contexts = {[path |-> c.manifest[n].path, text |-> disk[c.manifest[n].path].is] :
                n \in {n \in DOMAIN c.manifest : disk[c.manifest[n].path].kind = "file"
                                                    /\ (c.manifest[n].required \/ c.request.optional)}}
          /\ c.warnings = {c.manifest[n].path :
                n \in {n \in DOMAIN c.manifest : ~(disk[c.manifest[n].path].kind = "file")}}
      BY <1>3, <1>4, <1>6, Zenon DEF ReadTo, ContextsTo, WarningsTo, There
    <2>7. c.skills = {ids[n] : n \in DOMAIN ids}
      BY <1>3, <1>5 DEF SelectedTo
    <2>8. Described(disk, c.request) =
            [contexts |-> c.contexts, warnings |-> c.warnings, skills |-> c.skills]
      <3>1. ids = SelectedIds(SkillsOf(disk), c.request)
        BY <1>1, <2>1
      <3>2. Described(disk, c.request) =
                [contexts |-> {[path |-> DeclaredEntries(disk)[n].path, text |-> disk[DeclaredEntries(disk)[n].path].is] :
                    n \in {n \in DOMAIN DeclaredEntries(disk) : disk[DeclaredEntries(disk)[n].path].kind = "file"
                            /\ (DeclaredEntries(disk)[n].required \/ c.request.optional)}},
                 warnings |-> {DeclaredEntries(disk)[n].path :
                    n \in {n \in DOMAIN DeclaredEntries(disk) : ~(disk[DeclaredEntries(disk)[n].path].kind = "file")}},
                 skills |-> {SelectedIds(SkillsOf(disk), c.request)[n] :
                    n \in DOMAIN SelectedIds(SkillsOf(disk), c.request)}]
        BY DEF Described
      <3> QED
        BY <2>1, <2>6, <2>7, <3>1, <3>2
    <2> QED
      BY <2>5, <2>8
  <1>7. \A n \in DOMAIN c.manifest : c.manifest[n].required =>
            \E x \in c.contexts : x.path = c.manifest[n].path
    BY <1>3, <1>4 DEF ReadTo
  <1>8. ASSUME NEW x \in c.contexts
        PROVE  /\ \E seen \in past : seen[x.path].is = x.text
               /\ \E seen \in past : seen[x.path].kind = "file"
               /\ x.path \notin c.warnings
    <2>1. PICK n \in 1 .. Len(c.manifest) :
            /\ x.path = c.manifest[n].path /\ c.present[n]
            /\ \E seen \in past : seen[x.path].is = x.text
      BY <1>3 DEF ReadTo
    <2>2. \E seen \in past : seen[x.path].kind = "file"
      BY <1>3, <2>1 DEF Inspected, There
    <2>3. ASSUME x.path \in c.warnings PROVE FALSE
      <3>1. PICK m \in 1 .. Len(c.manifest) : x.path = c.manifest[m].path /\ ~c.present[m]
        BY <1>3, <2>3, Zenon DEF ReadTo
      <3>2. m # n /\ m \in Int /\ n \in Int
        BY <2>1, <3>1
      <3>3. m < n \/ n < m
        BY <3>2
      <3> QED
        BY <1>3, <1>4, <2>1, <3>1, <3>3, Zenon DEF ManifestRead
    <2> QED
      BY <2>1, <2>2, <2>3
  <1>9. \A id \in c.skills : \E n \in DOMAIN c.registry : c.registry[n].id = id /\ c.registry[n].status = "active"
    BY <1>3 DEF SelectedTo
  <1> QED
    BY <1>1, <1>6, <1>7, <1>8, <1>9 DEF DsSound, Still

(* A discovery returns what the repository described, when it stayed as it was; *)
(* and of one that changed every required file, as it once stood.            *)
THEOREM DiscoverySound == DsInit /\ [][DsNext]_dsVars => []DsSound
  BY DsInitInv, DsStepInv, DsInvSound, PTL

(* A discovery does not fail without a reason, and loses nothing it gathered. *)
THEOREM DiscoveryFinal == DsInit /\ [][DsNext]_dsVars => [][DsFinal]_dsVars
  <1>1. DsInv /\ [DsNext]_dsVars => [DsFinal]_dsVars
    BY DsStepFinal
  <1> QED
    BY <1>1, DsInitInv, DsStepInv, PTL

(***************************************************************************)
(* The types: what the invariants above leave unsaid of the variables of a      *)
(* service (XxTypes) is kept by its steps, and with the invariant gives the      *)
(* type invariant of the service.                                           *)
(***************************************************************************)
LEMMA OvInvTypeOK == OvInv => OvTypeOK
  BY DEF OvInv, OvTypeOK, OvRecord, Stored

ArTypes ==
    /\ arNow \in Moments /\ arHeight \in Heights
    /\ \A u \in EngineIds : arVutxos[u] # Nothing => arVutxos[u].forfeitHeight \in Heights \cup {-1}

LEMMA ArInitTypes == ArInit => ArTypes
  BY EngineAssumption DEF ArInit, ArTypes, Moments, Heights

LEMMA ArStepTypes == ArInv /\ ArTypes /\ [ArNext]_arVars => ArTypes'
  <1> SUFFICES ASSUME ArInv, ArTypes, [ArNext]_arVars PROVE ArTypes'
    OBVIOUS
  <1>1. \A u \in EngineIds : arVutxos[u] # Nothing =>
            arVutxos[u] \in ArRecord /\ arVutxos[u].forfeitHeight \in Heights \cup {-1}
    BY DEF ArInv, ArTypes
  <1>2. DOMAIN arVutxos = EngineIds /\ arNow \in Moments /\ arHeight \in Heights
    BY DEF ArInv, ArTypes
  <1>3. ASSUME NEW u \in EngineIds, BoardVutxo(u)
        PROVE  ArTypes'
    BY <1>1, <1>2, <1>3 DEF ArTypes, BoardVutxo
  <1>4. ASSUME NEW u \in EngineIds, RegisterForfeit(u)
        PROVE  ArTypes'
    BY <1>1, <1>2, <1>4 DEF ArTypes, RegisterForfeit, InState, Nothing, ArRecord
  <1>5. ASSUME NEW u \in EngineIds, SpendVutxo(u) \/ ClaimForfeit(u) \/ TombstoneVutxo(u)
        PROVE  ArTypes'
    BY <1>1, <1>2, <1>5 DEF ArTypes, SpendVutxo, ClaimForfeit, TombstoneVutxo, InState, Nothing, ArRecord
  <1>6. ASSUME NEW u \in EngineIds, NEW collaborative \in BOOLEAN, UnboardVutxo(u, collaborative)
        PROVE  ArTypes'
    BY <1>1, <1>2, <1>6 DEF ArTypes, UnboardVutxo, InState, Nothing, ArRecord
  <1>7. CASE SweepExpired
    <2>1. ASSUME NEW u \in EngineIds, arVutxos'[u] # Nothing
          PROVE  arVutxos'[u].forfeitHeight \in Heights \cup {-1}
      <3>1. CASE Sweepable(u)
        <4>1. arVutxos[u] # Nothing
          BY <3>1 DEF Sweepable, InState, Nothing
        <4>2. arVutxos'[u] = [arVutxos[u] EXCEPT !.state = "expired"]
          BY <1>7, <3>1 DEF SweepExpired
        <4> QED
          BY <1>1, <4>1, <4>2 DEF ArRecord
      <3>2. CASE ~Sweepable(u)
        <4>1. arVutxos'[u] = arVutxos[u]
          BY <1>7, <3>2 DEF SweepExpired
        <4> QED
          BY <1>1, <2>1, <4>1
      <3> QED
        BY <3>1, <3>2
    <2> QED
      BY <1>2, <1>7, <2>1 DEF ArTypes, SweepExpired
  <1>8. CASE ArTick \/ ArBlock \/ UNCHANGED arVars
    BY <1>1, <1>2, <1>8, EngineAssumption DEF ArTypes, ArTick, ArBlock, arVars, Moments, Heights
  <1> QED
    BY <1>3, <1>4, <1>5, <1>6, <1>7, <1>8 DEF ArNext

LEMMA ArInvTypeOK == ArInv /\ ArTypes => ArTypeOK
  BY DEF ArInv, ArTypes, ArTypeOK, ArRecord, Stored

HiTypes ==
    /\ hiNow \in Moments /\ hiMade \in 0 .. MaxInvoices
    /\ \A h \in EngineIds : hiInvoices[h] # Nothing =>
        hiInvoices[h].heldAt \in Moments \cup {-1} /\ hiInvoices[h].settledAt \in Moments \cup {-1}

LEMMA HiInitTypes == HiInit => HiTypes
  BY EngineAssumption, HoldInvoicesAssumption DEF HiInit, HiTypes, Moments

LEMMA HiStepTypes == HiInv /\ HiTypes /\ [HiNext]_hiVars => HiTypes'
  <1> SUFFICES ASSUME HiInv, HiTypes, [HiNext]_hiVars PROVE HiTypes'
    OBVIOUS
  <1>1. \A h \in EngineIds : hiInvoices[h] # Nothing =>
            /\ hiInvoices[h] \in HiRecord
            /\ hiInvoices[h].heldAt \in Moments \cup {-1} /\ hiInvoices[h].settledAt \in Moments \cup {-1}
    BY DEF HiInv, HiTypes
  <1>2. DOMAIN hiInvoices = EngineIds /\ hiNow \in Moments /\ hiMade \in 0 .. MaxInvoices
    BY DEF HiInv, HiTypes
  <1> DEFINE Timed(r) == r.heldAt \in Moments \cup {-1} /\ r.settledAt \in Moments \cup {-1}
  <1>3. ASSUME NEW r \in HiRecord, Timed(r) PROVE Timed(CheckExpiry(r)) /\ CheckExpiry(r) \in HiRecord
    BY <1>3 DEF CheckExpiry, HiRecord
  <1>4. ASSUME NEW r \in HiRecord, Timed(r) PROVE Timed(Held(r))
    BY <1>2, <1>4 DEF Held, HiRecord
  <1>5. ASSUME NEW r \in HiRecord, Timed(r), NEW h, NEW preimage PROVE Timed(Settled(r, h, preimage))
    BY <1>2, <1>5 DEF Settled, HiRecord
  <1>6. ASSUME NEW h \in EngineIds, NEW r, hiInvoices' = [hiInvoices EXCEPT ![h] = r], Timed(r),
               hiNow' = hiNow, hiMade' \in 0 .. MaxInvoices
        PROVE  HiTypes'
    BY <1>1, <1>2, <1>6 DEF HiTypes
  <1>7. ASSUME NEW h \in EngineIds, NEW ttl \in {0, EngineTtl}, CreateHoldInvoice(h, ttl)
        PROVE  HiTypes'
    <2>1. PICK r : r = [state |-> "created", id |-> hiMade + 1, expires |-> hiNow + ttl, heldAt |-> -1, settledAt |-> -1]
      BY Zenon
    <2>2. r \in HiRecord /\ Timed(r)
      BY <1>2, <2>1, EngineAssumption DEF HiRecord, Moments
    <2>3. hiInvoices' = [hiInvoices EXCEPT ![h] = CheckExpiry(r)] /\ hiNow' = hiNow
      BY <1>7, <2>1 DEF CreateHoldInvoice
    <2>4. hiMade' \in 0 .. MaxInvoices
      BY <1>2, <1>7, HoldInvoicesAssumption DEF CreateHoldInvoice
    <2> QED
      BY <1>3, <1>6, <2>2, <2>3, <2>4, Zenon
  <1>8. ASSUME NEW h \in EngineIds, HoldHtlc(h)
        PROVE  HiTypes'
    <2>1. hiInvoices[h] \in HiRecord /\ Timed(hiInvoices[h])
      BY <1>1, <1>8 DEF HoldHtlc
    <2>2. hiInvoices' = [hiInvoices EXCEPT ![h] = Held(CheckExpiry(hiInvoices[h]))] /\ hiNow' = hiNow /\ hiMade' = hiMade
      BY <1>8 DEF HoldHtlc
    <2>3. Timed(Held(CheckExpiry(hiInvoices[h])))
      BY <1>3, <1>4, <2>1
    <2> QED
      BY <1>2, <1>6, <2>2, <2>3, Zenon
  <1>9. ASSUME NEW h \in EngineIds, NEW preimage, SettleHoldInvoice(h, preimage)
        PROVE  HiTypes'
    <2>1. hiInvoices[h] \in HiRecord /\ Timed(hiInvoices[h])
      BY <1>1, <1>9 DEF SettleHoldInvoice
    <2>2. /\ hiInvoices' = [hiInvoices EXCEPT ![h] = Settled(CheckExpiry(hiInvoices[h]), h, preimage)]
          /\ hiNow' = hiNow /\ hiMade' = hiMade
      BY <1>9 DEF SettleHoldInvoice
    <2>3. Timed(Settled(CheckExpiry(hiInvoices[h]), h, preimage))
      BY <1>3, <1>5, <2>1
    <2> QED
      BY <1>2, <1>6, <2>2, <2>3, Zenon
  <1>10. ASSUME NEW h \in EngineIds, CancelHoldInvoice(h)
         PROVE  HiTypes'
    BY <1>1, <1>2, <1>10 DEF HiTypes, CancelHoldInvoice, InState, Nothing, HiRecord
  <1>11. ASSUME NEW h \in EngineIds, GetInvoice(h)
         PROVE  HiTypes'
    <2>1. hiInvoices[h] \in HiRecord /\ Timed(hiInvoices[h])
      BY <1>1, <1>11 DEF GetInvoice
    <2>2. hiInvoices' = [hiInvoices EXCEPT ![h] = CheckExpiry(hiInvoices[h])] /\ hiNow' = hiNow /\ hiMade' = hiMade
      BY <1>11 DEF GetInvoice
    <2> QED
      BY <1>2, <1>3, <1>6, <2>1, <2>2, Zenon
  <1>12. CASE HiTick \/ UNCHANGED hiVars
    BY <1>1, <1>2, <1>12, EngineAssumption DEF HiTypes, HiTick, hiVars, Moments
  <1> QED
    BY <1>7, <1>8, <1>9, <1>10, <1>11, <1>12 DEF HiNext

LEMMA HiInvTypeOK == HiInv /\ HiTypes => HiTypeOK
  BY DEF HiInv, HiTypes, HiTypeOK, HiRecord, Stored

BxTypes ==
    /\ bxNow \in Moments
    /\ \A i \in EngineIds : bxIntents[i] # Nothing => bxIntents[i].finalizedAt \in Moments \cup {-1}

LEMMA BxInitTypes == BxInit => BxTypes
  BY EngineAssumption DEF BxInit, BxTypes, Moments

LEMMA BxStepTypes == BxInv /\ BxTypes /\ [BxNext]_bxVars => BxTypes'
  <1> SUFFICES ASSUME BxInv, BxTypes, [BxNext]_bxVars PROVE BxTypes'
    OBVIOUS
  <1>1. \A i \in EngineIds : bxIntents[i] # Nothing =>
            bxIntents[i] \in BxRecord /\ bxIntents[i].finalizedAt \in Moments \cup {-1}
    BY DEF BxInv, BxTypes
  <1>2. DOMAIN bxIntents = EngineIds /\ bxNow \in Moments
    BY DEF BxInv, BxTypes
  <1>3. ASSUME NEW i \in EngineIds, NEW valid \in BOOLEAN, InitializeBitVmx(i, valid)
        PROVE  BxTypes'
    <2>1. PICK kept : kept = PrunedIntents
      OBVIOUS
    <2>2. DOMAIN kept = EngineIds /\ \A j \in EngineIds : kept[j] \in {Nothing, bxIntents[j]}
      BY <2>1 DEF PrunedIntents
    <2>3. bxIntents' \in {kept, [kept EXCEPT ![i] = [state |-> "executing", round |-> 0, finalizedAt |-> -1]]}
      BY <1>3, <2>1 DEF InitializeBitVmx
    <2>4. ASSUME NEW j \in EngineIds, bxIntents'[j] # Nothing
          PROVE  bxIntents'[j].finalizedAt \in Moments \cup {-1}
      <3>1. bxIntents'[j] \in {kept[j], [state |-> "executing", round |-> 0, finalizedAt |-> -1]}
        BY <2>2, <2>3
      <3> QED
        BY <1>1, <2>2, <2>4, <3>1
    <2> QED
      BY <1>2, <1>3, <2>4 DEF BxTypes, InitializeBitVmx
  <1>4. ASSUME NEW i \in EngineIds, SubmitBitVmxProof(i) \/ FinalizeBitVmxProof(i) \/ InitiateChallenge(i)
        PROVE  BxTypes'
    BY <1>1, <1>2, <1>4
    DEF BxTypes, SubmitBitVmxProof, FinalizeBitVmxProof, InitiateChallenge, InState, Nothing, BxRecord
  <1>5. ASSUME NEW i \in EngineIds, AdvanceChallenge(i)
        PROVE  BxTypes'
    <2>1. PICK round, r : /\ round = bxIntents[i].round + 1
                          /\ r = IF round >= MaxChallengeDepth
                                 THEN [state |-> "disproved", round |-> round, finalizedAt |-> bxNow]
                                 ELSE [bxIntents[i] EXCEPT !.round = round]
      BY Zenon
    <2>2. bxIntents[i] # Nothing
      BY <1>5 DEF AdvanceChallenge, InState, Nothing
    <2>3. r.finalizedAt \in Moments \cup {-1}
      BY <1>1, <1>2, <2>1, <2>2 DEF BxRecord
    <2>4. bxIntents' = [bxIntents EXCEPT ![i] = r] /\ bxNow' = bxNow
      BY <1>5, <2>1 DEF AdvanceChallenge
    <2> QED
      BY <1>1, <1>2, <2>3, <2>4 DEF BxTypes
  <1>6. CASE BxTick \/ UNCHANGED bxVars
    BY <1>1, <1>2, <1>6, EngineAssumption DEF BxTypes, BxTick, bxVars, Moments
  <1> QED
    BY <1>3, <1>4, <1>5, <1>6 DEF BxNext

LEMMA BxInvTypeOK == BxInv /\ BxTypes => BxTypeOK
  BY DEF BxInv, BxTypes, BxTypeOK, BxRecord, Stored

CoTypes == \A c \in EngineIds : coCovenants[c] # Nothing => coCovenants[c].maxDepth \in 1 .. MaxCovenantDepth

LEMMA CoStepTypes == CoInv /\ CoTypes /\ [CoNext]_coVars => CoTypes'
  <1> SUFFICES ASSUME CoInv, CoTypes, [CoNext]_coVars PROVE CoTypes'
    OBVIOUS
  <1>1. \A c \in EngineIds : coCovenants[c] # Nothing =>
            coCovenants[c] \in CoRecord /\ coCovenants[c].maxDepth \in 1 .. MaxCovenantDepth
    BY DEF CoInv, CoTypes
  <1>2. DOMAIN coCovenants = EngineIds
    BY DEF CoInv
  <1>3. ASSUME NEW c \in EngineIds, NEW size \in StateSizes, NEW depth \in CovenantDepths,
               CreateCovenant(c, size, depth)
        PROVE  CoTypes'
    BY <1>1, <1>2, <1>3 DEF CoTypes, CreateCovenant
  <1>4. ASSUME NEW c \in EngineIds, NEW size \in StateSizes, TransitionCovenant(c, size)
        PROVE  CoTypes'
    <2>1. PICK r, next : /\ r = coCovenants[c]
                         /\ next = [r EXCEPT !.state = size, !.depth = @ + 1, !.history = Append(@, size)]
      BY Zenon
    <2>2. r # Nothing /\ coCovenants' = [coCovenants EXCEPT ![c] = next]
      BY <1>4, <2>1 DEF TransitionCovenant
    <2>3. r \in CoRecord /\ r.maxDepth \in 1 .. MaxCovenantDepth
      BY <1>1, <2>1, <2>2
    <2>4. next.maxDepth = r.maxDepth
      BY <2>1, <2>3 DEF CoRecord
    <2> QED
      BY <1>1, <1>2, <2>2, <2>3, <2>4 DEF CoTypes
  <1>5. ASSUME NEW c \in EngineIds, FinalizeCovenant(c)
        PROVE  CoTypes'
    BY <1>1, <1>2, <1>5 DEF CoTypes, FinalizeCovenant, CoRecord
  <1>6. CASE UNCHANGED coVars
    BY <1>1, <1>6 DEF CoTypes, coVars
  <1> QED
    BY <1>3, <1>4, <1>5, <1>6 DEF CoNext

LEMMA CoInitTypes == CoInit => CoTypes
  BY DEF CoInit, CoTypes

LEMMA CoInvTypeOK == CoInv /\ CoTypes => CoTypeOK
  BY DEF CoInv, CoTypes, CoTypeOK, CoRecord, Stored

TaTypes ==
    \A a \in EngineIds : taAssets[a] # Nothing =>
        taAssets[a].supply <= taAssets[a].minted /\ taAssets[a].root \in 0 .. MaxTransfers

LEMMA TaInitTypes == TaInit => TaTypes
  BY DEF TaInit, TaTypes

LEMMA TaStepTypes == TaInv /\ TaTypes /\ [TaNext]_taVars => TaTypes'
  <1> SUFFICES ASSUME TaInv, TaTypes, [TaNext]_taVars PROVE TaTypes'
    OBVIOUS
  <1>1. \A a \in EngineIds : taAssets[a] # Nothing =>
            /\ taAssets[a] \in TaRecord
            /\ taAssets[a].supply <= taAssets[a].minted /\ taAssets[a].root \in 0 .. MaxTransfers
    BY DEF TaInv, TaTypes
  <1>2. DOMAIN taAssets = EngineIds
    BY DEF TaInv
  <1>3. ASSUME NEW a \in EngineIds, NEW n \in Supplies, MintAsset(a, n)
        PROVE  TaTypes'
    <2>1. n \in Nat /\ 0 \in 0 .. MaxTransfers
      BY <1>3, TaprootAssumption DEF MintAsset
    <2> QED
      BY <1>1, <1>2, <1>3, <2>1 DEF TaTypes, MintAsset
  <1>4. ASSUME NEW a \in EngineIds, NEW n \in Supplies, TransferAsset(a, n)
        PROVE  TaTypes'
    <2>1. taAssets[a] # Nothing /\ taAssets[a].root < MaxTransfers
      BY <1>4 DEF TransferAsset
    <2>2. taAssets[a].root + 1 \in 0 .. MaxTransfers
      BY <1>1, <2>1, TaprootAssumption
    <2> QED
      BY <1>1, <1>2, <1>4, <2>1, <2>2 DEF TaTypes, TransferAsset, TaRecord
  <1>5. ASSUME NEW a \in EngineIds, NEW n \in Supplies, BurnAsset(a, n)
        PROVE  TaTypes'
    <2>1. taAssets[a] # Nothing /\ n > 0 /\ n \in Int
      BY <1>5, TaprootAssumption DEF BurnAsset, Affordable
    <2>2. taAssets[a].supply - n <= taAssets[a].minted
      BY <1>1, <2>1 DEF TaRecord
    <2> QED
      BY <1>1, <1>2, <1>5, <2>1, <2>2 DEF TaTypes, BurnAsset, TaRecord
  <1>6. ASSUME NEW a \in EngineIds, TombstoneAsset(a)
        PROVE  TaTypes'
    BY <1>1, <1>2, <1>6 DEF TaTypes, TombstoneAsset, TaRecord
  <1>7. CASE UNCHANGED taVars
    BY <1>1, <1>7 DEF TaTypes, taVars
  <1> QED
    BY <1>3, <1>4, <1>5, <1>6, <1>7 DEF TaNext

LEMMA TaInvTypeOK == TaInv /\ TaTypes => TaTypeOK
  <1> SUFFICES ASSUME TaInv, TaTypes, NEW a \in Stored(taAssets)
               PROVE  LET r == taAssets[a] IN
                      /\ r.state \in {"minted", "transferred", "burned", "tombstoned"}
                      /\ r.minted \in Nat /\ r.supply \in 0 .. r.minted /\ r.root \in 0 .. MaxTransfers
    BY DEF TaTypeOK
  <1>1. taAssets[a] \in TaRecord /\ taAssets[a].supply <= taAssets[a].minted /\ taAssets[a].root \in 0 .. MaxTransfers
    BY DEF TaInv, TaTypes, Stored
  <1> QED
    BY <1>1 DEF TaRecord

LEMMA SpInitTypes == SpInit => SpTypeOK
  BY DEF SpInit, SpTypeOK

LEMMA SpStepTypes == SpTypeOK /\ [SpNext]_spVars => SpTypeOK'
  BY Zenon DEF SpTypeOK, SpNext, spVars, RegisterScanKey, UnregisterScanKey, ScanOutput, ClearMatchedOutputs

MuTypes ==
    /\ muNow \in Moments
    /\ \A s \in EngineIds : muSessions[s] # Nothing =>
        muSessions[s].members \in SessionMembers /\ muSessions[s].created \in Moments

LEMMA MuInitTypes == MuInit => MuTypes
  BY EngineAssumption DEF MuInit, MuTypes, Moments

LEMMA MuStepTypes == MuInv /\ MuTypes /\ [MuNext]_muVars => MuTypes'
  <1> SUFFICES ASSUME MuInv, MuTypes, [MuNext]_muVars PROVE MuTypes'
    OBVIOUS
  <1> DEFINE Typed(r) == r.members \in SessionMembers /\ r.created \in Moments
  <1>1. \A s \in EngineIds : muSessions[s] # Nothing => muSessions[s] \in MuRecord /\ Typed(muSessions[s])
    BY DEF MuInv, MuTypes
  <1>2. DOMAIN muSessions = EngineIds /\ muNow \in Moments
    BY DEF MuInv, MuTypes
  <1>3. ASSUME NEW gone, NEW s \in EngineIds, WithoutExpired(gone)[s] # Nothing
        PROVE  Typed(WithoutExpired(gone)[s])
    BY <1>1, <1>3 DEF WithoutExpired
  <1>4. ASSUME NEW gone, muSessions' = WithoutExpired(gone), muNow' = muNow
        PROVE  MuTypes'
    BY <1>2, <1>3, <1>4 DEF MuTypes
  <1>5. ASSUME NEW s \in EngineIds, NEW members \in SessionMembers, NEW hash, CreateSession(s, members, hash)
        PROVE  MuTypes'
    <2>1. PICK kept, r : /\ kept = WithoutExpired(EngineIds)
                         /\ r = [state |-> "nonce_exchange", members |-> members, hash |-> hash, created |-> muNow,
                                 nonces |-> <<>>, aggregate |-> <<>>, partials |-> <<>>, final |-> FALSE]
      BY Zenon
    <2>2. Typed(r) /\ DOMAIN kept = EngineIds
      BY <1>2, <2>1 DEF WithoutExpired
    <2>3. muSessions' \in {kept, [kept EXCEPT ![s] = r]} /\ muNow' = muNow
      BY <1>5, <2>1 DEF CreateSession
    <2>4. ASSUME NEW x \in EngineIds, muSessions'[x] # Nothing PROVE Typed(muSessions'[x])
      <3>1. muSessions'[x] \in {kept[x], r}
        BY <2>2, <2>3
      <3> QED
        BY <1>3, <2>1, <2>2, <2>4, <3>1
    <2> QED
      BY <1>2, <2>3, <2>4 DEF MuTypes
  <1>6. ASSUME NEW s \in EngineIds, AccessExpired(s)
        PROVE  MuTypes'
    BY <1>4, <1>6 DEF AccessExpired
  <1>7. ASSUME NEW s \in EngineIds, NEW r, muSessions' = [muSessions EXCEPT ![s] = r], Typed(r), muNow' = muNow
        PROVE  MuTypes'
    BY <1>1, <1>2, <1>7 DEF MuTypes
  <1>8. ASSUME NEW s \in EngineIds, NEW p, NEW nonce, SubmitPublicNonce(s, p, nonce)
        PROVE  MuTypes'
    <2>1. PICK r, nonces, q :
            /\ r = muSessions[s] /\ nonces = Put(r.nonces, p, nonce)
            /\ q = IF Complete(r, nonces) /\ AllWellFormed(nonces) /\ r.hash # Malformed
                   THEN [r EXCEPT !.nonces = nonces, !.aggregate = nonces, !.state = "signing"]
                   ELSE [r EXCEPT !.nonces = nonces]
      BY Zenon
    <2>2. r \in MuRecord /\ Typed(r)
      BY <1>1, <1>8, <2>1 DEF SubmitPublicNonce, Accepts, InState, Nothing
    <2>3. Typed(q)
      BY <2>1, <2>2 DEF MuRecord
    <2>4. muSessions' = [muSessions EXCEPT ![s] = q] /\ muNow' = muNow
      BY <1>8, <2>1 DEF SubmitPublicNonce
    <2> QED
      BY <1>7, <2>3, <2>4, Zenon
  <1>9. ASSUME NEW s \in EngineIds, NEW p, NEW partial, SubmitPartialSignature(s, p, partial)
        PROVE  MuTypes'
    <2>1. PICK r, partials, q :
            /\ r = muSessions[s] /\ partials = Put(r.partials, p, partial)
            /\ q = IF Complete(r, partials) /\ AllWellFormed(partials)
                   THEN [r EXCEPT !.partials = partials, !.final = TRUE, !.state = "completed"]
                   ELSE [r EXCEPT !.partials = partials]
      BY Zenon
    <2>2. r \in MuRecord /\ Typed(r)
      BY <1>1, <1>9, <2>1 DEF SubmitPartialSignature, Accepts, InState, Nothing
    <2>3. Typed(q)
      BY <2>1, <2>2 DEF MuRecord
    <2>4. muSessions' = [muSessions EXCEPT ![s] = q] /\ muNow' = muNow
      BY <1>9, <2>1 DEF SubmitPartialSignature
    <2> QED
      BY <1>7, <2>3, <2>4, Zenon
  <1>10. CASE PurgeExpiredSessions
    BY <1>4, <1>10 DEF PurgeExpiredSessions
  <1>11. CASE MuTick \/ UNCHANGED muVars
    BY <1>1, <1>2, <1>11, EngineAssumption DEF MuTypes, MuTick, muVars, Moments
  <1> QED
    BY <1>5, <1>6, <1>8, <1>9, <1>10, <1>11 DEF MuNext

LEMMA MuInvTypeOK == MuInv /\ MuTypes => MuTypeOK
  <1> SUFFICES ASSUME MuInv, MuTypes, NEW s \in Stored(muSessions)
               PROVE  LET r == muSessions[s] IN
                      /\ r.state \in {"nonce_exchange", "signing", "completed"}
                      /\ r.members \in SessionMembers /\ r.created \in Moments /\ r.final \in BOOLEAN
                      /\ DOMAIN r.nonces \subseteq Signatories /\ DOMAIN r.partials \subseteq Signatories
    BY DEF MuTypeOK, MuTypes
  <1>1. muSessions[s] \in MuRecord /\ muSessions[s].members \in SessionMembers /\ muSessions[s].created \in Moments
    BY DEF MuInv, MuTypes, Stored
  <1>2. \A values : \A f \in Collected(values) : DOMAIN f \subseteq Signatories
    BY DEF Collected
  <1> QED
    BY <1>1, <1>2 DEF MuRecord

SdTypes == (\A m \in sdSent : m.report \in Reports) /\ sdNow \in 0 .. MaxDelegationTime

LEMMA SdInitTypes == SdInit => SdTypes
  BY SwarmDelegationAssumption DEF SdInit, SdTypes

LEMMA SdStepTypes == SdInv /\ SdTypes /\ [SdNext]_sdVars => SdTypes'
  <1> SUFFICES ASSUME SdInv, SdTypes, [SdNext]_sdVars PROVE SdTypes'
    OBVIOUS
  <1>1. sdReported \in Reports /\ sdReported' \in Reports
    BY SdStepInv DEF SdInv
  <1>2. ASSUME NEW to \in LifecycleStates, ReportLifecycle(to)
        PROVE  SdTypes'
    BY <1>1, <1>2 DEF SdTypes, ReportLifecycle, Envelope
  <1>3. CASE ReportAgain
    BY <1>1, <1>3 DEF SdTypes, ReportAgain, Envelope
  <1>4. CASE SdTick
    BY <1>4, SwarmDelegationAssumption DEF SdTypes, SdTick
  <1>5. ASSUME NEW a, Delegate(a)
        PROVE  SdTypes'
    BY <1>5 DEF SdTypes, Delegate
  <1>6. ASSUME NEW m, Accept(m)
        PROVE  SdTypes'
    BY <1>6 DEF SdTypes, Accept
  <1>7. CASE UNCHANGED sdVars
    BY <1>7 DEF SdTypes, sdVars
  <1> QED
    BY <1>2, <1>3, <1>4, <1>5, <1>6, <1>7 DEF SdNext

LEMMA SdInvTypeOK == SdInv /\ SdTypes => SdTypeOK
  BY DEF SdInv, SdTypes, SdTypeOK

DtTypes ==
    /\ dtTexts \in [DOMAIN FirstTexts -> Range(FirstTexts) \cup {w.text : w \in Overwrites}]
    /\ dtOverwrites \in 0 .. MaxOverwrites
    /\ IsFiniteSet(dtAllowlists) /\ Cardinality(dtAllowlists) <= MaxDerivations

LEMMA DtInitTypes == DtInit => DtTypes
  <1> SUFFICES ASSUME DtInit PROVE DtTypes
    OBVIOUS
  <1>1. IsFiniteSet({}) /\ Cardinality({}) = 0
    BY FS_EmptySet
  <1>2. IsFiniteSet(dtAllowlists) /\ Cardinality(dtAllowlists) <= MaxDerivations
    BY <1>1, DiscoveryTrustAssumption DEF DtInit
  <1>3. FirstTexts \in [DOMAIN FirstTexts -> Range(FirstTexts) \cup {w.text : w \in Overwrites}]
    BY DiscoveryTrustAssumption
  <1> QED
    BY <1>2, <1>3, DiscoveryTrustAssumption DEF DtInit, DtTypes

LEMMA DtStepTypes == DtTypes /\ [DtNext]_dtVars => DtTypes'
  <1> SUFFICES ASSUME DtTypes, [DtNext]_dtVars PROVE DtTypes'
    OBVIOUS
  <1>1. ASSUME NEW w \in Overwrites, Overwrite(w)
        PROVE  DtTypes'
    <2>1. dtOverwrites' \in 0 .. MaxOverwrites
      BY <1>1, DiscoveryTrustAssumption DEF DtTypes, Overwrite
    <2>2. dtTexts' \in [DOMAIN FirstTexts -> Range(FirstTexts) \cup {x.text : x \in Overwrites}]
      BY <1>1, DiscoveryTrustAssumption DEF DtTypes, Overwrite
    <2> QED
      BY <1>1, <2>1, <2>2 DEF DtTypes, Overwrite
  <1>2. ASSUME NEW d, BuildDiscoveryTrustAnchor(d)
        PROVE  DtTypes'
    BY <1>2 DEF DtTypes, BuildDiscoveryTrustAnchor
  <1>3. ASSUME NEW d, NEW wanted, NEW inputs, NEW requiredInputs,
               DeriveContextAllowlist(d, wanted, inputs, requiredInputs)
        PROVE  DtTypes'
    <2>1. PICK x : x = Derived(d, dtAnchor, wanted, inputs, requiredInputs)
      OBVIOUS
    <2>2. dtAllowlists' = dtAllowlists \cup {x} /\ Cardinality(dtAllowlists) < MaxDerivations
      BY <1>3, <2>1 DEF DeriveContextAllowlist
    <2>3. IsFiniteSet(dtAllowlists) /\ Cardinality(dtAllowlists) \in Nat
      BY FS_CardinalityType DEF DtTypes
    <2>4. IsFiniteSet(dtAllowlists') /\ Cardinality(dtAllowlists') \in {Cardinality(dtAllowlists), Cardinality(dtAllowlists) + 1}
      BY <2>2, <2>3, FS_AddElement
    <2>5. Cardinality(dtAllowlists') <= MaxDerivations
      BY <2>2, <2>3, <2>4, DiscoveryTrustAssumption
    <2> QED
      BY <1>3, <2>4, <2>5 DEF DtTypes, DeriveContextAllowlist
  <1>4. ASSUME NEW allowlist, NEW d, NEW given, PackageUnder(allowlist, d, given)
        PROVE  DtTypes'
    BY <1>4 DEF DtTypes, PackageUnder, KeepSnapshot
  <1>5. ASSUME NEW r, NEW s, NEW d, MergeUnder(r, s, d)
        PROVE  DtTypes'
    BY <1>5 DEF DtTypes, MergeUnder, KeepSnapshot
  <1>6. CASE UNCHANGED dtVars
    BY <1>6 DEF DtTypes, dtVars
  <1> QED
    BY <1>1, <1>2, <1>3, <1>4, <1>5, <1>6, Zenon DEF DtNext

LEMMA DtInvTypeOK == DtInv /\ DtTypes => DtTypeOK
  BY DEF DtInv, DtTypes, DtTypeOK

ScTypes ==
    /\ \A s \in scSnapshots :
        s.entries \subseteq ContextEntries /\ s.inputs \subseteq ContextEntries /\ s.evaluated \in Nat
    /\ scHandover # NoHandover => scHandover.expires \in Nat \ {0}

LEMMA ScInitTypes == ScInit => ScTypes
  BY DEF ScInit, ScTypes

LEMMA ScStepTypes == ScInv /\ ScTypes /\ [ScNext]_scVars => ScTypes'
  <1> SUFFICES ASSUME ScInv, ScTypes, [ScNext]_scVars PROVE ScTypes'
    OBVIOUS
  <1>1. scNow \in Nat
    BY DEF ScInv
  <1>2. \A s \in scSnapshots :
            s.entries \subseteq ContextEntries /\ s.inputs \subseteq ContextEntries /\ s.evaluated \in Nat
    BY DEF ScTypes
  <1>3. \A entries, now : Resolved(entries, now) \subseteq entries
    BY DEF Resolved
  <1>4. ASSUME NEW s, Keep(s), s.entries \subseteq ContextEntries, s.inputs \subseteq ContextEntries, s.evaluated \in Nat
        PROVE  ScTypes'
    BY <1>2, <1>4 DEF ScTypes, Keep
  <1>5. ASSUME NEW inputs \in ContextPackages, NEW required, NEW allowStale,
               PackageContext(inputs, required, allowStale)
        PROVE  ScTypes'
    <2>1. PICK s : s = [inputs |-> inputs, entries |-> Resolved(inputs, scNow), required |-> required,
                        moments |-> {scNow}, evaluated |-> scNow]
      BY Zenon
    <2>2. Keep(s)
      BY <1>5, <2>1 DEF PackageContext
    <2>3. inputs \subseteq ContextEntries
      BY SwarmContextAssumption
    <2>4. Resolved(inputs, scNow) \subseteq ContextEntries
      BY <1>3, <2>3
    <2> QED
      BY <1>1, <1>4, <2>1, <2>2, <2>3, <2>4
  <1>6. ASSUME NEW r \in scSnapshots, NEW s \in scSnapshots, MergeSnapshots(r, s)
        PROVE  ScTypes'
    <2>1. PICK x : x = [inputs |-> r.inputs \cup s.inputs, entries |-> Resolved(r.entries \cup s.entries, scNow),
                        required |-> r.required \cup s.required,
                        moments |-> r.moments \cup s.moments \cup {scNow}, evaluated |-> scNow]
      BY Zenon
    <2>2. Keep(x)
      BY <1>6, <2>1 DEF MergeSnapshots
    <2>3. Resolved(r.entries \cup s.entries, scNow) \subseteq ContextEntries /\ r.inputs \cup s.inputs \subseteq ContextEntries
      BY <1>2, <1>3
    <2> QED
      BY <1>1, <1>4, <2>1, <2>2, <2>3
  <1>7. ASSUME NEW s, NEW lifetime \in Lifetimes, NEW undecided, CreateHandover(s, lifetime, undecided)
        PROVE  ScTypes'
    <2>1. scHandover'.expires = scNow + lifetime /\ lifetime \in Nat \ {0}
      BY <1>7, SwarmContextAssumption DEF CreateHandover
    <2> QED
      BY <1>1, <1>2, <1>7, <2>1 DEF ScTypes, CreateHandover
  <1>8. CASE Resume \/ ScTick \/ UNCHANGED scVars
    BY <1>8 DEF ScTypes, Resume, ScTick, scVars
  <1> QED
    BY <1>5, <1>6, <1>7, <1>8 DEF ScNext

LEMMA ScInvTypeOK == ScInv /\ ScTypes => ScTypeOK
  <1> SUFFICES ASSUME ScInv, ScTypes PROVE ScTypeOK
    OBVIOUS
  <1>1. \A s \in scSnapshots : s.evaluated \in 0 .. scNow
    BY DEF ScInv, ScTypes
  <1> QED
    BY <1>1 DEF ScInv, ScTypes, ScTypeOK

LEMMA SwInvTypeOK == SwInv => SwTypeOK
  BY DEF SwInv, SwTypeOK

LEMMA DsInvTypeOK == DsInv => DsTypeOK
  <1> SUFFICES ASSUME DsInv PROVE DsTypeOK
    OBVIOUS
  <1>1. Cardinality(dsPast) \in Nat /\ Cardinality(dsPast) <= dsChanges + 1 /\ dsChanges \in 0 .. MaxDiskChanges
    BY FS_CardinalityType DEF DsInv
  <1>2. Cardinality(dsPast) <= MaxDiskChanges + 1
    BY <1>1, DiscoveryAssumption
  <1> QED
    BY <1>1, <1>2 DEF DsInv, DsTypeOK, GoodCall
=============================================================================
