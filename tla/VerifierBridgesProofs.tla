-------------------------- MODULE VerifierBridgesProofs --------------------------
(***************************************************************************)
(* What holds of the process that runs the three verifier bridges, for any   *)
(* number of callers, identifiers, retained records and any retention: first   *)
(* what all three rest on, the promise queue and the checks of the contract        *)
(* (both in VerifierContract), then the ZKCP bridge, the BitVM2 bridge,     *)
(* the BitVM3 orchestrator, and at the end the properties of VerifierBridges,   *)
(* from the inductive invariants of the three.                               *)
(*                                                                         *)
(* LineSound counts; what is proved of every step (Lined) does not: a line   *)
(* has its last caller in the map, nobody behind the last one, no two behind  *)
(* one, and no circle.  A set of callers each of whom stands behind another   *)
(* one of the set would be a circle.                                        *)
(***************************************************************************)
EXTENDS VerifierBridges, FiniteSetTheorems, WellFoundedInduction, SequenceTheorems, TLAPS

(* Whoever is in `in` stands in one line: callers of k.                      *)
NoCircle(prev, in) ==
    \A S \in SUBSET in : S # {} => \E c \in S : prev[c] \notin S

OneLine(last, prev, in) ==
    /\ in = {} => last = NoCall
    /\ in # {} => last \in in
    /\ \A c \in in : prev[c] # NoCall => prev[c] \in in \ {c, last}
    /\ \A c, d \in in : prev[c] = prev[d] => c = d
    /\ NoCircle(prev, in)

(* The lines of all identifiers; a call stands in one of them at most.       *)
Lined(tail, prev, in) ==
    /\ prev \in [Calls -> Calls \cup {NoCall}]
    /\ DOMAIN in = DOMAIN tail
    /\ tail = [k \in DOMAIN tail |-> tail[k]]
    /\ \A k \in DOMAIN tail : in[k] \subseteq Calls /\ OneLine(tail[k], prev, in[k])
    /\ \A j, k \in DOMAIN tail : j # k => in[j] \cap in[k] = {}

(* In an empty line there is no circle, and in the line of all calls that are *)
(* idle nobody.                                                             *)
LEMMA NobodyLined ==
    ASSUME NEW K
    PROVE  Lined([k \in K |-> NoCall], [c \in Calls |-> NoCall], [k \in K |-> {}])
  BY DEF Lined, OneLine, NoCircle

(* withLock, its first half: a caller that is in no line goes to the end of    *)
(* the line of k.                                                            *)
LEMMA JoinLined ==
    ASSUME NEW tail, NEW prev, NEW in, Lined(tail, prev, in),
           NEW k \in DOMAIN tail, NEW c \in Calls, \A j \in DOMAIN tail : c \notin in[j],
           NEW in2, in2 = [in EXCEPT ![k] = @ \cup {c}], in = [j \in DOMAIN tail |-> in[j]]
    PROVE  Lined(JoinTail(tail, k, c), JoinPrev(prev, tail, k, c), in2)
  <1> DEFINE prev2 == [prev EXCEPT ![c] = tail[k]]
             tail2 == [tail EXCEPT ![k] = c]
  <1> USE QueueAssumption
  <1>1. tail[k] \in in[k] \cup {NoCall} /\ in[k] \subseteq Calls /\ tail[k] # c
    BY DEF Lined, OneLine
  <1>2. prev2 \in [Calls -> Calls \cup {NoCall}]
    BY <1>1 DEF Lined
  <1>3. /\ DOMAIN in2 = DOMAIN tail2 /\ DOMAIN tail2 = DOMAIN tail
        /\ tail2 = [j \in DOMAIN tail2 |-> tail2[j]]
    BY DEF Lined
  <1>4. \A j \in DOMAIN tail : j # k => in2[j] = in[j] /\ tail2[j] = tail[j]
    BY DEF Lined
  <1>5. in2[k] = in[k] \cup {c} /\ tail2[k] = c
    BY DEF Lined
  <1>6. \A d \in Calls : d # c => prev2[d] = prev[d]
    BY DEF Lined
  <1>7. prev2[c] = tail[k]
    BY DEF Lined
  <1>8. ASSUME NEW j \in DOMAIN tail, j # k
        PROVE  OneLine(tail2[j], prev2, in2[j])
    <2>1. \A d \in in[j] : d # c /\ prev2[d] = prev[d]
      BY <1>6 DEF Lined
    <2>2. OneLine(tail[j], prev, in[j])
      BY DEF Lined
    <2> QED
      BY <1>4, <1>8, <2>1, <2>2 DEF OneLine, NoCircle
  <1>9. OneLine(tail2[k], prev2, in2[k])
    <2>1. OneLine(tail[k], prev, in[k])
      BY DEF Lined
    <2>2. \A d \in in[k] : d # c /\ prev2[d] = prev[d]
      BY <1>6 DEF Lined
    <2>3. \A d \in in2[k] : prev2[d] # NoCall => prev2[d] \in in2[k] \ {d, c}
      BY <1>1, <1>5, <1>7, <2>1, <2>2 DEF OneLine
    <2>4. \A d, e \in in2[k] : prev2[d] = prev2[e] => d = e
      BY <1>1, <1>5, <1>7, <2>1, <2>2 DEF OneLine
    <2>5. ASSUME NEW S \in SUBSET in2[k], S # {}
          PROVE  \E d \in S : prev2[d] \notin S
      <3>1. CASE S = {c}
        BY <1>1, <1>7, <3>1
      <3>2. CASE S # {c}
        <4>1. S \ {c} \in SUBSET in[k] /\ S \ {c} # {}
          BY <1>5, <2>5, <3>2
        <4>2. PICK d \in S \ {c} : prev[d] \notin S \ {c}
          BY <2>1, <4>1 DEF OneLine, NoCircle
        <4>3. prev2[d] = prev[d] /\ prev[d] # c
          BY <1>1, <2>1, <2>2, <4>1, <4>2 DEF OneLine
        <4> QED
          BY <4>2, <4>3
      <3> QED
        BY <3>1, <3>2
    <2> QED
      BY <1>5, <2>3, <2>4, <2>5 DEF OneLine, NoCircle
  <1>10. \A j \in DOMAIN tail : in2[j] \subseteq Calls
    BY <1>4, <1>5 DEF Lined
  <1>11. \A i, j \in DOMAIN tail : i # j => in2[i] \cap in2[j] = {}
    BY <1>4, <1>5 DEF Lined
  <1> QED
    BY <1>2, <1>3, <1>8, <1>9, <1>10, <1>11 DEF Lined, JoinTail, JoinPrev

(* The second half: the caller that was let in leaves, its promise resolved,   *)
(* and takes the entry of the map with it if it is the last one.              *)
LEMMA LeaveLined ==
    ASSUME NEW tail, NEW prev, NEW in, Lined(tail, prev, in),
           NEW k \in DOMAIN tail, NEW c \in in[k], prev[c] = NoCall,
           NEW in2, in2 = [in EXCEPT ![k] = @ \ {c}], in = [j \in DOMAIN tail |-> in[j]]
    PROVE  Lined(LeaveTail(tail, k, c), LeavePrev(prev, c), in2)
  <1> DEFINE prev2 == [d \in Calls |-> IF prev[d] = c THEN NoCall ELSE prev[d]]
             tail2 == [tail EXCEPT ![k] = IF @ = c THEN NoCall ELSE @]
  <1> USE QueueAssumption
  <1>1. OneLine(tail[k], prev, in[k]) /\ in[k] \subseteq Calls
    BY DEF Lined
  <1>2. prev2 \in [Calls -> Calls \cup {NoCall}]
    BY DEF Lined
  <1>3. /\ DOMAIN in2 = DOMAIN tail2 /\ DOMAIN tail2 = DOMAIN tail
        /\ tail2 = [j \in DOMAIN tail2 |-> tail2[j]]
    BY DEF Lined
  <1>4. \A j \in DOMAIN tail : j # k => in2[j] = in[j] /\ tail2[j] = tail[j]
    BY DEF Lined
  <1>5. in2[k] = in[k] \ {c} /\ tail2[k] = IF tail[k] = c THEN NoCall ELSE tail[k]
    BY DEF Lined
  <1>6. ASSUME NEW j \in DOMAIN tail, j # k
        PROVE  OneLine(tail2[j], prev2, in2[j])
    <2>1. OneLine(tail[j], prev, in[j]) /\ in[j] \subseteq Calls /\ c \notin in[j]
      BY <1>6 DEF Lined
    <2>2. \A d \in in[j] : prev2[d] = prev[d]
      BY <2>1 DEF OneLine
    <2>3. in2[j] = in[j] /\ tail2[j] = tail[j]
      BY <1>4, <1>6
    <2> HIDE DEF prev2, tail2
    <2> QED
      BY <2>1, <2>2, <2>3 DEF OneLine, NoCircle
  <1>7. \A d \in in2[k] : prev[d] # NoCall
    BY <1>1, <1>5 DEF OneLine
  <1>8. tail[k] = c => in2[k] = {}
    <2> SUFFICES ASSUME tail[k] = c, in2[k] # {} PROVE FALSE
      OBVIOUS
    <2>1. PICK d \in in2[k] : prev[d] \notin in2[k]
      BY <1>1, <1>5 DEF OneLine, NoCircle
    <2>2. prev[d] \in in[k] \ {d, c}
      BY <1>1, <1>5, <1>7, <2>1 DEF OneLine
    <2> QED
      BY <1>5, <2>1, <2>2
  <1>9. OneLine(tail2[k], prev2, in2[k])
    <2>1. in2[k] = {} => tail2[k] = NoCall
      BY <1>1, <1>5 DEF OneLine
    <2>2. in2[k] # {} => tail2[k] \in in2[k]
      BY <1>1, <1>5, <1>8 DEF OneLine
    <2>3. \A d \in in2[k] : prev2[d] # NoCall => prev2[d] = prev[d] /\ prev[d] # c
      BY <1>1, <1>5
    <2>4. \A d \in in2[k] : prev2[d] # NoCall => prev2[d] \in in2[k] \ {d, tail2[k]}
      BY <1>1, <1>5, <1>8, <2>3 DEF OneLine
    <2>5. \A d, e \in in2[k] : prev2[d] = prev2[e] => d = e
      BY <1>1, <1>5, <1>7 DEF OneLine
    <2>6. ASSUME NEW S \in SUBSET in2[k], S # {}
          PROVE  \E d \in S : prev2[d] \notin S
      <3>1. PICK d \in S : prev[d] \notin S
        BY <1>1, <1>5, <2>6 DEF OneLine, NoCircle
      <3>2. prev2[d] \in {prev[d], NoCall} /\ NoCall \notin S
        BY <1>1, <1>5, <2>6, <3>1
      <3> QED
        BY <3>1, <3>2
    <2> QED
      BY <2>1, <2>2, <2>4, <2>5, <2>6 DEF OneLine, NoCircle
  <1>10. \A j \in DOMAIN tail : in2[j] \subseteq Calls
    BY <1>4, <1>5 DEF Lined
  <1>11. \A i, j \in DOMAIN tail : i # j => in2[i] \cap in2[j] = {}
    BY <1>4, <1>5 DEF Lined
  <1> QED
    BY <1>2, <1>3, <1>6, <1>9, <1>10, <1>11 DEF Lined, LeaveTail, LeavePrev

(* One caller of a line is let in: the one who waits for nobody.             *)
LEMMA OneHead ==
    ASSUME NEW last, NEW prev, NEW in, OneLine(last, prev, in), in # {}
    PROVE  \E c \in in : {d \in in : prev[d] = NoCall} = {c}
  <1>1. PICK c \in in : prev[c] \notin in
    BY DEF OneLine, NoCircle
  <1>2. prev[c] = NoCall
    BY <1>1 DEF OneLine
  <1> QED
    BY <1>1, <1>2 DEF OneLine

(* Callers that are let in wait for nobody; so the line is sound.            *)
LEMMA LinedSound ==
    ASSUME NEW tail, NEW prev, NEW in, Lined(tail, prev, in), NEW inside,
           \A k \in DOMAIN tail : inside[k] \subseteq {c \in in[k] : prev[c] = NoCall}
    PROVE  LineSound(tail, prev, in, inside)
  <1> SUFFICES ASSUME NEW k \in DOMAIN tail
               PROVE  /\ Cardinality(inside[k]) <= 1
                      /\ IF in[k] = {} THEN tail[k] = NoCall ELSE tail[k] \in in[k]
                      /\ \A c \in in[k] :
                           /\ prev[c] # NoCall => prev[c] \in in[k] \ {c, tail[k]} /\ c \notin inside[k]
                           /\ \A d \in in[k] : prev[c] # NoCall /\ prev[c] = prev[d] => c = d
                      /\ in[k] # {} => Cardinality({c \in in[k] : prev[c] = NoCall}) = 1
    BY DEF LineSound
  <1> DEFINE heads == {c \in in[k] : prev[c] = NoCall}
  <1>1. OneLine(tail[k], prev, in[k]) /\ inside[k] \subseteq heads
    BY DEF Lined
  <1>2. ASSUME in[k] # {}
        PROVE  Cardinality(heads) = 1 /\ IsFiniteSet(heads)
    <2>1. PICK c \in in[k] : heads = {c}
      BY <1>1, <1>2, OneHead
    <2> QED
      BY <2>1, FS_Singleton
  <1>3. Cardinality(inside[k]) <= 1
    <2>1. CASE in[k] = {}
      <3>1. inside[k] = {}
        BY <1>1, <2>1
      <3> QED
        BY <3>1, FS_EmptySet
    <2>2. CASE in[k] # {}
      BY <1>1, <1>2, <2>2, FS_Subset
    <2> QED
      BY <2>1, <2>2
  <1> QED
    BY <1>1, <1>2, <1>3 DEF OneLine
(* The callers of a bridge: `call` gives every call its program counter and,    *)
(* unless it is idle, the identifier it is about.  A caller arrives,            *)
Callers(call, K) == [k \in K |-> {c \in Calls : call[c].pc # "idle" /\ call[c].id = k}]

LEMMA CallerJoins ==
    ASSUME NEW K, NEW tail, DOMAIN tail = K, NEW prev, NEW call, NEW call2,
           Lined(tail, prev, Callers(call, K)), NEW k \in K, NEW c \in Calls, call[c].pc = "idle",
           call2[c].pc # "idle", call2[c].id = k, \A d \in Calls \ {c} : call2[d] = call[d]
    PROVE  Lined(JoinTail(tail, k, c), JoinPrev(prev, tail, k, c), Callers(call2, K))
  <1> DEFINE in == Callers(call, K)  in2 == Callers(call2, K)
  <1>1. \A j \in K : c \notin in[j]
    BY DEF Callers
  <1>2. \A j \in K : in2[j] = IF j = k THEN in[j] \cup {c} ELSE in[j]
    BY DEF Callers
  <1>3. in = [j \in K |-> in[j]] /\ in2 = [j \in K |-> in2[j]]
    BY DEF Callers
  <1> HIDE DEF in, in2
  <1>4. in2 = [in EXCEPT ![k] = @ \cup {c}]
    BY <1>2, <1>3
  <1>5. Lined(tail, prev, in)
    BY DEF in
  <1>6. Lined(JoinTail(tail, k, c), JoinPrev(prev, tail, k, c), in2)
    BY <1>1, <1>3, <1>4, <1>5, JoinLined
  <1> QED
    BY <1>6 DEF in2

(* stays,                                                                    *)
LEMMA CallerStays ==
    ASSUME NEW K, NEW call, NEW call2, NEW c \in Calls, call[c].pc # "idle", call2[c].pc # "idle",
           call2[c].id = call[c].id, \A d \in Calls \ {c} : call2[d] = call[d]
    PROVE  Callers(call2, K) = Callers(call, K)
  <1>1. \A j \in K, d \in Calls : (call2[d].pc # "idle" /\ call2[d].id = j) <=> (call[d].pc # "idle" /\ call[d].id = j)
    OBVIOUS
  <1> QED
    BY <1>1 DEF Callers

(* and leaves.                                                               *)
LEMMA CallerLeaves ==
    ASSUME NEW K, NEW tail, DOMAIN tail = K, NEW prev, NEW call, NEW call2,
           Lined(tail, prev, Callers(call, K)), NEW c \in Calls, call[c].pc # "idle", call[c].id \in K,
           prev[c] = NoCall, call2[c].pc = "idle", \A d \in Calls \ {c} : call2[d] = call[d]
    PROVE  Lined(LeaveTail(tail, call[c].id, c), LeavePrev(prev, c), Callers(call2, K))
  <1> DEFINE in == Callers(call, K)  in2 == Callers(call2, K)  k == call[c].id
  <1>1. c \in in[k] /\ k \in K
    BY DEF Callers
  <1>2. \A j \in K : in2[j] = IF j = k THEN in[j] \ {c} ELSE in[j]
    BY DEF Callers
  <1>3. in = [j \in K |-> in[j]] /\ in2 = [j \in K |-> in2[j]]
    BY DEF Callers
  <1> HIDE DEF in, in2
  <1>4. in2 = [in EXCEPT ![k] = @ \ {c}]
    BY <1>2, <1>3
  <1>5. Lined(tail, prev, in)
    BY DEF in
  <1>6. Lined(LeaveTail(tail, k, c), LeavePrev(prev, c), in2)
    BY <1>1, <1>3, <1>4, <1>5, LeaveLined
  <1> QED
    BY <1>6 DEF in2

(* Of two callers of one identifier only one waits for nobody,                 *)
LEMMA OneCallerIn ==
    ASSUME NEW K, NEW tail, DOMAIN tail = K, NEW prev, NEW call, Lined(tail, prev, Callers(call, K)),
           NEW c \in Calls, NEW d \in Calls, call[c].pc # "idle", call[d].pc # "idle",
           call[c].id \in K, call[c].id = call[d].id, prev[c] = NoCall, prev[d] = NoCall
    PROVE  c = d
  <1> DEFINE in == Callers(call, K)  k == call[c].id
  <1>1. c \in in[k] /\ d \in in[k]
    BY DEF Callers
  <1> HIDE DEF in
  <1>2. OneLine(tail[k], prev, in[k])
    BY DEF Lined, in
  <1> QED
    BY <1>1, <1>2 DEF OneLine

(* and an identifier without an entry in the map has no callers.               *)
LEMMA NobodyQueued ==
    ASSUME NEW K, NEW tail, DOMAIN tail = K, NEW prev, NEW call, Lined(tail, prev, Callers(call, K)),
           NEW k \in K, ~IsQueued(tail, k)
    PROVE  {c \in Calls : call[c].pc # "idle" /\ call[c].id = k} = {}
  <1> DEFINE in == Callers(call, K)
  <1>1. in[k] = {c \in Calls : call[c].pc # "idle" /\ call[c].id = k}
    BY DEF Callers
  <1> HIDE DEF in
  <1>2. OneLine(tail[k], prev, in[k]) /\ in[k] \subseteq Calls
    BY DEF Lined, in
  <1>3. in[k] = {}
    BY <1>2, QueueAssumption DEF OneLine, IsQueued
  <1> QED
    BY <1>1, <1>3

(* A part of a set that is small enough is small enough, and so are two sets   *)
(* together that are small enough in sum.                                     *)
LEMMA Fewer ==
    ASSUME NEW S, IsFiniteSet(S), NEW n \in Nat, Cardinality(S) <= n, NEW T, T \subseteq S
    PROVE  IsFiniteSet(T) /\ Cardinality(T) <= n
  <1>1. Cardinality(S) \in Nat /\ Cardinality(T) \in Nat /\ Cardinality(T) <= Cardinality(S) /\ IsFiniteSet(T)
    BY FS_Subset, FS_CardinalityType
  <1> QED
    BY <1>1

LEMMA Together ==
    ASSUME NEW S, IsFiniteSet(S), NEW T, IsFiniteSet(T), NEW n \in Nat,
           Cardinality(S) + Cardinality(T) <= n, NEW U, U \subseteq S \cup T
    PROVE  IsFiniteSet(U) /\ Cardinality(U) <= n
  <1>1. /\ Cardinality(S) \in Nat /\ Cardinality(T) \in Nat /\ IsFiniteSet(S \cup T)
        /\ Cardinality(S \cup T) = Cardinality(S) + Cardinality(T) - Cardinality(S \cap T)
    BY FS_CardinalityType, FS_Union
  <1>2. Cardinality(S \cap T) \in Nat
    BY FS_Subset, FS_CardinalityType
  <1>3. Cardinality(S \cup T) <= n
    BY <1>1, <1>2
  <1> QED
    BY <1>1, <1>3, Fewer

---------------------------------------------------------------------------
(* A nonempty set of natural numbers has a least element.                     *)
LEMMA LeastElement ==
    ASSUME NEW S, S \subseteq Nat, S # {}
    PROVE  \E m \in S : \A n \in S : m <= n
  <1>1. PICK m \in S : \A n \in S : <<n, m>> \notin OpToRel(<, Nat)
    BY NatLessThanWellFounded, WFMin
  <1>2. \A n \in S : ~(n < m)
    BY <1>1 DEF OpToRel
  <1> QED
    BY <1>2

(* No check of a list fails when FirstFailure answers "ok".                   *)
LEMMA FirstFailureOk ==
    ASSUME NEW n \in Nat, NEW checks, DOMAIN checks = 1..n,
           \A i \in 1..n : checks[i][1] => checks[i][2] # "ok",
           FirstFailure(checks) = "ok"
    PROVE  \A i \in 1..n : ~checks[i][1]
  <1> DEFINE failing == {i \in 1..n : checks[i][1]}
  <1> SUFFICES ASSUME failing # {} PROVE FALSE
    OBVIOUS
  <1>0. failing \subseteq Nat
    OBVIOUS
  <1>1. \E m \in failing : \A j \in failing : m <= j
    <2> HIDE DEF failing
    <2> QED BY <1>0, LeastElement
  <1>2. (CHOOSE i \in failing : \A j \in failing : i <= j) \in failing
    BY <1>1
  <1>3. FirstFailure(checks) = checks[CHOOSE i \in failing : \A j \in failing : i <= j][2]
    BY DEF FirstFailure
  <1> QED
    BY <1>2, <1>3

(* What the recursive function inside SizeUpTo has to satisfy; there is such a *)
(* function, by the least number for which there would be none.               *)
Sized(inputs, n, g) ==
    g = [j \in 0..n |-> IF j = 0 THEN 0 ELSE g[j - 1] + inputs[j].size]

LEMMA SizedExists ==
    ASSUME NEW inputs, NEW n \in Nat, \A i \in 1..n : inputs[i].size \in Int
    PROVE  \E g : Sized(inputs, n, g)
  <1> DEFINE bad == {m \in 0..n : ~ \E g \in [0..m -> Int] : Sized(inputs, m, g)}
  <1> SUFFICES bad = {}
    <2>1. n \notin bad
      OBVIOUS
    <2> QED
      BY <2>1
  <1> SUFFICES ASSUME bad # {} PROVE FALSE
    OBVIOUS
  <1>1. bad \subseteq Nat
    OBVIOUS
  <1>2. PICK m \in bad : \A k \in bad : m <= k
    <2> HIDE DEF bad
    <2> QED
      BY <1>1, LeastElement
  <1>3. m # 0
    <2> SUFFICES ASSUME m = 0 PROVE FALSE
      OBVIOUS
    <2> DEFINE g == [j \in 0..0 |-> 0]
    <2>1. g \in [0..0 -> Int] /\ Sized(inputs, 0, g)
      BY DEF Sized
    <2> QED
      BY <2>1
  <1>4. m - 1 \in 0..n /\ m - 1 \notin bad /\ m \in 1..n
    <2>1. m \in 0..n
      OBVIOUS
    <2>2. m \in 1..n /\ m - 1 \in 0..n /\ ~(m <= m - 1)
      BY <1>3, <2>1
    <2> HIDE DEF bad
    <2> QED
      BY <1>2, <2>2
  <1>5. PICK g \in [0..(m - 1) -> Int] : Sized(inputs, m - 1, g)
    BY <1>4
  <1> DEFINE h == [j \in 0..m |-> IF j < m THEN g[j] ELSE g[m - 1] + inputs[m].size]
  <1>6. h \in [0..m -> Int]
    BY <1>4
  <1>7. Sized(inputs, m, h)
    <2> SUFFICES ASSUME NEW j \in 0..m
                 PROVE  h[j] = IF j = 0 THEN 0 ELSE h[j - 1] + inputs[j].size
      BY DEF Sized
    <2>1. CASE j = m
      BY <1>4, <2>1
    <2>2. CASE j # m
      <3>1. j \in 0..(m - 1) /\ h[j] = g[j] /\ (j # 0 => h[j - 1] = g[j - 1])
        BY <1>4, <2>2
      <3>2. g[j] = IF j = 0 THEN 0 ELSE g[j - 1] + inputs[j].size
        BY <1>5, <3>1 DEF Sized
      <3> HIDE DEF h
      <3> QED
        BY <3>1, <3>2
    <2> QED
      BY <2>1, <2>2
  <1> QED
    BY <1>4, <1>6, <1>7

(* The sizes of the inputs add up to a number.                                *)
LEMMA SizeUpToIsInt ==
    ASSUME NEW inputs, NEW n \in Nat, \A i \in 1..n : inputs[i].size \in Int
    PROVE  SizeUpTo(inputs, n) \in Int
  <1> DEFINE g == CHOOSE f : Sized(inputs, n, f)
  <1>1. SizeUpTo(inputs, n) = g[n]
    BY DEF SizeUpTo, Sized
  <1>2. Sized(inputs, n, g)
    BY SizedExists
  <1> HIDE DEF g
  <1> DEFINE bad == {m \in 0..n : g[m] \notin Int}
  <1> SUFFICES ASSUME bad # {} PROVE FALSE
    BY <1>1
  <1>3. bad \subseteq Nat
    OBVIOUS
  <1>4. PICK m \in bad : \A k \in bad : m <= k
    <2> HIDE DEF bad
    <2> QED
      BY <1>3, LeastElement
  <1>5. g[m] = IF m = 0 THEN 0 ELSE g[m - 1] + inputs[m].size
    BY <1>2 DEF Sized
  <1>6. m # 0 => m \in 1..n /\ m - 1 \in 0..n /\ ~(m <= m - 1)
    OBVIOUS
  <1>7. m # 0 => g[m - 1] \in Int
    BY <1>4, <1>6
  <1> QED
    BY <1>5, <1>6, <1>7

(* An input that passes is what WellFormedRequest wants of it.               *)
LEMMA InputVerdictOk ==
    ASSUME NEW inputs \in Seq(InputRecords), NEW i \in DOMAIN inputs,
           InputVerdict(inputs, i) = "ok"
    PROVE  /\ inputs[i].size <= MaxInputSize /\ inputs[i].form # "malformed"
           /\ inputs[i].index = i - 1
           /\ \A j \in 1..(i - 1) : inputs[j].name # inputs[i].name
           /\ SizeUpTo(inputs, i) <= MaxInputsSize
  <1> DEFINE checks == <<
        <<inputs[i].size > MaxInputSize, "resource_limit_exceeded">>,
        <<\/ inputs[i].form = "malformed"
          \/ inputs[i].index # i - 1
          \/ \E j \in 1..(i - 1) : inputs[j].name = inputs[i].name, "public_input_mismatch">>,
        <<SizeUpTo(inputs, i) > MaxInputsSize, "resource_limit_exceeded">> >>
  <1>1. DOMAIN checks = 1..3 /\ \A k \in 1..3 : checks[k][2] # "ok"
    OBVIOUS
  <1>2. FirstFailure(checks) = "ok"
    BY DEF InputVerdict
  <1>3. \A k \in 1..3 : ~checks[k][1]
    <2> HIDE DEF checks
    <2> QED
      BY <1>1, <1>2, FirstFailureOk
  <1>4. ~checks[1][1] /\ ~checks[2][1] /\ ~checks[3][1]
    BY <1>3
  <1>5. /\ ~(inputs[i].size > MaxInputSize)
        /\ inputs[i].form # "malformed" /\ inputs[i].index = i - 1
        /\ \A j \in 1..(i - 1) : inputs[j].name # inputs[i].name
        /\ ~(SizeUpTo(inputs, i) > MaxInputsSize)
    BY <1>4
  <1>6. i \in Nat /\ \A j \in 1..i : inputs[j].size \in Int
    <2>1. /\ i \in 1..Len(inputs) /\ Len(inputs) \in Nat
          /\ \A j \in 1..Len(inputs) : inputs[j] \in InputRecords
      OBVIOUS
    <2>2. \A r \in InputRecords : r.size \in Int
      BY DEF InputRecords
    <2> QED
      BY <2>1, <2>2
  <1>7. SizeUpTo(inputs, i) \in Int /\ inputs[i].size \in Int
    BY <1>6, SizeUpToIsInt DEF InputRecords
  <1> QED
    BY <1>5, <1>7, ContractAssumption

(* The loop over the inputs looks at every one of them.                       *)
LEMMA InputsVerdictOk ==
    ASSUME NEW inputs \in Seq(InputRecords), InputsVerdict(inputs) = "ok"
    PROVE  \A i \in DOMAIN inputs : InputVerdict(inputs, i) = "ok"
  <1> DEFINE checks == [i \in DOMAIN inputs |-> Unless(InputVerdict(inputs, i))]
  <1>1. Len(inputs) \in Nat /\ DOMAIN checks = 1..Len(inputs)
    OBVIOUS
  <1>2. ASSUME NEW i \in 1..Len(inputs)
        PROVE  checks[i] = <<InputVerdict(inputs, i) # "ok", InputVerdict(inputs, i)>>
    BY DEF Unless
  <1>3. FirstFailure(checks) = "ok"
    BY DEF InputsVerdict
  <1> HIDE DEF checks
  <1>4. \A i \in 1..Len(inputs) : ~checks[i][1]
    <2>1. ASSUME NEW i \in 1..Len(inputs)
          PROVE  checks[i][1] => checks[i][2] # "ok"
      <3>1. checks[i][1] = (InputVerdict(inputs, i) # "ok") /\ checks[i][2] = InputVerdict(inputs, i)
        BY <1>2
      <3> QED
        BY <3>1
    <2> QED
      BY <1>1, <1>3, <2>1, FirstFailureOk
  <1>5. ASSUME NEW i \in 1..Len(inputs)
        PROVE  InputVerdict(inputs, i) = "ok"
    <2>1. checks[i][1] = (InputVerdict(inputs, i) # "ok")
      BY <1>2
    <2> QED
      BY <1>4, <2>1
  <1> QED
    BY <1>1, <1>5

(* Two checks, a list of checks, and one more.                                *)
LEMMA Chained ==
    ASSUME NEW S, NEW a \in S, NEW b \in S, NEW t \in Seq(S), NEW c \in S
    PROVE  LET all == <<a, b>> \o t \o <<c>>
           IN  /\ DOMAIN all = 1..(Len(t) + 3)
               /\ all[1] = a /\ all[2] = b /\ all[Len(t) + 3] = c
               /\ \A i \in 1..Len(t) : all[i + 2] = t[i]
  <1> DEFINE s == <<a, b>>  u == <<c>>
  <1>1. s \in Seq(S) /\ Len(s) = 2 /\ s[1] = a /\ s[2] = b
    OBVIOUS
  <1>2. u \in Seq(S) /\ Len(u) = 1 /\ u[1] = c
    OBVIOUS
  <1> HIDE DEF s, u
  <1> DEFINE st == s \o t
  <1>3. /\ st \in Seq(S) /\ Len(st) = Len(t) + 2
        /\ \A i \in 1..(Len(t) + 2) : st[i] = IF i <= 2 THEN s[i] ELSE t[i - 2]
    <2>1. Len(t) \in Nat /\ 2 + Len(t) = Len(t) + 2
      BY LenProperties
    <2>2. /\ st \in Seq(S) /\ Len(st) = 2 + Len(t)
          /\ \A i \in 1..(2 + Len(t)) : st[i] = IF i <= 2 THEN s[i] ELSE t[i - 2]
      <3>1. /\ st \in Seq(S) /\ Len(st) = Len(s) + Len(t)
            /\ \A i \in 1..(Len(s) + Len(t)) : st[i] = IF i <= Len(s) THEN s[i] ELSE t[i - Len(s)]
        BY <1>1, ConcatProperties
      <3> QED
        BY <1>1, <3>1, Zenon
    <2> QED
      BY <2>1, <2>2, Zenon
  <1>4. st[1] = a /\ st[2] = b /\ \A i \in 1..Len(t) : st[i + 2] = t[i]
    <2>1. ASSUME NEW i \in 1..Len(t)
          PROVE  i + 2 \in 1..(Len(t) + 2) /\ ~(i + 2 <= 2) /\ (i + 2) - 2 = i
      OBVIOUS
    <2>2. 1 \in 1..(Len(t) + 2) /\ 2 \in 1..(Len(t) + 2)
      OBVIOUS
    <2> HIDE DEF st
    <2>3. \A i \in 1..(Len(t) + 2) : st[i] = IF i <= 2 THEN s[i] ELSE t[i - 2]
      BY <1>3
    <2>4. st[1] = s[1] /\ st[2] = s[2]
      BY <2>2, <2>3
    <2>5. ASSUME NEW i \in 1..Len(t) PROVE st[i + 2] = t[i]
      <3>1. st[i + 2] = t[(i + 2) - 2]
        BY <2>1, <2>3
      <3> QED
        BY <2>1, <3>1
    <2> QED
      BY <1>1, <2>4, <2>5
  <1> HIDE DEF st
  <1> DEFINE stu == st \o u
  <1>0. /\ stu \in Seq(S) /\ Len(stu) = Len(t) + 3
        /\ \A i \in 1..(Len(t) + 3) : stu[i] = IF i <= Len(t) + 2 THEN st[i] ELSE u[i - (Len(t) + 2)]
    <2>1. Len(t) \in Nat /\ (Len(t) + 2) + 1 = Len(t) + 3
      BY LenProperties
    <2>2. /\ stu \in Seq(S) /\ Len(stu) = (Len(t) + 2) + 1
          /\ \A i \in 1..((Len(t) + 2) + 1) :
               stu[i] = IF i <= Len(t) + 2 THEN st[i] ELSE u[i - (Len(t) + 2)]
      <3>1. /\ stu \in Seq(S) /\ Len(stu) = Len(st) + Len(u)
            /\ \A i \in 1..(Len(st) + Len(u)) : stu[i] = IF i <= Len(st) THEN st[i] ELSE u[i - Len(st)]
        BY <1>2, <1>3, ConcatProperties
      <3> QED
        BY <1>2, <1>3, <3>1, Zenon
    <2> QED
      BY <2>1, <2>2, Zenon
  <1>5. DOMAIN stu = 1..(Len(t) + 3) /\ stu[Len(t) + 3] = c
    <2>1. Len(t) + 3 \in 1..(Len(t) + 3) /\ ~(Len(t) + 3 <= Len(t) + 2) /\ (Len(t) + 3) - (Len(t) + 2) = 1
      OBVIOUS
    <2> HIDE DEF stu
    <2> QED
      BY <1>0, <1>2, <2>1
  <1>6. \A i \in 1..(Len(t) + 2) : stu[i] = st[i]
    <2>1. \A i \in 1..(Len(t) + 2) : i \in 1..(Len(t) + 3) /\ i <= Len(t) + 2
      OBVIOUS
    <2> HIDE DEF stu
    <2> QED
      BY <1>0, <2>1
  <1>7. 1 \in 1..(Len(t) + 2) /\ 2 \in 1..(Len(t) + 2) /\ \A i \in 1..Len(t) : i + 2 \in 1..(Len(t) + 2)
    OBVIOUS
  <1>8. stu[1] = a /\ stu[2] = b /\ \A i \in 1..Len(t) : stu[i + 2] = t[i]
    BY <1>4, <1>6, <1>7
  <1> HIDE DEF stu
  <1> QED
    BY <1>5, <1>8 DEF stu, st, s, u

(* The digests of an accepted request are those of its values.                *)
LEMMA DigestsVerdictOk ==
    ASSUME NEW q, RequestShape(q), DigestsVerdict(q) = "ok"
    PROVE  /\ q.proof.form # "undecodable" /\ q.proof.bound /\ q.inputsBound
           /\ \A i \in DOMAIN q.inputs : q.inputs[i].form # "undecodable" /\ q.inputs[i].bound
  <1> DEFINE n == Len(q.inputs)
             a == <<q.proof.form = "undecodable", "malformed_encoding">>
             b == <<~q.proof.bound, "proof_digest_mismatch">>
             t == [i \in DOMAIN q.inputs |->
                     <<q.inputs[i].form = "undecodable" \/ ~q.inputs[i].bound,
                       IF q.inputs[i].form = "undecodable" THEN "malformed_encoding"
                                                           ELSE "public_input_mismatch">>]
             c == <<~q.inputsBound, "public_input_mismatch">>
             all == <<a, b>> \o t \o <<c>>
             S == {a, b, c} \cup {t[i] : i \in 1..n}
  <1>1. n \in Nat /\ DOMAIN q.inputs = 1..n
    BY DEF RequestShape
  <1>2. t = [i \in 1..n |-> t[i]]
    BY <1>1
  <1>3. FirstFailure(all) = "ok"
    BY DEF DigestsVerdict
  <1>4. a[2] # "ok" /\ b[2] # "ok" /\ c[2] # "ok" /\ \A i \in 1..n : t[i][2] # "ok"
    BY <1>1
  <1>5. ASSUME ~a[1], ~b[1], ~c[1], \A i \in 1..n : ~t[i][1]
        PROVE  /\ q.proof.form # "undecodable" /\ q.proof.bound /\ q.inputsBound
               /\ \A i \in DOMAIN q.inputs : q.inputs[i].form # "undecodable" /\ q.inputs[i].bound
    <2>1. \A i \in 1..n : ~(q.inputs[i].form = "undecodable" \/ ~q.inputs[i].bound)
      BY <1>1, <1>5
    <2> QED
      BY <1>1, <1>5, <2>1
  <1> HIDE DEF a, b, t, c, n
  <1>6. t \in Seq(S) /\ Len(t) = n
    <2>1. t \in [1..n -> S]
      BY <1>2
    <2> HIDE DEF S
    <2> QED
      BY <1>1, <2>1
  <1>7. a \in S /\ b \in S /\ c \in S
    OBVIOUS
  <1> HIDE DEF S
  <1>8. /\ DOMAIN all = 1..(n + 3)
        /\ all[1] = a /\ all[2] = b /\ all[n + 3] = c
        /\ \A i \in 1..n : all[i + 2] = t[i]
    BY <1>6, <1>7, Chained
  <1> HIDE DEF all
  <1>9. ASSUME NEW i \in 1..(n + 3)
        PROVE  all[i][2] # "ok"
    <2>1. i = 1 \/ i = 2 \/ i = n + 3 \/ \E j \in 1..n : i = j + 2
      <3>1. i = 1 \/ i = 2 \/ i = n + 3 \/ (i - 2 \in 1..n /\ i = (i - 2) + 2)
        BY <1>1
      <3> QED
        BY <3>1
    <2> QED
      BY <1>4, <1>8, <2>1
  <1>10. \A i \in 1..(n + 3) : ~all[i][1]
    <2>1. n + 3 \in Nat
      BY <1>1
    <2> QED
      BY <1>3, <1>8, <1>9, <2>1, FirstFailureOk
  <1>11. 1 \in 1..(n + 3) /\ 2 \in 1..(n + 3) /\ n + 3 \in 1..(n + 3) /\ \A i \in 1..n : i + 2 \in 1..(n + 3)
    BY <1>1
  <1>12. ~a[1] /\ ~b[1] /\ ~c[1] /\ \A i \in 1..n : ~t[i][1]
    BY <1>8, <1>10, <1>11
  <1> QED
    BY <1>5, <1>12

(* validateVerifierRequest: what passes is well formed.                      *)
LEMMA ValidateOk ==
    ASSUME NEW q, RequestShape(q), ValidateVerifierRequest(q) = "ok"
    PROVE  WellFormedRequest(q)
  <1> DEFINE checks == <<
        <<q.shape = "not_object", "malformed_request">>,
        <<q.shape = "oversized", "resource_limit_exceeded">>,
        <<q.shape = "malformed" \/ ~IsBackendIdentity(q.backend) \/ q.provenance \notin Provenances,
          "malformed_request">>,
        <<q.proof.form = "malformed", "malformed_encoding">>,
        <<q.proof.form = "oversized", "resource_limit_exceeded">>,
        <<Len(q.inputs) > MaxInputCount, "resource_limit_exceeded">>,
        <<InputsVerdict(q.inputs) # "ok", InputsVerdict(q.inputs)>>,
        <<DigestsVerdict(q) # "ok", DigestsVerdict(q)>> >>
  <1>1. DOMAIN checks = 1..8
    OBVIOUS
  <1>2. \A k \in 1..8 : checks[k][1] => checks[k][2] # "ok"
    <2>1. \A k \in 1..6 : checks[k][2] # "ok"
      OBVIOUS
    <2>2. (checks[7][1] => checks[7][2] # "ok") /\ (checks[8][1] => checks[8][2] # "ok")
      OBVIOUS
    <2> HIDE DEF checks
    <2> QED
      BY <2>1, <2>2
  <1>3. FirstFailure(checks) = "ok"
    BY DEF ValidateVerifierRequest, Unless
  <1>4. \A k \in 1..8 : ~checks[k][1]
    <2> HIDE DEF checks
    <2> QED
      BY <1>1, <1>2, <1>3, FirstFailureOk
  <1>5. /\ ~checks[1][1] /\ ~checks[2][1] /\ ~checks[3][1] /\ ~checks[4][1]
        /\ ~checks[5][1] /\ ~checks[6][1] /\ ~checks[7][1] /\ ~checks[8][1]
    <2> HIDE DEF checks
    <2> QED
      BY <1>4
  <1>6. /\ q.shape # "not_object" /\ q.shape # "oversized" /\ q.shape # "malformed"
        /\ IsBackendIdentity(q.backend) /\ q.provenance \in Provenances
        /\ q.proof.form # "malformed" /\ q.proof.form # "oversized"
        /\ ~(Len(q.inputs) > MaxInputCount)
        /\ InputsVerdict(q.inputs) = "ok" /\ DigestsVerdict(q) = "ok"
    BY <1>5
  <1>7. /\ q.shape = "ok" /\ q.inputs \in Seq(InputRecords) /\ q.inputsBound \in BOOLEAN
        /\ q.proof \in [form : {"ok", "malformed", "oversized", "undecodable"}, bound : BOOLEAN]
    BY <1>6 DEF RequestShape
  <1>8. /\ q.proof.form # "undecodable" /\ q.proof.bound /\ q.inputsBound
        /\ \A i \in DOMAIN q.inputs : q.inputs[i].form # "undecodable" /\ q.inputs[i].bound
    BY <1>6, DigestsVerdictOk
  <1>9. q.proof = [form |-> "ok", bound |-> TRUE]
    BY <1>6, <1>7, <1>8
  <1>10. \A i \in DOMAIN q.inputs :
            /\ q.inputs[i].size <= MaxInputSize /\ q.inputs[i].form # "malformed"
            /\ q.inputs[i].index = i - 1
            /\ \A j \in 1..(i - 1) : q.inputs[j].name # q.inputs[i].name
            /\ SizeUpTo(q.inputs, i) <= MaxInputsSize
    BY <1>6, <1>7, InputsVerdictOk, InputVerdictOk
  <1>11. Len(q.inputs) \in Nat /\ DOMAIN q.inputs = 1..Len(q.inputs)
    BY <1>7
  <1>12. \A i \in DOMAIN q.inputs : q.inputs[i].form = "ok"
    <2>1. \A i \in DOMAIN q.inputs : q.inputs[i] \in InputRecords
      BY <1>7
    <2>2. \A i \in DOMAIN q.inputs : q.inputs[i].form \in {"ok", "malformed", "undecodable"}
      BY <2>1 DEF InputRecords
    <2> QED
      BY <1>8, <1>10, <2>2
  <1>13. \A i, j \in DOMAIN q.inputs : q.inputs[i].name = q.inputs[j].name => i = j
    <2> SUFFICES ASSUME NEW i \in DOMAIN q.inputs, NEW j \in DOMAIN q.inputs,
                        q.inputs[i].name = q.inputs[j].name, i # j
                 PROVE  FALSE
      OBVIOUS
    <2>1. i \in 1..(j - 1) \/ j \in 1..(i - 1)
      BY <1>11
    <2> QED
      BY <1>10, <2>1
  <1>14. Len(q.inputs) <= MaxInputCount
    BY <1>6, <1>11, ContractAssumption
  <1> QED
    BY <1>6, <1>7, <1>8, <1>9, <1>10, <1>12, <1>13, <1>14 DEF WellFormedRequest, IsBackendIdentity

(* What a bridge takes for a production verification is the adapter's own     *)
(* answer, and the adapter was authorized to give it to this request.        *)
LEMMA JudgeAuthorized ==
    ASSUME NEW r, NEW q, NEW authority, ResultShape(r), r.form # "thrown",
           IsProductionVerified(Judge(r, q, authority), authority)
    PROVE  Judge(r, q, authority) = r /\ AuthorizedResult(r, q, authority)
  <1> DEFINE checks == <<
        <<r.form = "malformed" \/ r.digest # q.digest \/ ~IsBackendIdentity(r.backend)
          \/ r.provenance \notin Provenances, "malformed_request">>,
        <<r.form = "long_error", "resource_limit_exceeded">>,
        <<(r.status = "valid") # r.verified, "malformed_request">>,
        <<r.status = "valid" /\ r.failure # "none", "malformed_request">>,
        <<r.status \in {"valid", "invalid"} /\ r.backend # q.backend, "backend_mismatch">>,
        <<r.status = "valid" /\ r.provenance = "production"
          /\ (~IsAuthoritative(r.backend) \/ ~IsAuthoritative(authority) \/ r.backend # authority),
          "backend_mismatch">>,
        <<r.failure # "none" /\ r.failure \notin FailureCodes, "malformed_request">>,
        <<r.status # "valid" /\ r.failure = "none", "malformed_request">> >>
  <1>1. \A code : ~IsProductionVerified(Failure(code, q, authority), authority)
    BY DEF IsProductionVerified, Failure
  <1>2. /\ ValidateVerificationResult(r, q, authority) = "ok"
        /\ Judge(r, q, authority) = RejectNonProduction(r, q, authority)
    BY <1>1, Zenon DEF Judge
  <1>3. Judge(r, q, authority) = r
    BY <1>1, <1>2, Zenon DEF RejectNonProduction
  <1>4. DOMAIN checks = 1..8
    OBVIOUS
  <1>5. \A k \in 1..8 : checks[k][2] # "ok"
    OBVIOUS
  <1>6. FirstFailure(checks) = "ok"
    BY <1>2 DEF ValidateVerificationResult
  <1>7. \A k \in 1..8 : ~checks[k][1]
    <2> HIDE DEF checks
    <2> QED
      BY <1>4, <1>5, <1>6, FirstFailureOk
  <1>8. ~checks[1][1] /\ ~checks[2][1] /\ ~checks[5][1]
    <2> HIDE DEF checks
    <2> QED
      BY <1>7
  <1>9. /\ r.form # "malformed" /\ r.form # "long_error" /\ r.digest = q.digest
        /\ ~(r.status \in {"valid", "invalid"} /\ r.backend # q.backend)
    BY <1>8
  <1>10. r.form = "ok"
    BY <1>9 DEF ResultShape
  <1>11. IsProductionVerified(r, authority)
    BY <1>3
  <1> QED
    BY <1>3, <1>9, <1>10, <1>11 DEF AuthorizedResult, IsProductionVerified, IsAuthoritative

(* An accepted observation is bound to the intent and its terms.              *)
LEMMA PaymentObservationOk ==
    ASSUME NEW o, NEW id, NEW terms, o.exact \in BOOLEAN, o.bound \in BOOLEAN,
           ValidatePaymentObservation(o, id, terms) = "ok"
    PROVE  o.id = id /\ o.terms = terms /\ o.exact /\ o.bound
  <1> DEFINE checks == <<
        <<o.form = "oversized", "resource_limit_exceeded">>,
        <<o.form = "malformed" \/ o.id # id \/ o.terms # terms \/ ~o.exact
          \/ ~IsBackendIdentity(o.observer) \/ o.provenance \notin Provenances, "payment_mismatch">>,
        <<~o.bound, "payment_mismatch">> >>
  <1>1. DOMAIN checks = 1..3 /\ \A k \in 1..3 : checks[k][2] # "ok"
    OBVIOUS
  <1>2. FirstFailure(checks) = "ok"
    BY DEF ValidatePaymentObservation
  <1>3. \A k \in 1..3 : ~checks[k][1]
    <2> HIDE DEF checks
    <2> QED
      BY <1>1, <1>2, FirstFailureOk
  <1>4. ~checks[2][1] /\ ~checks[3][1]
    <2> HIDE DEF checks
    <2> QED
      BY <1>3
  <1> QED
    BY <1>4

---------------------------------------------------------------------------
(* The ZKCP bridge: the shapes of its calls and of its intents.               *)

Waiting ==
    [pc : {"queued", "replaying"}, id : Intents, request : ZkRequests]

Operating ==
    [pc : {"binding", "verifying", "revalidating", "observing"}, id : Intents, request : ZkRequests,
     status : {"pending", "verified"}, gen : 0..2, incarnation : 1..MaxBirths]

(* The variables have their types, as functions.                             *)
ZkShapes ==
    /\ zkNow \in -1..MaxTime /\ zkLast \in -1..MaxTime
    /\ zkVerifier \in Backends \cup {NoIdentity} /\ zkObserver \in Backends \cup {NoIdentity}
    /\ zkIntent \in [Intents -> {NoIntent} \cup ZkIntentRecords]
    /\ zkGen \in [Intents -> 0..2]
    /\ zkProof = [i \in Intents |-> zkProof[i]] /\ zkPaid = [i \in Intents |-> zkPaid[i]]
    /\ zkCall \in [Calls -> {IdleCall} \cup Waiting \cup Operating]
    /\ zkTail \in [Intents -> Calls \cup {NoCall}]
    /\ zkPrev \in [Calls -> Calls \cup {NoCall}]
    /\ zkBirths \in 0..MaxBirths /\ zkAsks \in 0..MaxAsks

(* A generation counts the commits of an incarnation.                        *)
ZkGenerations ==
    \A i \in Intents :
        zkGen[i] = CASE zkIntent[i].status \in {"none", "pending"} -> 0
                     [] zkIntent[i].status = "paid" -> 2
                     [] OTHER -> 1

(* What a call is about: a proof of a pending intent, or the payment of a     *)
(* verified one; a request that is with the verifier has been accepted.       *)
ZkPhases ==
    \A c \in Calls :
        /\ zkCall[c].pc \in {"binding", "verifying"} =>
             zkCall[c].status = "pending" /\ zkCall[c].request.kind = "verify"
        /\ zkCall[c].pc \in {"revalidating", "observing"} => zkCall[c].status = "verified"
        /\ zkCall[c].pc = "verifying" =>
             RequestVerdict(zkCall[c].request, zkCall[c].id, zkIntent[zkCall[c].id].terms) = "ok"

(* The lines, and that whoever was let in waits for nobody.                  *)
ZkLines ==
    /\ Lined(zkTail, zkPrev, [i \in Intents |-> CallsOn(i)])
    /\ \A c \in Calls : zkCall[c].pc \notin {"idle", "queued"} => zkPrev[c] = NoCall

ZkPresent == {i \in Intents : zkIntent[i] # NoIntent}

ZkActive == {i \in Intents : zkIntent[i].status \in {"pending", "verified"}}

ZkBounded ==
    /\ IsFiniteSet(ZkPresent)
    /\ Cardinality(ZkPresent) <= MaxTotal
    /\ Cardinality(ZkActive) <= MaxActive

ZkSafe ==
    /\ ZkShapes
    /\ ZkGenerations
    /\ ZkLines
    /\ ZkOperationsCurrent
    /\ ZkPhases
    /\ ZkEvidenceSound
    /\ ZkBounded

---------------------------------------------------------------------------
(* The kinds of steps.  A call moves on, keeping its place at the head;       *)
ZkAdvance(c) ==
    /\ zkCall' = [zkCall EXCEPT ![c] = zkCall'[c]]
    /\ zkCall'[c] \in Waiting \cup Operating /\ zkCall'[c].pc # "queued"
    /\ zkCall'[c].id = zkCall[c].id /\ zkCall'[c].request = zkCall[c].request
    /\ zkCall'[c].pc # "replaying" =>
         LET i == zkCall[c].id
         IN  /\ Present(i) /\ zkCall'[c].status = zkIntent[i].status
             /\ zkCall'[c].gen = zkGen[i] /\ zkCall'[c].incarnation = zkIntent[i].incarnation
             /\ zkCall'[c].status = IF zkCall'[c].pc \in {"binding", "verifying"} THEN "pending" ELSE "verified"
    /\ UNCHANGED <<zkTail, zkPrev>>

ZkRecordsKept == UNCHANGED <<zkIntent, zkGen, zkProof, zkPaid>>

(* or commits,                                                              *)
ZkCommitted(c, status, proof, payment) ==
    LET i == zkCall[c].id
    IN  /\ zkNow \in 0..MaxTime /\ IsCurrentOperation(c)
        /\ zkIntent' = [zkIntent EXCEPT ![i] =
                          [status |-> status, terms |-> zkIntent[i].terms, updatedAt |-> zkNow,
                           incarnation |-> zkIntent[i].incarnation]]
        /\ zkGen' = [zkGen EXCEPT ![i] = @ + 1]
        /\ zkProof' = [zkProof EXCEPT ![i] = proof]
        /\ zkPaid' = [zkPaid EXCEPT ![i] = payment]

LEMMA IntentUpdate ==
    ASSUME NEW r \in ZkIntentRecords, NEW status, NEW at
    PROVE  [r EXCEPT !.status = status, !.updatedAt = at] =
             [status |-> status, terms |-> r.terms, updatedAt |-> at, incarnation |-> r.incarnation]
  <1>1. PICK s, t, u, n : r = [status |-> s, terms |-> t, updatedAt |-> u, incarnation |-> n]
    BY DEF ZkIntentRecords
  <1>2. [r EXCEPT !.status = status] = [status |-> status, terms |-> t, updatedAt |-> u, incarnation |-> n]
    BY <1>1
  <1>3. [r EXCEPT !.status = status, !.updatedAt = at] =
          [[status |-> status, terms |-> t, updatedAt |-> u, incarnation |-> n] EXCEPT !.updatedAt = at]
    BY <1>2
  <1>4. [[status |-> status, terms |-> t, updatedAt |-> u, incarnation |-> n] EXCEPT !.updatedAt = at] =
          [status |-> status, terms |-> t, updatedAt |-> at, incarnation |-> n]
    OBVIOUS
  <1>5. r.terms = t /\ r.incarnation = n
    BY <1>1
  <1> QED
    BY <1>3, <1>4, <1>5

LEMMA CommitKind ==
    ASSUME ZkShapes, NEW c \in Calls, zkCall[c].pc \in {"binding", "verifying", "revalidating", "observing"},
           NEW status, NEW proof, NEW payment, CommitZk(c, status, proof, payment)
    PROVE  /\ ZkRecordsKept \/ ZkCommitted(c, status, proof, payment)
           /\ LeaveZk(c) /\ zkLast' = Observed(zkNow, zkLast)
  <1> DEFINE i == zkCall[c].id
  <1>1. CASE ~(ClockAccepted(zkNow, zkLast) /\ IsCurrentOperation(c))
    BY <1>1 DEF CommitZk, ZkRecordsKept
  <1>2. CASE ClockAccepted(zkNow, zkLast) /\ IsCurrentOperation(c)
    <2>1. zkCall[c] \in Operating /\ i \in Intents
      BY DEF ZkShapes, IdleCall, Waiting, Operating
    <2>2. zkIntent[i] \in ZkIntentRecords
      BY <1>2, <2>1 DEF IsCurrentOperation, Present, ZkShapes
    <2>3. zkNow \in 0..MaxTime
      BY <1>2 DEF ClockAccepted, ZkShapes
    <2>4. zkIntent' = [zkIntent EXCEPT ![i].status = status, ![i].updatedAt = zkNow]
      BY <1>2 DEF CommitZk
    <2>5. [zkIntent[i] EXCEPT !.status = status, !.updatedAt = zkNow] =
             [status |-> status, terms |-> zkIntent[i].terms, updatedAt |-> zkNow,
              incarnation |-> zkIntent[i].incarnation]
      BY <2>2, IntentUpdate
    <2>6. zkIntent' = [zkIntent EXCEPT ![i] = [zkIntent[i] EXCEPT !.status = status, !.updatedAt = zkNow]]
      BY <2>1, <2>4 DEF ZkShapes
    <2> QED
      BY <1>2, <2>3, <2>5, <2>6 DEF CommitZk, ZkCommitted
  <1> QED
    BY <1>1, <1>2 DEF CommitZk

(* A sound proof for i: what makes an intent verified.                       *)
ZkProofSound(i, proof) ==
    /\ proof # NoEvidence
    /\ WellFormedRequest(proof.request)
    /\ AuthorizedResult(proof.result, proof.request, zkVerifier)
    /\ proof.request.proofTerms = zkIntent[i].terms /\ proof.request.inputTerms = zkIntent[i].terms
    /\ proof.request.statement = BindingDigest("statement", i, zkIntent[i].terms)
    /\ proof.request.domain = BindingDigest("domain", i, zkIntent[i].terms)

ZkPaymentSound(i, paid) ==
    LET payment == paid.observation
    IN  /\ paid # NoEvidence
        /\ payment.id = i /\ payment.terms = zkIntent[i].terms /\ payment.exact /\ payment.bound
        /\ payment.observer = zkObserver /\ zkObserver \in Authoritative
        /\ payment.provenance = "production"

ZkFails(c) ==
    /\ zkCall[c].status = "pending"
    /\ \E status \in {"failed", "unsupported"} : ZkCommitted(c, status, NoEvidence, NoEvidence)

ZkVerifies(c) ==
    /\ zkCall[c].status = "pending"
    /\ \E proof : ZkProofSound(zkCall[c].id, proof)
                   /\ ZkCommitted(c, "verified", proof, zkPaid[zkCall[c].id])

ZkPays(c) ==
    /\ zkCall[c].status = "verified"
    /\ \E paid : ZkPaymentSound(zkCall[c].id, paid)
                  /\ ZkCommitted(c, "paid", zkProof[zkCall[c].id], paid)

ZkSteps(c) ==
    /\ zkCall[c].pc # "idle" /\ zkPrev[c] = NoCall
    /\ \/ ZkAdvance(c) /\ ZkRecordsKept
       \/ LeaveZk(c) /\ (ZkRecordsKept \/ ZkFails(c) \/ ZkVerifies(c) \/ ZkPays(c))
    /\ zkLast' \in {zkLast, Observed(zkNow, zkLast)}
    /\ UNCHANGED <<zkNow, zkVerifier, zkObserver, zkBirths, zkAsks>>

---------------------------------------------------------------------------
(* What RequestVerdict and PaymentVerdict answer "ok" to.                    *)
LEMMA RequestVerdictOk ==
    ASSUME NEW q \in ZkRequests, q.kind = "verify", NEW i, NEW terms, RequestVerdict(q, i, terms) = "ok"
    PROVE  /\ WellFormedRequest(q)
           /\ q.proofTerms = terms /\ q.inputTerms = terms
           /\ q.statement = BindingDigest("statement", i, terms)
           /\ q.domain = BindingDigest("domain", i, terms)
  <1> DEFINE checks == <<
        <<ValidateVerifierRequest(q) # "ok", ValidateVerifierRequest(q)>>,
        <<IntentBindingVerdict(q, i, terms) # "ok", IntentBindingVerdict(q, i, terms)>>,
        <<q.system = "other", "unsupported_backend">>,
        <<~IsBackendIdentity(zkVerifier), "backend_mismatch">>,
        <<zkVerifier # Unavailable /\ q.backend # zkVerifier, "backend_mismatch">> >>
             bindings == <<
        <<q.proofTerms # terms, "proof_digest_mismatch">>,
        <<q.inputTerms # terms, "public_input_mismatch">>,
        <<q.statement # BindingDigest("statement", i, terms), "statement_mismatch">>,
        <<q.domain # BindingDigest("domain", i, terms), "domain_mismatch">> >>
  <1>1. DOMAIN checks = 1..5 /\ DOMAIN bindings = 1..4
    OBVIOUS
  <1>2. \A k \in 1..5 : checks[k][1] => checks[k][2] # "ok"
    <2>1. \A k \in 3..5 : checks[k][2] # "ok"
      OBVIOUS
    <2>2. (checks[1][1] => checks[1][2] # "ok") /\ (checks[2][1] => checks[2][2] # "ok")
      OBVIOUS
    <2> HIDE DEF checks
    <2> QED
      BY <2>1, <2>2
  <1>3. \A k \in 1..4 : bindings[k][2] # "ok"
    OBVIOUS
  <1>4. FirstFailure(checks) = "ok"
    BY DEF RequestVerdict, Unless
  <1>5. ~checks[1][1] /\ ~checks[2][1]
    <2> HIDE DEF checks
    <2>1. \A k \in 1..5 : ~checks[k][1]
      BY <1>1, <1>2, <1>4, FirstFailureOk
    <2> QED
      BY <2>1
  <1>6. ValidateVerifierRequest(q) = "ok" /\ IntentBindingVerdict(q, i, terms) = "ok"
    BY <1>5
  <1>7. FirstFailure(bindings) = "ok"
    BY <1>6 DEF IntentBindingVerdict
  <1>8. ~bindings[1][1] /\ ~bindings[2][1] /\ ~bindings[3][1] /\ ~bindings[4][1]
    <2> HIDE DEF bindings
    <2>1. \A k \in 1..4 : ~bindings[k][1]
      BY <1>1, <1>3, <1>7, FirstFailureOk
    <2> QED
      BY <2>1
  <1>9. RequestShape(q)
    BY ZkcpAssumption
  <1> QED
    BY <1>6, <1>8, <1>9, ValidateOk

LEMMA PaymentVerdictOk ==
    ASSUME NEW r \in Payments, NEW i, NEW terms, PaymentVerdict(r, i, terms, zkObserver) = "ok",
           IsProductionPayment(r, zkObserver)
    PROVE  LET payment == r.observation
           IN  /\ payment.id = i /\ payment.terms = terms /\ payment.exact /\ payment.bound
               /\ payment.observer = zkObserver /\ zkObserver \in Authoritative
               /\ payment.provenance = "production"
  <1> DEFINE o == ValidatePaymentObservation(r.observation, i, terms)
             checks == <<
        <<r.form = "malformed" \/ r.provenance \notin Provenances
          \/ (r.failure # "none" /\ r.failure \notin FailureCodes), "payment_mismatch">>,
        <<r.form = "long_error", "resource_limit_exceeded">>,
        <<r.status # "observed" /\ (r.detected \/ r.failure = "none"), "payment_mismatch">>,
        <<r.status # "observed", r.failure>>,
        <<r.failure # "none", "payment_mismatch">>,
        <<~r.detected, "payment_not_observed">>,
        <<o # "ok", o>>,
        <<r.observation.observer # zkObserver \/ r.observation.provenance # r.provenance, "payment_mismatch">>,
        <<~IsAuthoritative(zkObserver), "payment_mismatch">>,
        <<r.provenance # "production", "simulated_result">> >>
  <1> HIDE DEF o
  <1>1. DOMAIN checks = 1..10
    OBVIOUS
  <1>2. \A k \in 1..10 : checks[k][1] => checks[k][2] # "ok"
    <2>1. \A k \in {1, 2, 3, 5, 6, 8, 9, 10} : checks[k][2] # "ok"
      OBVIOUS
    <2>2. checks[4][1] => checks[4][2] # "ok"
      BY DEF IsProductionPayment
    <2>3. checks[7][1] => checks[7][2] # "ok"
      OBVIOUS
    <2>4. \A k \in 1..10 : k = 4 \/ k = 7 \/ k \in {1, 2, 3, 5, 6, 8, 9, 10}
      OBVIOUS
    <2> HIDE DEF checks
    <2> QED
      BY <2>1, <2>2, <2>3, <2>4
  <1>3. FirstFailure(checks) = "ok"
    BY DEF PaymentVerdict, Unless, o
  <1>4. ~checks[7][1]
    <2> HIDE DEF checks
    <2>1. \A k \in 1..10 : ~checks[k][1]
      BY <1>1, <1>2, <1>3, FirstFailureOk
    <2> QED
      BY <2>1
  <1>5. o = "ok"
    BY <1>4
  <1>6. r.observation.exact \in BOOLEAN /\ r.observation.bound \in BOOLEAN
    BY ZkcpAssumption
  <1>7. /\ r.observation.id = i /\ r.observation.terms = terms
        /\ r.observation.exact /\ r.observation.bound
    BY <1>5, <1>6, PaymentObservationOk DEF o
  <1> QED
    BY <1>7 DEF IsProductionPayment, IsAuthoritative

---------------------------------------------------------------------------
(* A call under way is a record with all its fields.                         *)
LEMMA CallKinds ==
    ASSUME ZkShapes, NEW c \in Calls
    PROVE  /\ zkCall[c].pc = "idle" <=> zkCall[c] = IdleCall
           /\ zkCall[c].pc \in {"queued", "replaying"} <=> zkCall[c] \in Waiting
           /\ zkCall[c].pc \in {"binding", "verifying", "revalidating", "observing"}
                <=> zkCall[c] \in Operating
           /\ zkCall[c] # IdleCall => zkCall[c].id \in Intents /\ zkCall[c].request \in ZkRequests
  BY DEF ZkShapes, IdleCall, Waiting, Operating

(* A call that leaves changes no record.                                     *)
LEMMA EnterKind ==
    ASSUME ZkSafe, NEW c \in Calls, EnterZk(c)
    PROVE  /\ ZkSteps(c)
           /\ zkCall'[c].pc = "binding" => zkCall[c].request.kind = "verify"
           /\ zkCall'[c].pc # "verifying"
  <1> DEFINE i == zkCall[c].id
  <1>1. zkCall[c] \in Waiting /\ zkCall[c].pc = "queued" /\ zkPrev[c] = NoCall /\ i \in Intents
        /\ zkCall[c].request \in ZkRequests
    BY CallKinds DEF EnterZk, MayEnter, ZkSafe, Waiting
  <1>2. zkIntent[i].status \in {"pending", "verified"} => zkIntent[i] \in ZkIntentRecords
    BY <1>1 DEF ZkSafe, ZkShapes, NoIntent
  <1>3. ASSUME NEW pc \in {"binding", "revalidating"}, BeginZk(c, pc),
               zkIntent[i].status = IF pc = "binding" THEN "pending" ELSE "verified"
        PROVE  ZkAdvance(c) /\ zkCall'[c].pc = pc
    <2> DEFINE new == [pc |-> pc, id |-> i, request |-> zkCall[c].request, status |-> zkIntent[i].status,
                       gen |-> zkGen[i], incarnation |-> zkIntent[i].incarnation]
    <2>1. zkCall' = [zkCall EXCEPT ![c] = new] /\ UNCHANGED <<zkTail, zkPrev>>
      BY <1>3 DEF BeginZk
    <2>2. new \in Operating
      BY <1>1, <1>2, <1>3 DEF Operating, ZkSafe, ZkShapes, ZkIntentRecords
    <2>3. zkCall'[c] = new
      BY <2>1 DEF ZkSafe, ZkShapes
    <2>4. /\ new.pc = pc /\ new.id = i /\ new.request = zkCall[c].request
          /\ new.status = zkIntent[i].status /\ new.gen = zkGen[i]
          /\ new.incarnation = zkIntent[i].incarnation
      OBVIOUS
    <2>5. Present(i)
      BY <1>3 DEF Present, NoIntent
    <2> HIDE DEF new
    <2> QED
      BY <1>3, <2>1, <2>2, <2>3, <2>4, <2>5 DEF ZkAdvance
  <1>4. ASSUME GoZk(c, "replaying") PROVE ZkAdvance(c) /\ zkCall'[c].pc = "replaying"
    <2> DEFINE new == [zkCall[c] EXCEPT !.pc = "replaying"]
    <2>1. zkCall' = [zkCall EXCEPT ![c] = new] /\ UNCHANGED <<zkTail, zkPrev>>
      BY <1>4 DEF GoZk
    <2>2. new \in Waiting /\ new.pc = "replaying" /\ new.id = i /\ new.request = zkCall[c].request
      BY <1>1 DEF Waiting
    <2>3. zkCall'[c] = new
      BY <2>1 DEF ZkSafe, ZkShapes
    <2> HIDE DEF new
    <2> QED
      BY <2>1, <2>2, <2>3 DEF ZkAdvance
  <1>5. /\ UNCHANGED <<zkNow, zkLast, zkVerifier, zkObserver, zkBirths, zkAsks>> /\ ZkRecordsKept
        /\ zkCall[c].pc # "idle"
    BY <1>1 DEF EnterZk, ZkRecordsKept
  <1>6. CASE zkCall[c].request.kind = "verify" /\ zkIntent[i].status = "pending"
    <2>1. BeginZk(c, "binding")
      BY <1>6 DEF EnterZk
    <2> QED
      BY <1>1, <1>3, <1>5, <1>6, <2>1 DEF ZkSteps
  <1>7. CASE zkCall[c].request.kind # "verify" /\ zkIntent[i].status = "verified"
    <2>1. BeginZk(c, "revalidating")
      BY <1>7 DEF EnterZk
    <2> QED
      BY <1>1, <1>3, <1>5, <1>7, <2>1 DEF ZkSteps
  <1>8. CASE zkCall[c].request.kind # "verify" /\ zkIntent[i].status = "paid"
    <2>1. GoZk(c, "replaying")
      BY <1>8 DEF EnterZk
    <2> QED
      BY <1>1, <1>4, <1>5, <2>1 DEF ZkSteps
  <1>9. CASE LeaveZk(c)
    <2>1. zkCall'[c] = IdleCall
      BY <1>9 DEF LeaveZk, ZkSafe, ZkShapes
    <2> QED
      BY <1>1, <1>5, <1>9, <2>1 DEF ZkSteps, IdleCall
  <1> QED
    BY <1>6, <1>7, <1>8, <1>9 DEF EnterZk

(* A call that goes on with its operation.                                   *)
LEMMA GoKind ==
    ASSUME ZkSafe, NEW c \in Calls, zkCall[c] \in Operating, NEW pc \in {"verifying", "observing"},
           zkCall[c].pc = IF pc = "verifying" THEN "binding" ELSE "revalidating", GoZk(c, pc)
    PROVE  ZkAdvance(c) /\ zkCall'[c].pc = pc /\ zkCall' = [zkCall EXCEPT ![c].pc = pc]
  <1> DEFINE new == [zkCall[c] EXCEPT !.pc = pc]
  <1>1. zkCall' = [zkCall EXCEPT ![c] = new] /\ UNCHANGED <<zkTail, zkPrev>>
        /\ zkCall' = [zkCall EXCEPT ![c].pc = pc]
    BY DEF GoZk
  <1>2. /\ new \in Operating /\ new.pc = pc /\ new.id = zkCall[c].id
        /\ new.request = zkCall[c].request /\ new.status = zkCall[c].status
        /\ new.gen = zkCall[c].gen /\ new.incarnation = zkCall[c].incarnation
    BY DEF Operating
  <1>3. zkCall'[c] = new
    BY <1>1 DEF ZkSafe, ZkShapes
  <1>4. IsCurrentOperation(c) /\ zkCall[c].status = IF pc = "verifying" THEN "pending" ELSE "verified"
    BY DEF ZkSafe, ZkOperationsCurrent, ZkPhases
  <1> HIDE DEF new
  <1> QED
    BY <1>1, <1>2, <1>3, <1>4 DEF ZkAdvance, IsCurrentOperation

LEMMA FailKind ==
    ASSUME ZkSafe, NEW c \in Calls, zkCall[c].pc \in {"binding", "verifying"},
           NEW status, RecordFailure(c, status),
           UNCHANGED <<zkNow, zkVerifier, zkObserver, zkBirths, zkAsks>>
    PROVE  ZkSteps(c)
  <1> DEFINE s == IF status \in {"unavailable", "unsupported"} THEN "unsupported" ELSE "failed"
  <1>1. s \in {"failed", "unsupported"} /\ zkCall[c].status = "pending"
    BY DEF ZkSafe, ZkPhases
  <1>2. CommitZk(c, s, NoEvidence, NoEvidence)
    BY DEF RecordFailure
  <1>3. zkPrev[c] = NoCall
    BY DEF ZkSafe, ZkLines
  <1> HIDE DEF s
  <1>4. /\ ZkRecordsKept \/ ZkCommitted(c, s, NoEvidence, NoEvidence)
        /\ LeaveZk(c) /\ zkLast' = Observed(zkNow, zkLast)
    BY <1>2, CommitKind DEF ZkSafe
  <1> QED
    BY <1>1, <1>3, <1>4 DEF ZkSteps, ZkFails

LEMMA BindKind ==
    ASSUME ZkSafe, NEW c \in Calls, BindProof(c)
    PROVE  /\ ZkSteps(c) /\ zkCall[c].pc = "binding" /\ zkCall'[c].pc # "binding"
           /\ zkCall'[c].pc = "verifying" =>
                RequestVerdict(zkCall[c].request, zkCall[c].id, zkIntent[zkCall[c].id].terms) = "ok"
  <1> DEFINE verdict == RequestVerdict(zkCall[c].request, zkCall[c].id, zkIntent[zkCall[c].id].terms)
  <1>1. zkCall[c].pc = "binding" /\ zkCall[c] \in Operating /\ zkPrev[c] = NoCall
    BY CallKinds DEF BindProof, ZkSafe, ZkLines
  <1>2. UNCHANGED <<zkNow, zkVerifier, zkObserver, zkBirths, zkAsks>>
    BY DEF BindProof
  <1>3. LeaveZk(c) => zkCall'[c].pc = "idle"
    BY DEF LeaveZk, ZkSafe, ZkShapes, IdleCall
  <1>4. CASE verdict # "ok"
    <2>1. RecordFailure(c, FailureStatus(verdict))
      BY <1>4 DEF BindProof
    <2>2. LeaveZk(c)
      BY <2>1 DEF RecordFailure, CommitZk
    <2> QED
      BY <1>1, <1>2, <1>3, <2>1, <2>2, FailKind
  <1>5. CASE verdict = "ok"
    <2>1. /\ IF IsCurrentOperation(c) THEN GoZk(c, "verifying") ELSE LeaveZk(c)
          /\ UNCHANGED <<zkLast, zkIntent, zkGen, zkProof, zkPaid>>
      BY <1>5 DEF BindProof
    <2>2. ZkRecordsKept /\ zkLast' = zkLast
      BY <2>1 DEF ZkRecordsKept
    <2>3. CASE GoZk(c, "verifying")
      BY <1>1, <1>2, <1>5, <2>2, <2>3, GoKind DEF ZkSteps
    <2>4. CASE LeaveZk(c)
      BY <1>1, <1>2, <1>3, <2>2, <2>4 DEF ZkSteps
    <2> QED
      BY <2>1, <2>3, <2>4
  <1> QED
    BY <1>4, <1>5

LEMMA VerifierKind ==
    ASSUME ZkSafe, NEW c \in Calls, NEW r \in ZkResults, VerifierAnswers(c, r)
    PROVE  ZkSteps(c) /\ LeaveZk(c)
  <1> DEFINE q == zkCall[c].request
             i == zkCall[c].id
             judged == IF r.form = "thrown" THEN Failure("internal_error", q, zkVerifier)
                       ELSE Judge(r, q, zkVerifier)
  <1>1. /\ zkCall[c].pc = "verifying" /\ zkCall[c] \in Operating /\ zkPrev[c] = NoCall
        /\ zkCall[c].status = "pending" /\ q \in ZkRequests /\ q.kind = "verify"
        /\ RequestVerdict(q, i, zkIntent[i].terms) = "ok"
    BY CallKinds DEF VerifierAnswers, ZkSafe, ZkLines, ZkPhases
  <1>2. UNCHANGED <<zkNow, zkVerifier, zkObserver, zkBirths, zkAsks>>
    BY DEF VerifierAnswers
  <1>3. CASE IsProductionVerified(judged, zkVerifier)
    <2> DEFINE proof == [kind |-> "proof", request |-> q, result |-> judged]
    <2>1. CommitZk(c, "verified", proof, zkPaid[i])
      BY <1>3 DEF VerifierAnswers
    <2>2. r.form # "thrown"
      BY <1>3 DEF IsProductionVerified, Failure
    <2>3. ResultShape(r)
      BY ZkcpAssumption
    <2>4. AuthorizedResult(judged, q, zkVerifier)
      BY <1>3, <2>2, <2>3, JudgeAuthorized
    <2> HIDE DEF judged
    <2>5. proof.request = q /\ proof.result = judged /\ proof # NoEvidence
      BY DEF NoEvidence
    <2>6. ZkProofSound(i, proof)
      BY <1>1, <2>4, <2>5, RequestVerdictOk DEF ZkProofSound
    <2> HIDE DEF proof
    <2>7. /\ ZkRecordsKept \/ ZkCommitted(c, "verified", proof, zkPaid[i])
          /\ LeaveZk(c) /\ zkLast' = Observed(zkNow, zkLast)
      BY <1>1, <2>1, CommitKind DEF ZkSafe
    <2> QED
      BY <1>1, <1>2, <2>6, <2>7 DEF ZkSteps, ZkVerifies
  <1>4. CASE ~IsProductionVerified(judged, zkVerifier)
    <2>1. RecordFailure(c, judged.status)
      BY <1>4 DEF VerifierAnswers
    <2>2. LeaveZk(c)
      BY <2>1 DEF RecordFailure, CommitZk
    <2> QED
      BY <1>1, <1>2, <2>1, <2>2, FailKind
  <1> QED
    BY <1>3, <1>4

LEMMA RevalidateKind ==
    ASSUME ZkSafe, NEW c \in Calls, RevalidateProof(c)
    PROVE  ZkSteps(c) /\ zkCall'[c].pc \in {"observing", "idle"}
  <1>1. zkCall[c].pc = "revalidating" /\ zkCall[c] \in Operating /\ zkPrev[c] = NoCall
    BY CallKinds DEF RevalidateProof, ZkSafe, ZkLines
  <1>2. /\ UNCHANGED <<zkNow, zkVerifier, zkObserver, zkBirths, zkAsks>>
        /\ ZkRecordsKept /\ zkLast' = zkLast
    BY DEF RevalidateProof, ZkRecordsKept
  <1>3. CASE GoZk(c, "observing")
    BY <1>1, <1>2, <1>3, GoKind DEF ZkSteps
  <1>4. CASE LeaveZk(c)
    <2>1. zkCall'[c].pc = "idle"
      BY <1>4 DEF LeaveZk, ZkSafe, ZkShapes, IdleCall
    <2> QED
      BY <1>1, <1>2, <1>4, <2>1 DEF ZkSteps
  <1> QED
    BY <1>3, <1>4 DEF RevalidateProof

LEMMA ObserverKind ==
    ASSUME ZkSafe, NEW c \in Calls, NEW r \in Payments, ObserverAnswers(c, r)
    PROVE  ZkSteps(c) /\ LeaveZk(c)
  <1> DEFINE i == zkCall[c].id
             paid == [kind |-> "payment", id |-> i, terms |-> zkIntent[i].terms,
                      observation |-> r.observation]
             accepted == /\ r.form # "thrown" /\ IsCurrentOperation(c)
                         /\ PaymentVerdict(r, i, zkIntent[i].terms, zkObserver) = "ok"
                         /\ IsProductionPayment(r, zkObserver)
  <1>1. /\ zkCall[c].pc = "observing" /\ zkCall[c] \in Operating /\ zkPrev[c] = NoCall
        /\ zkCall[c].status = "verified"
    BY CallKinds DEF ObserverAnswers, ZkSafe, ZkLines, ZkPhases
  <1>2. UNCHANGED <<zkNow, zkVerifier, zkObserver, zkBirths, zkAsks>>
    BY DEF ObserverAnswers
  <1>3. CASE accepted
    <2>1. CommitZk(c, "paid", zkProof[i], paid)
      BY <1>3 DEF ObserverAnswers
    <2>2. paid.observation = r.observation /\ paid # NoEvidence
      BY DEF NoEvidence
    <2> HIDE DEF paid
    <2>3. ZkPaymentSound(i, paid)
      BY <1>3, <2>2, PaymentVerdictOk DEF ZkPaymentSound
    <2>4. /\ ZkRecordsKept \/ ZkCommitted(c, "paid", zkProof[i], paid)
          /\ LeaveZk(c) /\ zkLast' = Observed(zkNow, zkLast)
      BY <1>1, <2>1, CommitKind DEF ZkSafe
    <2> QED
      BY <1>1, <1>2, <2>3, <2>4 DEF ZkSteps, ZkPays
  <1>4. CASE ~accepted
    <2>1. LeaveZk(c) /\ UNCHANGED <<zkLast, zkIntent, zkGen, zkProof, zkPaid>>
      BY <1>4 DEF ObserverAnswers
    <2> QED
      BY <1>1, <1>2, <2>1 DEF ZkSteps, ZkRecordsKept
  <1> QED
    BY <1>3, <1>4

LEMMA ReplayKind ==
    ASSUME ZkSafe, NEW c \in Calls, ReplayPayment(c)
    PROVE  ZkSteps(c) /\ LeaveZk(c)
  <1>1. zkCall[c].pc = "replaying" /\ zkPrev[c] = NoCall
    BY DEF ReplayPayment, ZkSafe, ZkLines
  <1> QED
    BY <1>1 DEF ReplayPayment, ZkSteps, ZkRecordsKept

(* Every step of a call is of one of the kinds, and what a call is let in for, *)
(* or hands to the verifier, is as ZkPhases says.                            *)
LEMMA CallStepKinds ==
    ASSUME ZkSafe, NEW c \in Calls, ZkCallStep(c)
    PROVE  /\ ZkSteps(c)
           /\ zkCall'[c].pc = "binding" => zkCall[c].request.kind = "verify"
           /\ zkCall'[c].pc = "verifying" =>
                /\ zkCall[c].pc = "binding"
                /\ RequestVerdict(zkCall[c].request, zkCall[c].id, zkIntent[zkCall[c].id].terms) = "ok"
  <1>1. LeaveZk(c) => zkCall'[c].pc = "idle"
    BY DEF LeaveZk, ZkSafe, ZkShapes, IdleCall
  <1>2. CASE EnterZk(c)
    BY <1>2, EnterKind
  <1>3. CASE BindProof(c)
    BY <1>3, BindKind
  <1>4. CASE RevalidateProof(c)
    BY <1>4, RevalidateKind
  <1>5. CASE ReplayPayment(c)
    BY <1>1, <1>5, ReplayKind
  <1>6. CASE \E r \in ZkResults : VerifierAnswers(c, r)
    BY <1>1, <1>6, VerifierKind
  <1>7. CASE \E r \in Payments : ObserverAnswers(c, r)
    BY <1>1, <1>7, ObserverKind
  <1> QED
    BY <1>2, <1>3, <1>4, <1>5, <1>6, <1>7 DEF ZkCallStep

---------------------------------------------------------------------------
(* The steps that are nobody's call: a purge, and a purge with a new intent.  *)
ZkPurged ==
    /\ zkIntent' = Cleaned(zkIntent, NoIntent)
    /\ zkGen' = Cleaned(zkGen, 0)

ZkOpened(i, terms) ==
    /\ i \notin Kept /\ zkNow \in 0..MaxTime
    /\ Cardinality(ActiveIntents) < MaxActive /\ Cardinality(Kept) < MaxTotal
    /\ zkBirths < MaxBirths /\ zkBirths' = zkBirths + 1
    /\ zkIntent' = [Cleaned(zkIntent, NoIntent) EXCEPT ![i] =
                      [status |-> "pending", terms |-> terms, updatedAt |-> zkNow,
                       incarnation |-> zkBirths + 1]]
    /\ zkGen' = [Cleaned(zkGen, 0) EXCEPT ![i] = 0]

ZkHousekeeping ==
    /\ \/ ZkPurged /\ zkBirths' = zkBirths
       \/ \E i \in Intents, terms \in Terms : ZkOpened(i, terms)
    /\ zkProof' = Cleaned(zkProof, NoEvidence) /\ zkPaid' = Cleaned(zkPaid, NoEvidence)
    /\ zkLast' = Observed(zkNow, zkLast)
    /\ UNCHANGED <<zkNow, zkVerifier, zkObserver, zkTail, zkPrev, zkCall, zkAsks>>

LEMMA HousekeepingKinds ==
    ASSUME ZkSafe, PurgeIntents \/ \E i \in Intents, terms \in Terms : InitializeIntent(i, terms)
    PROVE  ZkHousekeeping
  <1>1. CASE PurgeIntents
    BY <1>1 DEF PurgeIntents, ZkHousekeeping, ZkPurged
  <1>2. ASSUME NEW i \in Intents, NEW terms \in Terms, InitializeIntent(i, terms)
        PROVE  ZkHousekeeping
    <2> DEFINE accepted == /\ i \notin Kept
                           /\ Cardinality(ActiveIntents) < MaxActive
                           /\ Cardinality(Kept) < MaxTotal
                           /\ ClockAccepted(zkNow, zkLast)
    <2>1. CASE accepted
      <3>1. zkNow \in 0..MaxTime
        BY <2>1 DEF ZkSafe, ZkShapes, ClockAccepted
      <3>2. ZkOpened(i, terms)
        BY <1>2, <2>1, <3>1 DEF InitializeIntent, ZkOpened
      <3> QED
        BY <1>2, <3>2 DEF InitializeIntent, ZkHousekeeping
    <2>2. CASE ~accepted
      <3>1. ZkPurged /\ zkBirths' = zkBirths
        BY <1>2, <2>2 DEF InitializeIntent, ZkPurged
      <3> QED
        BY <1>2, <3>1 DEF InitializeIntent, ZkHousekeeping
    <2> QED
      BY <2>1, <2>2
  <1> QED
    BY <1>1, <1>2

ZkAsked ==
    /\ \E c \in Calls, i \in Intents, q \in ZkRequests : AskZk(c, i, q)
    /\ ZkRecordsKept
    /\ UNCHANGED <<zkNow, zkLast, zkVerifier, zkObserver, zkBirths>>

ZkTicked ==
    /\ zkNow' \in -1..MaxTime
    /\ ZkRecordsKept
    /\ UNCHANGED <<zkLast, zkVerifier, zkObserver, zkTail, zkPrev, zkCall, zkBirths, zkAsks>>

(* The five kinds of steps.                                                  *)
LEMMA StepKinds ==
    ASSUME ZkSafe, [ZkNext]_zkVars
    PROVE  \/ ZkHousekeeping
           \/ ZkAsked
           \/ \E c \in Calls : ZkCallStep(c) /\ ZkSteps(c)
           \/ ZkTicked
  <1>1. CASE ZkNext
    <2>1. CASE \E c \in Calls, i \in Intents, q \in ZkRequests : AskZk(c, i, q)
      BY <2>1 DEF AskZk, ZkAsked, ZkRecordsKept
    <2>2. CASE \E c \in Calls : ZkCallStep(c)
      BY <2>2, CallStepKinds
    <2>3. CASE MoveZkClock
      BY <2>3 DEF MoveZkClock, ZkTicked, ZkRecordsKept
    <2> QED
      BY <1>1, <2>1, <2>2, <2>3, HousekeepingKinds DEF ZkNext
  <1>2. CASE UNCHANGED zkVars
    BY <1>2 DEF zkVars, ZkTicked, ZkRecordsKept, ZkSafe, ZkShapes
  <1> QED
    BY <1>1, <1>2

---------------------------------------------------------------------------
LEMMA ObservedInRange ==
    ASSUME ZkShapes
    PROVE  Observed(zkNow, zkLast) \in -1..MaxTime
  BY DEF ZkShapes, Observed

LEMMA ShapesKept ==
    ASSUME ZkSafe, [ZkNext]_zkVars
    PROVE  ZkShapes'
  <1> USE DEF ZkSafe
  <1>1. CASE ZkHousekeeping
    <2>1. /\ zkNow' = zkNow /\ zkVerifier' = zkVerifier /\ zkObserver' = zkObserver
          /\ zkTail' = zkTail /\ zkPrev' = zkPrev /\ zkCall' = zkCall /\ zkAsks' = zkAsks
          /\ zkLast' \in -1..MaxTime
      BY <1>1, ObservedInRange DEF ZkHousekeeping
    <2>2. zkProof' = [i \in Intents |-> zkProof'[i]] /\ zkPaid' = [i \in Intents |-> zkPaid'[i]]
      BY <1>1 DEF ZkHousekeeping, Cleaned
    <2>3. /\ zkIntent' \in [Intents -> {NoIntent} \cup ZkIntentRecords]
          /\ zkGen' \in [Intents -> 0..2]
          /\ zkBirths' \in 0..MaxBirths
      <3>1. /\ Cleaned(zkIntent, NoIntent) \in [Intents -> {NoIntent} \cup ZkIntentRecords]
            /\ Cleaned(zkGen, 0) \in [Intents -> 0..2]
        BY DEF Cleaned, ZkShapes
      <3>2. CASE ZkPurged /\ zkBirths' = zkBirths
        BY <3>1, <3>2 DEF ZkPurged, ZkShapes
      <3>3. ASSUME NEW i \in Intents, NEW terms \in Terms, ZkOpened(i, terms)
            PROVE  /\ zkIntent' \in [Intents -> {NoIntent} \cup ZkIntentRecords]
                   /\ zkGen' \in [Intents -> 0..2]
                   /\ zkBirths' \in 0..MaxBirths
        <4> DEFINE new == [status |-> "pending", terms |-> terms, updatedAt |-> zkNow,
                           incarnation |-> zkBirths + 1]
        <4>1. zkBirths + 1 \in 1..MaxBirths /\ zkNow \in 0..MaxTime
          BY <3>3, ZkcpAssumption DEF ZkOpened, ZkShapes
        <4>2. new \in ZkIntentRecords
          BY <4>1 DEF ZkIntentRecords
        <4> HIDE DEF new
        <4>3. zkIntent' = [Cleaned(zkIntent, NoIntent) EXCEPT ![i] = new]
          BY <3>3 DEF ZkOpened, new
        <4> QED
          BY <3>1, <3>3, <4>1, <4>2, <4>3 DEF ZkOpened
      <3> QED
        BY <1>1, <3>2, <3>3 DEF ZkHousekeeping
    <2> QED
      BY <2>1, <2>2, <2>3 DEF ZkShapes
  <1>2. CASE ZkAsked
    <2>1. PICK c \in Calls, i \in Intents, q \in ZkRequests : AskZk(c, i, q)
      BY <1>2 DEF ZkAsked
    <2>2. [pc |-> "queued", id |-> i, request |-> q] \in Waiting
      BY DEF Waiting
    <2>3. /\ zkCall' \in [Calls -> {IdleCall} \cup Waiting \cup Operating]
          /\ zkTail' \in [Intents -> Calls \cup {NoCall}]
          /\ zkPrev' \in [Calls -> Calls \cup {NoCall}]
          /\ zkAsks' \in 0..MaxAsks
      BY <2>1, <2>2, ZkcpAssumption DEF AskZk, JoinTail, JoinPrev, ZkShapes
    <2> QED
      BY <1>2, <2>3 DEF ZkAsked, ZkRecordsKept, ZkShapes
  <1>3. ASSUME NEW c \in Calls, ZkSteps(c)
        PROVE  ZkShapes'
    <2> DEFINE i == zkCall[c].id
    <2>1. i \in Intents /\ zkLast' \in -1..MaxTime
      BY <1>3, CallKinds, ObservedInRange DEF ZkSteps, ZkShapes, IdleCall
    <2>2. /\ zkCall' \in [Calls -> {IdleCall} \cup Waiting \cup Operating]
          /\ zkTail' \in [Intents -> Calls \cup {NoCall}]
          /\ zkPrev' \in [Calls -> Calls \cup {NoCall}]
      <3>1. CASE ZkAdvance(c)
        BY <3>1 DEF ZkAdvance, ZkShapes
      <3>2. CASE LeaveZk(c)
        BY <2>1, <3>2 DEF LeaveZk, LeaveTail, LeavePrev, ZkShapes
      <3> QED
        BY <1>3, <3>1, <3>2 DEF ZkSteps
    <2>3. CASE ZkRecordsKept
      BY <1>3, <2>1, <2>2, <2>3 DEF ZkSteps, ZkRecordsKept, ZkShapes
    <2>4. ASSUME NEW status \in {"failed", "unsupported", "verified", "paid"}, NEW proof, NEW paid,
                 ZkCommitted(c, status, proof, paid), zkCall[c].status \in {"pending", "verified"}
          PROVE  ZkShapes'
      <3>1. zkIntent[i] \in ZkIntentRecords
        BY <2>1, <2>4 DEF ZkCommitted, IsCurrentOperation, Present, ZkShapes
      <3>2. zkIntent' \in [Intents -> {NoIntent} \cup ZkIntentRecords]
        <4> DEFINE new == [status |-> status, terms |-> zkIntent[i].terms, updatedAt |-> zkNow,
                           incarnation |-> zkIntent[i].incarnation]
        <4>1. new \in ZkIntentRecords
          BY <2>4, <3>1 DEF ZkCommitted, ZkIntentRecords
        <4>2. zkIntent' = [zkIntent EXCEPT ![i] = new]
          BY <2>4 DEF ZkCommitted
        <4> HIDE DEF new
        <4> QED
          BY <2>1, <4>1, <4>2 DEF ZkShapes
      <3>3. zkGen[i] + 1 \in 0..2
        BY <2>1, <2>4 DEF ZkCommitted, IsCurrentOperation, ZkGenerations
      <3>4. zkGen' \in [Intents -> 0..2]
        BY <2>1, <2>4, <3>3 DEF ZkCommitted, ZkShapes
      <3>5. zkProof' = [j \in Intents |-> zkProof'[j]] /\ zkPaid' = [j \in Intents |-> zkPaid'[j]]
        BY <2>4 DEF ZkCommitted, ZkShapes
      <3> QED
        BY <1>3, <2>1, <2>2, <3>2, <3>4, <3>5 DEF ZkSteps, ZkShapes
    <2> QED
      BY <1>3, <2>3, <2>4 DEF ZkSteps, ZkFails, ZkVerifies, ZkPays
  <1>4. CASE ZkTicked
    BY <1>4 DEF ZkTicked, ZkRecordsKept, ZkShapes
  <1> QED
    BY <1>1, <1>2, <1>3, <1>4, StepKinds

---------------------------------------------------------------------------
(* The lines.                                                              *)
LEMMA LinesKept ==
    ASSUME ZkSafe, [ZkNext]_zkVars
    PROVE  ZkLines'
  <1> DEFINE in == [i \in Intents |-> CallsOn(i)]
  <1> USE DEF ZkSafe
  <1>0. DOMAIN zkTail = Intents /\ in = [i \in DOMAIN zkTail |-> in[i]]
    BY DEF ZkShapes
  <1>1. ASSUME UNCHANGED <<zkTail, zkPrev, zkCall>> PROVE ZkLines'
    <2>1. in' = in
      BY <1>1 DEF CallsOn
    <2> HIDE DEF in
    <2>2. Lined(zkTail', zkPrev', in')
      BY <1>1, <2>1 DEF ZkLines, in
    <2> QED
      BY <1>1, <2>2 DEF ZkLines, in
  <1>2. CASE ZkAsked
    <2>1. PICK c \in Calls, i \in Intents, q \in ZkRequests : AskZk(c, i, q)
      BY <1>2 DEF ZkAsked
    <2>2. zkCall[c].pc = "idle"
      BY <2>1 DEF AskZk, IdleCall
    <2>3. zkCall'[c].pc = "queued" /\ zkCall'[c].id = i /\ \A d \in Calls : d # c => zkCall'[d] = zkCall[d]
      BY <2>1 DEF AskZk, ZkShapes
    <2>4. \A j \in Intents : c \notin in[j]
      BY <2>2 DEF CallsOn
    <2>5. in' = [in EXCEPT ![i] = @ \cup {c}]
      <3>1. \A j \in Intents : CallsOn(j)' = IF j = i THEN CallsOn(j) \cup {c} ELSE CallsOn(j)
        BY <2>2, <2>3 DEF CallsOn
      <3> QED
        BY <3>1
    <2>6. Lined(zkTail, zkPrev, in)
      BY DEF ZkLines
    <2> HIDE DEF in
    <2>7. Lined(JoinTail(zkTail, i, c), JoinPrev(zkPrev, zkTail, i, c), in')
      BY <1>0, <2>4, <2>5, <2>6, JoinLined
    <2>8. zkTail' = JoinTail(zkTail, i, c) /\ zkPrev' = JoinPrev(zkPrev, zkTail, i, c)
      BY <2>1 DEF AskZk
    <2>9. \A d \in Calls : zkCall'[d].pc \notin {"idle", "queued"} => zkPrev'[d] = NoCall
      BY <2>3, <2>8 DEF ZkLines, JoinPrev, ZkShapes
    <2> QED
      BY <2>7, <2>8, <2>9 DEF ZkLines, in
  <1>3. ASSUME NEW c \in Calls, ZkSteps(c), ZkAdvance(c) PROVE ZkLines'
    <2>1. zkCall[c].pc # "idle" /\ zkPrev[c] = NoCall /\ zkTail' = zkTail /\ zkPrev' = zkPrev
      BY <1>3 DEF ZkSteps, ZkAdvance
    <2>2. zkCall'[c].pc # "idle" /\ zkCall'[c].id = zkCall[c].id
      BY <1>3 DEF ZkAdvance, Waiting, Operating
    <2>3. \A d \in Calls : d # c => zkCall'[d] = zkCall[d]
      BY <1>3 DEF ZkAdvance, ZkShapes
    <2>4. \A j \in Intents : CallsOn(j)' = CallsOn(j)
      BY <2>1, <2>2, <2>3 DEF CallsOn
    <2>5. in' = in
      BY <2>4
    <2> HIDE DEF in
    <2>6. Lined(zkTail', zkPrev', in')
      BY <2>1, <2>5 DEF ZkLines, in
    <2>7. \A d \in Calls : zkCall'[d].pc \notin {"idle", "queued"} => zkPrev'[d] = NoCall
      BY <2>1, <2>3 DEF ZkLines
    <2> QED
      BY <2>6, <2>7 DEF ZkLines, in
  <1>4. ASSUME NEW c \in Calls, ZkSteps(c), LeaveZk(c) PROVE ZkLines'
    <2> DEFINE i == zkCall[c].id
    <2>1. zkCall[c].pc # "idle" /\ zkPrev[c] = NoCall /\ i \in Intents
      BY <1>4, CallKinds DEF ZkSteps, IdleCall
    <2>2. zkCall'[c].pc = "idle" /\ \A d \in Calls : d # c => zkCall'[d] = zkCall[d]
      BY <1>4 DEF LeaveZk, ZkShapes, IdleCall
    <2>3. c \in in[i]
      BY <2>1 DEF CallsOn
    <2>4. in' = [in EXCEPT ![i] = @ \ {c}]
      <3>1. \A j \in Intents : CallsOn(j)' = IF j = i THEN CallsOn(j) \ {c} ELSE CallsOn(j)
        BY <2>1, <2>2 DEF CallsOn
      <3> QED
        BY <3>1
    <2>5. Lined(zkTail, zkPrev, in)
      BY DEF ZkLines
    <2> HIDE DEF in
    <2>6. Lined(LeaveTail(zkTail, i, c), LeavePrev(zkPrev, c), in')
      BY <1>0, <2>1, <2>3, <2>4, <2>5, LeaveLined
    <2>7. zkTail' = LeaveTail(zkTail, i, c) /\ zkPrev' = LeavePrev(zkPrev, c)
      BY <1>4 DEF LeaveZk
    <2>8. \A d \in Calls : zkCall'[d].pc \notin {"idle", "queued"} => zkPrev'[d] = NoCall
      BY <2>2, <2>7 DEF ZkLines, LeavePrev
    <2> QED
      BY <2>6, <2>7, <2>8 DEF ZkLines, in
  <1>5. ZkHousekeeping \/ ZkTicked => UNCHANGED <<zkTail, zkPrev, zkCall>>
    BY DEF ZkHousekeeping, ZkTicked
  <1> QED
    BY <1>1, <1>2, <1>3, <1>4, <1>5, StepKinds DEF ZkSteps

(* One call on an intent is let in.                                          *)
LEMMA OneInside ==
    ASSUME ZkSafe, NEW c \in Calls, NEW d \in Calls,
           zkCall[c].pc # "idle", zkPrev[c] = NoCall, zkCall[d].pc \notin {"idle", "queued"},
           zkCall[c].id = zkCall[d].id
    PROVE  c = d
  <1> DEFINE i == zkCall[c].id  in == [j \in Intents |-> CallsOn(j)]
  <1>1. i \in Intents /\ DOMAIN zkTail = Intents
    BY CallKinds DEF ZkSafe, ZkShapes, IdleCall
  <1>2. c \in in[i] /\ d \in in[i]
    BY <1>1 DEF CallsOn
  <1>3. zkPrev[d] = NoCall
    BY DEF ZkSafe, ZkLines
  <1>4. Lined(zkTail, zkPrev, in)
    BY DEF ZkSafe, ZkLines
  <1> HIDE DEF in
  <1>5. OneLine(zkTail[i], zkPrev, in[i])
    BY <1>1, <1>4 DEF Lined
  <1> QED
    BY <1>2, <1>3, <1>5 DEF OneLine

(* What may be purged is over, and nobody's call is about it.                *)
LEMMA ExpiredIdle ==
    ASSUME ZkSafe, NEW i \in Expired
    PROVE  /\ i \in Intents /\ CallsOn(i) = {}
           /\ zkIntent[i].status \in {"paid", "failed", "unsupported"}
           /\ zkIntent[i] \in ZkIntentRecords
           /\ zkNow >= zkIntent[i].updatedAt + Retention
  <1>1. /\ i \in Intents /\ Present(i) /\ ~IsActiveIntent(i) /\ zkTail[i] = NoCall
        /\ zkIntent[i].updatedAt <= zkNow - Retention
    BY DEF Expired, IsQueued
  <1>2. zkIntent[i] \in ZkIntentRecords
    BY <1>1 DEF Present, ZkSafe, ZkShapes
  <1>3. zkIntent[i].status \in {"paid", "failed", "unsupported"}
    BY <1>1, <1>2 DEF IsActiveIntent, ZkIntentRecords
  <1>4. CallsOn(i) = {}
    <2> DEFINE in == [j \in Intents |-> CallsOn(j)]
    <2>1. Lined(zkTail, zkPrev, in)
      BY DEF ZkSafe, ZkLines
    <2>2. in[i] = CallsOn(i) /\ DOMAIN zkTail = Intents
      BY <1>1 DEF ZkSafe, ZkShapes
    <2> HIDE DEF in
    <2>3. OneLine(zkTail[i], zkPrev, in[i]) /\ in[i] \subseteq Calls
      BY <1>1, <2>1, <2>2 DEF Lined
    <2> QED
      BY <1>1, <2>2, <2>3, QueueAssumption DEF OneLine
  <1>5. zkNow \in Int /\ zkIntent[i].updatedAt \in Int /\ Retention \in Int
    BY <1>2, ZkcpAssumption DEF ZkIntentRecords, ZkSafe, ZkShapes
  <1> QED
    BY <1>1, <1>2, <1>3, <1>4, <1>5

(* An intent with a call let in stays as it is when others are purged, and is  *)
(* not opened anew.                                                         *)
LEMMA HousekeepingSpares ==
    ASSUME ZkSafe, ZkHousekeeping, NEW c \in Calls, IsCurrentOperation(c),
           zkCall[c].pc \in {"binding", "verifying", "revalidating", "observing"}
    PROVE  LET i == zkCall[c].id
           IN  i \in Intents /\ zkIntent'[i] = zkIntent[i] /\ zkGen'[i] = zkGen[i]
  <1> DEFINE i == zkCall[c].id
  <1>1. i \in Intents /\ c \in CallsOn(i)
    BY CallKinds DEF ZkSafe, IdleCall, CallsOn
  <1>2. i \notin Expired /\ Present(i) /\ i \in Kept
    BY <1>1, ExpiredIdle DEF IsCurrentOperation, Kept
  <1>3. Cleaned(zkIntent, NoIntent)[i] = zkIntent[i] /\ Cleaned(zkGen, 0)[i] = zkGen[i]
    BY <1>1, <1>2 DEF Cleaned
  <1>4. ASSUME NEW j \in Intents, NEW terms \in Terms, ZkOpened(j, terms)
        PROVE  zkIntent'[i] = zkIntent[i] /\ zkGen'[i] = zkGen[i]
    <2>1. i # j
      BY <1>2, <1>4 DEF ZkOpened
    <2> QED
      BY <1>1, <1>3, <1>4, <2>1 DEF ZkOpened, Cleaned
  <1> QED
    BY <1>1, <1>3, <1>4 DEF ZkHousekeeping, ZkPurged

(* A commit changes the records of its own intent only, on which no other     *)
(* call is let in.                                                          *)
LEMMA CommitSpares ==
    ASSUME ZkSafe, NEW c \in Calls, ZkSteps(c), LeaveZk(c),
           NEW status, NEW proof, NEW paid, ZkCommitted(c, status, proof, paid),
           NEW d \in Calls, zkCall'[d].pc \notin {"idle", "queued"}
    PROVE  /\ zkCall'[d] = zkCall[d] /\ zkCall[d].id \in Intents /\ zkCall[d].id # zkCall[c].id
           /\ zkIntent'[zkCall[d].id] = zkIntent[zkCall[d].id]
           /\ zkGen'[zkCall[d].id] = zkGen[zkCall[d].id]
  <1>1. d # c /\ zkCall'[d] = zkCall[d]
    BY DEF LeaveZk, ZkSafe, ZkShapes, IdleCall
  <1>2. zkCall[d].id \in Intents
    BY <1>1, CallKinds DEF ZkSafe, IdleCall
  <1>3. zkCall[d].id # zkCall[c].id
    BY <1>1, OneInside DEF ZkSteps
  <1> QED
    BY <1>1, <1>2, <1>3 DEF ZkCommitted, ZkSafe, ZkShapes

(* Operations stay current: ZkOperationsCurrent holds in every step.          *)
LEMMA OperationsKept ==
    ASSUME ZkSafe, [ZkNext]_zkVars
    PROVE  ZkOperationsCurrent'
  <1> DEFINE Inside == {"binding", "verifying", "revalidating", "observing"}
  <1> SUFFICES ASSUME NEW d \in Calls, zkCall'[d].pc \in Inside
               PROVE  IsCurrentOperation(d)'
    BY DEF ZkOperationsCurrent
  <1>1. ASSUME zkCall'[d] = zkCall[d], zkIntent'[zkCall[d].id] = zkIntent[zkCall[d].id],
               zkGen'[zkCall[d].id] = zkGen[zkCall[d].id]
        PROVE  IsCurrentOperation(d)'
    <2>1. IsCurrentOperation(d)
      BY <1>1 DEF ZkSafe, ZkOperationsCurrent
    <2> QED
      BY <1>1, <2>1 DEF IsCurrentOperation, Present
  <1>2. CASE ZkHousekeeping
    <2>1. zkCall'[d] = zkCall[d] /\ IsCurrentOperation(d)
      BY <1>2 DEF ZkHousekeeping, ZkSafe, ZkOperationsCurrent
    <2> QED
      BY <1>1, <1>2, <2>1, HousekeepingSpares
  <1>3. CASE ZkAsked
    <2>1. zkCall'[d] = zkCall[d]
      BY <1>3 DEF ZkAsked, AskZk, ZkSafe, ZkShapes
    <2> QED
      BY <1>1, <1>3, <2>1 DEF ZkAsked, ZkRecordsKept
  <1>4. CASE ZkTicked
    BY <1>1, <1>4 DEF ZkTicked, ZkRecordsKept
  <1>5. ASSUME NEW c \in Calls, ZkSteps(c) PROVE IsCurrentOperation(d)'
    <2>1. CASE ZkRecordsKept /\ d # c
      <3>1. zkCall'[d] = zkCall[d]
        BY <1>5, <2>1 DEF ZkSteps, ZkAdvance, LeaveZk, ZkSafe, ZkShapes
      <3> QED
        BY <1>1, <2>1, <3>1 DEF ZkRecordsKept
    <2>2. CASE ZkAdvance(c) /\ ZkRecordsKept /\ d = c
      BY <2>2 DEF ZkAdvance, ZkRecordsKept, IsCurrentOperation, Present
    <2>3. CASE LeaveZk(c) /\ d = c
      BY <2>3 DEF LeaveZk, ZkSafe, ZkShapes, IdleCall
    <2>4. ASSUME NEW status, NEW proof, NEW paid, ZkCommitted(c, status, proof, paid), LeaveZk(c)
          PROVE  IsCurrentOperation(d)'
      BY <1>1, <1>5, <2>4, CommitSpares
    <2> QED
      BY <1>5, <2>1, <2>2, <2>3, <2>4 DEF ZkSteps, ZkFails, ZkVerifies, ZkPays
  <1> QED
    BY <1>2, <1>3, <1>4, <1>5, StepKinds

(* What calls are about.                                                    *)
LEMMA PhasesKept ==
    ASSUME ZkSafe, [ZkNext]_zkVars
    PROVE  ZkPhases'
  <1> DEFINE Phase(d) ==
        /\ zkCall[d].pc \in {"binding", "verifying"} =>
             zkCall[d].status = "pending" /\ zkCall[d].request.kind = "verify"
        /\ zkCall[d].pc \in {"revalidating", "observing"} => zkCall[d].status = "verified"
        /\ zkCall[d].pc = "verifying" =>
             RequestVerdict(zkCall[d].request, zkCall[d].id, zkIntent[zkCall[d].id].terms) = "ok"
  <1> SUFFICES ASSUME NEW d \in Calls PROVE Phase(d)'
    BY DEF ZkPhases
  <1>0. Phase(d) /\ (zkCall[d].pc \in {"binding", "verifying", "revalidating", "observing"} => IsCurrentOperation(d))
    BY DEF ZkSafe, ZkPhases, ZkOperationsCurrent
  <1>1. ASSUME zkCall'[d] = zkCall[d], zkVerifier' = zkVerifier,
               zkCall[d].pc \in {"binding", "verifying", "revalidating", "observing"} =>
                 zkIntent'[zkCall[d].id] = zkIntent[zkCall[d].id]
        PROVE  Phase(d)'
    BY <1>0, <1>1 DEF RequestVerdict
  <1>2. CASE ZkHousekeeping
    <2>1. zkCall'[d] = zkCall[d] /\ zkVerifier' = zkVerifier
      BY <1>2 DEF ZkHousekeeping
    <2> HIDE DEF Phase
    <2> QED
      BY <1>0, <1>1, <1>2, <2>1, HousekeepingSpares
  <1>3. CASE ZkAsked
    <2>1. PICK c \in Calls, i \in Intents, q \in ZkRequests : AskZk(c, i, q)
      BY <1>3 DEF ZkAsked
    <2>2. CASE d = c
      <3>1. zkCall'[d].pc = "queued"
        BY <2>1, <2>2 DEF AskZk, ZkSafe, ZkShapes
      <3> QED
        BY <3>1
    <2>3. CASE d # c
      <3>1. zkCall'[d] = zkCall[d] /\ zkVerifier' = zkVerifier /\ zkIntent' = zkIntent
        BY <1>3, <2>1, <2>3 DEF AskZk, ZkSafe, ZkShapes, ZkAsked, ZkRecordsKept
      <3> HIDE DEF Phase
      <3> QED
        BY <1>1, <3>1
    <2> QED
      BY <2>2, <2>3
  <1>4. CASE ZkTicked
    <2> HIDE DEF Phase
    <2> QED
      BY <1>1, <1>4 DEF ZkTicked, ZkRecordsKept
  <1>5. ASSUME NEW c \in Calls, ZkSteps(c), ZkCallStep(c) PROVE Phase(d)'
    <2>0. zkVerifier' = zkVerifier
      BY <1>5 DEF ZkSteps
    <2>1. CASE ZkRecordsKept /\ d # c
      <3>1. zkCall'[d] = zkCall[d]
        BY <1>5, <2>1 DEF ZkSteps, ZkAdvance, LeaveZk, ZkSafe, ZkShapes
      <3> HIDE DEF Phase
      <3> QED
        BY <1>1, <2>0, <2>1, <3>1 DEF ZkRecordsKept
    <2>2. CASE ZkAdvance(c) /\ ZkRecordsKept /\ d = c
      <3>1. /\ zkCall'[c].id = zkCall[c].id /\ zkCall'[c].request = zkCall[c].request
            /\ zkCall'[c].pc # "replaying" =>
                 zkCall'[c].status = IF zkCall'[c].pc \in {"binding", "verifying"} THEN "pending" ELSE "verified"
        BY <2>2 DEF ZkAdvance
      <3>2. /\ zkCall'[c].pc = "binding" => zkCall[c].request.kind = "verify"
            /\ zkCall'[c].pc = "verifying" =>
                 /\ zkCall[c].pc = "binding"
                 /\ RequestVerdict(zkCall[c].request, zkCall[c].id, zkIntent[zkCall[c].id].terms) = "ok"
        BY <1>5, CallStepKinds
      <3>3. zkCall[c].pc = "binding" => zkCall[c].request.kind = "verify"
        BY <1>0, <2>2
      <3>4. zkIntent' = zkIntent
        BY <2>2 DEF ZkRecordsKept
      <3>5. zkCall'[c].pc = "verifying" =>
              RequestVerdict(zkCall[c].request, zkCall[c].id, zkIntent[zkCall[c].id].terms)' = "ok"
        BY <2>0, <3>1, <3>2, <3>4 DEF RequestVerdict
      <3> QED
        BY <2>2, <3>1, <3>2, <3>3, <3>5
    <2>3. CASE LeaveZk(c) /\ d = c
      <3>1. zkCall'[d].pc = "idle"
        BY <2>3 DEF LeaveZk, ZkSafe, ZkShapes, IdleCall
      <3> QED
        BY <3>1
    <2>4. ASSUME NEW status, NEW proof, NEW paid, ZkCommitted(c, status, proof, paid), LeaveZk(c)
          PROVE  Phase(d)'
      <3>1. CASE zkCall'[d].pc \in {"idle", "queued"}
        BY <3>1
      <3>2. CASE zkCall'[d].pc \notin {"idle", "queued"}
        <4> HIDE DEF Phase
        <4> QED
          BY <1>1, <1>5, <2>0, <2>4, <3>2, CommitSpares
      <3> QED
        BY <3>1, <3>2
    <2> HIDE DEF Phase
    <2> QED
      BY <1>5, <2>1, <2>2, <2>3, <2>4 DEF ZkSteps, ZkFails, ZkVerifies, ZkPays
  <1> HIDE DEF Phase
  <1> QED
    BY <1>2, <1>3, <1>4, <1>5, StepKinds

---------------------------------------------------------------------------
(* How a commit finds its intent.                                            *)
LEMMA CommitFinds ==
    ASSUME ZkSafe, NEW c \in Calls, zkCall[c].status \in {"pending", "verified"},
           zkCall[c].pc # "idle", NEW status, NEW proof, NEW paid, ZkCommitted(c, status, proof, paid),
           NEW i, i = zkCall[c].id
    PROVE  /\ i \in Intents /\ Present(i) /\ zkIntent[i] \in ZkIntentRecords
           /\ zkIntent[i].status = zkCall[c].status
           /\ zkIntent'[i].status = status /\ zkIntent'[i].terms = zkIntent[i].terms
           /\ zkIntent'[i].incarnation = zkIntent[i].incarnation
           /\ zkGen'[i] = zkGen[i] + 1 /\ zkProof'[i] = proof /\ zkPaid'[i] = paid
           /\ \A j \in Intents \ {i} :
                /\ zkIntent'[j] = zkIntent[j] /\ zkGen'[j] = zkGen[j]
                /\ zkProof'[j] = zkProof[j] /\ zkPaid'[j] = zkPaid[j]
  <1>1. i \in Intents /\ Present(i) /\ zkIntent[i].status = zkCall[c].status
    BY CallKinds DEF ZkCommitted, IsCurrentOperation, ZkSafe, IdleCall
  <1>2. zkIntent[i] \in ZkIntentRecords
    BY <1>1 DEF Present, ZkSafe, ZkShapes
  <1>3. /\ DOMAIN zkIntent = Intents /\ DOMAIN zkGen = Intents
        /\ DOMAIN zkProof = Intents /\ DOMAIN zkPaid = Intents
    BY DEF ZkSafe, ZkShapes
  <1> QED
    BY <1>1, <1>2, <1>3 DEF ZkCommitted

(* What housekeeping leaves of an intent: what it was, nothing, or a new one.  *)
LEMMA HousekeepingLeaves ==
    ASSUME ZkSafe, ZkHousekeeping, NEW i \in Intents
    PROVE  \/ /\ i \notin Expired /\ zkIntent'[i] = zkIntent[i] /\ zkGen'[i] = zkGen[i]
              /\ zkProof'[i] = zkProof[i] /\ zkPaid'[i] = zkPaid[i]
           \/ /\ i \in Expired \/ ~Present(i)
              /\ zkIntent'[i].status \in {"none", "pending"} /\ zkGen'[i] = 0
              /\ zkProof'[i] = NoEvidence /\ zkPaid'[i] = NoEvidence
  <1>1. ~Present(i) => zkProof[i] = NoEvidence /\ zkPaid[i] = NoEvidence /\ zkGen[i] = 0
                       /\ zkIntent[i].status = "none"
    BY DEF ZkSafe, ZkEvidenceSound, ZkGenerations, Present, NoIntent
  <1>2. /\ zkProof'[i] = IF i \in Expired THEN NoEvidence ELSE zkProof[i]
        /\ zkPaid'[i] = IF i \in Expired THEN NoEvidence ELSE zkPaid[i]
    BY DEF ZkHousekeeping, Cleaned
  <1>3. CASE ZkPurged
    <2>1. /\ zkIntent'[i] = IF i \in Expired THEN NoIntent ELSE zkIntent[i]
          /\ zkGen'[i] = IF i \in Expired THEN 0 ELSE zkGen[i]
      BY <1>3 DEF ZkPurged, Cleaned
    <2> QED
      BY <1>2, <2>1 DEF NoIntent
  <1>4. ASSUME NEW j \in Intents, NEW terms \in Terms, ZkOpened(j, terms)
        PROVE  \/ /\ i \notin Expired /\ zkIntent'[i] = zkIntent[i] /\ zkGen'[i] = zkGen[i]
                  /\ zkProof'[i] = zkProof[i] /\ zkPaid'[i] = zkPaid[i]
               \/ /\ i \in Expired \/ ~Present(i)
                  /\ zkIntent'[i].status \in {"none", "pending"} /\ zkGen'[i] = 0
                  /\ zkProof'[i] = NoEvidence /\ zkPaid'[i] = NoEvidence
    <2>1. CASE i = j
      <3>1. zkIntent'[i].status = "pending" /\ zkGen'[i] = 0
        BY <1>4, <2>1 DEF ZkOpened, Cleaned
      <3>2. i \in Expired \/ ~Present(i)
        BY <1>4, <2>1 DEF ZkOpened, Kept
      <3> QED
        BY <1>1, <1>2, <3>1, <3>2
    <2>2. CASE i # j
      <3>1. /\ zkIntent'[i] = IF i \in Expired THEN NoIntent ELSE zkIntent[i]
            /\ zkGen'[i] = IF i \in Expired THEN 0 ELSE zkGen[i]
        BY <1>4, <2>2 DEF ZkOpened, Cleaned
      <3> QED
        BY <1>2, <3>1 DEF NoIntent
    <2> QED
      BY <2>1, <2>2
  <1> QED
    BY <1>3, <1>4 DEF ZkHousekeeping

LEMMA GenerationsKept ==
    ASSUME ZkSafe, [ZkNext]_zkVars
    PROVE  ZkGenerations'
  <1> SUFFICES ASSUME NEW i \in Intents
               PROVE  zkGen'[i] = CASE zkIntent'[i].status \in {"none", "pending"} -> 0
                                    [] zkIntent'[i].status = "paid" -> 2
                                    [] OTHER -> 1
    BY DEF ZkGenerations
  <1>0. zkGen[i] = CASE zkIntent[i].status \in {"none", "pending"} -> 0
                     [] zkIntent[i].status = "paid" -> 2
                     [] OTHER -> 1
    BY DEF ZkSafe, ZkGenerations
  <1>1. CASE ZkHousekeeping
    BY <1>0, <1>1, HousekeepingLeaves
  <1>2. ASSUME ZkRecordsKept PROVE zkGen'[i] = zkGen[i] /\ zkIntent'[i] = zkIntent[i]
    BY <1>2 DEF ZkRecordsKept
  <1>3. CASE ZkAsked \/ ZkTicked
    BY <1>0, <1>2, <1>3 DEF ZkAsked, ZkTicked
  <1>4. ASSUME NEW c \in Calls, ZkSteps(c)
        PROVE  zkGen'[i] = CASE zkIntent'[i].status \in {"none", "pending"} -> 0
                             [] zkIntent'[i].status = "paid" -> 2
                             [] OTHER -> 1
    <2>1. CASE ZkRecordsKept
      BY <1>0, <1>2, <2>1
    <2>2. ASSUME NEW status, NEW proof, NEW paid, ZkCommitted(c, status, proof, paid),
                 \/ zkCall[c].status = "pending" /\ status \in {"failed", "unsupported", "verified"}
                 \/ zkCall[c].status = "verified" /\ status = "paid"
          PROVE  zkGen'[i] = CASE zkIntent'[i].status \in {"none", "pending"} -> 0
                               [] zkIntent'[i].status = "paid" -> 2
                               [] OTHER -> 1
      <3> DEFINE k == zkCall[c].id
      <3>1. zkCall[c].pc # "idle" /\ zkCall[c].status \in {"pending", "verified"}
        BY <1>4, <2>2 DEF ZkSteps
      <3>2. /\ zkIntent[k].status = zkCall[c].status /\ zkIntent'[k].status = status
            /\ zkGen'[k] = zkGen[k] + 1 /\ k \in Intents
            /\ \A j \in Intents \ {k} : zkIntent'[j] = zkIntent[j] /\ zkGen'[j] = zkGen[j]
        BY <2>2, <3>1, CommitFinds
      <3> QED
        BY <1>0, <2>2, <3>2
    <2> QED
      BY <1>4, <2>1, <2>2 DEF ZkSteps, ZkFails, ZkVerifies, ZkPays
  <1> QED
    BY <1>1, <1>3, <1>4, StepKinds

(* The evidence.                                                            *)
LEMMA EvidenceKept ==
    ASSUME ZkSafe, [ZkNext]_zkVars
    PROVE  ZkEvidenceSound'
  <1> DEFINE Sound(i) ==
        /\ (zkProof[i] # NoEvidence) <=> (Present(i) /\ zkIntent[i].status \in {"verified", "paid"})
        /\ zkProof[i] # NoEvidence => ZkProofSound(i, zkProof[i])
        /\ (zkPaid[i] # NoEvidence) <=> (Present(i) /\ zkIntent[i].status = "paid")
        /\ zkPaid[i] # NoEvidence => ZkPaymentSound(i, zkPaid[i])
  <1>a. \A i \in Intents : Sound(i)
    BY DEF ZkSafe, ZkEvidenceSound, ZkProofSound, ZkPaymentSound
  <1>b. SUFFICES ASSUME NEW i \in Intents PROVE Sound(i)'
    BY DEF ZkEvidenceSound, ZkProofSound, ZkPaymentSound
  <1>0. zkVerifier' = zkVerifier /\ zkObserver' = zkObserver
    BY StepKinds DEF ZkHousekeeping, ZkAsked, ZkTicked, ZkSteps
  <1>1. ASSUME zkIntent'[i] = zkIntent[i], zkProof'[i] = zkProof[i], zkPaid'[i] = zkPaid[i]
        PROVE  Sound(i)'
    <2>1. Sound(i)
      BY <1>a
    <2> QED
      BY <1>0, <1>1, <2>1 DEF ZkProofSound, ZkPaymentSound, Present, AuthorizedResult
  <1>2. CASE ZkHousekeeping
    <2>1. CASE zkIntent'[i] = zkIntent[i] /\ zkProof'[i] = zkProof[i] /\ zkPaid'[i] = zkPaid[i]
      <3> HIDE DEF Sound
      <3> QED
        BY <1>1, <2>1
    <2>2. CASE /\ zkIntent'[i].status \in {"none", "pending"}
               /\ zkProof'[i] = NoEvidence /\ zkPaid'[i] = NoEvidence
      BY <2>2
    <2> HIDE DEF Sound
    <2> QED
      BY <1>2, <2>1, <2>2, HousekeepingLeaves
  <1>3. CASE ZkRecordsKept
    <2> HIDE DEF Sound
    <2> QED
      BY <1>1, <1>3 DEF ZkRecordsKept
  <1>4. ASSUME NEW c \in Calls, ZkSteps(c), NEW status, NEW proof, NEW paid,
               ZkCommitted(c, status, proof, paid), zkCall[c].status \in {"pending", "verified"},
               i # zkCall[c].id
        PROVE  Sound(i)'
    <2> DEFINE k == zkCall[c].id
    <2>1. zkCall[c].pc # "idle"
      BY <1>4 DEF ZkSteps
    <2>2. \A j \in Intents \ {k} :
             zkIntent'[j] = zkIntent[j] /\ zkProof'[j] = zkProof[j] /\ zkPaid'[j] = zkPaid[j]
      BY <1>4, <2>1, CommitFinds
    <2> HIDE DEF Sound
    <2> QED
      BY <1>1, <1>4, <2>2
  <1>5. ASSUME NEW c \in Calls, ZkSteps(c), i = zkCall[c].id, ZkFails(c)
        PROVE  Sound(i)'
    <2>1. PICK status \in {"failed", "unsupported"} : ZkCommitted(c, status, NoEvidence, NoEvidence)
      BY <1>5 DEF ZkFails
    <2>2. zkIntent'[i].status = status /\ zkProof'[i] = NoEvidence /\ zkPaid'[i] = NoEvidence
      <3>1. zkCall[c].pc # "idle" /\ zkCall[c].status \in {"pending", "verified"}
        BY <1>5 DEF ZkSteps, ZkFails
      <3>2. zkCall[c].status = "pending"
        BY <1>5 DEF ZkFails
      <3> QED
        BY <1>5, <2>1, <3>1, <3>2, CommitFinds
    <2> QED
      BY <2>2
  <1>6. ASSUME NEW c \in Calls, ZkSteps(c), i = zkCall[c].id, ZkVerifies(c)
        PROVE  Sound(i)'
    <2>1. PICK proof : ZkProofSound(i, proof) /\ ZkCommitted(c, "verified", proof, zkPaid[i])
      BY <1>6 DEF ZkVerifies
    <2>2. /\ zkIntent'[i].status = "verified" /\ zkIntent'[i].terms = zkIntent[i].terms
          /\ zkProof'[i] = proof /\ zkPaid'[i] = zkPaid[i] /\ zkIntent[i].status = "pending"
      <3>1. zkCall[c].pc # "idle" /\ zkCall[c].status \in {"pending", "verified"}
        BY <1>6 DEF ZkSteps, ZkVerifies
      <3>2. zkCall[c].status = "pending"
        BY <1>6 DEF ZkVerifies
      <3> QED
        BY <1>6, <2>1, <3>1, <3>2, CommitFinds
    <2>3. zkPaid[i] = NoEvidence
      BY <1>a, <2>2
    <2>4. ZkProofSound(i, zkProof[i])' /\ proof # NoEvidence
      BY <1>0, <2>1, <2>2 DEF ZkProofSound, AuthorizedResult
    <2>5. Present(i)'
      BY <2>2 DEF Present, NoIntent
    <2> QED
      BY <2>2, <2>3, <2>4, <2>5
  <1>7. ASSUME NEW c \in Calls, ZkSteps(c), i = zkCall[c].id, ZkPays(c)
        PROVE  Sound(i)'
    <2>1. PICK paid : ZkPaymentSound(i, paid) /\ ZkCommitted(c, "paid", zkProof[i], paid)
      BY <1>7 DEF ZkPays
    <2>2. /\ zkIntent'[i].status = "paid" /\ zkIntent'[i].terms = zkIntent[i].terms
          /\ zkProof'[i] = zkProof[i] /\ zkPaid'[i] = paid /\ zkIntent[i].status = "verified" /\ Present(i)
      <3>1. zkCall[c].pc # "idle" /\ zkCall[c].status \in {"pending", "verified"}
        BY <1>7 DEF ZkSteps, ZkPays
      <3>2. zkCall[c].status = "verified"
        BY <1>7 DEF ZkPays
      <3> QED
        BY <1>7, <2>1, <3>1, <3>2, CommitFinds
    <2>3. zkProof[i] # NoEvidence /\ ZkProofSound(i, zkProof[i])
      BY <1>a, <2>2
    <2>4. ZkProofSound(i, zkProof[i])' /\ ZkPaymentSound(i, zkPaid[i])' /\ paid # NoEvidence
      BY <1>0, <2>1, <2>2, <2>3 DEF ZkProofSound, ZkPaymentSound, AuthorizedResult
    <2>5. Present(i)'
      BY <2>2 DEF Present, NoIntent
    <2> QED
      BY <2>2, <2>3, <2>4, <2>5
  <1>8. ASSUME NEW c \in Calls, ZkSteps(c)
        PROVE  Sound(i)'
    <2> HIDE DEF Sound
    <2> QED
      BY <1>3, <1>4, <1>5, <1>6, <1>7, <1>8 DEF ZkSteps, ZkFails, ZkVerifies, ZkPays
  <1> HIDE DEF Sound
  <1> QED
    BY <1>2, <1>3, <1>8, StepKinds DEF ZkAsked, ZkTicked

---------------------------------------------------------------------------
(* The limits.                                                              *)
LEMMA BoundedKept ==
    ASSUME ZkSafe, [ZkNext]_zkVars
    PROVE  ZkBounded'
  <1>0. /\ IsFiniteSet(ZkPresent) /\ Cardinality(ZkPresent) <= MaxTotal
        /\ Cardinality(ZkActive) <= MaxActive
        /\ MaxTotal \in Nat /\ MaxActive \in Nat
    BY ZkcpAssumption DEF ZkSafe, ZkBounded
  <1>1. ZkActive \subseteq ZkPresent
    BY DEF ZkActive, ZkPresent, NoIntent
  <1>2. ASSUME ZkPresent' \subseteq ZkPresent, ZkActive' \subseteq ZkActive
        PROVE  ZkBounded'
    <2>1. IsFiniteSet(ZkPresent') /\ Cardinality(ZkPresent') <= Cardinality(ZkPresent)
          /\ Cardinality(ZkPresent') \in Nat /\ Cardinality(ZkPresent) \in Nat
      BY <1>0, <1>2, FS_Subset, FS_CardinalityType
    <2>2. IsFiniteSet(ZkActive) /\ Cardinality(ZkActive) \in Nat
      BY <1>0, <1>1, FS_Subset, FS_CardinalityType
    <2>3. Cardinality(ZkActive') <= Cardinality(ZkActive) /\ Cardinality(ZkActive') \in Nat
      BY <1>2, <2>2, FS_Subset, FS_CardinalityType
    <2> QED
      BY <1>0, <2>1, <2>2, <2>3 DEF ZkBounded
  <1>3. CASE ZkHousekeeping
    <2>1. \A i \in Expired : i \in Intents /\ i \notin ZkActive
      BY ExpiredIdle DEF ZkActive
    <2>2. Kept = ZkPresent \ Expired /\ ActiveIntents = ZkActive
      BY DEF Kept, ZkPresent, ZkActive, ActiveIntents, Present, IsActiveIntent, NoIntent
    <2>3. CASE ZkPurged
      <3>1. \A i \in Intents : zkIntent'[i] = IF i \in Expired THEN NoIntent ELSE zkIntent[i]
        BY <2>3 DEF ZkPurged, Cleaned
      <3>2. ZkPresent' \subseteq ZkPresent /\ ZkActive' \subseteq ZkActive
        BY <3>1 DEF ZkPresent, ZkActive, NoIntent
      <3> QED
        BY <1>2, <3>2
    <2>4. ASSUME NEW i \in Intents, NEW terms \in Terms, ZkOpened(i, terms)
          PROVE  ZkBounded'
      <3>1. /\ i \notin Kept /\ Cardinality(ZkActive) < MaxActive /\ Cardinality(Kept) < MaxTotal
        BY <2>2, <2>4 DEF ZkOpened
      <3>2. /\ zkIntent'[i].status = "pending"
            /\ \A j \in Intents \ {i} : zkIntent'[j] = IF j \in Expired THEN NoIntent ELSE zkIntent[j]
        BY <2>4 DEF ZkOpened, Cleaned
      <3>3. zkIntent'[i] # NoIntent
        BY <3>2 DEF NoIntent
      <3>4. ZkPresent' = Kept \cup {i}
        BY <2>2, <3>2, <3>3 DEF ZkPresent
      <3>5. ZkActive' \subseteq ZkActive \cup {i}
        BY <3>2 DEF ZkActive, NoIntent
      <3>6. IsFiniteSet(Kept) /\ Cardinality(Kept) \in Nat
        BY <1>0, <2>2, FS_Subset, FS_CardinalityType
      <3>7. IsFiniteSet(ZkPresent') /\ Cardinality(ZkPresent') <= MaxTotal
        <4>1. /\ IsFiniteSet(Kept \cup {i})
              /\ Cardinality(Kept \cup {i}) \in {Cardinality(Kept), Cardinality(Kept) + 1}
          BY <3>6, FS_AddElement
        <4>2. \A n \in {Cardinality(Kept), Cardinality(Kept) + 1} : n <= MaxTotal
          BY <1>0, <3>1, <3>6
        <4> QED
          BY <3>4, <4>1, <4>2
      <3>8. IsFiniteSet(ZkActive) /\ Cardinality(ZkActive) \in Nat
        BY <1>0, <1>1, FS_Subset, FS_CardinalityType
      <3>9. IsFiniteSet(ZkActive \cup {i}) /\ Cardinality(ZkActive \cup {i}) <= MaxActive
            /\ Cardinality(ZkActive \cup {i}) \in Nat
        <4>1. /\ IsFiniteSet(ZkActive \cup {i})
              /\ Cardinality(ZkActive \cup {i}) \in {Cardinality(ZkActive), Cardinality(ZkActive) + 1}
          BY <3>8, FS_AddElement
        <4>2. \A n \in {Cardinality(ZkActive), Cardinality(ZkActive) + 1} : n <= MaxActive /\ n \in Nat
          BY <1>0, <3>1, <3>8
        <4> QED
          BY <4>1, <4>2
      <3>10. Cardinality(ZkActive') <= Cardinality(ZkActive \cup {i}) /\ Cardinality(ZkActive') \in Nat
        BY <3>5, <3>9, FS_Subset, FS_CardinalityType
      <3> QED
        BY <1>0, <3>7, <3>9, <3>10 DEF ZkBounded
    <2> QED
      BY <1>3, <2>3, <2>4 DEF ZkHousekeeping
  <1>4. CASE ZkRecordsKept
    BY <1>2, <1>4 DEF ZkRecordsKept, ZkPresent, ZkActive
  <1>5. ASSUME NEW c \in Calls, ZkSteps(c), NEW status, NEW proof, NEW paid,
               ZkCommitted(c, status, proof, paid),
               \/ zkCall[c].status = "pending" /\ status \in {"failed", "unsupported", "verified"}
               \/ zkCall[c].status = "verified" /\ status = "paid"
        PROVE  ZkBounded'
    <2> DEFINE k == zkCall[c].id
    <2>1. zkCall[c].pc # "idle" /\ zkCall[c].status \in {"pending", "verified"}
      BY <1>5 DEF ZkSteps
    <2>2. /\ zkIntent[k].status = zkCall[c].status /\ Present(k)
          /\ zkIntent'[k].status = status
          /\ \A j \in Intents \ {k} : zkIntent'[j] = zkIntent[j]
      BY <1>5, <2>1, CommitFinds
    <2>3. ZkPresent' \subseteq ZkPresent
      BY <2>2 DEF ZkPresent, Present
    <2>4. ZkActive' \subseteq ZkActive
      BY <1>5, <2>2 DEF ZkActive
    <2> QED
      BY <1>2, <2>3, <2>4
  <1>6. ASSUME NEW c \in Calls, ZkSteps(c)
        PROVE  ZkBounded'
    BY <1>4, <1>5, <1>6 DEF ZkSteps, ZkFails, ZkVerifies, ZkPays
  <1> QED
    BY <1>3, <1>4, <1>6, StepKinds DEF ZkAsked, ZkTicked

---------------------------------------------------------------------------
(* The invariant holds in the initial states and is kept by every step.       *)
LEMMA ZkInitSafe ==
    ASSUME ZkInit
    PROVE  ZkSafe
  <1> USE DEF ZkInit
  <1>1. ZkShapes
    <2>1. PICK wiring \in Wirings : zkVerifier = wiring[1] /\ zkObserver = wiring[2]
      OBVIOUS
    <2>2. zkVerifier \in Backends \cup {NoIdentity} /\ zkObserver \in Backends \cup {NoIdentity}
      BY <2>1, ContractAssumption
    <2>3. zkNow \in -1..MaxTime /\ zkLast \in -1..MaxTime /\ zkBirths \in 0..MaxBirths /\ zkAsks \in 0..MaxAsks
      BY ZkcpAssumption
    <2> QED
      BY <2>2, <2>3 DEF ZkShapes
  <1>2. ZkGenerations
    BY DEF ZkGenerations, NoIntent
  <1>3. ZkLines
    <2>1. [i \in Intents |-> CallsOn(i)] = [i \in Intents |-> {}]
      BY DEF CallsOn, IdleCall
    <2>2. Lined([i \in Intents |-> NoCall], [c \in Calls |-> NoCall], [i \in Intents |-> {}])
      BY NobodyLined
    <2> QED
      BY <2>1, <2>2 DEF ZkLines
  <1>4. ZkOperationsCurrent /\ ZkPhases
    BY DEF ZkOperationsCurrent, ZkPhases, IdleCall
  <1>5. ZkEvidenceSound
    BY DEF ZkEvidenceSound, Present
  <1>6. ZkBounded
    <2>1. ZkPresent = {} /\ ZkActive = {}
      BY DEF ZkPresent, ZkActive, NoIntent
    <2> QED
      BY <2>1, FS_EmptySet, ZkcpAssumption DEF ZkBounded
  <1> QED
    BY <1>1, <1>2, <1>3, <1>4, <1>5, <1>6 DEF ZkSafe

LEMMA ZkNextSafe ==
    ASSUME ZkSafe, [ZkNext]_zkVars
    PROVE  ZkSafe'
  BY ShapesKept, GenerationsKept, LinesKept, OperationsKept, PhasesKept, EvidenceKept, BoundedKept
     DEF ZkSafe

(* What the invariant implies of the properties of the bridge.               *)
LEMMA ZkSafeImplies ==
    ASSUME ZkSafe
    PROVE  ZkTypeOK /\ ZkLineSound /\ ZkCapacityHeld /\ ZkOperationsCurrent /\ ZkEvidenceSound
  <1>1. ZkTypeOK
    <2>1. \A c \in Calls : zkCall[c] # IdleCall =>
            /\ zkCall[c].pc \in {"queued", "binding", "verifying", "revalidating", "observing", "replaying"}
            /\ zkCall[c].id \in Intents /\ zkCall[c].request \in ZkRequests
      BY DEF ZkSafe, ZkShapes, Waiting, Operating
    <2> QED
      BY <2>1 DEF ZkTypeOK, ZkSafe, ZkShapes
  <1>2. ZkLineSound
    <2> DEFINE in == [i \in Intents |-> CallsOn(i)]
               inside == [i \in Intents |-> CallsInside(i)]
    <2>1. Lined(zkTail, zkPrev, in) /\ DOMAIN zkTail = Intents
      BY DEF ZkSafe, ZkLines, ZkShapes
    <2>2. \A i \in Intents : inside[i] \subseteq {c \in in[i] : zkPrev[c] = NoCall}
      BY DEF ZkSafe, ZkLines, CallsInside, CallsOn
    <2> HIDE DEF in, inside
    <2>3. LineSound(zkTail, zkPrev, in, inside)
      BY <2>1, <2>2, LinedSound
    <2> QED
      BY <2>3 DEF ZkLineSound, in, inside
  <1>3. ZkCapacityHeld
    BY DEF ZkSafe, ZkBounded, ZkCapacityHeld, ZkPresent, ZkActive, Present
  <1> QED
    BY <1>1, <1>2, <1>3 DEF ZkSafe

(* An intent disappears, or another takes its identifier, only by            *)
(* housekeeping.                                                            *)
LEMMA ZkEvicts ==
    ASSUME ZkSafe, [ZkNext]_zkVars
    PROVE  ZkEvictionSafe
  <1> SUFFICES ASSUME NEW i \in Intents, Present(i),
                      zkIntent'[i] = NoIntent \/ zkIntent'[i].incarnation # zkIntent[i].incarnation
               PROVE  i \in Expired
    BY ExpiredIdle DEF ZkEvictionSafe
  <1>1. zkIntent'[i] # zkIntent[i]
    BY DEF Present
  <1>2. CASE ZkHousekeeping
    BY <1>1, <1>2, HousekeepingLeaves
  <1>3. CASE ZkRecordsKept
    BY <1>1, <1>3 DEF ZkRecordsKept
  <1>4. ASSUME NEW c \in Calls, ZkSteps(c), NEW status, NEW proof, NEW paid,
               ZkCommitted(c, status, proof, paid), zkCall[c].status \in {"pending", "verified"},
               status \in {"failed", "unsupported", "verified", "paid"}
        PROVE  FALSE
    <2> DEFINE k == zkCall[c].id
    <2>1. zkCall[c].pc # "idle"
      BY <1>4 DEF ZkSteps
    <2>2. /\ zkIntent'[k].status = status /\ zkIntent'[k].incarnation = zkIntent[k].incarnation
          /\ \A j \in Intents \ {k} : zkIntent'[j] = zkIntent[j]
      BY <1>4, <2>1, CommitFinds
    <2>3. zkIntent'[k] # NoIntent
      BY <1>4, <2>2 DEF NoIntent
    <2> QED
      BY <1>1, <2>2, <2>3
  <1>5. ASSUME NEW c \in Calls, ZkSteps(c)
        PROVE  i \in Expired
    BY <1>3, <1>4, <1>5 DEF ZkSteps, ZkFails, ZkVerifies, ZkPays
  <1> QED
    BY <1>2, <1>3, <1>5, StepKinds DEF ZkAsked, ZkTicked

---------------------------------------------------------------------------
(* The refinement of IntentLedger: the state of the ledger in terms of the    *)
(* bridge,                                                                  *)
Seen ==
    [i \in Intents |->
        IF Present(i) THEN [status |-> zkIntent[i].status, terms |-> zkIntent[i].terms]
                      ELSE [status |-> "none"]]

LEMMA LedgerInit ==
    ASSUME ZkInit
    PROVE  Ledger!Init
  BY DEF ZkInit, Ledger!Init, Ledger!None, Present, NoIntent

(* what may be dropped of it,                                                *)
LEMMA ExpiredIsOver ==
    ASSUME ZkSafe
    PROVE  Expired \in SUBSET Ledger!Over
  <1> SUFFICES ASSUME NEW i \in Expired PROVE i \in Ledger!Over
    OBVIOUS
  <1>1. /\ i \in Intents /\ zkIntent[i].status \in {"paid", "failed", "unsupported"} /\ Present(i)
    BY ExpiredIdle DEF Expired
  <1>2. Seen[i].status = zkIntent[i].status
    BY <1>1 DEF Seen
  <1> QED
    BY <1>1, <1>2 DEF Ledger!Over, Seen

(* and what its steps are.                                                   *)
LEMMA LedgerHousekeeping ==
    ASSUME ZkSafe, ZkHousekeeping
    PROVE  Ledger!Next
  <1> DEFINE rest == [i \in Intents |-> IF i \in Expired THEN [status |-> "none"] ELSE Seen[i]]
  <1>1. Expired \in SUBSET Ledger!Over
    BY ExpiredIsOver
  <1>2. rest = Ledger!Dropped(Expired)
    BY DEF Ledger!Dropped, Ledger!None, Seen
  <1>3. CASE ZkPurged
    <2>1. \A i \in Intents : zkIntent'[i] = IF i \in Expired THEN NoIntent ELSE zkIntent[i]
      BY <1>3 DEF ZkPurged, Cleaned
    <2>2. Seen' = rest
      BY <2>1 DEF Seen, Present
    <2>3. Ledger!Drop
      BY <1>1, <1>2, <2>2 DEF Ledger!Drop, Seen
    <2> QED
      BY <2>3 DEF Ledger!Next
  <1>4. ASSUME NEW i \in Intents, NEW terms \in Terms, ZkOpened(i, terms)
        PROVE  Ledger!Next
    <2>1. /\ zkIntent'[i].status = "pending" /\ zkIntent'[i].terms = terms
          /\ \A j \in Intents \ {i} : zkIntent'[j] = IF j \in Expired THEN NoIntent ELSE zkIntent[j]
      BY <1>4 DEF ZkOpened, Cleaned
    <2>2. Present(i)'
      BY <2>1 DEF Present, NoIntent
    <2>3. Seen' = [rest EXCEPT ![i] = [status |-> "pending", terms |-> terms]]
      BY <2>1, <2>2 DEF Seen, Present
    <2>4. rest[i] = [status |-> "none"]
      BY <1>4 DEF ZkOpened, Kept, Seen
    <2> HIDE DEF rest
    <2>5. Ledger!Open(i, terms)
      BY <1>1, <1>2, <2>3, <2>4 DEF Ledger!Open, Ledger!None, Seen
    <2> QED
      BY <2>5 DEF Ledger!Next
  <1> QED
    BY <1>3, <1>4 DEF ZkHousekeeping

LEMMA LedgerCommit ==
    ASSUME ZkSafe, NEW c \in Calls, ZkSteps(c), NEW status, NEW proof, NEW paid,
           ZkCommitted(c, status, proof, paid), zkCall[c].status \in {"pending", "verified"},
           status \in {"failed", "unsupported", "verified", "paid"}
    PROVE  zkCall[c].id \in Intents /\ Ledger!Move(zkCall[c].id, zkCall[c].status, status)
  <1> DEFINE i == zkCall[c].id
  <1>1. zkCall[c].pc # "idle"
    BY DEF ZkSteps
  <1>2. /\ i \in Intents /\ Present(i) /\ zkIntent[i].status = zkCall[c].status
        /\ zkIntent'[i].status = status /\ zkIntent'[i].terms = zkIntent[i].terms
        /\ \A j \in Intents \ {i} : zkIntent'[j] = zkIntent[j]
    BY <1>1, CommitFinds
  <1> HIDE DEF i
  <1>3. zkIntent'[i] # NoIntent
    BY <1>2 DEF NoIntent
  <1>4. /\ Seen[i] = [status |-> zkIntent[i].status, terms |-> zkIntent[i].terms]
        /\ Seen'[i] = [status |-> status, terms |-> zkIntent[i].terms]
    BY <1>2, <1>3 DEF Seen, Present
  <1>5. \A j \in Intents \ {i} : Seen'[j] = Seen[j]
    BY <1>2 DEF Seen, Present
  <1>6. /\ Seen = [j \in Intents |-> Seen[j]] /\ Seen' = [j \in Intents |-> Seen'[j]]
    BY DEF Seen
  <1>7. [Seen[i] EXCEPT !.status = status] = Seen'[i]
    BY <1>4
  <1> HIDE DEF Seen
  <1>8. Seen' = [Seen EXCEPT ![i].status = status]
    BY <1>2, <1>5, <1>6, <1>7
  <1>9. Seen[i].status = zkCall[c].status
    BY <1>2, <1>4
  <1>10. Ledger!Move(i, zkCall[c].status, status)
    BY <1>8, <1>9 DEF Ledger!Move, Seen
  <1> QED
    BY <1>2, <1>10 DEF i

LEMMA LedgerStep ==
    ASSUME ZkSafe, [ZkNext]_zkVars
    PROVE  Ledger!Next \/ Seen' = Seen
  <1>1. CASE ZkHousekeeping
    BY <1>1, LedgerHousekeeping
  <1>2. CASE ZkRecordsKept
    BY <1>2 DEF ZkRecordsKept, Seen, Present
  <1>3. ASSUME NEW c \in Calls, ZkSteps(c)
        PROVE  Ledger!Next \/ Seen' = Seen
    <2>1. CASE ZkFails(c)
      <3>1. PICK status \in {"failed", "unsupported"} :
               ZkCommitted(c, status, NoEvidence, NoEvidence) /\ zkCall[c].status = "pending"
        BY <2>1 DEF ZkFails
      <3>2. zkCall[c].id \in Intents /\ Ledger!Move(zkCall[c].id, "pending", status)
        BY <1>3, <3>1, LedgerCommit
      <3> QED
        BY <3>1, <3>2 DEF Ledger!Next, Ledger!GiveUp
    <2>2. CASE ZkVerifies(c)
      <3>1. PICK proof : ZkCommitted(c, "verified", proof, zkPaid[zkCall[c].id]) /\ zkCall[c].status = "pending"
        BY <2>2 DEF ZkVerifies
      <3>2. zkCall[c].id \in Intents /\ Ledger!Move(zkCall[c].id, "pending", "verified")
        BY <1>3, <3>1, LedgerCommit
      <3> QED
        BY <3>2 DEF Ledger!Next, Ledger!Verify
    <2>3. CASE ZkPays(c)
      <3>1. PICK paid : ZkCommitted(c, "paid", zkProof[zkCall[c].id], paid) /\ zkCall[c].status = "verified"
        BY <2>3 DEF ZkPays
      <3>2. zkCall[c].id \in Intents /\ Ledger!Move(zkCall[c].id, "verified", "paid")
        BY <1>3, <3>1, LedgerCommit
      <3> QED
        BY <3>2 DEF Ledger!Next, Ledger!Pay
    <2> QED
      BY <1>2, <1>3, <2>1, <2>2, <2>3 DEF ZkSteps
  <1> QED
    BY <1>1, <1>2, <1>3, StepKinds DEF ZkAsked, ZkTicked

---------------------------------------------------------------------------
(* BitVM2: the floors.                                                      *)

SignRequests == [kind : {"sign"}, signer : Signers, value : Signatures]

ChallengeRequests == [kind : {"challenge"}, tap : Taps]

B2Asking ==
    [pc : {"queued"}, id : Floors, request : FloorRequests \cup SignRequests \cup ChallengeRequests]

B2Waiting ==
    [pc : {"verifying", "signing"}, id : Floors,
     request : FloorRequests \cup SignRequests \cup ChallengeRequests, at : 0..MaxFloorTime]

B2Calls == {IdleFloorCall} \cup B2Asking \cup B2Waiting

FloorShape(f) ==
    f = [status |-> f.status, request |-> f.request, profile |-> f.profile, result |-> f.result,
         signatures |-> f.signatures, complete |-> f.complete, challenges |-> f.challenges,
         updatedAt |-> f.updatedAt]

IsFloor(f) ==
    /\ FloorShape(f)
    /\ f.status \in {"verified", "challenged"} /\ f.request \in FloorRequests
    /\ f.updatedAt \in 0..MaxFloorTime /\ f.complete \in BOOLEAN
    /\ f.profile.required \in Nat

B2Shapes ==
    /\ b2Now \in -1..MaxFloorTime /\ b2Last \in -1..MaxFloorTime
    /\ {b2Verifier, b2Signing} \subseteq Backends \cup {NoIdentity}
    /\ b2Floor = [p \in Floors |-> b2Floor[p]]
    /\ \A p \in Retained : IsFloor(b2Floor[p])
    /\ b2Reserved \subseteq Floors
    /\ b2Claimed \in [Floors -> SUBSET Signers]
    /\ b2Call \in [Calls -> B2Calls]
    /\ b2Tail \in [Floors -> Calls \cup {NoCall}]
    /\ b2Prev \in [Calls -> Calls \cup {NoCall}]
    /\ b2Asks \in 0..MaxFloorAsks

(* A call that asks for a floor has an acceptable request, and only such a     *)
(* call waits for the verifier.                                              *)
B2Acceptable(q) == q.kind = "verify" => q \in FloorRequests /\ WellFormedRequest(q) /\ UsableProfile(q.profile)

B2Accepted ==
    \A c \in Calls :
        /\ b2Call[c].pc # "idle" => B2Acceptable(b2Call[c].request)
        /\ b2Call[c].pc = "verifying" => b2Call[c].request.kind = "verify"
        /\ b2Call[c].pc = "signing" => b2Call[c].request.kind = "sign"

B2Lines ==
    /\ Lined(b2Tail, b2Prev, Callers(b2Call, Floors))
    /\ \A c \in Calls : b2Call[c].pc \notin {"idle", "queued"} => b2Prev[c] = NoCall

B2Bounded ==
    /\ IsFiniteSet(Retained) /\ IsFiniteSet(b2Reserved)
    /\ B2CapacityHeld

(* A signature is with its verifier only while its signer may still sign.      *)
B2MaySign(c) ==
    b2Call[c].pc = "signing" =>
        /\ Aggregates(b2Call[c].id)
        /\ b2Call[c].request.signer \in b2Floor[b2Call[c].id].profile.signers
        /\ b2Call[c].request.signer \notin SignedBy(b2Call[c].id)

(* As many signatures as signers.                                            *)
B2Counted(p) ==
    /\ IsFiniteSet(b2Floor[p].signatures) /\ IsFiniteSet(SignedBy(p))
    /\ Cardinality(b2Floor[p].signatures) = Cardinality(SignedBy(p))

B2Safe ==
    /\ B2Shapes
    /\ B2Accepted
    /\ B2Lines
    /\ B2ReservationsHeld
    /\ B2Bounded
    /\ B2EvidenceSound
    /\ B2SignaturesSound
    /\ \A p \in Retained : B2Counted(p)
    /\ \A c \in Calls : B2MaySign(c)

---------------------------------------------------------------------------
(* The kinds of steps.  Nothing but the clock and the count of calls moves;    *)
B2Quiet ==
    /\ b2Now' \in -1..MaxFloorTime /\ b2Last' \in {b2Last, Observed(b2Now, b2Last)}
    /\ b2Asks' \in 0..MaxFloorAsks
    /\ UNCHANGED <<b2Verifier, b2Signing, b2Floor, b2Reserved, b2Claimed, b2Tail, b2Prev, b2Call>>

(* a call takes its place;                                                   *)
B2Queues(c, p, q) ==
    /\ AskFloor(c, p, q) /\ B2Acceptable(q)
    /\ b2Call[c] = IdleFloorCall
    /\ b2Call' = [b2Call EXCEPT ![c] = [pc |-> "queued", id |-> p, request |-> q]]
    /\ b2Tail' = JoinTail(b2Tail, p, c) /\ b2Prev' = JoinPrev(b2Prev, b2Tail, p, c)

(* the call at the head goes to a verifier,                                   *)
B2Waits(c, pc) ==
    /\ b2Call[c].pc = "queued" /\ b2Prev[c] = NoCall /\ b2Now \in 0..MaxFloorTime
    /\ b2Call' = [b2Call EXCEPT ![c] =
                    [pc |-> pc, id |-> b2Call[c].id, request |-> b2Call[c].request, at |-> b2Now]]
    /\ b2Last' = Observed(b2Now, b2Last)
    /\ UNCHANGED <<b2Now, b2Verifier, b2Signing, b2Floor, b2Tail, b2Prev, b2Asks>>

B2Reserves(c) ==
    LET p == b2Call[c].id
    IN  /\ B2Waits(c, "verifying") /\ b2Call[c].request.kind = "verify"
        /\ p \notin Retained /\ Cardinality(Retained) + Cardinality(b2Reserved) < MaxFloors
        /\ b2Reserved' = b2Reserved \cup {p}
        /\ UNCHANGED b2Claimed

B2Claims(c) ==
    LET p == b2Call[c].id
        signer == b2Call[c].request.signer
    IN  /\ B2Waits(c, "signing") /\ b2Call[c].request.kind = "sign"
        /\ Aggregates(p) /\ signer \in b2Floor[p].profile.signers /\ signer \notin SignedBy(p)
        /\ b2Claimed' = [b2Claimed EXCEPT ![p] = @ \cup {signer}]
        /\ UNCHANGED b2Reserved

(* or it leaves,                                                             *)
B2Ends(c) ==
    /\ b2Call[c].pc # "idle" /\ b2Prev[c] = NoCall
    /\ LeaveFloor(c)
    /\ b2Last' \in {b2Last, Observed(b2Now, b2Last)}
    /\ UNCHANGED <<b2Now, b2Verifier, b2Signing, b2Asks>>

B2Refuses(c) ==
    /\ b2Call[c].pc = "queued" /\ B2Ends(c)
    /\ UNCHANGED <<b2Floor, b2Reserved, b2Claimed>>

(* perhaps with a floor,                                                     *)
NewFloor(q, judged, at) ==
    [status |-> "verified", request |-> q, profile |-> q.profile, result |-> judged,
     signatures |-> {}, complete |-> FALSE, challenges |-> {}, updatedAt |-> at]

B2Answers(c) ==
    LET p == b2Call[c].id
        q == b2Call[c].request
    IN  /\ b2Call[c].pc = "verifying" /\ B2Ends(c)
        /\ b2Reserved' = b2Reserved \ {p}
        /\ UNCHANGED b2Claimed
        /\ \/ UNCHANGED b2Floor
           \/ \E judged :
                /\ AuthorizedResult(judged, q, b2Verifier)
                /\ b2Floor' = [b2Floor EXCEPT ![p] = NewFloor(q, judged, b2Call[c].at)]

(* a signature,                                                              *)
SignedFloor(f, s) ==
    [status |-> f.status, request |-> f.request, profile |-> f.profile, result |-> f.result,
     signatures |-> f.signatures \cup {s},
     complete |-> Cardinality(f.signatures \cup {s}) >= f.profile.required,
     challenges |-> f.challenges, updatedAt |-> f.updatedAt]

B2Signs(c) ==
    LET p == b2Call[c].id
        q == b2Call[c].request
    IN  /\ b2Call[c].pc = "signing" /\ B2Ends(c)
        /\ b2Claimed' = [b2Claimed EXCEPT ![p] = @ \ {q.signer}]
        /\ UNCHANGED b2Reserved
        /\ \/ UNCHANGED b2Floor
           \/ \E s :
                /\ s.signer = q.signer /\ s.attestation.proof = p /\ s.attestation.signer = s.signer
                /\ s.attestation.value = s.value
                /\ s.attestation.backend = b2Floor[p].result.backend
                /\ b2Floor' = [b2Floor EXCEPT ![p] = SignedFloor(b2Floor[p], s)]

(* or a challenge.                                                           *)
ChallengedFloor(f, tap, at) ==
    [status |-> "challenged", request |-> f.request, profile |-> f.profile, result |-> f.result,
     signatures |-> f.signatures, complete |-> f.complete, challenges |-> f.challenges \cup {tap},
     updatedAt |-> at]

B2Challenges(c) ==
    LET p == b2Call[c].id
        tap == b2Call[c].request.tap
    IN  /\ b2Call[c].pc = "queued" /\ B2Ends(c)
        /\ p \in Retained /\ tap \in 0..(b2Floor[p].profile.taps - 1) /\ b2Now \in 0..MaxFloorTime
        /\ b2Floor' = [b2Floor EXCEPT ![p] = ChallengedFloor(b2Floor[p], tap, b2Now)]
        /\ UNCHANGED <<b2Reserved, b2Claimed>>

---------------------------------------------------------------------------
LEMMA FloorRequestOk ==
    ASSUME NEW q \in FloorRequests, FloorRequestVerdict(q) = "ok"
    PROVE  WellFormedRequest(q) /\ UsableProfile(q.profile)
  <1> DEFINE checks == <<
        <<~UsableProfile(q.profile), "malformed_request">>,
        <<ValidateVerifierRequest(q) # "ok", ValidateVerifierRequest(q)>>,
        <<~IsBackendIdentity(b2Verifier), "backend_mismatch">>,
        <<b2Verifier # Unavailable /\ q.backend # b2Verifier, "backend_mismatch">> >>
  <1>1. DOMAIN checks = 1..4
    OBVIOUS
  <1>2. \A k \in 1..4 : checks[k][1] => checks[k][2] # "ok"
    <2>1. \A k \in {1, 3, 4} : checks[k][2] # "ok"
      OBVIOUS
    <2>2. checks[2][1] => checks[2][2] # "ok"
      OBVIOUS
    <2> HIDE DEF checks
    <2> QED
      BY <2>1, <2>2
  <1>3. FirstFailure(checks) = "ok"
    BY DEF FloorRequestVerdict, Unless
  <1>4. ~checks[1][1] /\ ~checks[2][1]
    <2> HIDE DEF checks
    <2>1. \A k \in 1..4 : ~checks[k][1]
      BY <1>1, <1>2, <1>3, FirstFailureOk
    <2> QED
      BY <2>1
  <1>5. ValidateVerifierRequest(q) = "ok" /\ UsableProfile(q.profile)
    BY <1>4
  <1>6. RequestShape(q)
    BY BitVm2Assumption
  <1> QED
    BY <1>5, <1>6, ValidateOk

LEMMA FloorCallKinds ==
    ASSUME B2Shapes, NEW c \in Calls
    PROVE  /\ b2Call[c].pc = "idle" <=> b2Call[c] = IdleFloorCall
           /\ b2Call[c].pc = "queued" <=> b2Call[c] \in B2Asking
           /\ b2Call[c].pc \in {"verifying", "signing"} <=> b2Call[c] \in B2Waiting
           /\ b2Call[c].pc # "idle" =>
                /\ b2Call[c].id \in Floors
                /\ b2Call[c].request \in FloorRequests \cup SignRequests \cup ChallengeRequests
  BY DEF B2Shapes, B2Calls, IdleFloorCall, B2Asking, B2Waiting

(* No floor is ever cleaned away.                                            *)
LEMMA NothingExpires ==
    ASSUME B2Shapes
    PROVE  CleanedFloors = b2Floor
  <1>1. ExpiredFloors = {}
    BY DEF B2Shapes, ExpiredFloors, IsTerminalFloor, IsFloor
  <1> QED
    BY <1>1 DEF CleanedFloors, B2Shapes

LEMMA EnterFloorKind ==
    ASSUME B2Safe, NEW c \in Calls, EnterFloor(c)
    PROVE  B2Reserves(c) \/ B2Refuses(c)
  <1> DEFINE p == b2Call[c].id
             accepted == ClockAccepted(b2Now, b2Last)
             room == Cardinality({f \in Floors : CleanedFloors[f] # NoFloor}) + Cardinality(b2Reserved)
                       < MaxFloors
             reserve == accepted /\ CleanedFloors[p] = NoFloor /\ room
  <1>0. B2Shapes /\ CleanedFloors = b2Floor
    BY NothingExpires DEF B2Safe
  <1>1. /\ b2Call[c].pc = "queued" /\ b2Call[c].request.kind = "verify" /\ b2Prev[c] = NoCall
        /\ b2Last' = Observed(b2Now, b2Last)
        /\ b2Floor' = b2Floor
        /\ IF reserve THEN AwaitFloor(c, "verifying") /\ b2Reserved' = b2Reserved \cup {p}
                      ELSE LeaveFloor(c) /\ UNCHANGED b2Reserved
        /\ UNCHANGED <<b2Now, b2Verifier, b2Signing, b2Claimed, b2Asks>>
    BY <1>0 DEF EnterFloor, MayEnter
  <1>2. CASE reserve
    <2>1. /\ accepted /\ b2Floor[p] = NoFloor
          /\ Cardinality({f \in Floors : b2Floor[f] # NoFloor}) + Cardinality(b2Reserved) < MaxFloors
      BY <1>0, <1>2
    <2>2. b2Now \in 0..MaxFloorTime
      BY <1>0, <2>1 DEF B2Shapes, ClockAccepted
    <2>3. B2Waits(c, "verifying")
      BY <1>0, <1>1, <1>2, <2>2 DEF B2Waits, AwaitFloor, B2Shapes
    <2> QED
      BY <1>1, <1>2, <2>1, <2>3 DEF B2Reserves, Retained
  <1>3. CASE ~reserve
    BY <1>1, <1>3 DEF B2Refuses, B2Ends
  <1> QED
    BY <1>2, <1>3

LEMMA FloorAnsweredKind ==
    ASSUME B2Safe, NEW c \in Calls, NEW r \in FloorResults, FloorAnswered(c, r)
    PROVE  B2Answers(c)
  <1> DEFINE p == b2Call[c].id
             q == b2Call[c].request
             judged == IF r.form = "thrown" THEN Failure("internal_error", q, b2Verifier)
                       ELSE Judge(r, q, b2Verifier)
  <1>1. b2Call[c].pc = "verifying" /\ b2Prev[c] = NoCall
    BY DEF FloorAnswered, B2Safe, B2Lines
  <1>2. B2Ends(c) /\ b2Reserved' = b2Reserved \ {p} /\ UNCHANGED b2Claimed
    BY <1>1 DEF FloorAnswered, B2Ends
  <1>3. b2Floor' = IF IsProductionVerified(judged, b2Verifier)
                   THEN [b2Floor EXCEPT ![p] = NewFloor(q, judged, b2Call[c].at)] ELSE b2Floor
    BY DEF FloorAnswered, NewFloor
  <1>4. ASSUME IsProductionVerified(judged, b2Verifier)
        PROVE  AuthorizedResult(judged, q, b2Verifier)
    <2>1. r.form # "thrown"
      BY <1>4 DEF IsProductionVerified, Failure
    <2>2. ResultShape(r)
      BY BitVm2Assumption
    <2> QED
      BY <1>4, <2>1, <2>2, JudgeAuthorized
  <1> HIDE DEF judged
  <1> QED
    BY <1>1, <1>2, <1>3, <1>4 DEF B2Answers

LEMMA EnterSignatureKind ==
    ASSUME B2Safe, NEW c \in Calls, EnterSignature(c)
    PROVE  B2Claims(c) \/ B2Refuses(c)
  <1> DEFINE p == b2Call[c].id
             signer == b2Call[c].request.signer
             admitted == /\ Aggregates(p)
                         /\ signer \in b2Floor[p].profile.signers
                         /\ signer \notin SignedBy(p)
                         /\ signer \notin b2Claimed[p]
             usable == IsBackendIdentity(b2Signing) /\ b2Signing # Unavailable
             goes == admitted /\ usable /\ ClockAccepted(b2Now, b2Last)
  <1>1. /\ b2Call[c].pc = "queued" /\ b2Call[c].request.kind = "sign" /\ b2Prev[c] = NoCall
        /\ b2Last' = IF admitted /\ usable THEN Observed(b2Now, b2Last) ELSE b2Last
        /\ IF goes THEN /\ AwaitFloor(c, "signing")
                        /\ b2Claimed' = [b2Claimed EXCEPT ![p] = @ \cup {signer}]
                   ELSE LeaveFloor(c) /\ UNCHANGED b2Claimed
        /\ UNCHANGED <<b2Now, b2Verifier, b2Signing, b2Floor, b2Reserved, b2Asks>>
    BY DEF EnterSignature, MayEnter
  <1>2. CASE goes
    <2>1. b2Now \in 0..MaxFloorTime
      BY <1>2 DEF B2Safe, B2Shapes, ClockAccepted
    <2>2. B2Waits(c, "signing")
      BY <1>1, <1>2, <2>1 DEF B2Waits, AwaitFloor, B2Safe, B2Shapes
    <2> QED
      BY <1>1, <1>2, <2>2 DEF B2Claims
  <1>3. CASE ~goes
    BY <1>1, <1>3 DEF B2Refuses, B2Ends
  <1> QED
    BY <1>2, <1>3

(* The shape of the floors, without that of the rest.                         *)
LEMMA FloorsShaped ==
    ASSUME B2Shapes
    PROVE  b2Floor = [p \in Floors |-> b2Floor[p]] /\ \A p \in Retained : IsFloor(b2Floor[p])
  BY DEF B2Shapes

(* The fields of a floor that a signature and a challenge change.             *)
LEMMA SignatureStored ==
    ASSUME NEW r, FloorShape(r), NEW s
    PROVE  [r EXCEPT !.signatures = r.signatures \cup {s},
                     !.complete = Cardinality(r.signatures \cup {s}) >= r.profile.required]
             = SignedFloor(r, s)
  <1> DEFINE a == r.status  b == r.request  c == r.profile  d == r.result
             e == r.signatures  f == r.complete  g == r.challenges  h == r.updatedAt
             x == r.signatures \cup {s}
             y == Cardinality(r.signatures \cup {s}) >= r.profile.required
  <1>0. r = [status |-> a, request |-> b, profile |-> c, result |-> d, signatures |-> e,
             complete |-> f, challenges |-> g, updatedAt |-> h]
    BY DEF FloorShape
  <1>1. SignedFloor(r, s) =
          [status |-> a, request |-> b, profile |-> c, result |-> d, signatures |-> x,
           complete |-> y, challenges |-> g, updatedAt |-> h]
    BY DEF SignedFloor
  <1> HIDE DEF a, b, c, d, e, f, g, h, x, y
  <1>2. [r EXCEPT !.signatures = x] =
          [status |-> a, request |-> b, profile |-> c, result |-> d, signatures |-> x,
           complete |-> f, challenges |-> g, updatedAt |-> h]
    BY <1>0
  <1>3. [[status |-> a, request |-> b, profile |-> c, result |-> d, signatures |-> x,
          complete |-> f, challenges |-> g, updatedAt |-> h] EXCEPT !.complete = y] =
          [status |-> a, request |-> b, profile |-> c, result |-> d, signatures |-> x,
           complete |-> y, challenges |-> g, updatedAt |-> h]
    OBVIOUS
  <1>4. [r EXCEPT !.signatures = x, !.complete = y] = [[r EXCEPT !.signatures = x] EXCEPT !.complete = y]
    OBVIOUS
  <1>5. [r EXCEPT !.signatures = x, !.complete = y] = SignedFloor(r, s)
    BY <1>1, <1>2, <1>3, <1>4, Zenon
  <1> QED
    BY <1>5 DEF x, y

LEMMA ChallengeStored ==
    ASSUME NEW r, FloorShape(r), NEW tap, NEW at
    PROVE  [r EXCEPT !.status = "challenged", !.updatedAt = at, !.challenges = r.challenges \cup {tap}]
             = ChallengedFloor(r, tap, at)
  <1> DEFINE a == r.status  b == r.request  c == r.profile  d == r.result
             e == r.signatures  f == r.complete  g == r.challenges  h == r.updatedAt
             z == r.challenges \cup {tap}
  <1>0. r = [status |-> a, request |-> b, profile |-> c, result |-> d, signatures |-> e,
             complete |-> f, challenges |-> g, updatedAt |-> h]
    BY DEF FloorShape
  <1>1. ChallengedFloor(r, tap, at) =
          [status |-> "challenged", request |-> b, profile |-> c, result |-> d, signatures |-> e,
           complete |-> f, challenges |-> z, updatedAt |-> at]
    BY DEF ChallengedFloor
  <1> HIDE DEF a, b, c, d, e, f, g, h, z
  <1>2. [r EXCEPT !.status = "challenged"] =
          [status |-> "challenged", request |-> b, profile |-> c, result |-> d, signatures |-> e,
           complete |-> f, challenges |-> g, updatedAt |-> h]
    BY <1>0
  <1>3. [[status |-> "challenged", request |-> b, profile |-> c, result |-> d, signatures |-> e,
          complete |-> f, challenges |-> g, updatedAt |-> h] EXCEPT !.updatedAt = at] =
          [status |-> "challenged", request |-> b, profile |-> c, result |-> d, signatures |-> e,
           complete |-> f, challenges |-> g, updatedAt |-> at]
    OBVIOUS
  <1>4. [[status |-> "challenged", request |-> b, profile |-> c, result |-> d, signatures |-> e,
          complete |-> f, challenges |-> g, updatedAt |-> at] EXCEPT !.challenges = z] =
          [status |-> "challenged", request |-> b, profile |-> c, result |-> d, signatures |-> e,
           complete |-> f, challenges |-> z, updatedAt |-> at]
    OBVIOUS
  <1>5. [r EXCEPT !.status = "challenged", !.updatedAt = at, !.challenges = z] =
          [[[r EXCEPT !.status = "challenged"] EXCEPT !.updatedAt = at] EXCEPT !.challenges = z]
    OBVIOUS
  <1>6. [r EXCEPT !.status = "challenged", !.updatedAt = at, !.challenges = z] = ChallengedFloor(r, tap, at)
    BY <1>1, <1>2, <1>3, <1>4, <1>5, Zenon
  <1> QED
    BY <1>6 DEF z

LEMMA SignatureAnsweredKind ==
    ASSUME B2Safe, NEW c \in Calls, NEW r \in SignResults, SignatureAnswered(c, r)
    PROVE  B2Signs(c)
  <1> DEFINE p == b2Call[c].id
             q == b2Call[c].request
             s == [signer |-> q.signer, value |-> q.value, attestation |-> r.attestation]
             added == /\ Aggregates(p) /\ SignatureAccepted(r, p, q)
                      /\ q.signer \notin SignedBy(p) /\ q.signer \in b2Claimed[p]
  <1>0. B2Shapes
    BY DEF B2Safe
  <1>1. b2Call[c].pc = "signing" /\ b2Prev[c] = NoCall
    BY DEF SignatureAnswered, B2Safe, B2Lines
  <1>2. /\ B2Ends(c) /\ UNCHANGED b2Reserved
        /\ b2Claimed' = [b2Claimed EXCEPT ![p] = @ \ {q.signer}]
    BY <1>1 DEF SignatureAnswered, B2Ends
  <1>3. b2Floor' = IF added
                   THEN [b2Floor EXCEPT ![p].signatures = b2Floor[p].signatures \cup {s},
                            ![p].complete = Cardinality(b2Floor[p].signatures \cup {s})
                                              >= b2Floor[p].profile.required]
                   ELSE b2Floor
    BY DEF SignatureAnswered
  <1>4. CASE added
    <2>1. p \in Floors /\ p \in Retained
      BY <1>4 DEF Aggregates, Retained
    <2>2. IsFloor(b2Floor[p]) /\ b2Floor = [x \in Floors |-> b2Floor[x]]
      BY <1>0, <2>1, FloorsShaped
    <2> DEFINE f == b2Floor[p]
               more == f.signatures \cup {s}
               enough == Cardinality(more) >= f.profile.required
    <2>3. b2Floor' = [b2Floor EXCEPT ![p] = [f EXCEPT !.signatures = more, !.complete = enough]]
      BY <1>3, <1>4, <2>1, <2>2, Zenon
    <2>4. [f EXCEPT !.signatures = more, !.complete = enough] = SignedFloor(f, s)
      <3>1. FloorShape(f)
        BY <2>2 DEF IsFloor
      <3> QED
        BY <3>1, SignatureStored
    <2>5. /\ s.signer = q.signer /\ s.attestation.proof = p /\ s.attestation.signer = s.signer
          /\ s.attestation.value = s.value
          /\ s.attestation.backend = b2Floor[p].result.backend
      BY <1>4 DEF SignatureAccepted, Attests
    <2>6. b2Floor' = [b2Floor EXCEPT ![p] = SignedFloor(b2Floor[p], s)]
      BY <2>3, <2>4
    <2> HIDE DEF s
    <2> QED
      BY <1>1, <1>2, <2>5, <2>6 DEF B2Signs
  <1>5. CASE ~added
    BY <1>1, <1>2, <1>3, <1>5 DEF B2Signs
  <1> QED
    BY <1>4, <1>5

LEMMA ChallengeKind ==
    ASSUME B2Safe, NEW c \in Calls, ChallengeTap(c)
    PROVE  B2Challenges(c) \/ B2Refuses(c)
  <1> DEFINE p == b2Call[c].id
             tap == b2Call[c].request.tap
             open == p \in Retained /\ b2Floor[p].status = "verified" /\ tap \in 0..(b2Floor[p].profile.taps - 1)
             done == open /\ ClockAccepted(b2Now, b2Last)
  <1>0. B2Shapes
    BY DEF B2Safe
  <1>1. /\ b2Call[c].pc = "queued" /\ b2Prev[c] = NoCall
        /\ b2Last' = IF open THEN Observed(b2Now, b2Last) ELSE b2Last
        /\ LeaveFloor(c)
        /\ UNCHANGED <<b2Now, b2Verifier, b2Signing, b2Reserved, b2Claimed, b2Asks>>
    BY DEF ChallengeTap, MayEnter
  <1>2. b2Floor' = IF done
                   THEN [b2Floor EXCEPT ![p].status = "challenged", ![p].updatedAt = b2Now,
                                        ![p].challenges = @ \cup {tap}]
                   ELSE b2Floor
    BY DEF ChallengeTap
  <1>3. B2Ends(c)
    BY <1>1 DEF B2Ends
  <1>4. CASE done
    <2>1. /\ p \in Floors /\ p \in Retained /\ tap \in 0..(b2Floor[p].profile.taps - 1)
          /\ b2Now \in 0..MaxFloorTime
      BY <1>4 DEF Retained, B2Safe, B2Shapes, ClockAccepted
    <2>2. IsFloor(b2Floor[p]) /\ b2Floor = [x \in Floors |-> b2Floor[x]]
      BY <1>0, <2>1, FloorsShaped
    <2> DEFINE f == b2Floor[p]
               taps == f.challenges \cup {tap}
    <2>3. b2Floor' = [b2Floor EXCEPT ![p] =
                        [f EXCEPT !.status = "challenged", !.updatedAt = b2Now, !.challenges = taps]]
      BY <1>4, <1>2, <2>1, <2>2, Zenon
    <2>4. [f EXCEPT !.status = "challenged", !.updatedAt = b2Now, !.challenges = taps]
            = ChallengedFloor(f, tap, b2Now)
      <3>1. FloorShape(f)
        BY <2>2 DEF IsFloor
      <3> QED
        BY <3>1, ChallengeStored
    <2>5. b2Floor' = [b2Floor EXCEPT ![p] = ChallengedFloor(b2Floor[p], tap, b2Now)]
      BY <2>3, <2>4
    <2> QED
      BY <1>1, <1>3, <2>1, <2>5 DEF B2Challenges
  <1>5. CASE ~done
    BY <1>1, <1>3, <1>5, <1>2 DEF B2Refuses
  <1> QED
    BY <1>4, <1>5

LEMMA B2StepKinds ==
    ASSUME B2Safe, [B2Next]_b2Vars
    PROVE  \/ B2Quiet
           \/ \E c \in Calls, p \in Floors :
                \E q \in FloorRequests \cup SignRequests \cup ChallengeRequests : B2Queues(c, p, q)
           \/ \E c \in Calls : \/ B2Reserves(c) \/ B2Claims(c) \/ B2Refuses(c)
                               \/ B2Answers(c) \/ B2Signs(c) \/ B2Challenges(c)
  <1>0. B2Shapes
    BY DEF B2Safe
  <1>1. CASE UNCHANGED b2Vars
    BY <1>0, <1>1 DEF b2Vars, B2Quiet, B2Shapes
  <1>2. CASE PurgeFloors
    BY <1>0, <1>2, NothingExpires DEF PurgeFloors, B2Quiet, B2Shapes
  <1>3. CASE MoveFloorClock
    BY <1>0, <1>3 DEF MoveFloorClock, B2Quiet, B2Shapes
  <1>4. ASSUME NEW c \in Calls, NEW p \in Floors, NEW q \in B2Requests(p), AskFloor(c, p, q)
        PROVE  B2Quiet \/ (q \in FloorRequests \cup SignRequests \cup ChallengeRequests /\ B2Queues(c, p, q))
    <2>1. q \in FloorRequests \cup SignRequests \cup ChallengeRequests
      BY DEF B2Requests, SignRequests, ChallengeRequests
    <2>2. q.kind = "verify" => q \in FloorRequests
      BY <2>1 DEF SignRequests, ChallengeRequests
    <2>3. CASE q.kind = "verify" /\ FloorRequestVerdict(q) # "ok"
      <3>1. b2Asks' \in 0..MaxFloorAsks
        BY <1>0, <1>4, BitVm2Assumption DEF AskFloor, B2Shapes
      <3> QED
        BY <1>0, <1>4, <2>3, <3>1 DEF AskFloor, B2Quiet, B2Shapes
    <2>4. CASE ~(q.kind = "verify" /\ FloorRequestVerdict(q) # "ok")
      <3>1. B2Acceptable(q)
        BY <2>2, <2>4, FloorRequestOk DEF B2Acceptable
      <3> QED
        BY <1>4, <2>1, <2>4, <3>1 DEF AskFloor, B2Queues
    <2> QED
      BY <2>3, <2>4
  <1>5. ASSUME NEW c \in Calls, B2CallStep(c)
        PROVE  \/ B2Reserves(c) \/ B2Claims(c) \/ B2Refuses(c)
               \/ B2Answers(c) \/ B2Signs(c) \/ B2Challenges(c)
    BY <1>5, EnterFloorKind, EnterSignatureKind, ChallengeKind, FloorAnsweredKind, SignatureAnsweredKind
       DEF B2CallStep
  <1> QED
    BY <1>1, <1>2, <1>3, <1>4, <1>5 DEF B2Next

---------------------------------------------------------------------------
(* What the steps of a call do to the calls.                                  *)
LEMMA B2Ended ==
    ASSUME B2Shapes, NEW c \in Calls, B2Ends(c)
    PROVE  /\ b2Call' \in [Calls -> B2Calls] /\ \A d \in Calls \ {c} : b2Call'[d] = b2Call[d]
           /\ b2Call'[c].pc = "idle" /\ b2Call[c].id \in Floors
           /\ b2Tail' = LeaveTail(b2Tail, b2Call[c].id, c) /\ b2Prev' = LeavePrev(b2Prev, c)
           /\ b2Tail' \in [Floors -> Calls \cup {NoCall}] /\ b2Prev' \in [Calls -> Calls \cup {NoCall}]
  <1>1. /\ b2Call' = [b2Call EXCEPT ![c] = IdleFloorCall] /\ b2Call[c].pc # "idle"
        /\ b2Tail' = LeaveTail(b2Tail, b2Call[c].id, c) /\ b2Prev' = LeavePrev(b2Prev, c)
    BY DEF B2Ends, LeaveFloor
  <1>2. b2Call[c].id \in Floors
    BY <1>1, FloorCallKinds
  <1>3. b2Call' \in [Calls -> B2Calls] /\ (\A d \in Calls \ {c} : b2Call'[d] = b2Call[d]) /\ b2Call'[c].pc = "idle"
    BY <1>1 DEF B2Shapes, B2Calls, IdleFloorCall
  <1>4. b2Tail' \in [Floors -> Calls \cup {NoCall}] /\ b2Prev' \in [Calls -> Calls \cup {NoCall}]
    BY <1>1, <1>2 DEF LeaveTail, LeavePrev, B2Shapes
  <1> QED
    BY <1>1, <1>2, <1>3, <1>4

LEMMA B2Waited ==
    ASSUME B2Shapes, NEW c \in Calls, NEW pc \in {"verifying", "signing"}, B2Waits(c, pc)
    PROVE  /\ b2Call' \in [Calls -> B2Calls] /\ \A d \in Calls \ {c} : b2Call'[d] = b2Call[d]
           /\ b2Call'[c].pc = pc /\ b2Call'[c].id = b2Call[c].id /\ b2Call'[c].request = b2Call[c].request
           /\ b2Call[c].id \in Floors
           /\ b2Call[c].request \in FloorRequests \cup SignRequests \cup ChallengeRequests
  <1> DEFINE new == [pc |-> pc, id |-> b2Call[c].id, request |-> b2Call[c].request, at |-> b2Now]
  <1>1. b2Call[c].pc = "queued" /\ b2Now \in 0..MaxFloorTime /\ b2Call' = [b2Call EXCEPT ![c] = new]
    BY DEF B2Waits
  <1>2. /\ b2Call[c].id \in Floors
        /\ b2Call[c].request \in FloorRequests \cup SignRequests \cup ChallengeRequests
    BY <1>1, FloorCallKinds
  <1>3. /\ new \in B2Calls /\ new.pc = pc /\ new.id = b2Call[c].id /\ new.request = b2Call[c].request
    BY <1>1, <1>2 DEF B2Calls, B2Waiting
  <1> HIDE DEF new
  <1>4. b2Call'[c] = new /\ b2Call' \in [Calls -> B2Calls] /\ \A d \in Calls \ {c} : b2Call'[d] = b2Call[d]
    BY <1>1, <1>3 DEF B2Shapes
  <1> QED
    BY <1>2, <1>3, <1>4

LEMMA B2Queued ==
    ASSUME B2Shapes, NEW c \in Calls, NEW p \in Floors,
           NEW q \in FloorRequests \cup SignRequests \cup ChallengeRequests, B2Queues(c, p, q)
    PROVE  /\ b2Call' \in [Calls -> B2Calls] /\ \A d \in Calls \ {c} : b2Call'[d] = b2Call[d]
           /\ b2Call[c].pc = "idle"
           /\ b2Call'[c].pc = "queued" /\ b2Call'[c].id = p /\ b2Call'[c].request = q
           /\ b2Tail' = JoinTail(b2Tail, p, c) /\ b2Prev' = JoinPrev(b2Prev, b2Tail, p, c)
           /\ b2Asks' \in 0..MaxFloorAsks
           /\ UNCHANGED <<b2Now, b2Last, b2Verifier, b2Signing, b2Floor, b2Reserved, b2Claimed>>
  <1> DEFINE new == [pc |-> "queued", id |-> p, request |-> q]
  <1>1. /\ b2Call[c] = IdleFloorCall /\ b2Call' = [b2Call EXCEPT ![c] = new]
        /\ b2Tail' = JoinTail(b2Tail, p, c) /\ b2Prev' = JoinPrev(b2Prev, b2Tail, p, c)
        /\ b2Asks' = b2Asks + 1 /\ b2Asks < MaxFloorAsks
        /\ UNCHANGED <<b2Now, b2Last, b2Verifier, b2Signing, b2Floor, b2Reserved, b2Claimed>>
    BY DEF B2Queues, AskFloor
  <1>2. new \in B2Calls /\ new.pc = "queued" /\ new.id = p /\ new.request = q
    BY DEF B2Calls, B2Asking
  <1>3. b2Asks' \in 0..MaxFloorAsks
    BY <1>1, BitVm2Assumption DEF B2Shapes
  <1> HIDE DEF new
  <1>4. b2Call'[c] = new /\ b2Call' \in [Calls -> B2Calls] /\ \A d \in Calls \ {c} : b2Call'[d] = b2Call[d]
    BY <1>1, <1>2 DEF B2Shapes
  <1>5. b2Call[c].pc = "idle"
    BY <1>1 DEF IdleFloorCall
  <1> QED
    BY <1>1, <1>2, <1>3, <1>4, <1>5

---------------------------------------------------------------------------
(* The lines.                                                               *)
LEMMA B2LinesKept ==
    ASSUME B2Safe, [B2Next]_b2Vars
    PROVE  B2Lines'
  <1>0. B2Shapes /\ B2Lines /\ DOMAIN b2Tail = Floors
    BY DEF B2Safe, B2Shapes
  <1>1. CASE B2Quiet
    BY <1>0, <1>1 DEF B2Lines, B2Quiet
  <1>2. ASSUME NEW c \in Calls, NEW p \in Floors,
               NEW q \in FloorRequests \cup SignRequests \cup ChallengeRequests, B2Queues(c, p, q)
        PROVE  B2Lines'
    <2>1. Lined(b2Tail', b2Prev', Callers(b2Call', Floors))
      BY <1>0, <1>2, B2Queued, CallerJoins DEF B2Lines
    <2>2. \A d \in Calls : b2Call'[d].pc \notin {"idle", "queued"} => b2Prev'[d] = NoCall
      <3>1. /\ b2Call'[c].pc = "queued" /\ b2Prev' = [b2Prev EXCEPT ![c] = b2Tail[p]]
            /\ \A d \in Calls \ {c} : b2Call'[d] = b2Call[d]
        BY <1>0, <1>2, B2Queued DEF JoinPrev
      <3>2. \A d \in Calls \ {c} : b2Prev'[d] = b2Prev[d]
        BY <1>0, <3>1 DEF B2Shapes
      <3> QED
        BY <1>0, <3>1, <3>2 DEF B2Lines
    <2> QED
      BY <2>1, <2>2 DEF B2Lines
  <1>3. ASSUME NEW c \in Calls, NEW pc \in {"verifying", "signing"}, B2Waits(c, pc)
        PROVE  B2Lines'
    <2>1. /\ b2Call[c].pc = "queued" /\ b2Prev[c] = NoCall /\ b2Tail' = b2Tail /\ b2Prev' = b2Prev
      BY <1>3 DEF B2Waits
    <2>2. /\ \A d \in Calls \ {c} : b2Call'[d] = b2Call[d]
          /\ b2Call'[c].pc # "idle" /\ b2Call'[c].id = b2Call[c].id
      BY <1>0, <1>3, B2Waited
    <2>3. Callers(b2Call', Floors) = Callers(b2Call, Floors)
      BY <2>1, <2>2, CallerStays
    <2> QED
      BY <1>0, <2>1, <2>2, <2>3 DEF B2Lines
  <1>4. ASSUME NEW c \in Calls, B2Ends(c)
        PROVE  B2Lines'
    <2>1. b2Call[c].pc # "idle" /\ b2Prev[c] = NoCall
      BY <1>4 DEF B2Ends
    <2>2. /\ b2Tail' = LeaveTail(b2Tail, b2Call[c].id, c) /\ b2Prev' = LeavePrev(b2Prev, c)
          /\ \A d \in Calls \ {c} : b2Call'[d] = b2Call[d]
          /\ b2Call'[c].pc = "idle" /\ b2Call[c].id \in Floors
      BY <1>0, <1>4, B2Ended
    <2>3. Lined(b2Tail', b2Prev', Callers(b2Call', Floors))
      BY <1>0, <2>1, <2>2, CallerLeaves DEF B2Lines
    <2>4. \A d \in Calls : b2Call'[d].pc \notin {"idle", "queued"} => b2Prev'[d] = NoCall
      BY <1>0, <2>2 DEF B2Lines, LeavePrev
    <2> QED
      BY <2>3, <2>4 DEF B2Lines
  <1> QED
    BY <1>1, <1>2, <1>3, <1>4, B2StepKinds
       DEF B2Reserves, B2Claims, B2Refuses, B2Answers, B2Signs, B2Challenges

(* One call on a floor is let in.                                            *)
LEMMA B2OneIn ==
    ASSUME B2Safe, NEW c \in Calls, NEW d \in Calls, b2Call[c].pc # "idle", b2Call[d].pc # "idle",
           b2Call[c].id = b2Call[d].id, b2Prev[c] = NoCall, b2Prev[d] = NoCall
    PROVE  c = d
  <1>1. b2Call[c].id \in Floors /\ DOMAIN b2Tail = Floors /\ Lined(b2Tail, b2Prev, Callers(b2Call, Floors))
    BY FloorCallKinds DEF B2Safe, B2Shapes, B2Lines
  <1> QED
    BY <1>1, OneCallerIn

LEMMA B2AcceptedKept ==
    ASSUME B2Safe, [B2Next]_b2Vars
    PROVE  B2Accepted'
  <1>0. B2Shapes /\ B2Accepted
    BY DEF B2Safe
  <1>1. CASE B2Quiet
    BY <1>0, <1>1 DEF B2Accepted, B2Quiet, B2Acceptable, UsableProfile
  <1>2. ASSUME NEW c \in Calls, NEW p \in Floors,
               NEW q \in FloorRequests \cup SignRequests \cup ChallengeRequests, B2Queues(c, p, q)
        PROVE  B2Accepted'
    <2>1. B2Acceptable(q)
      BY <1>2 DEF B2Queues
    <2> QED
      BY <1>0, <1>2, <2>1, B2Queued DEF B2Accepted
  <1>3. ASSUME NEW c \in Calls, B2Reserves(c) \/ B2Claims(c)
        PROVE  B2Accepted'
    <2>1. CASE B2Reserves(c)
      <3>1. B2Waits(c, "verifying") /\ b2Call[c].request.kind = "verify" /\ b2Call[c].pc = "queued"
        BY <2>1 DEF B2Reserves, B2Waits
      <3> QED
        BY <1>0, <3>1, B2Waited DEF B2Accepted
    <2>2. CASE B2Claims(c)
      <3>1. B2Waits(c, "signing") /\ b2Call[c].request.kind = "sign" /\ b2Call[c].pc = "queued"
        BY <2>2 DEF B2Claims, B2Waits
      <3> QED
        BY <1>0, <3>1, B2Waited DEF B2Accepted
    <2> QED
      BY <1>3, <2>1, <2>2
  <1>4. ASSUME NEW c \in Calls, B2Ends(c)
        PROVE  B2Accepted'
    BY <1>0, <1>4, B2Ended DEF B2Accepted
  <1> QED
    BY <1>1, <1>2, <1>3, <1>4, B2StepKinds
       DEF B2Refuses, B2Answers, B2Signs, B2Challenges

---------------------------------------------------------------------------
(* What may happen to a floor in one step.                                    *)
Created(c, p, judged) ==
    /\ b2Call[c].pc = "verifying" /\ b2Call[c].id = p /\ p \notin Retained
    /\ AuthorizedResult(judged, b2Call[c].request, b2Verifier)
    /\ b2Floor'[p] = NewFloor(b2Call[c].request, judged, b2Call[c].at)

Added(c, p, s) ==
    /\ b2Call[c].pc = "signing" /\ b2Call[c].id = p /\ Aggregates(p)
    /\ s.signer \in b2Floor[p].profile.signers /\ s.signer \notin SignedBy(p)
    /\ s.attestation.proof = p /\ s.attestation.signer = s.signer
    /\ s.attestation.value = s.value
    /\ s.attestation.backend = b2Floor[p].result.backend
    /\ b2Floor'[p] = SignedFloor(b2Floor[p], s)

Opened(c, p, tap) ==
    /\ b2Call[c].pc = "queued" /\ b2Prev[c] = NoCall /\ b2Call[c].id = p /\ p \in Retained
    /\ tap \in 0..(b2Floor[p].profile.taps - 1) /\ b2Now \in 0..MaxFloorTime
    /\ b2Floor'[p] = ChallengedFloor(b2Floor[p], tap, b2Now)

Fate(p) ==
    \/ b2Floor'[p] = b2Floor[p]
    \/ \E c \in Calls : \/ \E judged : Created(c, p, judged)
                        \/ \E s : Added(c, p, s)
                        \/ \E tap : Opened(c, p, tap)

LEMMA VerifyingReserved ==
    ASSUME B2Safe, NEW c \in Calls, b2Call[c].pc = "verifying"
    PROVE  b2Call[c].id \in b2Reserved /\ b2Call[c].id \notin Retained
  <1>1. b2Call[c].id \in Floors
    BY FloorCallKinds DEF B2Safe
  <1>2. c \in FloorCallsAt(b2Call[c].id, "verifying")
    BY DEF FloorCallsAt, FloorCallsOn
  <1> QED
    BY <1>1, <1>2 DEF B2Safe, B2ReservationsHeld, B2Bounded, B2CapacityHeld

LEMMA FloorFate ==
    ASSUME B2Safe, [B2Next]_b2Vars
    PROVE  /\ b2Floor' = [p \in Floors |-> b2Floor'[p]]
           /\ \A p \in Floors : Fate(p)
           /\ b2Verifier' = b2Verifier /\ b2Signing' = b2Signing
  <1>0. B2Shapes /\ b2Floor = [p \in Floors |-> b2Floor[p]]
    BY DEF B2Safe, B2Shapes
  <1>1. ASSUME UNCHANGED b2Floor
        PROVE  b2Floor' = [p \in Floors |-> b2Floor'[p]] /\ \A p \in Floors : Fate(p)
    BY <1>0, <1>1 DEF Fate
  <1>2. ASSUME NEW p \in Floors, NEW new, b2Floor' = [b2Floor EXCEPT ![p] = new],
               b2Floor'[p] = new => Fate(p)
        PROVE  b2Floor' = [x \in Floors |-> b2Floor'[x]] /\ \A x \in Floors : Fate(x)
    <2>1. b2Floor'[p] = new /\ (\A x \in Floors \ {p} : b2Floor'[x] = b2Floor[x]) /\ DOMAIN b2Floor' = Floors
      BY <1>0, <1>2
    <2>2. b2Floor' = [x \in Floors |-> b2Floor'[x]]
      BY <1>0, <1>2
    <2> QED
      BY <1>2, <2>1, <2>2 DEF Fate
  <1>3. ASSUME NEW c \in Calls, B2Answers(c)
        PROVE  b2Floor' = [p \in Floors |-> b2Floor'[p]] /\ \A p \in Floors : Fate(p)
    <2>1. CASE UNCHANGED b2Floor
      BY <1>1, <2>1
    <2>2. CASE ~UNCHANGED b2Floor
      <3>0. b2Call[c].pc = "verifying"
        BY <1>3 DEF B2Answers
      <3>1. PICK p \in Floors : p = b2Call[c].id
        BY <1>0, <3>0, FloorCallKinds
      <3>2. PICK judged :
              /\ AuthorizedResult(judged, b2Call[c].request, b2Verifier)
              /\ b2Floor' = [b2Floor EXCEPT ![p] = NewFloor(b2Call[c].request, judged, b2Call[c].at)]
        BY <1>3, <2>2, <3>1 DEF B2Answers
      <3>3. p \notin Retained
        BY <3>0, <3>1, VerifyingReserved
      <3>4. ASSUME b2Floor'[p] = NewFloor(b2Call[c].request, judged, b2Call[c].at) PROVE Fate(p)
        <4>1. Created(c, p, judged)
          BY <3>0, <3>1, <3>2, <3>3, <3>4 DEF Created
        <4> QED
          BY <4>1 DEF Fate
      <3> QED
        BY <1>2, <3>2, <3>4
    <2> QED
      BY <2>1, <2>2
  <1>4. ASSUME NEW c \in Calls, B2Signs(c)
        PROVE  b2Floor' = [p \in Floors |-> b2Floor'[p]] /\ \A p \in Floors : Fate(p)
    <2>1. CASE UNCHANGED b2Floor
      BY <1>1, <2>1
    <2>2. CASE ~UNCHANGED b2Floor
      <3>0. b2Call[c].pc = "signing"
        BY <1>4 DEF B2Signs
      <3>1. PICK p \in Floors : p = b2Call[c].id
        BY <1>0, <3>0, FloorCallKinds
      <3>2. PICK s :
              /\ s.signer = b2Call[c].request.signer
              /\ s.attestation.proof = p /\ s.attestation.signer = s.signer
              /\ s.attestation.value = s.value
              /\ s.attestation.backend = b2Floor[p].result.backend
              /\ b2Floor' = [b2Floor EXCEPT ![p] = SignedFloor(b2Floor[p], s)]
        BY <1>4, <2>2, <3>1 DEF B2Signs
      <3>3. Aggregates(p) /\ s.signer \in b2Floor[p].profile.signers /\ s.signer \notin SignedBy(p)
        BY <3>0, <3>1, <3>2 DEF B2Safe, B2MaySign
      <3>4. ASSUME b2Floor'[p] = SignedFloor(b2Floor[p], s) PROVE Fate(p)
        <4>1. Added(c, p, s)
          BY <3>0, <3>1, <3>2, <3>3, <3>4 DEF Added
        <4> QED
          BY <4>1 DEF Fate
      <3> QED
        BY <1>2, <3>2, <3>4
    <2> QED
      BY <2>1, <2>2
  <1>5. ASSUME NEW c \in Calls, B2Challenges(c)
        PROVE  b2Floor' = [p \in Floors |-> b2Floor'[p]] /\ \A p \in Floors : Fate(p)
    <2>0. b2Call[c].pc = "queued" /\ b2Prev[c] = NoCall
      BY <1>5 DEF B2Challenges, B2Ends
    <2>1. PICK p \in Floors : p = b2Call[c].id
      BY <1>0, <2>0, FloorCallKinds
    <2>2a. PICK tap : tap = b2Call[c].request.tap
      OBVIOUS
    <2>2. /\ p \in Retained /\ tap \in 0..(b2Floor[p].profile.taps - 1) /\ b2Now \in 0..MaxFloorTime
          /\ b2Floor' = [b2Floor EXCEPT ![p] = ChallengedFloor(b2Floor[p], tap, b2Now)]
      BY <1>5, <2>1, <2>2a DEF B2Challenges
    <2>3. ASSUME b2Floor'[p] = ChallengedFloor(b2Floor[p], tap, b2Now) PROVE Fate(p)
      <3>1. Opened(c, p, tap)
        BY <2>0, <2>1, <2>2a, <2>2, <2>3 DEF Opened
      <3> QED
        BY <3>1 DEF Fate
    <2> QED
      BY <1>2, <2>2, <2>3
  <1>6. b2Verifier' = b2Verifier /\ b2Signing' = b2Signing
    BY <1>0, B2StepKinds, B2Queued
       DEF B2Quiet, B2Reserves, B2Claims, B2Waits, B2Refuses, B2Answers, B2Signs, B2Challenges, B2Ends
  <1> QED
    BY <1>0, <1>1, <1>3, <1>4, <1>5, <1>6, B2StepKinds, B2Queued
       DEF B2Quiet, B2Reserves, B2Claims, B2Waits, B2Refuses

(* The three changes, field by field.                                        *)
LEMMA NewFields ==
    ASSUME NEW q, NEW judged, NEW at, NEW f, f = NewFloor(q, judged, at)
    PROVE  /\ f # NoFloor /\ FloorShape(f)
           /\ f.status = "verified" /\ f.request = q /\ f.profile = q.profile /\ f.result = judged
           /\ f.signatures = {} /\ ~f.complete /\ f.complete \in BOOLEAN /\ f.challenges = {} /\ f.updatedAt = at
  BY DEF NewFloor, NoFloor, FloorShape

LEMMA SignedFields ==
    ASSUME NEW f, NEW s, NEW g, g = SignedFloor(f, s)
    PROVE  /\ g # NoFloor /\ FloorShape(g)
           /\ g.status = f.status /\ g.request = f.request /\ g.profile = f.profile
           /\ g.result = f.result /\ g.signatures = f.signatures \cup {s}
           /\ g.complete \in BOOLEAN
           /\ g.complete <=> Cardinality(g.signatures) >= f.profile.required
           /\ g.challenges = f.challenges /\ g.updatedAt = f.updatedAt
  <1> DEFINE a == f.status  b == f.request  c == f.profile  d == f.result
             e == f.signatures \cup {s}  k == (Cardinality(f.signatures \cup {s}) >= f.profile.required)
             h == f.challenges  l == f.updatedAt
  <1>1. g = [status |-> a, request |-> b, profile |-> c, result |-> d, signatures |-> e,
             complete |-> k, challenges |-> h, updatedAt |-> l]
    BY DEF SignedFloor
  <1> HIDE DEF a, b, c, d, e, k, h, l
  <1>2. /\ g # NoFloor /\ FloorShape(g)
        /\ g.status = a /\ g.request = b /\ g.profile = c /\ g.result = d /\ g.signatures = e
        /\ g.complete = k /\ g.challenges = h /\ g.updatedAt = l
    BY <1>1 DEF NoFloor, FloorShape
  <1>3. g.complete \in BOOLEAN /\ (g.complete <=> Cardinality(f.signatures \cup {s}) >= f.profile.required)
    <2>1. g.complete = (Cardinality(f.signatures \cup {s}) >= f.profile.required)
      BY Zenon DEF SignedFloor
    <2>2. (Cardinality(f.signatures \cup {s}) >= f.profile.required) \in BOOLEAN
      OBVIOUS
    <2>3. g.complete \in BOOLEAN
      BY <2>1, <2>2, Zenon
    <2>4. g.complete <=> Cardinality(f.signatures \cup {s}) >= f.profile.required
      BY Zenon DEF SignedFloor
    <2> QED
      BY <2>3, <2>4
  <1>4. g.signatures = f.signatures \cup {s}
    BY <1>2 DEF e
  <1>5. g.complete \in BOOLEAN /\ (g.complete <=> Cardinality(g.signatures) >= f.profile.required)
    BY <1>3, <1>4
  <1> QED
    BY <1>2, <1>4, <1>5 DEF a, b, c, d, h, l

LEMMA ChallengedFields ==
    ASSUME NEW f, NEW tap, NEW at, NEW g, g = ChallengedFloor(f, tap, at)
    PROVE  /\ g # NoFloor /\ FloorShape(g)
           /\ g.status = "challenged" /\ g.request = f.request /\ g.profile = f.profile
           /\ g.result = f.result /\ g.signatures = f.signatures /\ g.complete = f.complete
           /\ g.challenges = f.challenges \cup {tap} /\ g.updatedAt = at
  BY DEF ChallengedFloor, NoFloor, FloorShape

LEMMA B2ShapesKept ==
    ASSUME B2Safe, [B2Next]_b2Vars
    PROVE  B2Shapes'
  <1>0. B2Shapes /\ B2Accepted
    BY DEF B2Safe
  <1>1. /\ b2Floor' = [p \in Floors |-> b2Floor'[p]]
        /\ {b2Verifier', b2Signing'} \subseteq Backends \cup {NoIdentity}
    BY <1>0, FloorFate DEF B2Shapes
  <1>2. ASSUME NEW p \in Retained'
        PROVE  IsFloor(b2Floor'[p])
    <2>0. p \in Floors /\ b2Floor'[p] # NoFloor
      BY <1>2 DEF Retained
    <2>1. CASE b2Floor'[p] = b2Floor[p]
      BY <1>0, <2>0, <2>1 DEF B2Shapes, Retained
    <2>2. ASSUME NEW c \in Calls, NEW judged, Created(c, p, judged)
          PROVE  IsFloor(b2Floor'[p])
      <3>1. b2Call[c].pc = "verifying" /\ b2Floor'[p] = NewFloor(b2Call[c].request, judged, b2Call[c].at)
        BY <2>2 DEF Created
      <3>2. b2Call[c].at \in 0..MaxFloorTime
        BY <1>0, <3>1, FloorCallKinds DEF B2Waiting
      <3>3. b2Call[c].request \in FloorRequests
        BY <1>0, <3>1 DEF B2Accepted, B2Acceptable
      <3>4. b2Call[c].request.profile.required \in Nat
        BY <3>3, BitVm2Assumption
      <3>5. PICK q, at, f : q = b2Call[c].request /\ at = b2Call[c].at /\ f = b2Floor'[p]
        OBVIOUS
      <3>6. f = NewFloor(q, judged, at)
        BY <3>1, <3>5
      <3>7. /\ FloorShape(f) /\ f.status = "verified" /\ f.request = q /\ f.profile = q.profile
            /\ f.complete \in BOOLEAN /\ f.updatedAt = at
        BY <3>6, NewFields
      <3>8. IsFloor(f)
        BY <3>2, <3>3, <3>4, <3>5, <3>7 DEF IsFloor
      <3> QED
        BY <3>5, <3>8
    <2>3. ASSUME NEW c \in Calls, NEW s, Added(c, p, s)
          PROVE  IsFloor(b2Floor'[p])
      <3>1. IsFloor(b2Floor[p]) /\ b2Floor'[p] = SignedFloor(b2Floor[p], s)
        BY <1>0, <2>3 DEF Added, Aggregates, B2Shapes
      <3>2. PICK f, g : f = b2Floor[p] /\ g = b2Floor'[p]
        OBVIOUS
      <3>3. g = SignedFloor(f, s) /\ IsFloor(f)
        BY <3>1, <3>2
      <3>4. /\ FloorShape(g) /\ g.status = f.status /\ g.request = f.request /\ g.profile = f.profile
            /\ g.updatedAt = f.updatedAt
            /\ g.complete \in BOOLEAN
        BY <3>3, SignedFields
      <3>5. IsFloor(g)
        BY <3>3, <3>4 DEF IsFloor
      <3> QED
        BY <3>2, <3>5
    <2>4. ASSUME NEW c \in Calls, NEW tap, Opened(c, p, tap)
          PROVE  IsFloor(b2Floor'[p])
      <3>1. IsFloor(b2Floor[p]) /\ b2Floor'[p] = ChallengedFloor(b2Floor[p], tap, b2Now) /\ b2Now \in 0..MaxFloorTime
        BY <1>0, <2>4 DEF Opened, B2Shapes
      <3> QED
        BY <3>1, ChallengedFields DEF IsFloor
    <2> QED
      BY <2>0, <2>1, <2>2, <2>3, <2>4, FloorFate DEF Fate
  <1>3. /\ b2Now' \in -1..MaxFloorTime /\ b2Last' \in -1..MaxFloorTime /\ b2Asks' \in 0..MaxFloorAsks
    <2>1. /\ b2Last' \in {b2Last, Observed(b2Now, b2Last)}
          /\ \/ b2Now' \in -1..MaxFloorTime /\ b2Asks' \in 0..MaxFloorAsks
             \/ b2Now' = b2Now /\ b2Asks' \in 0..MaxFloorAsks
             \/ UNCHANGED <<b2Now, b2Asks>>
      <3>1. ASSUME NEW c \in Calls, B2Reserves(c) \/ B2Claims(c)
            PROVE  b2Last' = Observed(b2Now, b2Last) /\ UNCHANGED <<b2Now, b2Asks>>
        BY <3>1 DEF B2Reserves, B2Claims, B2Waits
      <3>2. ASSUME NEW c \in Calls, B2Refuses(c) \/ B2Answers(c) \/ B2Signs(c) \/ B2Challenges(c)
            PROVE  b2Last' \in {b2Last, Observed(b2Now, b2Last)} /\ UNCHANGED <<b2Now, b2Asks>>
        BY <3>2 DEF B2Refuses, B2Answers, B2Signs, B2Challenges, B2Ends
      <3>3. CASE B2Quiet
        BY <3>3 DEF B2Quiet
      <3> QED
        BY <1>0, <3>1, <3>2, <3>3, B2StepKinds, B2Queued
    <2> QED
      BY <1>0, <2>1 DEF Observed, B2Shapes
  <1>4. ASSUME NEW c \in Calls, NEW pc \in {"verifying", "signing"}, B2Waits(c, pc)
        PROVE  /\ b2Call' \in [Calls -> B2Calls] /\ b2Tail' \in [Floors -> Calls \cup {NoCall}]
               /\ b2Prev' \in [Calls -> Calls \cup {NoCall}] /\ b2Call[c].id \in Floors
    <2>1. UNCHANGED <<b2Tail, b2Prev>>
      BY <1>4 DEF B2Waits
    <2> QED
      BY <1>0, <1>4, <2>1, B2Waited DEF B2Shapes
  <1>5. CASE B2Quiet
    BY <1>0, <1>1, <1>2, <1>3, <1>5 DEF B2Quiet, B2Shapes
  <1>6. ASSUME NEW c \in Calls, NEW p \in Floors,
               NEW q \in FloorRequests \cup SignRequests \cup ChallengeRequests, B2Queues(c, p, q)
        PROVE  B2Shapes'
    <2>1. b2Tail' \in [Floors -> Calls \cup {NoCall}] /\ b2Prev' \in [Calls -> Calls \cup {NoCall}]
      <3>1. b2Tail' = JoinTail(b2Tail, p, c) /\ b2Prev' = JoinPrev(b2Prev, b2Tail, p, c)
        BY <1>0, <1>6, B2Queued
      <3> QED
        BY <1>0, <3>1 DEF JoinTail, JoinPrev, B2Shapes
    <2>2. b2Call' \in [Calls -> B2Calls] /\ b2Reserved' = b2Reserved /\ b2Claimed' = b2Claimed
      BY <1>0, <1>6, B2Queued
    <2> QED
      BY <1>0, <1>1, <1>2, <1>3, <2>1, <2>2 DEF B2Shapes
  <1>7. ASSUME NEW c \in Calls, B2Reserves(c)
        PROVE  B2Shapes'
    <2>1. /\ B2Waits(c, "verifying") /\ b2Reserved' = b2Reserved \cup {b2Call[c].id} /\ b2Claimed' = b2Claimed
      BY <1>7 DEF B2Reserves
    <2>2. b2Reserved' \subseteq Floors
      BY <1>0, <1>4, <2>1 DEF B2Shapes
    <2> QED
      BY <1>0, <1>1, <1>2, <1>3, <1>4, <2>1, <2>2 DEF B2Shapes
  <1>8. ASSUME NEW c \in Calls, B2Claims(c)
        PROVE  B2Shapes'
    <2>1. /\ B2Waits(c, "signing") /\ b2Reserved' = b2Reserved /\ b2Call[c].request.kind = "sign"
          /\ b2Claimed' = [b2Claimed EXCEPT ![b2Call[c].id] = @ \cup {b2Call[c].request.signer}]
      BY <1>8 DEF B2Claims
    <2>2. b2Call[c].request \in SignRequests
      <3>1. b2Call[c].request \in FloorRequests \cup SignRequests \cup ChallengeRequests
        BY <1>0, <2>1, B2Waited
      <3> QED
        BY <2>1, <3>1, BitVm2Assumption DEF ChallengeRequests
    <2>3. b2Claimed' \in [Floors -> SUBSET Signers]
      <3>1. b2Call[c].request.signer \in Signers
        BY <2>2 DEF SignRequests
      <3> QED
        BY <1>0, <2>1, <3>1 DEF B2Shapes
    <2> QED
      BY <1>0, <1>1, <1>2, <1>3, <1>4, <2>1, <2>3 DEF B2Shapes
  <1>9. ASSUME NEW c \in Calls, B2Ends(c), b2Reserved' \subseteq b2Reserved,
               b2Claimed' \in [Floors -> SUBSET Signers]
        PROVE  B2Shapes'
    BY <1>0, <1>1, <1>2, <1>3, <1>9, B2Ended DEF B2Shapes
  <1>10. ASSUME NEW c \in Calls, B2Refuses(c) \/ B2Answers(c) \/ B2Signs(c) \/ B2Challenges(c)
         PROVE  B2Shapes'
    <2>1. B2Ends(c) /\ b2Reserved' \subseteq b2Reserved
      BY <1>10 DEF B2Refuses, B2Answers, B2Signs, B2Challenges
    <2>2. b2Claimed' \in [Floors -> SUBSET Signers]
      BY <1>0, <1>10 DEF B2Refuses, B2Answers, B2Signs, B2Challenges, B2Shapes
    <2> QED
      BY <1>9, <2>1, <2>2
  <1> QED
    BY <1>5, <1>6, <1>7, <1>8, <1>10, B2StepKinds

(* The evidence.                                                            *)
LEMMA B2EvidenceKept ==
    ASSUME B2Safe, [B2Next]_b2Vars
    PROVE  B2EvidenceSound'
  <1>0. B2Shapes /\ B2Accepted /\ B2EvidenceSound /\ b2Verifier' = b2Verifier
    BY FloorFate DEF B2Safe
  <1> DEFINE Evidenced(f) ==
        /\ WellFormedRequest(f.request)
        /\ AuthorizedResult(f.result, f.request, b2Verifier)
        /\ f.profile = f.request.profile
        /\ UsableProfile(f.profile)
  <1>1. \A p \in Retained : Evidenced(b2Floor[p])
    BY <1>0 DEF B2EvidenceSound
  <1> SUFFICES ASSUME NEW p \in Retained' PROVE Evidenced(b2Floor'[p])
    BY <1>0 DEF B2EvidenceSound
  <1>2. p \in Floors /\ b2Floor'[p] # NoFloor
    BY DEF Retained
  <1>3. CASE b2Floor'[p] = b2Floor[p]
    BY <1>1, <1>2, <1>3 DEF Retained
  <1>4. ASSUME NEW c \in Calls, NEW judged, Created(c, p, judged)
        PROVE  Evidenced(b2Floor'[p])
    <2>1. /\ b2Call[c].pc = "verifying" /\ b2Floor'[p] = NewFloor(b2Call[c].request, judged, b2Call[c].at)
          /\ AuthorizedResult(judged, b2Call[c].request, b2Verifier)
      BY <1>4 DEF Created
    <2>2. WellFormedRequest(b2Call[c].request) /\ UsableProfile(b2Call[c].request.profile)
      BY <1>0, <2>1 DEF B2Accepted, B2Acceptable
    <2>3. PICK q, at, f : q = b2Call[c].request /\ at = b2Call[c].at /\ f = b2Floor'[p]
      OBVIOUS
    <2>4. f = NewFloor(q, judged, at)
      BY <2>1, <2>3
    <2>5. f.request = q /\ f.profile = q.profile /\ f.result = judged
      BY <2>4, NewFields
    <2>6. Evidenced(f)
      BY <2>1, <2>2, <2>3, <2>5
    <2> QED
      BY <2>3, <2>6
  <1>5. ASSUME NEW c \in Calls, NEW s, Added(c, p, s)
        PROVE  Evidenced(b2Floor'[p])
    <2>1. p \in Retained /\ b2Floor'[p] = SignedFloor(b2Floor[p], s)
      BY <1>5 DEF Added, Aggregates
    <2>2. PICK f, g : f = b2Floor[p] /\ g = b2Floor'[p]
      OBVIOUS
    <2>3. g = SignedFloor(f, s)
      BY <2>1, <2>2
    <2>4. g.request = f.request /\ g.profile = f.profile /\ g.result = f.result
      BY <2>3, SignedFields
    <2>5. Evidenced(f)
      BY <1>1, <2>1, <2>2
    <2>6. Evidenced(g)
      BY <2>4, <2>5
    <2> QED
      BY <2>2, <2>6
  <1>6. ASSUME NEW c \in Calls, NEW tap, Opened(c, p, tap)
        PROVE  Evidenced(b2Floor'[p])
    <2>1. p \in Retained /\ b2Floor'[p] = ChallengedFloor(b2Floor[p], tap, b2Now)
      BY <1>6 DEF Opened
    <2> QED
      BY <1>1, <2>1, ChallengedFields
  <1> QED
    BY <1>2, <1>3, <1>4, <1>5, <1>6, FloorFate DEF Fate

(* The signatures.                                                          *)
SignersOf(f) == {s.signer : s \in f.signatures}

WellSigned(p, f) ==
    /\ \A s, t \in f.signatures : s.signer = t.signer => s = t
    /\ \A s \in f.signatures :
         /\ s.signer \in f.profile.signers
         /\ s.attestation.proof = p /\ s.attestation.signer = s.signer
         /\ s.attestation.value = s.value /\ s.attestation.backend = f.result.backend
    /\ f.complete =>
         /\ f.profile.required > 0
         /\ Cardinality(SignersOf(f)) >= f.profile.required
    /\ f.profile.required > 0 /\ Cardinality(SignersOf(f)) >= f.profile.required => f.complete
    /\ f.challenges \subseteq 0..(f.profile.taps - 1)
    /\ (f.status = "challenged") <=> (f.challenges # {})

Counted(f) ==
    /\ IsFiniteSet(f.signatures) /\ IsFiniteSet(SignersOf(f))
    /\ Cardinality(f.signatures) = Cardinality(SignersOf(f))

(* A signature more, by another signer.                                       *)
LEMMA OneMoreSigner ==
    ASSUME NEW f, NEW p, NEW s, WellSigned(p, f), Counted(f), f.profile.required \in Nat, f.profile.required > 0,
           s.signer \in f.profile.signers, s.signer \notin SignersOf(f),
           s.attestation.proof = p, s.attestation.signer = s.signer,
           s.attestation.value = s.value, s.attestation.backend = f.result.backend,
           NEW g, g = SignedFloor(f, s)
    PROVE  WellSigned(p, g) /\ Counted(g)
  <1>1. /\ g.status = f.status /\ g.profile = f.profile /\ g.result = f.result
        /\ g.signatures = f.signatures \cup {s} /\ g.challenges = f.challenges
        /\ g.complete <=> Cardinality(g.signatures) >= f.profile.required
    BY SignedFields
  <1>2. s \notin f.signatures /\ SignersOf(g) = SignersOf(f) \cup {s.signer}
    BY <1>1 DEF SignersOf
  <1>3. /\ IsFiniteSet(g.signatures) /\ IsFiniteSet(SignersOf(g))
        /\ Cardinality(g.signatures) = Cardinality(f.signatures) + 1
        /\ Cardinality(SignersOf(g)) = Cardinality(SignersOf(f)) + 1
    <2>1. /\ IsFiniteSet(f.signatures \cup {s}) /\ IsFiniteSet(SignersOf(f) \cup {s.signer})
          /\ Cardinality(f.signatures \cup {s}) = Cardinality(f.signatures) + 1
          /\ Cardinality(SignersOf(f) \cup {s.signer}) = Cardinality(SignersOf(f)) + 1
      BY <1>2, FS_AddElement DEF Counted
    <2> QED
      BY <1>1, <1>2, <2>1
  <1>4. Counted(g)
    BY <1>3 DEF Counted
  <1>5. g.complete <=> Cardinality(SignersOf(g)) >= g.profile.required
    BY <1>1, <1>3 DEF Counted
  <1>6. \A t, u \in g.signatures : t.signer = u.signer => t = u
    BY <1>1 DEF WellSigned, SignersOf
  <1>7. \A t \in g.signatures :
         /\ t.signer \in g.profile.signers
         /\ t.attestation.proof = p /\ t.attestation.signer = t.signer
         /\ t.attestation.value = t.value /\ t.attestation.backend = g.result.backend
    BY <1>1 DEF WellSigned
  <1>8. /\ g.challenges \subseteq 0..(g.profile.taps - 1)
        /\ (g.status = "challenged") <=> (g.challenges # {})
    BY <1>1 DEF WellSigned
  <1> QED
    BY <1>1, <1>4, <1>5, <1>6, <1>7, <1>8 DEF WellSigned

LEMMA B2SignaturesKept ==
    ASSUME B2Safe, [B2Next]_b2Vars
    PROVE  B2SignaturesSound' /\ \A p \in Retained' : B2Counted(p)'
  <1>0. B2Shapes /\ \A p \in Retained : WellSigned(p, b2Floor[p]) /\ Counted(b2Floor[p])
    BY DEF B2Safe, B2SignaturesSound, B2Counted, WellSigned, Counted, SignedBy, SignersOf
  <1> SUFFICES ASSUME NEW p \in Retained' PROVE WellSigned(p, b2Floor'[p]) /\ Counted(b2Floor'[p])
    BY DEF B2SignaturesSound, B2Counted, WellSigned, Counted, SignedBy, SignersOf
  <1>1. p \in Floors /\ b2Floor'[p] # NoFloor
    BY DEF Retained
  <1>2. CASE b2Floor'[p] = b2Floor[p]
    BY <1>0, <1>1, <1>2 DEF Retained
  <1>3. ASSUME NEW c \in Calls, NEW judged, Created(c, p, judged)
        PROVE  WellSigned(p, b2Floor'[p]) /\ Counted(b2Floor'[p])
    <2> DEFINE f == b2Floor'[p]
    <2>1. /\ b2Call[c].pc = "verifying" /\ f = NewFloor(b2Call[c].request, judged, b2Call[c].at)
      BY <1>3 DEF Created
    <2>2. /\ f.profile = b2Call[c].request.profile /\ f.signatures = {} /\ ~f.complete
          /\ f.challenges = {} /\ f.status = "verified"
      <3> HIDE DEF f
      <3>1. PICK q, at : q = b2Call[c].request /\ at = b2Call[c].at
        OBVIOUS
      <3>2. f = NewFloor(q, judged, at)
        BY <2>1, <3>1
      <3> QED
        BY <3>1, <3>2, NewFields
    <2>3. f.profile.required \in Nat
      BY <2>1, <2>2, BitVm2Assumption DEF B2Safe, B2Accepted, B2Acceptable
    <2>4. SignersOf(f) = {}
      BY <2>2 DEF SignersOf
    <2> HIDE DEF f
    <2>5. Counted(f) /\ Cardinality(SignersOf(f)) = 0
      BY <2>2, <2>4, FS_EmptySet DEF Counted
    <2>6. WellSigned(p, f)
      BY <2>2, <2>3, <2>5 DEF WellSigned
    <2> QED
      BY <2>5, <2>6 DEF f
  <1>4. ASSUME NEW c \in Calls, NEW s, Added(c, p, s)
        PROVE  WellSigned(p, b2Floor'[p]) /\ Counted(b2Floor'[p])
    <2> DEFINE f == b2Floor[p]
    <2>1. /\ p \in Retained /\ f.profile.required > 0 /\ b2Floor'[p] = SignedFloor(f, s)
          /\ s.signer \in f.profile.signers /\ s.signer \notin SignersOf(f)
          /\ s.attestation.proof = p /\ s.attestation.signer = s.signer
          /\ s.attestation.value = s.value /\ s.attestation.backend = f.result.backend
      BY <1>4 DEF Added, Aggregates, SignedBy, SignersOf
    <2>2. f.profile.required \in Nat
      BY <1>0, <2>1 DEF B2Shapes, IsFloor
    <2>3. WellSigned(p, f) /\ Counted(f)
      BY <1>0, <2>1
    <2> HIDE DEF f
    <2> QED
      BY <2>1, <2>2, <2>3, OneMoreSigner
  <1>5. ASSUME NEW c \in Calls, NEW tap, Opened(c, p, tap)
        PROVE  WellSigned(p, b2Floor'[p]) /\ Counted(b2Floor'[p])
    <2> DEFINE f == b2Floor[p]  g == b2Floor'[p]
    <2>1. p \in Retained /\ g = ChallengedFloor(f, tap, b2Now) /\ tap \in 0..(f.profile.taps - 1)
      BY <1>5 DEF Opened
    <2>2. /\ g.status = "challenged" /\ g.profile = f.profile /\ g.result = f.result
          /\ g.signatures = f.signatures /\ g.complete = f.complete
          /\ g.challenges = f.challenges \cup {tap}
      BY <2>1, ChallengedFields
    <2>3. WellSigned(p, f) /\ Counted(f)
      BY <1>0, <2>1
    <2> HIDE DEF f, g
    <2>4. SignersOf(g) = SignersOf(f)
      BY <2>2 DEF SignersOf
    <2>5. WellSigned(p, g) /\ Counted(g)
      BY <2>1, <2>2, <2>3, <2>4 DEF WellSigned, Counted
    <2> QED
      BY <2>5 DEF g
  <1> QED
    BY <1>1, <1>2, <1>3, <1>4, <1>5, FloorFate DEF Fate

---------------------------------------------------------------------------
(* The reservations, call by call.                                            *)
B2Verifies(c, p) == b2Call[c].pc = "verifying" /\ b2Call[c].id = p

B2SignsFor(c, p, s) == b2Call[c].pc = "signing" /\ b2Call[c].id = p /\ b2Call[c].request.signer = s

B2Holds(p) ==
    /\ p \in b2Reserved <=> \E c \in Calls : B2Verifies(c, p)
    /\ \A s : s \in b2Claimed[p] <=> \E c \in Calls : B2SignsFor(c, p, s)

LEMMA B2Held ==
    ASSUME B2Shapes
    PROVE  B2ReservationsHeld <=> \A p \in Floors : B2Holds(p)
  <1>1. (b2Reserved = {p \in Floors : FloorCallsAt(p, "verifying") # {}})
          <=> \A p \in Floors : p \in b2Reserved <=> \E c \in Calls : B2Verifies(c, p)
    BY DEF B2Shapes, FloorCallsAt, FloorCallsOn, B2Verifies
  <1>2. ASSUME NEW p \in Floors
        PROVE  (b2Claimed[p] = {b2Call[c].request.signer : c \in FloorCallsAt(p, "signing")})
                 <=> \A s : s \in b2Claimed[p] <=> \E c \in Calls : B2SignsFor(c, p, s)
    BY DEF FloorCallsAt, FloorCallsOn, B2SignsFor
  <1> QED
    BY <1>1, <1>2 DEF B2ReservationsHeld, B2Holds

LEMMA B2ReservationsKept ==
    ASSUME B2Safe, [B2Next]_b2Vars
    PROVE  B2ReservationsHeld'
  <1>0. B2Shapes /\ B2Lines /\ \A p \in Floors : B2Holds(p)
    BY B2Held DEF B2Safe
  <1> SUFFICES ASSUME NEW p \in Floors PROVE B2Holds(p)'
    <2>1. B2Shapes'
      BY B2ShapesKept
    <2>2. ASSUME \A p \in Floors : B2Holds(p)'
          PROVE  /\ b2Reserved' = {p \in Floors : FloorCallsAt(p, "verifying")' # {}}
                 /\ \A p \in Floors :
                      b2Claimed'[p] = {b2Call'[c].request.signer : c \in FloorCallsAt(p, "signing")'}
      <3>1. b2Reserved' = {p \in Floors : FloorCallsAt(p, "verifying")' # {}}
        BY <2>1, <2>2 DEF B2Shapes, FloorCallsAt, FloorCallsOn, B2Verifies, B2Holds
      <3>2. ASSUME NEW p \in Floors
            PROVE  b2Claimed'[p] = {b2Call'[c].request.signer : c \in FloorCallsAt(p, "signing")'}
        BY <2>2 DEF FloorCallsAt, FloorCallsOn, B2SignsFor, B2Holds
      <3> QED
        BY <3>1, <3>2
    <2> QED
      BY <2>2 DEF B2ReservationsHeld
  <1>1. CASE UNCHANGED <<b2Call, b2Reserved, b2Claimed>>
    BY <1>0, <1>1 DEF B2Holds, B2Verifies, B2SignsFor
  <1>2. ASSUME NEW c \in Calls, \A d \in Calls \ {c} : b2Call'[d] = b2Call[d],
               b2Call[c].pc \in {"idle", "queued"}, b2Call'[c].pc \in {"idle", "queued"},
               UNCHANGED <<b2Reserved, b2Claimed>>
        PROVE  B2Holds(p)'
    BY <1>0, <1>2 DEF B2Holds, B2Verifies, B2SignsFor
  <1>3. ASSUME NEW c \in Calls, B2Reserves(c)
        PROVE  B2Holds(p)'
    <2>1. /\ B2Waits(c, "verifying") /\ b2Call[c].pc = "queued"
          /\ b2Reserved' = b2Reserved \cup {b2Call[c].id} /\ b2Claimed' = b2Claimed
      BY <1>3 DEF B2Reserves, B2Waits
    <2>2. /\ \A d \in Calls \ {c} : b2Call'[d] = b2Call[d]
          /\ b2Call'[c].pc = "verifying" /\ b2Call'[c].id = b2Call[c].id
      BY <1>0, <2>1, B2Waited
    <2> QED
      BY <1>0, <2>1, <2>2 DEF B2Holds, B2Verifies, B2SignsFor
  <1>4. ASSUME NEW c \in Calls, B2Claims(c)
        PROVE  B2Holds(p)'
    <2>1. /\ B2Waits(c, "signing") /\ b2Call[c].pc = "queued" /\ b2Reserved' = b2Reserved
          /\ b2Claimed' = [b2Claimed EXCEPT ![b2Call[c].id] = @ \cup {b2Call[c].request.signer}]
      BY <1>4 DEF B2Claims, B2Waits
    <2>2. /\ \A d \in Calls \ {c} : b2Call'[d] = b2Call[d]
          /\ b2Call[c].id \in Floors
          /\ b2Call'[c].pc = "signing" /\ b2Call'[c].id = b2Call[c].id
          /\ b2Call'[c].request = b2Call[c].request
      BY <1>0, <2>1, B2Waited
    <2>3. b2Claimed'[p] = IF p = b2Call[c].id THEN b2Claimed[p] \cup {b2Call[c].request.signer}
                                              ELSE b2Claimed[p]
      BY <1>0, <2>1 DEF B2Shapes
    <2>4. p \in b2Reserved' <=> \E d \in Calls : B2Verifies(d, p)'
      BY <1>0, <2>1, <2>2 DEF B2Holds, B2Verifies
    <2>5. ASSUME NEW s PROVE s \in b2Claimed'[p] <=> \E d \in Calls : B2SignsFor(d, p, s)'
      <3>1. B2SignsFor(c, p, s)' <=> p = b2Call[c].id /\ s = b2Call[c].request.signer
        BY <2>2 DEF B2SignsFor
      <3>2. \A d \in Calls \ {c} : B2SignsFor(d, p, s)' <=> B2SignsFor(d, p, s)
        BY <2>2 DEF B2SignsFor
      <3>3. ~B2SignsFor(c, p, s)
        BY <2>1 DEF B2SignsFor
      <3> QED
        BY <1>0, <2>3, <3>1, <3>2, <3>3 DEF B2Holds
    <2> QED
      BY <2>4, <2>5 DEF B2Holds
  <1>5. ASSUME NEW c \in Calls, B2Ends(c), b2Call[c].pc \notin {"queued"}
        PROVE  /\ \A d \in Calls \ {c} : b2Call'[d] = b2Call[d]
               /\ b2Call'[c].pc = "idle"
               /\ \A d \in Calls \ {c} : b2Call[d].pc \in {"verifying", "signing"} => b2Call[d].id # b2Call[c].id
    <2>1. b2Prev[c] = NoCall /\ b2Call[c].pc # "idle"
      BY <1>5 DEF B2Ends
    <2>2. ASSUME NEW d \in Calls \ {c}, b2Call[d].pc \in {"verifying", "signing"} PROVE b2Call[d].id # b2Call[c].id
      BY <1>0, <2>1, <2>2, B2OneIn DEF B2Lines
    <2> QED
      BY <1>0, <1>5, <2>2, B2Ended
  <1>6. ASSUME NEW c \in Calls, B2Answers(c)
        PROVE  B2Holds(p)'
    <2>1. /\ b2Call[c].pc = "verifying" /\ B2Ends(c)
          /\ b2Reserved' = b2Reserved \ {b2Call[c].id} /\ b2Claimed' = b2Claimed
      BY <1>6 DEF B2Answers
    <2>2. /\ \A d \in Calls \ {c} : b2Call'[d] = b2Call[d]
          /\ b2Call'[c].pc = "idle"
          /\ \A d \in Calls \ {c} : b2Call[d].pc \in {"verifying", "signing"} => b2Call[d].id # b2Call[c].id
      BY <1>5, <2>1
    <2>3. \A d \in Calls \ {c} : B2Verifies(d, p)' <=> B2Verifies(d, p)
      BY <2>2 DEF B2Verifies
    <2>4. ~B2Verifies(c, p)' /\ (B2Verifies(c, p) <=> p = b2Call[c].id)
      BY <2>1, <2>2 DEF B2Verifies
    <2>5. p = b2Call[c].id => \A d \in Calls \ {c} : ~B2Verifies(d, p)
      BY <2>2 DEF B2Verifies
    <2>6. p \in b2Reserved' <=> \E d \in Calls : B2Verifies(d, p)'
      BY <1>0, <2>1, <2>3, <2>4, <2>5 DEF B2Holds
    <2>7. \A s : s \in b2Claimed'[p] <=> \E d \in Calls : B2SignsFor(d, p, s)'
      BY <1>0, <2>1, <2>2 DEF B2Holds, B2SignsFor
    <2> QED
      BY <2>6, <2>7 DEF B2Holds
  <1>7. ASSUME NEW c \in Calls, B2Signs(c)
        PROVE  B2Holds(p)'
    <2>1. /\ b2Call[c].pc = "signing" /\ B2Ends(c) /\ b2Reserved' = b2Reserved
          /\ b2Claimed' = [b2Claimed EXCEPT ![b2Call[c].id] = @ \ {b2Call[c].request.signer}]
      BY <1>7 DEF B2Signs
    <2>2. /\ \A d \in Calls \ {c} : b2Call'[d] = b2Call[d]
          /\ b2Call'[c].pc = "idle"
          /\ \A d \in Calls \ {c} : b2Call[d].pc \in {"verifying", "signing"} => b2Call[d].id # b2Call[c].id
      BY <1>5, <2>1
    <2>3. b2Claimed'[p] = IF p = b2Call[c].id THEN b2Claimed[p] \ {b2Call[c].request.signer}
                                              ELSE b2Claimed[p]
      BY <1>0, <2>1 DEF B2Shapes
    <2>4. p \in b2Reserved' <=> \E d \in Calls : B2Verifies(d, p)'
      BY <1>0, <2>1, <2>2 DEF B2Holds, B2Verifies
    <2>5. ASSUME NEW s PROVE s \in b2Claimed'[p] <=> \E d \in Calls : B2SignsFor(d, p, s)'
      <3>1. ~B2SignsFor(c, p, s)'
        BY <2>2 DEF B2SignsFor
      <3>2. \A d \in Calls \ {c} : B2SignsFor(d, p, s)' <=> B2SignsFor(d, p, s)
        BY <2>2 DEF B2SignsFor
      <3>3. B2SignsFor(c, p, s) <=> p = b2Call[c].id /\ s = b2Call[c].request.signer
        BY <2>1 DEF B2SignsFor
      <3>4. p = b2Call[c].id => \A d \in Calls \ {c} : ~B2SignsFor(d, p, s)
        BY <2>2 DEF B2SignsFor
      <3> QED
        BY <1>0, <2>3, <3>1, <3>2, <3>3, <3>4 DEF B2Holds
    <2> QED
      BY <2>4, <2>5 DEF B2Holds
  <1>8. ASSUME NEW c \in Calls, B2Refuses(c) \/ B2Challenges(c)
        PROVE  B2Holds(p)'
    <2>1. b2Call[c].pc = "queued" /\ B2Ends(c) /\ UNCHANGED <<b2Reserved, b2Claimed>>
      BY <1>8 DEF B2Refuses, B2Challenges
    <2> QED
      BY <1>0, <1>2, <2>1, B2Ended
  <1>9. ASSUME NEW c \in Calls, NEW f \in Floors,
               NEW q \in FloorRequests \cup SignRequests \cup ChallengeRequests, B2Queues(c, f, q)
        PROVE  B2Holds(p)'
    BY <1>0, <1>2, <1>9, B2Queued
  <1> QED
    BY <1>1, <1>3, <1>4, <1>6, <1>7, <1>8, <1>9, B2StepKinds DEF B2Quiet

(* The limit.                                                               *)
LEMMA B2BoundedKept ==
    ASSUME B2Safe, [B2Next]_b2Vars
    PROVE  B2Bounded'
  <1>0. /\ IsFiniteSet(Retained) /\ IsFiniteSet(b2Reserved) /\ IsFiniteSet(Retained \cup b2Reserved)
        /\ Cardinality(Retained \cup b2Reserved) <= MaxFloors /\ MaxFloors \in Nat
        /\ Retained \cap b2Reserved = {} /\ B2Shapes
    BY BitVm2Assumption, FS_Union DEF B2Safe, B2Bounded, B2CapacityHeld
  <1>1. ASSUME Retained' \cup b2Reserved' \subseteq Retained \cup b2Reserved, Retained' \cap b2Reserved' = {}
        PROVE  B2Bounded'
    BY <1>0, <1>1, Fewer, FS_Subset DEF B2Bounded, B2CapacityHeld
  <1>2. ASSUME b2Floor' = b2Floor
        PROVE  Retained' = Retained
    BY <1>2 DEF Retained
  <1>3. ASSUME NEW c \in Calls, B2Reserves(c)
        PROVE  B2Bounded'
    <2>1. /\ b2Call[c].id \notin Retained /\ Cardinality(Retained) + Cardinality(b2Reserved) < MaxFloors
          /\ b2Reserved' = b2Reserved \cup {b2Call[c].id} /\ Retained' = Retained
      BY <1>2, <1>3 DEF B2Reserves, B2Waits
    <2>2. IsFiniteSet(b2Reserved') /\ Cardinality(b2Reserved') \in {Cardinality(b2Reserved), Cardinality(b2Reserved) + 1}
      BY <1>0, <2>1, FS_AddElement
    <2>3. Cardinality(Retained) \in Nat /\ Cardinality(b2Reserved) \in Nat
      BY <1>0, FS_CardinalityType
    <2>4. Cardinality(Retained') + Cardinality(b2Reserved') <= MaxFloors
      BY <1>0, <2>1, <2>2, <2>3
    <2>5. Cardinality(Retained' \cup b2Reserved') <= MaxFloors
      BY <1>0, <2>1, <2>2, <2>4, Together
    <2> QED
      BY <1>0, <2>1, <2>2, <2>5 DEF B2Bounded, B2CapacityHeld
  <1>4. ASSUME NEW c \in Calls, B2Answers(c)
        PROVE  B2Bounded'
    <2>1. b2Call[c].pc = "verifying" /\ b2Reserved' = b2Reserved \ {b2Call[c].id}
      BY <1>4 DEF B2Answers
    <2>2. b2Call[c].id \in b2Reserved
      BY <2>1, VerifyingReserved
    <2>3. Retained' \subseteq Retained \cup {b2Call[c].id}
      <3>1. \A p \in Floors \ {b2Call[c].id} : b2Floor'[p] = b2Floor[p]
        BY <1>0, <1>4 DEF B2Answers, B2Shapes
      <3> QED
        BY <3>1 DEF Retained
    <2> QED
      BY <1>0, <1>1, <2>1, <2>2, <2>3
  <1>5. ASSUME NEW c \in Calls, B2Signs(c) \/ B2Challenges(c)
        PROVE  B2Bounded'
    <2>1. b2Reserved' = b2Reserved /\ b2Call[c].pc # "verifying" /\ b2Call[c].pc # "idle" /\ b2Prev[c] = NoCall
      BY <1>5 DEF B2Signs, B2Challenges, B2Ends
    <2>2. \A p \in Floors \ {b2Call[c].id} : b2Floor'[p] = b2Floor[p]
      BY <1>0, <1>5 DEF B2Signs, B2Challenges, B2Shapes
    <2>3. b2Call[c].id \in Retained' => b2Call[c].id \in Retained
      <3>1. CASE B2Challenges(c)
        BY <3>1 DEF B2Challenges
      <3>2. CASE B2Signs(c)
        BY <3>2 DEF B2Signs, B2Safe, B2MaySign, Aggregates
      <3> QED
        BY <1>5, <3>1, <3>2
    <2>4. Retained' \subseteq Retained
      BY <2>2, <2>3 DEF Retained
    <2> QED
      BY <1>0, <1>1, <2>1, <2>4
  <1>6. CASE b2Floor' = b2Floor /\ b2Reserved' = b2Reserved
    BY <1>0, <1>1, <1>2, <1>6
  <1> QED
    BY <1>0, <1>3, <1>4, <1>5, <1>6, B2StepKinds, B2Queued DEF B2Quiet, B2Claims, B2Waits, B2Refuses

(* A signer who is with the signature verifier stays one who may sign.          *)
LEMMA B2MaySignKept ==
    ASSUME B2Safe, [B2Next]_b2Vars
    PROVE  \A d \in Calls : B2MaySign(d)'
  <1>0. B2Shapes /\ B2Lines /\ \A d \in Calls : B2MaySign(d)
    BY DEF B2Safe
  <1> SUFFICES ASSUME NEW d \in Calls PROVE B2MaySign(d)'
    OBVIOUS
  <1>1. ASSUME b2Call'[d] = b2Call[d],
               b2Call[d].pc = "signing" => b2Floor'[b2Call[d].id] = b2Floor[b2Call[d].id]
        PROVE  B2MaySign(d)'
    BY <1>0, <1>1 DEF B2MaySign, Aggregates, Retained, SignedBy
  <1>2. ASSUME b2Call'[d].pc # "signing" PROVE B2MaySign(d)'
    BY <1>2 DEF B2MaySign
  <1>3. CASE UNCHANGED <<b2Floor, b2Call>>
    BY <1>1, <1>3
  <1>4. ASSUME NEW c \in Calls, B2Reserves(c)
        PROVE  B2MaySign(d)'
    <2>1. B2Waits(c, "verifying") /\ b2Floor' = b2Floor
      BY <1>4 DEF B2Reserves, B2Waits
    <2> QED
      BY <1>0, <1>1, <1>2, <2>1, B2Waited
  <1>5. ASSUME NEW c \in Calls, B2Claims(c)
        PROVE  B2MaySign(d)'
    <2>1. /\ B2Waits(c, "signing") /\ b2Floor' = b2Floor /\ Aggregates(b2Call[c].id)
          /\ b2Call[c].request.signer \in b2Floor[b2Call[c].id].profile.signers
          /\ b2Call[c].request.signer \notin SignedBy(b2Call[c].id)
      BY <1>5 DEF B2Claims, B2Waits
    <2>2. CASE d # c
      BY <1>0, <1>1, <2>1, <2>2, B2Waited
    <2>3. CASE d = c
      <3>1. b2Call'[d].id = b2Call[c].id /\ b2Call'[d].request = b2Call[c].request
        BY <1>0, <2>1, <2>3, B2Waited
      <3> QED
        BY <2>1, <3>1 DEF B2MaySign, Aggregates, Retained, SignedBy
    <2> QED
      BY <2>2, <2>3
  <1>6. ASSUME NEW c \in Calls, B2Ends(c), \A p \in Floors \ {b2Call[c].id} : b2Floor'[p] = b2Floor[p]
        PROVE  B2MaySign(d)'
    <2>1. CASE d = c
      BY <1>0, <1>2, <1>6, <2>1, B2Ended
    <2>2. CASE d # c
      <3>1. b2Prev[c] = NoCall /\ b2Call[c].pc # "idle" /\ b2Call'[d] = b2Call[d]
        BY <1>0, <1>6, <2>2, B2Ended DEF B2Ends
      <3>2. b2Call[d].pc = "signing" => b2Call[d].id \in Floors \ {b2Call[c].id}
        BY <1>0, <2>2, <3>1, B2OneIn, FloorCallKinds DEF B2Lines
      <3> QED
        BY <1>1, <1>6, <3>1, <3>2
    <2> QED
      BY <2>1, <2>2
  <1>7. ASSUME NEW c \in Calls, B2Refuses(c) \/ B2Answers(c) \/ B2Signs(c) \/ B2Challenges(c)
        PROVE  B2MaySign(d)'
    <2>1. B2Ends(c)
      BY <1>7 DEF B2Refuses, B2Answers, B2Signs, B2Challenges
    <2>2. \A p \in Floors \ {b2Call[c].id} : b2Floor'[p] = b2Floor[p]
      BY <1>0, <1>7 DEF B2Refuses, B2Answers, B2Signs, B2Challenges, B2Shapes
    <2> QED
      BY <1>6, <2>1, <2>2
  <1>8. ASSUME NEW c \in Calls, NEW p \in Floors,
               NEW q \in FloorRequests \cup SignRequests \cup ChallengeRequests, B2Queues(c, p, q)
        PROVE  B2MaySign(d)'
    BY <1>0, <1>1, <1>2, <1>8, B2Queued
  <1> QED
    BY <1>3, <1>4, <1>5, <1>7, <1>8, B2StepKinds DEF B2Quiet

---------------------------------------------------------------------------
(* The invariant holds in the initial states and is kept by every step.       *)
LEMMA B2InitSafe ==
    ASSUME B2Init
    PROVE  B2Safe
  <1> USE DEF B2Init
  <1>0. Retained = {} /\ \A c \in Calls : b2Call[c].pc = "idle"
    BY DEF Retained, IdleFloorCall
  <1>1. B2Shapes
    <2>1. PICK wiring \in Wirings : b2Verifier = wiring[1] /\ b2Signing = wiring[2]
      OBVIOUS
    <2>2. {b2Verifier, b2Signing} \subseteq Backends \cup {NoIdentity}
      BY <2>1, ContractAssumption
    <2>3. b2Now \in -1..MaxFloorTime /\ b2Last \in -1..MaxFloorTime /\ b2Asks \in 0..MaxFloorAsks
      BY BitVm2Assumption
    <2>4. b2Call \in [Calls -> B2Calls]
      BY DEF B2Calls
    <2> QED
      BY <1>0, <2>2, <2>3, <2>4 DEF B2Shapes
  <1>2. B2Lines
    <2>1. Callers(b2Call, Floors) = [p \in Floors |-> {}]
      BY <1>0 DEF Callers
    <2>2. Lined([p \in Floors |-> NoCall], [c \in Calls |-> NoCall], [p \in Floors |-> {}])
      BY NobodyLined
    <2> QED
      BY <2>1, <2>2 DEF B2Lines
  <1>3. B2Accepted /\ B2EvidenceSound /\ B2SignaturesSound /\ \A p \in Retained : B2Counted(p)
    BY <1>0 DEF B2Accepted, B2EvidenceSound, B2SignaturesSound
  <1>4. \A c \in Calls : B2MaySign(c)
    BY <1>0 DEF B2MaySign
  <1>5. B2ReservationsHeld
    BY <1>0, <1>1, B2Held DEF B2Holds, B2Verifies, B2SignsFor
  <1>6. B2Bounded
    <2>1. Retained \cup b2Reserved = {}
      BY <1>0
    <2> QED
      BY <1>0, <2>1, FS_EmptySet, BitVm2Assumption DEF B2Bounded, B2CapacityHeld
  <1> QED
    BY <1>1, <1>2, <1>3, <1>4, <1>5, <1>6 DEF B2Safe

LEMMA B2NextSafe ==
    ASSUME B2Safe, [B2Next]_b2Vars
    PROVE  B2Safe'
  BY B2ShapesKept, B2AcceptedKept, B2LinesKept, B2ReservationsKept, B2BoundedKept, B2EvidenceKept,
     B2SignaturesKept, B2MaySignKept
     DEF B2Safe

(* What the invariant implies of the properties of the bridge.                *)
LEMMA B2SafeImplies ==
    ASSUME B2Safe
    PROVE  /\ B2TypeOK /\ B2LineSound /\ B2CapacityHeld /\ B2ReservationsHeld
           /\ B2EvidenceSound /\ B2SignaturesSound
  <1>1. B2TypeOK
    <2>1. \A c \in Calls :
            b2Call[c] # IdleFloorCall =>
              b2Call[c].pc \in {"queued", "verifying", "signing"} /\ b2Call[c].id \in Floors
      BY DEF B2Safe, B2Shapes, B2Calls, B2Asking, B2Waiting
    <2> QED
      BY <2>1 DEF B2TypeOK, B2Safe, B2Shapes, IsFloor
  <1>2. B2LineSound
    <2> DEFINE in == [p \in Floors |-> FloorCallsOn(p)]
               inside == [p \in Floors |-> FloorCallsOn(p) \ FloorCallsAt(p, "queued")]
    <2>1. Lined(b2Tail, b2Prev, in) /\ DOMAIN b2Tail = Floors
      BY DEF B2Safe, B2Lines, B2Shapes, Callers, FloorCallsOn
    <2>2. \A p \in Floors : inside[p] \subseteq {c \in in[p] : b2Prev[c] = NoCall}
      BY DEF B2Safe, B2Lines, FloorCallsAt, FloorCallsOn
    <2> HIDE DEF in, inside
    <2>3. LineSound(b2Tail, b2Prev, in, inside)
      BY <2>1, <2>2, LinedSound
    <2> QED
      BY <2>3 DEF B2LineSound, in, inside
  <1> QED
    BY <1>1, <1>2 DEF B2Safe, B2Bounded

(* Nothing is taken from a floor.                                            *)
LEMMA B2Evicts ==
    ASSUME B2Safe, [B2Next]_b2Vars
    PROVE  B2EvictionSafe
  <1> DEFINE Keeps(f, g) ==
        /\ g # NoFloor /\ g.request = f.request
        /\ f.signatures \subseteq g.signatures /\ f.challenges \subseteq g.challenges
        /\ f.complete => g.complete
  <1> SUFFICES ASSUME NEW p \in Retained PROVE Keeps(b2Floor[p], b2Floor'[p])
    BY DEF B2EvictionSafe
  <1>0. PICK f, g : f = b2Floor[p] /\ g = b2Floor'[p]
    OBVIOUS
  <1>1. p \in Floors /\ f # NoFloor
    BY <1>0 DEF Retained
  <1>2. CASE g = f
    BY <1>0, <1>1, <1>2
  <1>3. ASSUME NEW c \in Calls, NEW judged, Created(c, p, judged)
        PROVE  FALSE
    BY <1>3 DEF Created
  <1>4. ASSUME NEW c \in Calls, NEW s, Added(c, p, s)
        PROVE  Keeps(f, g)
    <2>1. g = SignedFloor(f, s)
      BY <1>0, <1>4 DEF Added
    <2>2. /\ g # NoFloor /\ g.request = f.request /\ g.signatures = f.signatures \cup {s}
          /\ g.complete <=> Cardinality(g.signatures) >= f.profile.required
          /\ g.challenges = f.challenges
      BY <2>1, SignedFields
    <2>3. f.complete => g.complete
      <3>1. /\ Counted(f) /\ f.profile.required \in Nat
            /\ f.complete => Cardinality(f.signatures) >= f.profile.required
        BY <1>0 DEF B2Safe, B2Shapes, IsFloor, B2SignaturesSound, B2Counted, Counted, SignedBy, SignersOf
      <3>2. Cardinality(g.signatures) \in {Cardinality(f.signatures), Cardinality(f.signatures) + 1}
        <4>1. IsFiniteSet(f.signatures)
          BY <3>1 DEF Counted
        <4>2. Cardinality(f.signatures \cup {s}) \in {Cardinality(f.signatures), Cardinality(f.signatures) + 1}
          BY <4>1, FS_AddElement
        <4> QED
          BY <2>2, <4>2
      <3>3. Cardinality(f.signatures) \in Nat
        BY <3>1, FS_CardinalityType DEF Counted
      <3> QED
        BY <2>2, <3>1, <3>2, <3>3
    <2> QED
      BY <2>2, <2>3
  <1>5. ASSUME NEW c \in Calls, NEW tap, Opened(c, p, tap)
        PROVE  Keeps(f, g)
    <2>1. g = ChallengedFloor(f, tap, b2Now)
      BY <1>0, <1>5 DEF Opened
    <2> QED
      BY <2>1, ChallengedFields
  <1> HIDE DEF Keeps
  <1> QED
    BY <1>0, <1>1, <1>2, <1>3, <1>4, <1>5, FloorFate DEF Fate

---------------------------------------------------------------------------
(* BitVM3: the retained proofs.                                             *)

B3Asking == [pc : {"queued", "verifying"}, id : Proofs, request : ProofRequests]

B3Answered ==
    [pc : {"releasing", "leaving"}, id : Proofs, request : ProofRequests, verified : BOOLEAN]

B3Shapes ==
    /\ b3Now \in -1..MaxProofTime /\ b3Last \in -1..MaxProofTime
    /\ b3Verifier \in Backends \cup {NoIdentity}
    /\ b3State = [p \in Proofs |-> b3State[p]]
    /\ b3Tomb = [p \in Proofs |-> b3Tomb[p]]
    /\ b3Bound = [p \in Proofs |-> b3Bound[p]]
    /\ \A p \in KeptProofs : b3State[p].at \in 0..MaxProofTime /\ b3State[p].backend \in Backends
    /\ \A p \in Tombs : b3Tomb[p].at \in 0..MaxProofTime /\ b3Tomb[p].expiresAt \in Nat
    /\ b3Reserved \subseteq Proofs
    /\ b3Call \in [Calls -> {IdleProofCall} \cup B3Asking \cup B3Answered]
    /\ b3Tail \in [Proofs -> Calls \cup {NoCall}]
    /\ b3Prev \in [Calls -> Calls \cup {NoCall}]
    /\ b3Asks \in 0..MaxProofAsks

(* Every call under way has an acceptable request; one that gives its place    *)
(* back has been refused.                                                    *)
B3Accepted ==
    \A c \in Calls :
        /\ b3Call[c].pc # "idle" =>
             WellFormedRequest(b3Call[c].request) /\ b3Call[c].request.height \in 0..MaxHeight
        /\ b3Call[c].pc = "releasing" => ~b3Call[c].verified

B3Lines ==
    /\ Lined(b3Tail, b3Prev, Callers(b3Call, Proofs))
    /\ \A c \in Calls : b3Call[c].pc \notin {"idle", "queued"} => b3Prev[c] = NoCall

B3Bounded ==
    /\ IsFiniteSet(KeptProofs) /\ IsFiniteSet(b3Reserved) /\ IsFiniteSet(Tombs)
    /\ B3CapacityHeld

(* What is known of the request an identifier was last given to: it is that of *)
(* the retained proof, or of its tombstone, or both retentions have passed.    *)
B3Remembered ==
    \A p \in Proofs :
        /\ b3Bound[p] = Absent => p \notin KeptProofs /\ p \notin Tombs
        /\ b3Bound[p] # Absent =>
             /\ b3Bound[p].at \in 0..MaxProofTime
             /\ p \in KeptProofs => b3State[p].at = b3Bound[p].at /\ b3State[p].digest = b3Bound[p].digest
             /\ p \in Tombs => /\ b3Tomb[p].digest = b3Bound[p].digest
                               /\ b3Tomb[p].expiresAt >= b3Bound[p].at + ProofTtl + TombstoneTtl
             /\ p \notin KeptProofs \cup Tombs => b3Last >= b3Bound[p].at + ProofTtl + TombstoneTtl

(* A request that is with the backend is the one the identifier was last given *)
(* to, or may be given it.                                                   *)
B3MayBind ==
    \A c \in Calls :
        b3Call[c].pc = "verifying" =>
            LET p == b3Call[c].id
            IN  \/ b3Bound[p] = Absent
                \/ b3Bound[p].digest = b3Call[c].request.digest
                \/ b3Last >= b3Bound[p].at + ProofTtl + TombstoneTtl

B3Safe ==
    /\ B3Shapes
    /\ B3Accepted
    /\ B3Lines
    /\ B3ReservationsHeld
    /\ B3Bounded
    /\ B3EvidenceSound
    /\ B3Remembered
    /\ B3MayBind

---------------------------------------------------------------------------
(* The kinds of steps.  A call moves on, keeping its place at the head;       *)
B3Moves(c, pc, verified) ==
    /\ b3Call[c].pc # "idle" /\ b3Prev[c] = NoCall
    /\ b3Call' = [b3Call EXCEPT ![c] = b3Call'[c]]
    /\ b3Call'[c].pc = pc /\ b3Call'[c].id = b3Call[c].id /\ b3Call'[c].request = b3Call[c].request
    /\ pc # "verifying" => b3Call'[c].verified = verified
    /\ b3Call'[c] \in B3Asking \cup B3Answered
    /\ UNCHANGED <<b3Now, b3Verifier, b3Tail, b3Prev, b3Asks>>

(* what is retained is swept:                                                *)
B3SweptOf(buried) ==
    /\ buried \in Buriable
    /\ b3State' = StateAfter(buried) /\ b3Tomb' = TombAfter(buried)
    /\ b3Last' = Observed(b3Now, b3Last)
    /\ UNCHANGED <<b3Now, b3Verifier, b3Bound>>

B3Reserves(c) ==
    LET p == b3Call[c].id
    IN  /\ b3Call[c].pc = "queued" /\ B3Moves(c, "verifying", FALSE)
        /\ \E buried : B3SweptOf(buried)
        /\ p \notin KeptProofs'
        /\ p \in Tombs' => b3Tomb'[p].digest = b3Call[c].request.digest
        /\ Cardinality(KeptProofs') + Cardinality(b3Reserved) < MaxRetained
        /\ b3Reserved' = b3Reserved \cup {p}

B3Replies(c) ==
    \E verified \in BOOLEAN :
        /\ b3Call[c].pc = "queued" /\ B3Moves(c, "leaving", verified)
        /\ \E buried : B3SweptOf(buried)
        /\ verified => b3Call[c].id \in KeptProofs' /\ SameRequest(b3State'[b3Call[c].id], b3Call[c].request)
        /\ b3Reserved' = b3Reserved

B3Commits(c) ==
    LET p == b3Call[c].id
        q == b3Call[c].request
    IN  /\ b3Call[c].pc = "verifying" /\ B3Moves(c, "leaving", TRUE)
        /\ ClockAccepted(b3Now, b3Last) /\ b3Last' = b3Now
        /\ p \in b3Reserved /\ p \notin KeptProofs
        /\ \E judged :
             /\ AuthorizedResult(judged, q, b3Verifier)
             /\ b3State' = [b3State EXCEPT ![p] = [at |-> b3Now, digest |-> q.digest, height |-> q.height,
                                                  backend |-> b3Verifier, result |-> judged]]
        /\ b3Tomb' = [b3Tomb EXCEPT ![p] = Absent]
        /\ b3Reserved' = b3Reserved \ {p}
        /\ b3Bound' = [b3Bound EXCEPT ![p] = [at |-> b3Now, digest |-> q.digest]]

B3Refuses(c) ==
    /\ b3Call[c].pc = "verifying" /\ B3Moves(c, "releasing", FALSE)
    /\ b3Last' \in {b3Last, Observed(b3Now, b3Last)}
    /\ UNCHANGED <<b3State, b3Tomb, b3Reserved, b3Bound>>

B3Releases(c) ==
    /\ b3Call[c].pc = "releasing" /\ B3Moves(c, "leaving", FALSE)
    /\ b3Reserved' = b3Reserved \ {b3Call[c].id}
    /\ UNCHANGED <<b3Last, b3State, b3Tomb, b3Bound>>

B3Quiet == b3Now' \in -1..MaxProofTime /\ UNCHANGED <<b3Last, b3Verifier, b3State, b3Tomb, b3Reserved, b3Tail,
                                                    b3Prev, b3Call, b3Bound>> /\ b3Asks' \in 0..MaxProofAsks

B3Asks(c, p, q) == AskProof(c, p, q) /\ ProofRequestVerdict(q) = "ok"

---------------------------------------------------------------------------
LEMMA ProofRequestOk ==
    ASSUME NEW q \in ProofRequests, ProofRequestVerdict(q) = "ok"
    PROVE  WellFormedRequest(q) /\ q.height \in 0..MaxHeight
  <1> DEFINE checks == <<
        <<q.height < 0, "malformed_request">>,
        <<q.height > MaxHeight, "resource_limit_exceeded">>,
        <<ValidateVerifierRequest(q) # "ok", ValidateVerifierRequest(q)>>,
        <<~IsBackendIdentity(b3Verifier), "backend_mismatch">>,
        <<b3Verifier # Unavailable /\ q.backend # b3Verifier, "backend_mismatch">> >>
  <1>1. DOMAIN checks = 1..5
    OBVIOUS
  <1>2. \A k \in 1..5 : checks[k][1] => checks[k][2] # "ok"
    <2>1. \A k \in {1, 2, 4, 5} : checks[k][2] # "ok"
      OBVIOUS
    <2>2. checks[3][1] => checks[3][2] # "ok"
      OBVIOUS
    <2> HIDE DEF checks
    <2> QED
      BY <2>1, <2>2
  <1>3. FirstFailure(checks) = "ok"
    BY DEF ProofRequestVerdict, Unless
  <1>4. ~checks[1][1] /\ ~checks[2][1] /\ ~checks[3][1]
    <2> HIDE DEF checks
    <2>1. \A k \in 1..5 : ~checks[k][1]
      BY <1>1, <1>2, <1>3, FirstFailureOk
    <2> QED
      BY <2>1
  <1>5. ValidateVerifierRequest(q) = "ok" /\ ~(q.height < 0) /\ ~(q.height > MaxHeight)
    BY <1>4
  <1>6. RequestShape(q) /\ q.height \in Int /\ MaxHeight \in Nat
    BY BitVm3Assumption
  <1> QED
    BY <1>5, <1>6, ValidateOk

LEMMA ProofCallKinds ==
    ASSUME B3Shapes, NEW c \in Calls
    PROVE  /\ b3Call[c].pc = "idle" <=> b3Call[c] = IdleProofCall
           /\ b3Call[c].pc \in {"queued", "verifying"} <=> b3Call[c] \in B3Asking
           /\ b3Call[c].pc \in {"releasing", "leaving"} <=> b3Call[c] \in B3Answered
           /\ b3Call[c].pc # "idle" => b3Call[c].id \in Proofs /\ b3Call[c].request \in ProofRequests
  BY DEF B3Shapes, IdleProofCall, B3Asking, B3Answered

LEMMA PrepareKind ==
    ASSUME B3Safe, NEW c \in Calls, PrepareRetention(c)
    PROVE  B3Reserves(c) \/ B3Replies(c)
  <1> DEFINE p == b3Call[c].id
             q == b3Call[c].request
  <1>1. b3Call[c] \in B3Asking /\ b3Call[c].pc = "queued" /\ b3Prev[c] = NoCall /\ p \in Proofs /\ q \in ProofRequests
    BY ProofCallKinds DEF PrepareRetention, MayEnter, B3Safe, B3Asking
  <1>2. PICK buried \in Buriable :
             LET state == StateAfter(buried)
                 tomb == TombAfter(buried)
                 full == \/ tomb[p] = Absent
                            /\ Cardinality({x \in Proofs : tomb[x] # Absent}) >= MaxTombstones
                         \/ Cardinality({x \in Proofs : state[x] # Absent}) + Cardinality(b3Reserved)
                              >= MaxRetained
                 reserve == /\ ClockAccepted(b3Now, b3Last)
                            /\ state[p] = Absent
                            /\ tomb[p] # Absent => SameRequest(tomb[p], q)
                            /\ ~full
                 replay == ClockAccepted(b3Now, b3Last) /\ state[p] # Absent /\ SameRequest(state[p], q)
             IN  /\ b3State' = state
                 /\ b3Tomb' = tomb
                 /\ b3Reserved' = IF reserve THEN b3Reserved \cup {p} ELSE b3Reserved
                 /\ IF reserve THEN b3Call' = [b3Call EXCEPT ![c].pc = "verifying"]
                               ELSE AnswerProof(c, "leaving", replay)
    BY DEF PrepareRetention
  <1>3. B3SweptOf(buried) /\ UNCHANGED <<b3Now, b3Verifier, b3Tail, b3Prev, b3Asks>>
    BY <1>2 DEF PrepareRetention, B3SweptOf
  <1> DEFINE full == \/ b3Tomb'[p] = Absent /\ Cardinality(Tombs') >= MaxTombstones
                     \/ Cardinality(KeptProofs') + Cardinality(b3Reserved) >= MaxRetained
             reserve == /\ ClockAccepted(b3Now, b3Last)
                        /\ b3State'[p] = Absent
                        /\ b3Tomb'[p] # Absent => SameRequest(b3Tomb'[p], q)
                        /\ ~full
             replay == ClockAccepted(b3Now, b3Last) /\ b3State'[p] # Absent /\ SameRequest(b3State'[p], q)
  <1>4. /\ b3Reserved' = IF reserve THEN b3Reserved \cup {p} ELSE b3Reserved
        /\ IF reserve THEN b3Call' = [b3Call EXCEPT ![c].pc = "verifying"]
                      ELSE AnswerProof(c, "leaving", replay)
    BY <1>2 DEF Tombs, KeptProofs
  <1>5. CASE reserve
    <2> DEFINE new == [b3Call[c] EXCEPT !.pc = "verifying"]
    <2>1. b3Call' = [b3Call EXCEPT ![c] = new]
      BY <1>4, <1>5
    <2>2. new \in B3Asking /\ new.pc = "verifying" /\ new.id = p /\ new.request = q
      BY <1>1 DEF B3Asking
    <2> HIDE DEF new
    <2>3. b3Call'[c] = new
      BY <2>1 DEF B3Safe, B3Shapes
    <2>4. B3Moves(c, "verifying", FALSE)
      BY <1>1, <1>3, <2>1, <2>2, <2>3 DEF B3Moves
    <2>5. p \notin KeptProofs' /\ (p \in Tombs' => b3Tomb'[p].digest = q.digest)
      BY <1>5 DEF KeptProofs, Tombs, SameRequest
    <2>6. Cardinality(KeptProofs') + Cardinality(b3Reserved) < MaxRetained
      <3>1. Cardinality(KeptProofs') \in Nat /\ Cardinality(b3Reserved) \in Nat
        <4>1. KeptProofs' \subseteq KeptProofs
          BY <1>2 DEF StateAfter, KeptProofs
        <4> QED
          BY <4>1, FS_Subset, FS_CardinalityType DEF B3Safe, B3Bounded
      <3>2. ~(Cardinality(KeptProofs') + Cardinality(b3Reserved) >= MaxRetained)
        BY <1>5
      <3> QED
        BY <3>1, <3>2, BitVm3Assumption
    <2>7. b3Reserved' = b3Reserved \cup {p}
      BY <1>4, <1>5
    <2> QED
      BY <1>1, <1>3, <2>4, <2>5, <2>6, <2>7 DEF B3Reserves
  <1>6. CASE ~reserve
    <2> DEFINE new == [pc |-> "leaving", id |-> p, request |-> q, verified |-> replay]
    <2>1. b3Call' = [b3Call EXCEPT ![c] = new]
      BY <1>4, <1>6 DEF AnswerProof
    <2>2. replay \in BOOLEAN
      OBVIOUS
    <2>3. replay => p \in KeptProofs' /\ SameRequest(b3State'[p], q)
      BY <1>1 DEF KeptProofs
    <2>4. b3Reserved' = b3Reserved
      BY <1>4, <1>6
    <2> HIDE DEF replay, reserve
    <2>5. new \in B3Answered /\ new.pc = "leaving" /\ new.id = p /\ new.request = q /\ new.verified = replay
      BY <1>1, <2>2 DEF B3Answered
    <2> HIDE DEF new
    <2>6. b3Call'[c] = new
      BY <2>1 DEF B3Safe, B3Shapes
    <2>7. B3Moves(c, "leaving", replay)
      BY <1>1, <1>3, <2>1, <2>5, <2>6 DEF B3Moves
    <2> QED
      BY <1>1, <1>3, <2>2, <2>3, <2>4, <2>7 DEF B3Replies
  <1> QED
    BY <1>5, <1>6

LEMMA AnsweredKind ==
    ASSUME B3Safe, NEW c \in Calls, NEW r \in ProofResults, ProofAnswered(c, r)
    PROVE  B3Commits(c) \/ B3Refuses(c)
  <1> DEFINE p == b3Call[c].id
             q == b3Call[c].request
             judged == IF r.form = "thrown" THEN Failure("internal_error", q, b3Verifier)
                       ELSE Judge(r, q, b3Verifier)
             current == p \in b3Reserved /\ b3State[p] = Absent
             verified == IsProductionVerified(judged, b3Verifier)
             accepted == verified /\ current /\ ClockAccepted(b3Now, b3Last)
  <1>1. /\ b3Call[c] \in B3Asking /\ b3Call[c].pc = "verifying" /\ b3Prev[c] = NoCall
        /\ p \in Proofs /\ q \in ProofRequests
    BY ProofCallKinds DEF ProofAnswered, B3Safe, B3Lines, B3Asking
  <1>2. /\ UNCHANGED <<b3Now, b3Verifier, b3Tail, b3Prev, b3Asks>>
        /\ b3Last' = IF verified /\ current THEN Observed(b3Now, b3Last) ELSE b3Last
        /\ IF accepted THEN CommitVerified(c, judged)
           ELSE AnswerProof(c, "releasing", FALSE) /\ UNCHANGED <<b3State, b3Tomb, b3Reserved, b3Bound>>
    BY DEF ProofAnswered
  <1>3. ASSUME NEW pc \in {"leaving", "releasing"}, NEW told \in BOOLEAN, AnswerProof(c, pc, told)
        PROVE  B3Moves(c, pc, told)
    <2> DEFINE new == [pc |-> pc, id |-> p, request |-> q, verified |-> told]
    <2>1. b3Call' = [b3Call EXCEPT ![c] = new]
      BY <1>3 DEF AnswerProof
    <2>2. /\ new \in B3Answered /\ new.pc = pc /\ new.id = p /\ new.request = q /\ new.verified = told
      BY <1>1 DEF B3Answered
    <2> HIDE DEF new
    <2>3. b3Call'[c] = new
      BY <2>1 DEF B3Safe, B3Shapes
    <2> QED
      BY <1>1, <1>2, <2>1, <2>2, <2>3 DEF B3Moves
  <1>4. CASE accepted
    <2>1. CommitVerified(c, judged)
      BY <1>2, <1>4
    <2>2. AuthorizedResult(judged, q, b3Verifier)
      <3>1. r.form # "thrown"
        BY <1>4 DEF IsProductionVerified, Failure
      <3>2. ResultShape(r)
        BY BitVm3Assumption
      <3> QED
        BY <1>4, <3>1, <3>2, JudgeAuthorized
    <2>3. b3Last' = b3Now /\ ClockAccepted(b3Now, b3Last) /\ p \in b3Reserved /\ p \notin KeptProofs
      BY <1>2, <1>4 DEF Observed, KeptProofs
    <2> HIDE DEF judged
    <2>4. B3Moves(c, "leaving", TRUE)
      BY <1>3, <2>1 DEF CommitVerified
    <2> QED
      BY <1>1, <2>1, <2>2, <2>3, <2>4 DEF CommitVerified, B3Commits
  <1>5. CASE ~accepted
    <2> HIDE DEF judged
    <2>1. B3Moves(c, "releasing", FALSE)
      BY <1>2, <1>3, <1>5
    <2> QED
      BY <1>1, <1>2, <1>5, <2>1 DEF B3Refuses
  <1> QED
    BY <1>4, <1>5

LEMMA ReleaseKind ==
    ASSUME B3Safe, NEW c \in Calls, ReleaseReservation(c)
    PROVE  B3Releases(c)
  <1> DEFINE new == [b3Call[c] EXCEPT !.pc = "leaving"]
  <1>1. /\ b3Call[c] \in B3Answered /\ b3Call[c].pc = "releasing" /\ b3Prev[c] = NoCall /\ ~b3Call[c].verified
    BY ProofCallKinds DEF ReleaseReservation, B3Safe, B3Lines, B3Accepted
  <1>2. b3Call' = [b3Call EXCEPT ![c] = new]
    BY DEF ReleaseReservation
  <1>3. /\ new \in B3Answered /\ new.pc = "leaving" /\ new.id = b3Call[c].id
        /\ new.request = b3Call[c].request /\ new.verified = FALSE
    BY <1>1 DEF B3Answered
  <1> HIDE DEF new
  <1>4. b3Call'[c] = new
    BY <1>2 DEF B3Safe, B3Shapes
  <1>5. B3Moves(c, "leaving", FALSE)
    BY <1>1, <1>2, <1>3, <1>4 DEF B3Moves, ReleaseReservation
  <1> QED
    BY <1>1, <1>5 DEF B3Releases, ReleaseReservation

(* Every step is of one of the kinds.                                        *)
B3Cleans ==
    /\ \E buried : B3SweptOf(buried)
    /\ UNCHANGED <<b3Reserved, b3Tail, b3Prev, b3Call, b3Asks>>

LEMMA B3StepKinds ==
    ASSUME B3Safe, [B3Next]_b3Vars
    PROVE  \/ B3Quiet
           \/ B3Cleans
           \/ \E c \in Calls, p \in Proofs, q \in ProofRequests : B3Asks(c, p, q)
           \/ \E c \in Calls : \/ B3Reserves(c) \/ B3Replies(c) \/ B3Commits(c)
                               \/ B3Refuses(c) \/ B3Releases(c) \/ LeaveProof(c)
  <1>1. CASE UNCHANGED b3Vars
    BY <1>1 DEF b3Vars, B3Quiet, B3Safe, B3Shapes
  <1>2. CASE MoveProofClock
    BY <1>2 DEF MoveProofClock, B3Quiet, B3Safe, B3Shapes
  <1>3. CASE CleanupProofs
    BY <1>3 DEF CleanupProofs, B3Cleans, B3SweptOf
  <1>4. ASSUME NEW c \in Calls, NEW p \in Proofs, NEW q \in ProofRequests, AskProof(c, p, q)
        PROVE  B3Quiet \/ B3Asks(c, p, q)
    <2>1. CASE ProofRequestVerdict(q) # "ok"
      <3>1. b3Asks' \in 0..MaxProofAsks
        BY <1>4, BitVm3Assumption DEF AskProof, B3Safe, B3Shapes
      <3> QED
        BY <1>4, <2>1, <3>1 DEF AskProof, B3Quiet, B3Safe, B3Shapes
    <2>2. CASE ProofRequestVerdict(q) = "ok"
      BY <1>4, <2>2 DEF B3Asks
    <2> QED
      BY <2>1, <2>2
  <1>5. ASSUME NEW c \in Calls, B3CallStep(c)
        PROVE  \/ B3Reserves(c) \/ B3Replies(c) \/ B3Commits(c)
               \/ B3Refuses(c) \/ B3Releases(c) \/ LeaveProof(c)
    BY <1>5, PrepareKind, AnsweredKind, ReleaseKind DEF B3CallStep
  <1> QED
    BY <1>1, <1>2, <1>3, <1>4, <1>5 DEF B3Next

---------------------------------------------------------------------------
(* What a sweep does to one identifier: nothing, or its retention has passed   *)
(* and a tombstone takes its place, or its tombstone is over.                 *)
LEMMA Sweeps ==
    ASSUME B3Safe, NEW buried, B3SweptOf(buried)
    PROVE  /\ b3Last' \in -1..MaxProofTime /\ b3Last' >= b3Last
           /\ b3State' = [p \in Proofs |-> b3State'[p]] /\ b3Tomb' = [p \in Proofs |-> b3Tomb'[p]]
           /\ KeptProofs' = KeptProofs \ buried
           /\ buried \subseteq KeptProofs /\ Tombs' \subseteq buried \cup Tombs
           /\ buried # {} => b3Now \in 0..MaxProofTime
           /\ \A p \in buried : /\ ~IsQueued(b3Tail, p) /\ p \notin b3Reserved
                                /\ b3Now >= b3State[p].at + ProofTtl
                                /\ b3Tomb'[p] = Tombstone(p) /\ p \in Tombs'
           /\ \A p \in Proofs \ buried : b3State'[p] = b3State[p]
           /\ \A p \in Proofs \ buried :
                 \/ b3Tomb'[p] = b3Tomb[p]
                 \/ b3Tomb'[p] = Absent /\ p \in Tombs /\ b3Last' >= b3Tomb[p].expiresAt
  <1> USE DEF B3SweptOf
  <1>1. b3Now \in Int /\ b3Last \in Int /\ b3Now \in -1..MaxProofTime /\ b3Last \in -1..MaxProofTime
    BY DEF B3Safe, B3Shapes
  <1>2. b3Last' \in -1..MaxProofTime /\ b3Last' >= b3Last
    BY <1>1 DEF Observed, ClockAccepted
  <1>3. buried \subseteq DueProofs /\ (buried # {} => ClockAccepted(b3Now, b3Last))
    BY DEF Buriable
  <1>4. buried # {} => b3Now \in 0..MaxProofTime
    BY <1>1, <1>3 DEF ClockAccepted
  <1>5. \A p \in buried :
           /\ p \in KeptProofs /\ p \in Proofs /\ ~IsQueued(b3Tail, p) /\ p \notin b3Reserved
           /\ b3Now >= b3State[p].at + ProofTtl
    <2> SUFFICES ASSUME NEW p \in buried
                 PROVE  /\ p \in KeptProofs /\ p \in Proofs /\ ~IsQueued(b3Tail, p) /\ p \notin b3Reserved
                        /\ b3Now >= b3State[p].at + ProofTtl
      OBVIOUS
    <2>1. p \in DueProofs
      BY <1>3
    <2>2. p \in KeptProofs /\ b3Now - b3State[p].at >= ProofTtl
      BY <2>1 DEF DueProofs
    <2>3. b3State[p].at \in Int /\ ProofTtl \in Int
      BY <2>2, BitVm3Assumption DEF B3Safe, B3Shapes
    <2> QED
      BY <1>1, <2>1, <2>2, <2>3 DEF DueProofs, KeptProofs
  <1>6. \A p \in Proofs : b3State'[p] = IF p \in buried THEN Absent ELSE b3State[p]
    BY DEF StateAfter
  <1>7. KeptProofs' = KeptProofs \ buried
    BY <1>6 DEF KeptProofs
  <1>8. \A p \in Proofs :
           b3Tomb'[p] = IF p \in buried THEN Tombstone(p)
                        ELSE IF ClockAccepted(b3Now, b3Last) /\ p \notin LiveTombs THEN Absent ELSE b3Tomb[p]
    BY DEF TombAfter
  <1>9. \A p \in buried : b3Tomb'[p] = Tombstone(p) /\ Tombstone(p) # Absent
    BY <1>4, <1>5, <1>8 DEF Tombstone, Absent
  <1>10. Tombs' \subseteq buried \cup Tombs
    BY <1>8 DEF Tombs
  <1>11. \A p \in Proofs \ buried :
                 \/ b3Tomb'[p] = b3Tomb[p]
                 \/ b3Tomb'[p] = Absent /\ p \in Tombs /\ b3Last' >= b3Tomb[p].expiresAt
    <2> SUFFICES ASSUME NEW p \in Proofs \ buried, b3Tomb'[p] # b3Tomb[p]
                 PROVE  b3Tomb'[p] = Absent /\ p \in Tombs /\ b3Last' >= b3Tomb[p].expiresAt
      OBVIOUS
    <2>1. ClockAccepted(b3Now, b3Last) /\ p \notin LiveTombs /\ b3Tomb'[p] = Absent /\ p \in Tombs
      BY <1>8 DEF Tombs
    <2>2. b3Last' = b3Now /\ ~(b3Now < b3Tomb[p].expiresAt) /\ b3Tomb[p].expiresAt \in Nat
      BY <2>1 DEF Observed, LiveTombs, B3Safe, B3Shapes
    <2> QED
      BY <1>1, <2>1, <2>2
  <1>12. /\ b3State' = [p \in Proofs |-> b3State'[p]] /\ b3Tomb' = [p \in Proofs |-> b3Tomb'[p]]
    BY DEF StateAfter, TombAfter
  <1> QED
    BY <1>2, <1>4, <1>5, <1>6, <1>7, <1>9, <1>10, <1>11, <1>12 DEF Tombs

LEMMA B3Moved ==
    ASSUME B3Shapes, NEW c \in Calls, NEW pc, NEW verified, B3Moves(c, pc, verified)
    PROVE  /\ b3Call' \in [Calls -> {IdleProofCall} \cup B3Asking \cup B3Answered]
           /\ \A d \in Calls \ {c} : b3Call'[d] = b3Call[d]
           /\ b3Call[c].id \in Proofs /\ b3Call[c].request \in ProofRequests
  BY ProofCallKinds DEF B3Moves, B3Shapes

LEMMA B3Left ==
    ASSUME B3Shapes, NEW c \in Calls, LeaveProof(c)
    PROVE  /\ b3Call' \in [Calls -> {IdleProofCall} \cup B3Asking \cup B3Answered]
           /\ \A d \in Calls \ {c} : b3Call'[d] = b3Call[d]
           /\ b3Call'[c].pc = "idle" /\ b3Call[c].id \in Proofs /\ b3Call[c].request \in ProofRequests
  <1>1. b3Call' = [b3Call EXCEPT ![c] = IdleProofCall] /\ b3Call[c].pc = "leaving"
    BY DEF LeaveProof
  <1>2. b3Call[c].id \in Proofs /\ b3Call[c].request \in ProofRequests
    BY <1>1, ProofCallKinds
  <1> QED
    BY <1>1, <1>2 DEF B3Shapes, IdleProofCall

LEMMA B3Queues ==
    ASSUME B3Shapes, NEW c \in Calls, NEW p \in Proofs, NEW q \in ProofRequests, B3Asks(c, p, q)
    PROVE  /\ b3Call' \in [Calls -> {IdleProofCall} \cup B3Asking \cup B3Answered]
           /\ \A d \in Calls \ {c} : b3Call'[d] = b3Call[d]
           /\ b3Call[c].pc = "idle"
           /\ b3Call'[c].pc = "queued" /\ b3Call'[c].id = p /\ b3Call'[c].request = q
           /\ b3Tail' = JoinTail(b3Tail, p, c) /\ b3Prev' = JoinPrev(b3Prev, b3Tail, p, c)
           /\ UNCHANGED <<b3Now, b3Last, b3Verifier, b3State, b3Tomb, b3Reserved, b3Bound>>
  <1> DEFINE new == [pc |-> "queued", id |-> p, request |-> q]
  <1>1. /\ b3Call[c] = IdleProofCall /\ b3Call' = [b3Call EXCEPT ![c] = new]
        /\ b3Tail' = JoinTail(b3Tail, p, c) /\ b3Prev' = JoinPrev(b3Prev, b3Tail, p, c)
        /\ UNCHANGED <<b3Now, b3Last, b3Verifier, b3State, b3Tomb, b3Reserved, b3Bound>>
    BY DEF B3Asks, AskProof
  <1>2. new \in B3Asking /\ new.pc = "queued" /\ new.id = p /\ new.request = q
    BY DEF B3Asking
  <1> HIDE DEF new
  <1>3. b3Call'[c] = new
    BY <1>1 DEF B3Shapes
  <1> QED
    BY <1>1, <1>2, <1>3 DEF B3Shapes, IdleProofCall

LEMMA B3ShapesKept ==
    ASSUME B3Safe, [B3Next]_b3Vars
    PROVE  B3Shapes'
  <1>0. B3Shapes
    BY DEF B3Safe
  <1>1. CASE B3Quiet
    BY <1>0, <1>1 DEF B3Quiet, B3Shapes, KeptProofs, Tombs
  <1>2. ASSUME NEW buried, B3SweptOf(buried)
        PROVE  /\ b3Now' \in -1..MaxProofTime /\ b3Last' \in -1..MaxProofTime
               /\ b3Verifier' \in Backends \cup {NoIdentity}
               /\ b3State' = [p \in Proofs |-> b3State'[p]]
               /\ b3Tomb' = [p \in Proofs |-> b3Tomb'[p]]
               /\ b3Bound' = [p \in Proofs |-> b3Bound'[p]]
               /\ \A p \in KeptProofs' : b3State'[p].at \in 0..MaxProofTime /\ b3State'[p].backend \in Backends
               /\ \A p \in Tombs' : b3Tomb'[p].at \in 0..MaxProofTime /\ b3Tomb'[p].expiresAt \in Nat
    <2>1. \A p \in KeptProofs' : b3State'[p] = b3State[p] /\ p \in KeptProofs
      BY <1>2, Sweeps DEF KeptProofs
    <2>2. \A p \in KeptProofs' : b3State'[p].at \in 0..MaxProofTime /\ b3State'[p].backend \in Backends
      BY <1>0, <2>1 DEF B3Shapes
    <2>3. ASSUME NEW p \in Tombs' PROVE b3Tomb'[p].at \in 0..MaxProofTime /\ b3Tomb'[p].expiresAt \in Nat
      <3>1. CASE p \in buried
        <4>1. b3Tomb'[p] = Tombstone(p) /\ b3Now \in 0..MaxProofTime
          BY <1>2, <3>1, Sweeps
        <4>2. Tombstone(p).at = b3Now /\ Tombstone(p).expiresAt = b3Now + TombstoneTtl
          BY DEF Tombstone
        <4> QED
          BY <4>1, <4>2, BitVm3Assumption
      <3>2. CASE p \notin buried
        <4>1. p \in Proofs /\ p \in Tombs /\ b3Tomb'[p] # Absent
          BY <1>2, <2>3, <3>2, Sweeps DEF Tombs
        <4>2. b3Tomb'[p] = b3Tomb[p]
          BY <1>2, <3>2, <4>1, Sweeps
        <4> QED
          BY <1>0, <4>1, <4>2 DEF B3Shapes
      <3> QED
        BY <3>1, <3>2
    <2> QED
      BY <1>0, <1>2, <2>2, <2>3, Sweeps DEF B3SweptOf, B3Shapes
  <1>3. CASE B3Cleans
    BY <1>0, <1>2, <1>3 DEF B3Cleans, B3Shapes
  <1>4. ASSUME NEW c \in Calls, NEW p \in Proofs, NEW q \in ProofRequests, B3Asks(c, p, q)
        PROVE  B3Shapes'
    <2>1. b3Asks' \in 0..MaxProofAsks
      BY <1>0, <1>4, BitVm3Assumption DEF B3Asks, AskProof, B3Shapes
    <2>2. b3Tail' \in [Proofs -> Calls \cup {NoCall}] /\ b3Prev' \in [Calls -> Calls \cup {NoCall}]
      <3>1. b3Tail' = JoinTail(b3Tail, p, c) /\ b3Prev' = JoinPrev(b3Prev, b3Tail, p, c)
        BY <1>0, <1>4, B3Queues
      <3> QED
        BY <1>0, <3>1 DEF JoinTail, JoinPrev, B3Shapes
    <2> QED
      BY <1>0, <1>4, <2>1, <2>2, B3Queues DEF B3Shapes, KeptProofs, Tombs
  <1>5. ASSUME NEW c \in Calls, B3Reserves(c) \/ B3Replies(c)
        PROVE  B3Shapes'
    <2>1. PICK pc, verified : B3Moves(c, pc, verified)
      BY <1>5 DEF B3Reserves, B3Replies
    <2>2. PICK buried : B3SweptOf(buried)
      BY <1>5 DEF B3Reserves, B3Replies
    <2>3. b3Reserved' \subseteq Proofs
      <3>1. b3Reserved' \in {b3Reserved, b3Reserved \cup {b3Call[c].id}}
        BY <1>5 DEF B3Reserves, B3Replies
      <3>2. b3Call[c].id \in Proofs
        BY <1>0, <2>1, B3Moved
      <3> QED
        BY <1>0, <3>1, <3>2 DEF B3Shapes
    <2>4. b3Call' \in [Calls -> {IdleProofCall} \cup B3Asking \cup B3Answered]
      BY <1>0, <2>1, B3Moved
    <2>5. UNCHANGED <<b3Tail, b3Prev, b3Asks>>
      BY <2>1 DEF B3Moves
    <2> QED
      BY <1>0, <1>2, <2>2, <2>3, <2>4, <2>5 DEF B3Shapes
  <1>6. ASSUME NEW c \in Calls, B3Commits(c)
        PROVE  B3Shapes'
    <2> DEFINE p == b3Call[c].id
               q == b3Call[c].request
    <2>1. B3Moves(c, "leaving", TRUE) /\ b3Now \in 0..MaxProofTime
      <3>1. B3Moves(c, "leaving", TRUE) /\ ClockAccepted(b3Now, b3Last)
        BY <1>6 DEF B3Commits
      <3>2. b3Now \in 0..MaxProofTime
        BY <1>0, <3>1 DEF ClockAccepted, B3Shapes
      <3> QED
        BY <3>1, <3>2
    <2>2. b3Call' \in [Calls -> {IdleProofCall} \cup B3Asking \cup B3Answered] /\ p \in Proofs
      BY <1>0, <2>1, B3Moved
    <2>3. UNCHANGED <<b3Now, b3Verifier, b3Tail, b3Prev, b3Asks>>
      BY <2>1 DEF B3Moves
    <2>4. PICK judged :
             /\ AuthorizedResult(judged, q, b3Verifier)
             /\ b3State' = [b3State EXCEPT ![p] = [at |-> b3Now, digest |-> q.digest, height |-> q.height,
                                                  backend |-> b3Verifier, result |-> judged]]
      BY <1>6 DEF B3Commits
    <2>5. b3Verifier \in Backends
      BY <2>4, ContractAssumption DEF AuthorizedResult
    <2>6. /\ b3State' = [x \in Proofs |-> b3State'[x]]
          /\ b3State'[p].at = b3Now /\ b3State'[p].backend = b3Verifier
          /\ \A x \in Proofs \ {p} : b3State'[x] = b3State[x]
      BY <1>0, <2>2, <2>4 DEF B3Shapes
    <2>7. \A x \in KeptProofs' : b3State'[x].at \in 0..MaxProofTime /\ b3State'[x].backend \in Backends
      BY <1>0, <2>1, <2>5, <2>6 DEF KeptProofs, B3Shapes
    <2>8. /\ b3Tomb' = [x \in Proofs |-> b3Tomb'[x]] /\ b3Bound' = [x \in Proofs |-> b3Bound'[x]]
          /\ Tombs' \subseteq Tombs /\ \A x \in Tombs' : b3Tomb'[x] = b3Tomb[x]
          /\ b3Reserved' \subseteq Proofs
      BY <1>0, <1>6, <2>2 DEF B3Commits, B3Shapes, Tombs
    <2>9. b3Last' \in -1..MaxProofTime
      BY <1>6, <2>1 DEF B3Commits
    <2> QED
      BY <1>0, <2>2, <2>3, <2>6, <2>7, <2>8, <2>9 DEF B3Shapes
  <1>7. ASSUME NEW c \in Calls, B3Refuses(c) \/ B3Releases(c)
        PROVE  B3Shapes'
    <2>1. PICK pc, verified : B3Moves(c, pc, verified)
      BY <1>7 DEF B3Refuses, B3Releases
    <2>2. b3Call' \in [Calls -> {IdleProofCall} \cup B3Asking \cup B3Answered]
      BY <1>0, <2>1, B3Moved
    <2>3. b3Last' \in -1..MaxProofTime /\ b3Reserved' \subseteq Proofs /\ UNCHANGED <<b3State, b3Tomb, b3Bound>>
      BY <1>0, <1>7 DEF B3Refuses, B3Releases, Observed, B3Shapes
    <2> QED
      BY <1>0, <2>1, <2>2, <2>3 DEF B3Moves, B3Shapes, KeptProofs, Tombs
  <1>8. ASSUME NEW c \in Calls, LeaveProof(c)
        PROVE  B3Shapes'
    <2>1. b3Tail' \in [Proofs -> Calls \cup {NoCall}] /\ b3Prev' \in [Calls -> Calls \cup {NoCall}]
      BY <1>0, <1>8, B3Left DEF LeaveProof, LeaveTail, LeavePrev, B3Shapes
    <2>2. b3Call' \in [Calls -> {IdleProofCall} \cup B3Asking \cup B3Answered]
      BY <1>0, <1>8, B3Left
    <2> QED
      BY <1>0, <1>8, <2>1, <2>2 DEF LeaveProof, B3Shapes, KeptProofs, Tombs
  <1> QED
    BY <1>1, <1>3, <1>4, <1>5, <1>6, <1>7, <1>8, B3StepKinds

(* Steps that keep a call in its place.                                      *)
B3Stays(c) == \E pc \in {"verifying", "releasing", "leaving"}, verified \in BOOLEAN : B3Moves(c, pc, verified)

LEMMA B3Staying ==
    ASSUME NEW c, B3Reserves(c) \/ B3Replies(c) \/ B3Commits(c) \/ B3Refuses(c) \/ B3Releases(c)
    PROVE  B3Stays(c)
  <1>1. CASE B3Reserves(c)
    BY <1>1 DEF B3Reserves, B3Stays
  <1>2. CASE B3Replies(c)
    BY <1>2 DEF B3Replies, B3Stays
  <1>3. CASE B3Commits(c)
    BY <1>3 DEF B3Commits, B3Stays
  <1>4. CASE B3Refuses(c) \/ B3Releases(c)
    BY <1>4 DEF B3Refuses, B3Releases, B3Stays
  <1> QED
    BY <1>1, <1>2, <1>3, <1>4

LEMMA B3AcceptedKept ==
    ASSUME B3Safe, [B3Next]_b3Vars
    PROVE  B3Accepted'
  <1>0. B3Shapes /\ B3Accepted
    BY DEF B3Safe
  <1>1. CASE B3Quiet \/ B3Cleans
    BY <1>0, <1>1 DEF B3Quiet, B3Cleans, B3Accepted
  <1>2. ASSUME NEW c \in Calls, NEW p \in Proofs, NEW q \in ProofRequests, B3Asks(c, p, q)
        PROVE  B3Accepted'
    <2>1. WellFormedRequest(q) /\ q.height \in 0..MaxHeight
      BY <1>2, ProofRequestOk DEF B3Asks
    <2> QED
      BY <1>0, <1>2, <2>1, B3Queues DEF B3Accepted
  <1>3. ASSUME NEW c \in Calls, B3Stays(c),
               b3Call'[c].pc = "releasing" => ~b3Call'[c].verified
        PROVE  B3Accepted'
    <2>1. PICK pc, verified : B3Moves(c, pc, verified)
      BY <1>3 DEF B3Stays
    <2>2. b3Call[c].pc # "idle" /\ b3Call'[c].request = b3Call[c].request
      BY <2>1 DEF B3Moves
    <2> QED
      BY <1>0, <1>3, <2>1, <2>2, B3Moved DEF B3Accepted
  <1>4. ASSUME NEW c \in Calls, B3Reserves(c) \/ B3Replies(c) \/ B3Commits(c) \/ B3Refuses(c) \/ B3Releases(c)
        PROVE  b3Call'[c].pc = "releasing" => ~b3Call'[c].verified
    BY <1>4 DEF B3Reserves, B3Replies, B3Commits, B3Refuses, B3Releases, B3Moves
  <1>5. ASSUME NEW c \in Calls, LeaveProof(c)
        PROVE  B3Accepted'
    BY <1>0, <1>5, B3Left DEF B3Accepted
  <1> QED
    BY <1>1, <1>2, <1>3, <1>4, <1>5, B3StepKinds, B3Staying

LEMMA B3LinesKept ==
    ASSUME B3Safe, [B3Next]_b3Vars
    PROVE  B3Lines'
  <1>0. B3Shapes /\ B3Lines /\ DOMAIN b3Tail = Proofs
    BY DEF B3Safe, B3Shapes
  <1>1. CASE UNCHANGED <<b3Tail, b3Prev, b3Call>>
    BY <1>0, <1>1 DEF B3Lines
  <1>2. ASSUME NEW c \in Calls, NEW p \in Proofs, NEW q \in ProofRequests, B3Asks(c, p, q)
        PROVE  B3Lines'
    <2>1. Lined(b3Tail', b3Prev', Callers(b3Call', Proofs))
      BY <1>0, <1>2, B3Queues, CallerJoins DEF B3Lines
    <2>2. \A d \in Calls : b3Call'[d].pc \notin {"idle", "queued"} => b3Prev'[d] = NoCall
      <3>1. /\ b3Call'[c].pc = "queued" /\ b3Prev' = [b3Prev EXCEPT ![c] = b3Tail[p]]
            /\ \A d \in Calls \ {c} : b3Call'[d] = b3Call[d]
        BY <1>0, <1>2, B3Queues DEF JoinPrev
      <3>2. \A d \in Calls \ {c} : b3Prev'[d] = b3Prev[d]
        BY <1>0, <3>1 DEF B3Shapes
      <3> QED
        BY <1>0, <3>1, <3>2 DEF B3Lines
    <2> QED
      BY <2>1, <2>2 DEF B3Lines
  <1>3. ASSUME NEW c \in Calls, B3Stays(c)
        PROVE  B3Lines'
    <2>1. PICK pc \in {"verifying", "releasing", "leaving"}, verified \in BOOLEAN : B3Moves(c, pc, verified)
      BY <1>3 DEF B3Stays
    <2>2. /\ b3Call[c].pc # "idle" /\ b3Call'[c].pc # "idle" /\ b3Call'[c].id = b3Call[c].id
          /\ b3Prev[c] = NoCall /\ b3Tail' = b3Tail /\ b3Prev' = b3Prev
      BY <2>1 DEF B3Moves
    <2>3. \A d \in Calls \ {c} : b3Call'[d] = b3Call[d]
      BY <1>0, <2>1, B3Moved
    <2>4. Callers(b3Call', Proofs) = Callers(b3Call, Proofs)
      BY <2>2, <2>3, CallerStays
    <2> QED
      BY <1>0, <2>2, <2>3, <2>4 DEF B3Lines
  <1>4. ASSUME NEW c \in Calls, LeaveProof(c)
        PROVE  B3Lines'
    <2>1. b3Call[c].pc = "leaving" /\ b3Prev[c] = NoCall
      BY <1>0, <1>4 DEF LeaveProof, B3Lines
    <2>2. /\ b3Tail' = LeaveTail(b3Tail, b3Call[c].id, c) /\ b3Prev' = LeavePrev(b3Prev, c)
      BY <1>4 DEF LeaveProof
    <2>3. Lined(b3Tail', b3Prev', Callers(b3Call', Proofs))
      BY <1>0, <1>4, <2>1, <2>2, B3Left, CallerLeaves DEF B3Lines
    <2>4. \A d \in Calls : b3Call'[d].pc \notin {"idle", "queued"} => b3Prev'[d] = NoCall
      BY <1>0, <1>4, <2>2, B3Left DEF B3Lines, LeavePrev
    <2> QED
      BY <2>3, <2>4 DEF B3Lines
  <1> QED
    BY <1>1, <1>2, <1>3, <1>4, B3StepKinds, B3Staying DEF B3Quiet, B3Cleans

(* One call on a proof is let in.                                            *)
LEMMA B3OneIn ==
    ASSUME B3Safe, NEW c \in Calls, NEW d \in Calls, b3Call[c].pc # "idle", b3Call[d].pc # "idle",
           b3Call[c].id = b3Call[d].id, b3Prev[c] = NoCall, b3Prev[d] = NoCall
    PROVE  c = d
  <1>1. b3Call[c].id \in Proofs /\ DOMAIN b3Tail = Proofs /\ Lined(b3Tail, b3Prev, Callers(b3Call, Proofs))
    BY ProofCallKinds DEF B3Safe, B3Shapes, B3Lines
  <1> QED
    BY <1>1, OneCallerIn

LEMMA B3NobodyQueued ==
    ASSUME B3Safe, NEW p \in Proofs, ~IsQueued(b3Tail, p)
    PROVE  ProofCallsOn(p) = {}
  <1>1. DOMAIN b3Tail = Proofs /\ Lined(b3Tail, b3Prev, Callers(b3Call, Proofs))
    BY DEF B3Safe, B3Shapes, B3Lines
  <1> QED
    BY <1>1, NobodyQueued DEF ProofCallsOn

(* The reservations.                                                         *)
B3Holds(c) == b3Call[c].pc \in {"verifying", "releasing"}

LEMMA ReservedHeld ==
    ASSUME B3Shapes
    PROVE  B3ReservationsHeld <=> \A p \in Proofs : p \in b3Reserved <=> \E c \in Calls : B3Holds(c) /\ b3Call[c].id = p
  <1>1. \A p \in Proofs : ProofCallsAt(p, {"verifying", "releasing"}) # {} <=> \E c \in Calls : B3Holds(c) /\ b3Call[c].id = p
    BY DEF ProofCallsAt, ProofCallsOn, B3Holds
  <1>2. b3Reserved \subseteq Proofs
    BY DEF B3Shapes
  <1> QED
    BY <1>1, <1>2 DEF B3ReservationsHeld

LEMMA B3ReservationsKept ==
    ASSUME B3Safe, [B3Next]_b3Vars
    PROVE  B3ReservationsHeld'
  <1>0. /\ B3Shapes /\ B3Lines
        /\ \A p \in Proofs : p \in b3Reserved <=> \E c \in Calls : B3Holds(c) /\ b3Call[c].id = p
    BY ReservedHeld DEF B3Safe
  <1> SUFFICES \A p \in Proofs : p \in b3Reserved' <=> \E c \in Calls : B3Holds(c)' /\ b3Call'[c].id = p
    <2>1. B3Shapes'
      BY B3ShapesKept
    <2> QED
      BY <2>1 DEF B3ReservationsHeld, ProofCallsAt, ProofCallsOn, B3Holds, B3Shapes
  <1>1. CASE UNCHANGED <<b3Reserved, b3Call>>
    BY <1>0, <1>1 DEF B3Holds
  <1>2. ASSUME NEW c \in Calls, \A d \in Calls \ {c} : b3Call'[d] = b3Call[d], ~B3Holds(c), ~B3Holds(c)',
               b3Reserved' = b3Reserved
        PROVE  \A p \in Proofs : p \in b3Reserved' <=> \E d \in Calls : B3Holds(d)' /\ b3Call'[d].id = p
    BY <1>0, <1>2 DEF B3Holds
  <1>3. ASSUME NEW c \in Calls, B3Reserves(c)
        PROVE  \A p \in Proofs : p \in b3Reserved' <=> \E d \in Calls : B3Holds(d)' /\ b3Call'[d].id = p
    <2>1. B3Moves(c, "verifying", FALSE) /\ b3Reserved' = b3Reserved \cup {b3Call[c].id} /\ b3Call[c].pc = "queued"
      BY <1>3 DEF B3Reserves
    <2>2. b3Call'[c].pc = "verifying" /\ b3Call'[c].id = b3Call[c].id
      BY <2>1 DEF B3Moves
    <2>3. \A d \in Calls \ {c} : b3Call'[d] = b3Call[d]
      BY <1>0, <2>1, B3Moved
    <2> QED
      BY <1>0, <2>1, <2>2, <2>3 DEF B3Holds
  <1>4. ASSUME NEW c \in Calls, B3Holds(c), b3Prev[c] = NoCall, ~B3Holds(c)', b3Call[c].id \in Proofs,
               \A d \in Calls \ {c} : b3Call'[d] = b3Call[d], b3Reserved' = b3Reserved \ {b3Call[c].id}
        PROVE  \A p \in Proofs : p \in b3Reserved' <=> \E d \in Calls : B3Holds(d)' /\ b3Call'[d].id = p
    <2>1. \A d \in Calls \ {c} : B3Holds(d) => b3Call[d].id # b3Call[c].id
      BY <1>0, <1>4, B3OneIn DEF B3Holds, B3Lines
    <2> QED
      BY <1>0, <1>4, <2>1 DEF B3Holds
  <1>5. ASSUME NEW c \in Calls, B3Commits(c) \/ B3Releases(c)
        PROVE  \A p \in Proofs : p \in b3Reserved' <=> \E d \in Calls : B3Holds(d)' /\ b3Call'[d].id = p
    <2>1. PICK verified : B3Moves(c, "leaving", verified)
      BY <1>5 DEF B3Commits, B3Releases
    <2>2. B3Holds(c) /\ b3Reserved' = b3Reserved \ {b3Call[c].id}
      BY <1>5 DEF B3Commits, B3Releases, B3Holds
    <2>3. b3Prev[c] = NoCall /\ ~B3Holds(c)'
      BY <2>1 DEF B3Moves, B3Holds
    <2> QED
      BY <1>0, <1>4, <2>1, <2>2, <2>3, B3Moved
  <1>6. ASSUME NEW c \in Calls, B3Refuses(c)
        PROVE  \A p \in Proofs : p \in b3Reserved' <=> \E d \in Calls : B3Holds(d)' /\ b3Call'[d].id = p
    <2>1. B3Moves(c, "releasing", FALSE) /\ b3Reserved' = b3Reserved /\ B3Holds(c)
      BY <1>6 DEF B3Refuses, B3Holds
    <2>2. B3Holds(c)' /\ b3Call'[c].id = b3Call[c].id
      BY <2>1 DEF B3Moves, B3Holds
    <2>3. \A d \in Calls \ {c} : b3Call'[d] = b3Call[d]
      BY <1>0, <2>1, B3Moved
    <2> QED
      BY <1>0, <2>1, <2>2, <2>3 DEF B3Holds
  <1>7. ASSUME NEW c \in Calls, NEW p \in Proofs, NEW q \in ProofRequests, B3Asks(c, p, q)
        PROVE  (\A d \in Calls \ {c} : b3Call'[d] = b3Call[d]) /\ ~B3Holds(c) /\ ~B3Holds(c)' /\ b3Reserved' = b3Reserved
    BY <1>0, <1>7, B3Queues DEF B3Holds
  <1>8. ASSUME NEW c \in Calls, B3Replies(c)
        PROVE  (\A d \in Calls \ {c} : b3Call'[d] = b3Call[d]) /\ ~B3Holds(c) /\ ~B3Holds(c)' /\ b3Reserved' = b3Reserved
    <2>1. PICK verified : B3Moves(c, "leaving", verified) /\ b3Reserved' = b3Reserved /\ b3Call[c].pc = "queued"
      BY <1>8 DEF B3Replies
    <2> QED
      BY <1>0, <2>1, B3Moved DEF B3Moves, B3Holds
  <1>9. ASSUME NEW c \in Calls, LeaveProof(c)
        PROVE  (\A d \in Calls \ {c} : b3Call'[d] = b3Call[d]) /\ ~B3Holds(c) /\ ~B3Holds(c)' /\ b3Reserved' = b3Reserved
    BY <1>0, <1>9, B3Left DEF B3Holds, LeaveProof
  <1> QED
    BY <1>1, <1>2, <1>3, <1>5, <1>6, <1>7, <1>8, <1>9, B3StepKinds DEF B3Quiet, B3Cleans

---------------------------------------------------------------------------
(* What a commit does.                                                       *)
LEMMA B3Committed ==
    ASSUME B3Safe, NEW c \in Calls, B3Commits(c)
    PROVE  LET p == b3Call[c].id
               q == b3Call[c].request
           IN  /\ p \in Proofs /\ q \in ProofRequests
               /\ b3State'[p].at = b3Now /\ b3State'[p].digest = q.digest /\ b3State'[p].height = q.height
               /\ b3State'[p].backend = b3Verifier /\ AuthorizedResult(b3State'[p].result, q, b3Verifier)
               /\ b3Now \in 0..MaxProofTime /\ b3Now >= b3Last
               /\ \A x \in Proofs \ {p} : b3State'[x] = b3State[x]
               /\ KeptProofs' = KeptProofs \cup {p} /\ p \in b3Reserved /\ p \notin KeptProofs
               /\ Tombs' = Tombs \ {p} /\ \A x \in Tombs' : b3Tomb'[x] = b3Tomb[x]
               /\ b3Bound'[p].at = b3Now /\ b3Bound'[p].digest = q.digest
               /\ \A x \in Proofs \ {p} : b3Bound'[x] = b3Bound[x]
               /\ b3Reserved' = b3Reserved \ {p}
               /\ \A d \in Calls \ {c} : b3Call'[d] = b3Call[d]
  <1> DEFINE p == b3Call[c].id
             q == b3Call[c].request
  <1>0. B3Shapes
    BY DEF B3Safe
  <1>1. B3Moves(c, "leaving", TRUE)
    BY DEF B3Commits
  <1>2. p \in Proofs /\ q \in ProofRequests /\ \A d \in Calls \ {c} : b3Call'[d] = b3Call[d]
    BY <1>0, <1>1, B3Moved
  <1>3. b3Now \in 0..MaxProofTime /\ b3Now >= b3Last
    <2>1. ClockAccepted(b3Now, b3Last)
      BY DEF B3Commits
    <2> QED
      BY <1>0, <2>1 DEF ClockAccepted, B3Shapes
  <1>4. p \in b3Reserved /\ p \notin KeptProofs /\ b3Reserved' = b3Reserved \ {p}
    BY DEF B3Commits
  <1>5. PICK judged :
             /\ AuthorizedResult(judged, q, b3Verifier)
             /\ b3State' = [b3State EXCEPT ![p] = [at |-> b3Now, digest |-> q.digest, height |-> q.height,
                                                  backend |-> b3Verifier, result |-> judged]]
    BY DEF B3Commits
  <1>6. /\ b3State'[p] = [at |-> b3Now, digest |-> q.digest, height |-> q.height,
                          backend |-> b3Verifier, result |-> judged]
        /\ \A x \in Proofs \ {p} : b3State'[x] = b3State[x]
    BY <1>0, <1>2, <1>5 DEF B3Shapes
  <1>7. /\ b3State'[p].at = b3Now /\ b3State'[p].digest = q.digest /\ b3State'[p].height = q.height
        /\ b3State'[p].backend = b3Verifier /\ AuthorizedResult(b3State'[p].result, q, b3Verifier)
    BY <1>5, <1>6
  <1>8. b3State'[p] # Absent
    BY <1>3, <1>7 DEF Absent
  <1>9. KeptProofs' = KeptProofs \cup {p}
    BY <1>2, <1>6, <1>8 DEF KeptProofs
  <1>10. b3Tomb' = [b3Tomb EXCEPT ![p] = Absent]
         /\ b3Bound' = [b3Bound EXCEPT ![p] = [at |-> b3Now, digest |-> q.digest]]
    BY DEF B3Commits
  <1>11. b3Tomb'[p] = Absent /\ \A x \in Proofs \ {p} : b3Tomb'[x] = b3Tomb[x]
    BY <1>0, <1>2, <1>10 DEF B3Shapes
  <1>12. Tombs' = Tombs \ {p} /\ \A x \in Tombs' : b3Tomb'[x] = b3Tomb[x]
    BY <1>11 DEF Tombs
  <1>13. /\ b3Bound'[p].at = b3Now /\ b3Bound'[p].digest = q.digest
         /\ \A x \in Proofs \ {p} : b3Bound'[x] = b3Bound[x]
    BY <1>0, <1>2, <1>10 DEF B3Shapes
  <1> QED
    BY <1>2, <1>3, <1>4, <1>6, <1>7, <1>9, <1>12, <1>13

(* The limits.                                                               *)
LEMMA B3BoundedKept ==
    ASSUME B3Safe, [B3Next]_b3Vars
    PROVE  B3Bounded'
  <1>0. /\ IsFiniteSet(KeptProofs) /\ IsFiniteSet(b3Reserved) /\ IsFiniteSet(Tombs)
        /\ IsFiniteSet(KeptProofs \cup b3Reserved)
        /\ Cardinality(KeptProofs \cup b3Reserved) <= MaxRetained /\ MaxRetained \in Nat
        /\ KeptProofs \cap b3Reserved = {} /\ KeptProofs \cap Tombs = {}
        /\ Cardinality(Tombs) <= MaxTombstones /\ MaxTombstones \in Nat
    BY BitVm3Assumption, FS_Union DEF B3Safe, B3Bounded, B3CapacityHeld
  <1>1. ASSUME KeptProofs' \cup b3Reserved' \subseteq KeptProofs \cup b3Reserved, Tombs' \subseteq Tombs,
               KeptProofs' \cap b3Reserved' = {}, KeptProofs' \cap Tombs' = {}
        PROVE  B3Bounded'
    BY <1>0, <1>1, Fewer, FS_Subset DEF B3Bounded, B3CapacityHeld
  <1>2. ASSUME NEW buried, B3SweptOf(buried)
        PROVE  /\ KeptProofs' \subseteq KeptProofs /\ KeptProofs' \cap Tombs' = {}
               /\ IsFiniteSet(Tombs') /\ Cardinality(Tombs') <= MaxTombstones
    <2>1. KeptProofs' = KeptProofs \ buried /\ Tombs' \subseteq buried \cup Tombs
      BY <1>2, Sweeps
    <2>2. CASE ~ClockAccepted(b3Now, b3Last)
      <3>1. buried = {}
        BY <1>2, <2>2 DEF B3SweptOf, Buriable
      <3> QED
        BY <1>0, <2>1, <3>1, Fewer
    <2>3. CASE ClockAccepted(b3Now, b3Last)
      <3>1. buried \subseteq DueProofs /\ Cardinality(buried) + Cardinality(LiveTombs) <= MaxTombstones
        BY <1>2, <2>3 DEF B3SweptOf, Buriable
      <3>2. IsFiniteSet(buried) /\ IsFiniteSet(LiveTombs)
        BY <1>0, <3>1, FS_Subset DEF DueProofs, LiveTombs
      <3>3. Tombs' \subseteq buried \cup LiveTombs
        BY <1>2, <2>3 DEF B3SweptOf, TombAfter, Tombs
      <3> QED
        BY <1>0, <2>1, <3>1, <3>2, <3>3, Together
    <2> QED
      BY <2>2, <2>3
  <1>3. CASE B3Quiet \/ UNCHANGED <<b3State, b3Tomb, b3Reserved>>
    <2>1. KeptProofs' = KeptProofs /\ Tombs' = Tombs /\ b3Reserved' = b3Reserved
      BY <1>3 DEF B3Quiet, KeptProofs, Tombs
    <2> QED
      BY <1>0, <1>1, <2>1
  <1>4. ASSUME NEW buried, B3SweptOf(buried), b3Reserved' = b3Reserved
        PROVE  B3Bounded'
    BY <1>0, <1>2, <1>4, Fewer, FS_Subset DEF B3Bounded, B3CapacityHeld
  <1>5. ASSUME NEW c \in Calls, B3Reserves(c)
        PROVE  B3Bounded'
    <2> DEFINE p == b3Call[c].id
    <2>1. PICK buried : B3SweptOf(buried)
      BY <1>5 DEF B3Reserves
    <2>2. /\ p \notin KeptProofs' /\ b3Reserved' = b3Reserved \cup {p}
          /\ Cardinality(KeptProofs') + Cardinality(b3Reserved) < MaxRetained
      BY <1>5 DEF B3Reserves
    <2>3. IsFiniteSet(KeptProofs') /\ KeptProofs' \subseteq KeptProofs
      BY <1>0, <1>2, <2>1, FS_Subset
    <2>4. IsFiniteSet(b3Reserved') /\ Cardinality(b3Reserved') \in {Cardinality(b3Reserved), Cardinality(b3Reserved) + 1}
      BY <1>0, <2>2, FS_AddElement
    <2>5. Cardinality(KeptProofs') \in Nat /\ Cardinality(b3Reserved) \in Nat
      BY <1>0, <2>3, FS_CardinalityType
    <2>6. Cardinality(KeptProofs') + Cardinality(b3Reserved') <= MaxRetained
      BY <1>0, <2>2, <2>4, <2>5
    <2>7. Cardinality(KeptProofs' \cup b3Reserved') <= MaxRetained
      BY <1>0, <2>3, <2>4, <2>6, Together
    <2>8. KeptProofs' \cap b3Reserved' = {}
      BY <1>0, <2>2, <2>3
    <2> QED
      BY <1>2, <2>1, <2>3, <2>4, <2>7, <2>8 DEF B3Bounded, B3CapacityHeld
  <1>6. ASSUME NEW c \in Calls, B3Commits(c)
        PROVE  B3Bounded'
    <2> DEFINE p == b3Call[c].id
    <2>1. /\ KeptProofs' = KeptProofs \cup {p} /\ b3Reserved' = b3Reserved \ {p} /\ p \in b3Reserved
          /\ Tombs' = Tombs \ {p}
      BY <1>6, B3Committed
    <2>2. /\ KeptProofs' \cup b3Reserved' \subseteq KeptProofs \cup b3Reserved /\ Tombs' \subseteq Tombs
          /\ KeptProofs' \cap b3Reserved' = {} /\ KeptProofs' \cap Tombs' = {}
      BY <1>0, <2>1
    <2> QED
      BY <1>1, <2>2
  <1>7. ASSUME NEW c \in Calls, B3Releases(c)
        PROVE  B3Bounded'
    <2>1. KeptProofs' = KeptProofs /\ Tombs' = Tombs /\ b3Reserved' \subseteq b3Reserved
      BY <1>7 DEF B3Releases, KeptProofs, Tombs
    <2> QED
      BY <1>0, <1>1, <2>1
  <1>8. ASSUME NEW c \in Calls, B3Replies(c)
        PROVE  B3Bounded'
    BY <1>4, <1>8 DEF B3Replies
  <1> QED
    BY <1>3, <1>4, <1>5, <1>6, <1>7, <1>8, B3StepKinds, B3Queues
       DEF B3Safe, B3Cleans, B3Refuses, LeaveProof

(* A proof that somebody calls about is not swept.                           *)
LEMMA CalledNotSwept ==
    ASSUME B3Safe, NEW buried, B3SweptOf(buried), NEW c \in Calls, b3Call[c].pc # "idle"
    PROVE  b3Call[c].id \in Proofs \ buried
  <1>1. b3Call[c].id \in Proofs
    BY ProofCallKinds DEF B3Safe
  <1>2. c \in ProofCallsOn(b3Call[c].id)
    BY DEF ProofCallsOn
  <1> QED
    BY <1>1, <1>2, Sweeps, B3NobodyQueued

(* The evidence.                                                            *)
B3Evidenced(p) ==
    LET r == b3State[p].result
    IN  /\ r.digest = b3State[p].digest /\ r.status = "valid" /\ r.failure = "none"
        /\ r.backend = b3Verifier /\ r.backend \in Authoritative /\ r.provenance = "production"
        /\ b3State[p].height \in 0..MaxHeight
        /\ \E q \in ProofRequests : WellFormedRequest(q) /\ SameRequest(b3State[p], q)

B3Told(c) ==
    b3Call[c].pc = "leaving" /\ b3Call[c].verified =>
        b3Call[c].id \in KeptProofs /\ SameRequest(b3State[b3Call[c].id], b3Call[c].request)

LEMMA B3EvidenceKept ==
    ASSUME B3Safe, [B3Next]_b3Vars
    PROVE  B3EvidenceSound'
  <1>0. B3Shapes /\ B3Lines /\ (\A p \in KeptProofs : B3Evidenced(p)) /\ \A c \in Calls : B3Told(c)
    BY DEF B3Safe, B3EvidenceSound, B3Evidenced, B3Told
  <1> SUFFICES (\A p \in KeptProofs' : B3Evidenced(p)') /\ \A c \in Calls : B3Told(c)'
    BY DEF B3EvidenceSound, B3Evidenced, B3Told
  <1>1. b3Verifier' = b3Verifier
    <2>1. ASSUME NEW c \in Calls, NEW pc, NEW verified, B3Moves(c, pc, verified)
          PROVE  b3Verifier' = b3Verifier
      BY <2>1 DEF B3Moves
    <2>2. ASSUME NEW c \in Calls, B3Reserves(c) \/ B3Replies(c) \/ B3Commits(c) \/ B3Refuses(c) \/ B3Releases(c)
          PROVE  b3Verifier' = b3Verifier
      BY <2>1, <2>2 DEF B3Reserves, B3Replies, B3Commits, B3Refuses, B3Releases
    <2> QED
      BY <1>0, <2>2, B3StepKinds, B3Queues DEF B3Quiet, B3Cleans, B3SweptOf, LeaveProof
  <1>2. ASSUME NEW p, b3State'[p] = b3State[p], B3Evidenced(p)
        PROVE  B3Evidenced(p)'
    BY <1>1, <1>2 DEF B3Evidenced, SameRequest
  <1>3. ASSUME NEW d \in Calls, b3Call'[d] = b3Call[d],
               b3Call[d].pc = "leaving" => /\ b3State'[b3Call[d].id] = b3State[b3Call[d].id]
        PROVE  B3Told(d)'
    BY <1>0, <1>1, <1>3 DEF B3Told, SameRequest, KeptProofs
  <1>4. ASSUME UNCHANGED b3State, NEW c \in Calls, \A d \in Calls \ {c} : b3Call'[d] = b3Call[d], B3Told(c)'
        PROVE  (\A p \in KeptProofs' : B3Evidenced(p)') /\ \A d \in Calls : B3Told(d)'
    BY <1>0, <1>2, <1>3, <1>4 DEF KeptProofs
  <1>5. ASSUME UNCHANGED <<b3State, b3Call>>
        PROVE  (\A p \in KeptProofs' : B3Evidenced(p)') /\ \A d \in Calls : B3Told(d)'
    BY <1>0, <1>2, <1>3, <1>5 DEF KeptProofs
  <1>6. ASSUME NEW buried, B3SweptOf(buried)
        PROVE  /\ \A p \in KeptProofs' : B3Evidenced(p)'
               /\ \A d \in Calls : b3Call'[d] = b3Call[d] => B3Told(d)'
    <2>1. \A p \in KeptProofs' : p \in KeptProofs /\ b3State'[p] = b3State[p]
      BY <1>6, Sweeps DEF KeptProofs
    <2>2. ASSUME NEW d \in Calls, b3Call'[d] = b3Call[d] PROVE B3Told(d)'
      <3>1. b3Call[d].pc = "leaving" => b3State'[b3Call[d].id] = b3State[b3Call[d].id]
        BY <1>6, Sweeps, CalledNotSwept
      <3> QED
        BY <1>3, <2>2, <3>1
    <2> QED
      BY <1>0, <1>2, <2>1, <2>2
  <1>7. CASE B3Cleans
    BY <1>6, <1>7 DEF B3Cleans
  <1>8. ASSUME NEW c \in Calls, NEW p \in Proofs, NEW q \in ProofRequests, B3Asks(c, p, q)
        PROVE  (\A x \in KeptProofs' : B3Evidenced(x)') /\ \A d \in Calls : B3Told(d)'
    BY <1>0, <1>4, <1>8, B3Queues DEF B3Told
  <1>9. ASSUME NEW c \in Calls, B3Reserves(c) \/ B3Replies(c)
        PROVE  (\A p \in KeptProofs' : B3Evidenced(p)') /\ \A d \in Calls : B3Told(d)'
    <2>1. PICK buried : B3SweptOf(buried)
      BY <1>9 DEF B3Reserves, B3Replies
    <2>2. PICK pc, verified : B3Moves(c, pc, verified)
      BY <1>9 DEF B3Reserves, B3Replies
    <2>3. \A d \in Calls \ {c} : b3Call'[d] = b3Call[d]
      BY <1>0, <2>2, B3Moved
    <2>4. CASE B3Reserves(c)
      <3>1. b3Call'[c].pc = "verifying"
        BY <2>4 DEF B3Reserves, B3Moves
      <3>2. B3Told(c)'
        BY <3>1 DEF B3Told
      <3> QED
        BY <1>6, <2>1, <2>3, <3>2
    <2>5. CASE B3Replies(c)
      <3>1. PICK told \in BOOLEAN :
               /\ B3Moves(c, "leaving", told)
               /\ told => b3Call[c].id \in KeptProofs' /\ SameRequest(b3State'[b3Call[c].id], b3Call[c].request)
        BY <2>5 DEF B3Replies
      <3>2. b3Call'[c].id = b3Call[c].id /\ b3Call'[c].request = b3Call[c].request /\ b3Call'[c].verified = told
        BY <3>1 DEF B3Moves
      <3>3. B3Told(c)'
        BY <1>1, <3>1, <3>2 DEF B3Told, SameRequest
      <3> QED
        BY <1>6, <2>1, <2>3, <3>3
    <2> QED
      BY <1>9, <2>4, <2>5
  <1>10. ASSUME NEW c \in Calls, B3Commits(c)
         PROVE  (\A p \in KeptProofs' : B3Evidenced(p)') /\ \A d \in Calls : B3Told(d)'
    <2>0. PICK p \in Proofs, q \in ProofRequests : p = b3Call[c].id /\ q = b3Call[c].request
      BY <1>10, B3Committed
    <2>1. /\ p \in KeptProofs' /\ p \notin KeptProofs
          /\ b3State'[p].digest = q.digest /\ b3State'[p].height = q.height
          /\ b3State'[p].backend = b3Verifier /\ AuthorizedResult(b3State'[p].result, q, b3Verifier)
          /\ \A x \in Proofs \ {p} : b3State'[x] = b3State[x]
          /\ KeptProofs' = KeptProofs \cup {p}
          /\ \A d \in Calls \ {c} : b3Call'[d] = b3Call[d]
      BY <1>10, <2>0, B3Committed
    <2>2. /\ b3Call[c].pc # "idle" /\ b3Prev[c] = NoCall
          /\ b3Call'[c].id = p /\ b3Call'[c].request = q
      BY <1>10, <2>0 DEF B3Commits, B3Moves
    <2>3. WellFormedRequest(q) /\ q.height \in 0..MaxHeight
      BY <2>0, <2>2 DEF B3Safe, B3Accepted
    <2>4. /\ b3Verifier' = b3Verifier /\ q.backend = b3Verifier
          /\ SameRequest(b3State[p], q)'
      BY <1>1, <2>1, <2>2 DEF AuthorizedResult, SameRequest
    <2>5. B3Evidenced(p)'
      <3> DEFINE r == b3State'[p].result
      <3>1. /\ r.digest = q.digest /\ r.status = "valid" /\ r.failure = "none"
            /\ r.backend = b3Verifier /\ r.backend \in Authoritative /\ r.provenance = "production"
        BY <2>1 DEF AuthorizedResult
      <3>2. \E x \in ProofRequests : WellFormedRequest(x) /\ SameRequest(b3State[p], x)'
        BY <2>1, <2>3, <2>4
      <3> QED
        BY <2>1, <2>3, <2>4, <3>1, <3>2 DEF B3Evidenced
    <2>6. \A x \in KeptProofs' \ {p} : B3Evidenced(x)'
      BY <1>0, <1>2, <2>1 DEF KeptProofs
    <2>7. ASSUME NEW d \in Calls PROVE B3Told(d)'
      <3>1. CASE d = c
        BY <2>1, <2>2, <2>4, <3>1 DEF B3Told, SameRequest
      <3>2. CASE d # c
        <4>1. b3Call[d].pc = "leaving" => b3Call[d].id # p /\ b3Call[d].id \in Proofs
          BY <1>0, <2>0, <2>2, <3>2, B3OneIn, ProofCallKinds DEF B3Lines
        <4> QED
          BY <1>3, <2>1, <3>2, <4>1
      <3> QED
        BY <3>1, <3>2
    <2>8. \A x \in KeptProofs' : B3Evidenced(x)'
      <3>1. ASSUME NEW x \in KeptProofs' PROVE B3Evidenced(x)'
        BY <2>5, <2>6, <3>1
      <3> QED
        BY <3>1
    <2> QED
      BY <2>7, <2>8
  <1>11. ASSUME NEW c \in Calls, B3Refuses(c) \/ B3Releases(c)
         PROVE  (\A p \in KeptProofs' : B3Evidenced(p)') /\ \A d \in Calls : B3Told(d)'
    <2>1. PICK pc \in {"leaving", "releasing"} : B3Moves(c, pc, FALSE)
      BY <1>11 DEF B3Refuses, B3Releases
    <2>2. b3State' = b3State
      BY <1>11 DEF B3Refuses, B3Releases
    <2>3. B3Told(c)'
      BY <2>1 DEF B3Moves, B3Told
    <2> QED
      BY <1>0, <1>4, <2>1, <2>2, <2>3, B3Moved
  <1>12. ASSUME NEW c \in Calls, LeaveProof(c)
         PROVE  (\A p \in KeptProofs' : B3Evidenced(p)') /\ \A d \in Calls : B3Told(d)'
    <2>1. b3State' = b3State /\ b3Call'[c].pc = "idle" /\ \A d \in Calls \ {c} : b3Call'[d] = b3Call[d]
      BY <1>0, <1>12, B3Left DEF LeaveProof
    <2>2. B3Told(c)'
      BY <2>1 DEF B3Told
    <2> QED
      BY <1>4, <2>1, <2>2
  <1> QED
    BY <1>5, <1>7, <1>8, <1>9, <1>10, <1>11, <1>12, B3StepKinds DEF B3Quiet

---------------------------------------------------------------------------
(* The retentions.                                                          *)
B3Known(p) ==
    /\ b3Bound[p] = Absent => p \notin KeptProofs /\ p \notin Tombs
    /\ b3Bound[p] # Absent =>
         /\ b3Bound[p].at \in 0..MaxProofTime
         /\ p \in KeptProofs => b3State[p].at = b3Bound[p].at /\ b3State[p].digest = b3Bound[p].digest
         /\ p \in Tombs => /\ b3Tomb[p].digest = b3Bound[p].digest
                           /\ b3Tomb[p].expiresAt >= b3Bound[p].at + ProofTtl + TombstoneTtl
         /\ p \notin KeptProofs \cup Tombs => b3Last >= b3Bound[p].at + ProofTtl + TombstoneTtl

LEMMA B3LastGrows ==
    ASSUME B3Safe, [B3Next]_b3Vars
    PROVE  b3Last \in Int /\ b3Last' \in Int /\ b3Last' >= b3Last
  <1>1. /\ b3Last \in Int /\ b3Now \in Int /\ b3Last' \in Int
    <2>1. B3Shapes /\ B3Shapes'
      BY B3ShapesKept DEF B3Safe
    <2> QED
      BY <2>1 DEF B3Shapes
  <1>2. b3Last' \in {b3Last, Observed(b3Now, b3Last)} \/ (b3Last' = b3Now /\ ClockAccepted(b3Now, b3Last))
    BY B3StepKinds, B3Queues
       DEF B3Safe, B3Quiet, B3Cleans, B3SweptOf, B3Reserves, B3Replies, B3Commits, B3Refuses, B3Releases, LeaveProof
  <1> QED
    BY <1>1, <1>2 DEF Observed, ClockAccepted

LEMMA B3RememberedKept ==
    ASSUME B3Safe, [B3Next]_b3Vars
    PROVE  B3Remembered'
  <1>0. B3Shapes /\ \A p \in Proofs : B3Known(p)
    BY DEF B3Safe, B3Remembered, B3Known
  <1> SUFFICES ASSUME NEW p \in Proofs PROVE B3Known(p)'
    BY DEF B3Remembered, B3Known
  <1>1. /\ b3Last \in Int /\ b3Last' \in Int /\ b3Last' >= b3Last
        /\ ProofTtl \in Int /\ TombstoneTtl \in Int /\ ProofTtl >= 0 /\ TombstoneTtl >= 0
    BY B3LastGrows, BitVm3Assumption
  <1>2. ASSUME b3Bound'[p] = b3Bound[p], b3State'[p] = b3State[p], b3Tomb'[p] = b3Tomb[p]
        PROVE  B3Known(p)'
    BY <1>0, <1>1, <1>2 DEF B3Known, KeptProofs, Tombs
  <1>3. ASSUME NEW buried, B3SweptOf(buried) PROVE B3Known(p)'
    <2>0. b3Bound' = b3Bound
      BY <1>3 DEF B3SweptOf
    <2>1. CASE p \in buried
      <3>1. /\ p \in KeptProofs /\ p \notin KeptProofs' /\ p \in Tombs' /\ b3Now >= b3State[p].at + ProofTtl
            /\ b3Tomb'[p] = Tombstone(p) /\ b3Now \in Int
        BY <1>3, <2>1, Sweeps DEF KeptProofs
      <3>2. b3Tomb'[p].digest = b3State[p].digest /\ b3Tomb'[p].expiresAt = b3Now + TombstoneTtl
        BY <3>1 DEF Tombstone
      <3>3. /\ b3Bound[p] # Absent /\ b3Bound[p].at \in 0..MaxProofTime
            /\ b3State[p].at = b3Bound[p].at /\ b3State[p].digest = b3Bound[p].digest
        BY <1>0, <3>1 DEF B3Known
      <3>4. b3Tomb'[p].expiresAt >= b3Bound[p].at + ProofTtl + TombstoneTtl
        BY <1>1, <3>1, <3>2, <3>3
      <3> QED
        BY <2>0, <3>1, <3>2, <3>3, <3>4 DEF B3Known
    <2>2. CASE p \notin buried
      <3>1. b3State'[p] = b3State[p]
        BY <1>3, <2>2, Sweeps
      <3>2. CASE b3Tomb'[p] = b3Tomb[p]
        BY <1>2, <2>0, <3>1, <3>2
      <3>3. CASE b3Tomb'[p] = Absent /\ p \in Tombs /\ b3Last' >= b3Tomb[p].expiresAt
        <4>1. b3Bound[p] # Absent /\ b3Bound[p].at \in 0..MaxProofTime /\ b3Tomb[p].expiresAt \in Nat
              /\ b3Tomb[p].expiresAt >= b3Bound[p].at + ProofTtl + TombstoneTtl
          BY <1>0, <3>3 DEF B3Known, B3Shapes
        <4>2. b3Last' >= b3Bound[p].at + ProofTtl + TombstoneTtl
          BY <1>1, <3>3, <4>1
        <4>3. p \notin Tombs' /\ (p \in KeptProofs' <=> p \in KeptProofs)
          BY <3>1, <3>3 DEF Tombs, KeptProofs
        <4> QED
          BY <1>0, <2>0, <3>1, <4>1, <4>2, <4>3 DEF B3Known
      <3> QED
        BY <1>3, <2>2, <3>2, <3>3, Sweeps
    <2> QED
      BY <2>1, <2>2
  <1>4. ASSUME NEW c \in Calls, B3Commits(c) PROVE B3Known(p)'
    <2>1. CASE p # b3Call[c].id
      <3>1. /\ b3State'[p] = b3State[p] /\ b3Bound'[p] = b3Bound[p]
            /\ p \in KeptProofs' <=> p \in KeptProofs
            /\ p \in Tombs' <=> p \in Tombs
            /\ p \in Tombs' => b3Tomb'[p] = b3Tomb[p]
        BY <1>4, <2>1, B3Committed
      <3> QED
        BY <1>0, <1>1, <3>1 DEF B3Known
    <2>2. CASE p = b3Call[c].id
      <3>1. /\ b3State'[p].at = b3Now /\ b3State'[p].digest = b3Call[c].request.digest
            /\ b3Bound'[p].at = b3Now /\ b3Bound'[p].digest = b3Call[c].request.digest
            /\ p \in KeptProofs' /\ p \notin Tombs' /\ b3Now \in 0..MaxProofTime
        BY <1>4, <2>2, B3Committed
      <3>2. b3Bound'[p] # Absent
        BY <3>1 DEF Absent
      <3> QED
        BY <3>1, <3>2 DEF B3Known
    <2> QED
      BY <2>1, <2>2
  <1>5. ASSUME NEW c \in Calls, NEW x \in Proofs, NEW q \in ProofRequests, B3Asks(c, x, q)
        PROVE  B3Known(p)'
    BY <1>0, <1>2, <1>5, B3Queues
  <1>6. CASE UNCHANGED <<b3State, b3Tomb, b3Bound>>
    BY <1>2, <1>6
  <1> QED
    BY <1>3, <1>4, <1>5, <1>6, B3StepKinds
       DEF B3Quiet, B3Cleans, B3Reserves, B3Replies, B3Refuses, B3Releases, LeaveProof

LEMMA B3MayBindKept ==
    ASSUME B3Safe, [B3Next]_b3Vars
    PROVE  B3MayBind'
  <1> DEFINE May(d) ==
        b3Call[d].pc = "verifying" =>
            LET p == b3Call[d].id
            IN  \/ b3Bound[p] = Absent
                \/ b3Bound[p].digest = b3Call[d].request.digest
                \/ b3Last >= b3Bound[p].at + ProofTtl + TombstoneTtl
  <1>0. B3Shapes /\ B3Lines /\ \A d \in Calls : May(d)
    BY DEF B3Safe, B3MayBind
  <1> SUFFICES ASSUME NEW d \in Calls PROVE May(d)'
    BY DEF B3MayBind
  <1>1. /\ b3Last \in Int /\ b3Last' \in Int /\ b3Last' >= b3Last
        /\ ProofTtl \in Int /\ TombstoneTtl \in Int
    BY B3LastGrows, BitVm3Assumption
  <1>2. ASSUME b3Call'[d] = b3Call[d], b3Call[d].pc = "verifying" => b3Bound'[b3Call[d].id] = b3Bound[b3Call[d].id]
        PROVE  May(d)'
    <2> SUFFICES ASSUME b3Call[d].pc = "verifying" PROVE May(d)'
      BY <1>2
    <2> DEFINE p == b3Call[d].id
    <2>1. b3Bound[p] # Absent => b3Bound[p].at \in Int
      BY <1>0, ProofCallKinds DEF B3Safe, B3Remembered
    <2>2. \/ b3Bound[p] = Absent
          \/ b3Bound[p].digest = b3Call[d].request.digest
          \/ b3Bound[p] # Absent /\ b3Last >= b3Bound[p].at + ProofTtl + TombstoneTtl
      BY <1>0
    <2>3. CASE b3Bound[p] # Absent /\ b3Last >= b3Bound[p].at + ProofTtl + TombstoneTtl
      <3>1. b3Last' >= b3Bound[p].at + ProofTtl + TombstoneTtl
        BY <1>1, <2>1, <2>3
      <3> QED
        BY <1>2, <3>1
    <2> QED
      BY <1>2, <2>2, <2>3
  <1>3. ASSUME b3Call'[d].pc # "verifying" PROVE May(d)'
    BY <1>3
  <1>4. ASSUME NEW c \in Calls, B3Reserves(c) PROVE May(d)'
    <2>1. B3Moves(c, "verifying", FALSE) /\ b3Bound' = b3Bound
      BY <1>4 DEF B3Reserves, B3SweptOf
    <2>2. CASE d # c
      BY <1>0, <1>2, <2>1, <2>2, B3Moved
    <2>3. CASE d = c
      <3>0. PICK p \in Proofs, q \in ProofRequests : p = b3Call[c].id /\ q = b3Call[c].request
        BY <1>0, <2>1, B3Moved
      <3>1. b3Call'[c].id = p /\ b3Call'[c].request = q
        BY <2>1, <3>0 DEF B3Moves
      <3>2. p \notin KeptProofs' /\ (p \in Tombs' => b3Tomb'[p].digest = q.digest)
        BY <1>4, <3>0 DEF B3Reserves
      <3>3. B3Known(p)'
        BY <3>1, B3RememberedKept DEF B3Remembered, B3Known
      <3>4. \/ b3Bound'[p] = Absent
            \/ b3Bound'[p].digest = q.digest
            \/ b3Last' >= b3Bound'[p].at + ProofTtl + TombstoneTtl
        <4>1. CASE p \in Tombs'
          BY <3>2, <3>3, <4>1 DEF B3Known
        <4>2. CASE p \notin KeptProofs' \cup Tombs'
          BY <3>3, <4>2 DEF B3Known
        <4> QED
          BY <3>2, <4>1, <4>2
      <3> QED
        BY <2>3, <3>1, <3>4
    <2> QED
      BY <2>2, <2>3
  <1>5. ASSUME NEW c \in Calls, B3Commits(c) PROVE May(d)'
    <2>1. b3Call'[c].pc = "leaving" /\ b3Call[c].pc # "idle" /\ b3Prev[c] = NoCall
      BY <1>5 DEF B3Commits, B3Moves
    <2>2. \A x \in Proofs \ {b3Call[c].id} : b3Bound'[x] = b3Bound[x]
      BY <1>5, B3Committed
    <2>3. CASE d # c
      <3>1. b3Call'[d] = b3Call[d]
        BY <1>5, <2>3, B3Committed
      <3>2. b3Call[d].pc = "verifying" => b3Call[d].id \in Proofs \ {b3Call[c].id}
        BY <1>0, <2>1, <2>3, B3OneIn, ProofCallKinds DEF B3Lines
      <3> QED
        BY <1>2, <2>2, <3>1, <3>2
    <2> QED
      BY <1>3, <2>1, <2>3
  <1>6. ASSUME NEW c \in Calls, B3Replies(c) \/ B3Refuses(c) \/ B3Releases(c) PROVE May(d)'
    <2>1. PICK pc \in {"leaving", "releasing"}, verified \in BOOLEAN : B3Moves(c, pc, verified)
      BY <1>6 DEF B3Replies, B3Refuses, B3Releases
    <2>2. b3Bound' = b3Bound
      BY <1>6 DEF B3Replies, B3Refuses, B3Releases, B3SweptOf
    <2>3. b3Call'[c].pc # "verifying"
      BY <2>1 DEF B3Moves
    <2> QED
      BY <1>0, <1>2, <1>3, <2>1, <2>2, <2>3, B3Moved
  <1>7. ASSUME NEW c \in Calls, NEW x \in Proofs, NEW q \in ProofRequests, B3Asks(c, x, q)
        PROVE  May(d)'
    BY <1>0, <1>2, <1>3, <1>7, B3Queues
  <1>8. ASSUME NEW c \in Calls, LeaveProof(c) PROVE May(d)'
    BY <1>0, <1>2, <1>3, <1>8, B3Left DEF LeaveProof
  <1>9. CASE B3Quiet \/ B3Cleans
    BY <1>2, <1>9 DEF B3Quiet, B3Cleans, B3SweptOf
  <1> QED
    BY <1>4, <1>5, <1>6, <1>7, <1>8, <1>9, B3StepKinds

---------------------------------------------------------------------------
(* The invariant holds in the initial states and is kept by every step.       *)
LEMMA B3InitSafe ==
    ASSUME B3Init
    PROVE  B3Safe
  <1> USE DEF B3Init
  <1>0. KeptProofs = {} /\ Tombs = {} /\ \A c \in Calls : b3Call[c].pc = "idle"
    BY DEF KeptProofs, Tombs, IdleProofCall
  <1>1. B3Shapes
    <2>1. PICK wiring \in Wirings : b3Verifier = wiring[1]
      OBVIOUS
    <2>2. b3Verifier \in Backends \cup {NoIdentity}
      BY <2>1, ContractAssumption
    <2>3. b3Now \in -1..MaxProofTime /\ b3Last \in -1..MaxProofTime /\ b3Asks \in 0..MaxProofAsks
      BY BitVm3Assumption
    <2> QED
      BY <1>0, <2>2, <2>3 DEF B3Shapes
  <1>2. B3Lines
    <2>1. Callers(b3Call, Proofs) = [p \in Proofs |-> {}]
      BY <1>0 DEF Callers
    <2>2. Lined([p \in Proofs |-> NoCall], [c \in Calls |-> NoCall], [p \in Proofs |-> {}])
      BY NobodyLined
    <2> QED
      BY <2>1, <2>2 DEF B3Lines
  <1>3. B3Accepted /\ B3EvidenceSound /\ B3Remembered /\ B3MayBind
    BY <1>0 DEF B3Accepted, B3EvidenceSound, B3Remembered, B3MayBind
  <1>4. B3ReservationsHeld
    BY <1>0, <1>1, ReservedHeld DEF B3Holds
  <1>5. B3Bounded
    <2>1. KeptProofs \cup b3Reserved = {}
      BY <1>0
    <2> QED
      BY <1>0, <2>1, FS_EmptySet, BitVm3Assumption DEF B3Bounded, B3CapacityHeld
  <1> QED
    BY <1>1, <1>2, <1>3, <1>4, <1>5 DEF B3Safe

LEMMA B3NextSafe ==
    ASSUME B3Safe, [B3Next]_b3Vars
    PROVE  B3Safe'
  BY B3ShapesKept, B3AcceptedKept, B3LinesKept, B3ReservationsKept, B3BoundedKept, B3EvidenceKept,
     B3RememberedKept, B3MayBindKept
     DEF B3Safe

(* What the invariant implies of the properties of the orchestrator.          *)
LEMMA B3SafeImplies ==
    ASSUME B3Safe
    PROVE  B3TypeOK /\ B3LineSound /\ B3CapacityHeld /\ B3ReservationsHeld /\ B3EvidenceSound
  <1>1. B3TypeOK
    <2>1. \A c \in Calls :
            b3Call[c] # IdleProofCall =>
              /\ b3Call[c].pc \in {"queued", "verifying", "releasing", "leaving"}
              /\ b3Call[c].id \in Proofs /\ b3Call[c].request \in ProofRequests
      BY DEF B3Safe, B3Shapes, B3Asking, B3Answered
    <2> QED
      BY <2>1 DEF B3TypeOK, B3Safe, B3Shapes
  <1>2. B3LineSound
    <2> DEFINE in == [p \in Proofs |-> ProofCallsOn(p)]
               inside == [p \in Proofs |-> ProofCallsOn(p) \ ProofCallsAt(p, {"queued"})]
    <2>1. Lined(b3Tail, b3Prev, in) /\ DOMAIN b3Tail = Proofs
      BY DEF B3Safe, B3Lines, B3Shapes, Callers, ProofCallsOn
    <2>2. \A p \in Proofs : inside[p] \subseteq {c \in in[p] : b3Prev[c] = NoCall}
      BY DEF B3Safe, B3Lines, ProofCallsAt, ProofCallsOn
    <2> HIDE DEF in, inside
    <2>3. LineSound(b3Tail, b3Prev, in, inside)
      BY <2>1, <2>2, LinedSound
    <2> QED
      BY <2>3 DEF B3LineSound, in, inside
  <1> QED
    BY <1>1, <1>2 DEF B3Safe, B3Bounded

(* A retained proof goes only by a sweep.                                    *)
LEMMA B3Evicts ==
    ASSUME B3Safe, [B3Next]_b3Vars
    PROVE  B3EvictionSafe
  <1> SUFFICES ASSUME NEW p \in KeptProofs, b3State'[p] # b3State[p]
               PROVE  /\ b3State'[p] = Absent
                      /\ ProofCallsOn(p) = {}
                      /\ b3Now >= b3State[p].at + ProofTtl
                      /\ b3Tomb'[p].digest = b3State[p].digest /\ b3Tomb'[p].expiresAt >= b3Now + TombstoneTtl
    BY DEF B3EvictionSafe
  <1>0. p \in Proofs /\ b3Now \in Int /\ TombstoneTtl \in Int
    BY BitVm3Assumption DEF KeptProofs, B3Safe, B3Shapes
  <1>1. ASSUME NEW buried, B3SweptOf(buried)
        PROVE  /\ b3State'[p] = Absent
               /\ ProofCallsOn(p) = {}
               /\ b3Now >= b3State[p].at + ProofTtl
               /\ b3Tomb'[p].digest = b3State[p].digest /\ b3Tomb'[p].expiresAt >= b3Now + TombstoneTtl
    <2>1. p \in buried
      BY <1>0, <1>1, Sweeps
    <2>2. /\ b3Now >= b3State[p].at + ProofTtl /\ ~IsQueued(b3Tail, p) /\ b3Tomb'[p] = Tombstone(p)
          /\ p \notin KeptProofs'
      BY <1>1, <2>1, Sweeps
    <2>3. b3Tomb'[p].digest = b3State[p].digest /\ b3Tomb'[p].expiresAt = b3Now + TombstoneTtl
      BY <2>2 DEF Tombstone
    <2> QED
      BY <1>0, <2>2, <2>3, B3NobodyQueued DEF KeptProofs
  <1>2. ASSUME NEW c \in Calls, B3Commits(c) PROVE FALSE
    BY <1>0, <1>2, B3Committed
  <1>3. b3State' # b3State
    OBVIOUS
  <1> QED
    BY <1>1, <1>2, <1>3, B3StepKinds, B3Queues
       DEF B3Safe, B3Quiet, B3Cleans, B3Reserves, B3Replies, B3Refuses, B3Releases, LeaveProof

(* An identifier is given to another request only by a commit.                *)
LEMMA B3Identifies ==
    ASSUME B3Safe, [B3Next]_b3Vars
    PROVE  B3IdentityHeld
  <1> SUFFICES ASSUME NEW p \in Proofs, b3Bound[p] # Absent, b3Bound'[p].digest # b3Bound[p].digest
               PROVE  b3Bound'[p].at >= b3Bound[p].at + ProofTtl + TombstoneTtl
    BY DEF B3IdentityHeld
  <1>1. ASSUME NEW c \in Calls, B3Commits(c)
        PROVE  b3Bound'[p].at >= b3Bound[p].at + ProofTtl + TombstoneTtl
    <2>1. p = b3Call[c].id
      BY <1>1, B3Committed
    <2>2. /\ b3Bound'[p].at = b3Now /\ b3Bound'[p].digest = b3Call[c].request.digest
          /\ b3Now \in 0..MaxProofTime /\ b3Now >= b3Last
      BY <1>1, <2>1, B3Committed
    <2>3. b3Call[c].pc = "verifying"
      BY <1>1 DEF B3Commits
    <2>4. b3Last >= b3Bound[p].at + ProofTtl + TombstoneTtl
      BY <2>1, <2>2, <2>3 DEF B3Safe, B3MayBind
    <2>5. b3Bound[p].at \in Int /\ b3Last \in Int /\ ProofTtl \in Int /\ TombstoneTtl \in Int
      BY BitVm3Assumption DEF B3Safe, B3Remembered, B3Shapes
    <2> QED
      BY <2>2, <2>4, <2>5
  <1>2. b3Bound' # b3Bound
    OBVIOUS
  <1> QED
    BY <1>1, <1>2, B3StepKinds, B3Queues
       DEF B3Safe, B3Quiet, B3Cleans, B3SweptOf, B3Reserves, B3Replies, B3Refuses, B3Releases, LeaveProof

---------------------------------------------------------------------------
(* The process. *)

(* The inductive invariant: that of each bridge.                              *)
BridgesSafe == ZkSafe /\ B2Safe /\ B3Safe

LEMMA BridgesInitSafe ==
    ASSUME Init
    PROVE  BridgesSafe
  BY ZkInitSafe, B2InitSafe, B3InitSafe DEF Init, BridgesSafe

(* A step of the process is a step or a stutter of each bridge.                *)
LEMMA BridgeSteps ==
    ASSUME [Next]_vars
    PROVE  [ZkNext]_zkVars /\ [B2Next]_b2Vars /\ [B3Next]_b3Vars
  BY DEF Next, InZkcp, InBitVm2, InBitVm3, vars

LEMMA BridgesNextSafe ==
    ASSUME BridgesSafe, [Next]_vars
    PROVE  BridgesSafe'
  BY BridgeSteps, ZkNextSafe, B2NextSafe, B3NextSafe DEF BridgesSafe

LEMMA BridgesSafeAlways == Spec => []BridgesSafe
  <1>1. Init => BridgesSafe
    BY BridgesInitSafe
  <1>2. BridgesSafe /\ [Next]_vars => BridgesSafe'
    BY BridgesNextSafe
  <1> QED
    BY <1>1, <1>2, PTL DEF Spec

(* Theorem: every variable of every bridge has its type.                      *)
THEOREM BridgesTypeOK == Spec => []TypeOK
  <1>1. BridgesSafe => TypeOK
    BY ZkSafeImplies, B2SafeImplies, B3SafeImplies DEF BridgesSafe, TypeOK
  <1> QED
    BY <1>1, BridgesSafeAlways, PTL

(* Theorem: an intent is verified or paid, a floor or a proof retained, and a   *)
(* caller told so, only on an answer that the configured backend was           *)
(* authorized to give to exactly that request (EvidenceSound).                 *)
THEOREM BridgesEvidenceSound == Spec => []EvidenceSound
  <1>1. BridgesSafe => EvidenceSound
    BY ZkSafeImplies, B2SafeImplies, B3SafeImplies DEF BridgesSafe, EvidenceSound
  <1> QED
    BY <1>1, BridgesSafeAlways, PTL

(* Theorem: the signatures aggregated on a floor come from distinct signers of *)
(* its profile, each attested for this floor and this value, and the floor is   *)
(* complete exactly when as many signed as required (SignaturesSound).         *)
THEOREM BridgesSignaturesSound == Spec => []SignaturesSound
  <1>1. BridgesSafe => SignaturesSound
    BY B2SafeImplies DEF BridgesSafe, SignaturesSound
  <1> QED
    BY <1>1, BridgesSafeAlways, PTL

(* Theorem: the promise queues let one call per identifier in at a time, and    *)
(* every call that waits stands behind another one of its line (LinesSound).    *)
THEOREM BridgesLinesSound == Spec => []LinesSound
  <1>1. BridgesSafe => LinesSound
    BY ZkSafeImplies, B2SafeImplies, B3SafeImplies DEF BridgesSafe, LinesSound
  <1> QED
    BY <1>1, BridgesSafeAlways, PTL

(* Theorem: a place or a signer is reserved, an operation current, exactly      *)
(* while the call that claimed it waits for its adapter (ClaimsHeld).          *)
THEOREM BridgesClaimsHeld == Spec => []ClaimsHeld
  <1>1. BridgesSafe => ClaimsHeld
    BY ZkSafeImplies, B2SafeImplies, B3SafeImplies DEF BridgesSafe, ClaimsHeld
  <1> QED
    BY <1>1, BridgesSafeAlways, PTL

(* Theorem: no bridge retains more than its limits, what calls in flight have   *)
(* reserved counted (CapacityHeld).                                         *)
THEOREM BridgesCapacityHeld == Spec => []CapacityHeld
  <1>1. BridgesSafe => CapacityHeld
    BY ZkSafeImplies, B2SafeImplies, B3SafeImplies DEF BridgesSafe, CapacityHeld
  <1> QED
    BY <1>1, BridgesSafeAlways, PTL

(* Theorem: no step drops a record that is in use, under way or not old enough, *)
(* and none takes a signature or a challenge from a floor (EvictionSafe).       *)
THEOREM BridgesEvictionSafe == Spec => EvictionSafe
  <1>1. BridgesSafe /\ [Next]_vars => ZkEvictionSafe /\ B2EvictionSafe /\ B3EvictionSafe
    BY BridgeSteps, ZkEvicts, B2Evicts, B3Evicts DEF BridgesSafe
  <1> QED
    BY <1>1, BridgesSafeAlways, PTL DEF Spec, EvictionSafe

(* Theorem: a BitVM3 identifier is given to another request only when both      *)
(* retentions, of the proof and of its tombstone, have passed since it was      *)
(* last given (IdentityHeld).                                                *)
THEOREM BridgesIdentityHeld == Spec => IdentityHeld
  <1>1. BridgesSafe /\ [Next]_vars => B3IdentityHeld
    BY BridgeSteps, B3Identifies DEF BridgesSafe
  <1> QED
    BY <1>1, BridgesSafeAlways, PTL DEF Spec, IdentityHeld

(* Theorem: the bridges implement the ledger of intents: terms are fixed when    *)
(* an intent is opened, it is verified before it is paid, a payment is final,   *)
(* and an identifier is opened again only after its intent was over.           *)
THEOREM BridgesImplementLedger == Spec => ImplementsIntentLedger
  <1>1. Init => Ledger!Init
    BY LedgerInit DEF Init
  <1>2. BridgesSafe /\ [Next]_vars => [Ledger!Next]_Seen
    BY BridgeSteps, LedgerStep DEF BridgesSafe
  <1> QED
    BY <1>1, <1>2, BridgesSafeAlways, PTL DEF Spec, ImplementsIntentLedger, Ledger!Spec, Seen
=============================================================================
