----------------------------- MODULE ServiceProofs -----------------------------
(***************************************************************************)
(* Proofs about the services that keep files or talk to others: the daemons     *)
(* that deliver, the knowledge store, the claims ledger, the SIDL store and the  *)
(* metrics, for every number of processes, every batch, mailbox and chain, and    *)
(* every order in which two of them run over each other.                       *)
(*                                                                         *)
(* What is promised of executions where no two workers overlapped has a part of  *)
(* the invariant of its own (EdAlone, SmAlone, SidlAlone, the end of KbInv):       *)
(* what is at a worker has not been tried, filed or saved by another.  The         *)
(* shadow monitor needs none: two polls never ask for the transactions of the      *)
(* same block.  The sums that the claims ledger is about are SumOver of the        *)
(* model; what they are made of is proved first, by induction on the parts of a    *)
(* finite set (EveryPartOf).                                                 *)
(***************************************************************************)
EXTENDS
    EventDelivery, SupportMail, ShadowMonitor, KnowledgeBase, ClaimsLedger, SidlStore, SidlMetrics,
    FiniteSetsExt, FiniteSetTheorems, SequenceTheorems, WellFoundedInduction, TLAPS

(* A set of natural numbers that is not empty has a least element.           *)
LEMMA LeastNumber ==
    ASSUME NEW S, S \subseteq Nat, S # {}
    PROVE  \E m \in S : \A n \in S : m <= n
  <1>1. PICK m \in S : \A n \in S : <<n, m>> \notin OpToRel(<, Nat)
    BY NatLessThanWellFounded, WFMin, Zenon
  <1>2. \A n \in S : ~(n < m)
    BY <1>1, Zenon DEF OpToRel
  <1> QED
    BY <1>2

(***************************************************************************)
(* Sums over finite sets.                                                   *)
(***************************************************************************)
(* What is true of a set when it is true of all smaller parts of it is true of *)
(* every part of a finite set.  Good is the set of the parts it is true of.     *)
LEMMA EveryPartOf ==
    ASSUME NEW S, IsFiniteSet(S), NEW Good,
           \A T \in SUBSET S : (\A U \in SUBSET T : U # T => U \in Good) => T \in Good
    PROVE  SUBSET S \subseteq Good
  <1> DEFINE Bad == {T \in SUBSET S : T \notin Good}
             Sizes == {Cardinality(T) : T \in Bad}
  <1> SUFFICES ASSUME Bad # {} PROVE FALSE
    OBVIOUS
  <1>1. \A T \in SUBSET S : IsFiniteSet(T) /\ Cardinality(T) \in Nat
    BY FS_Subset, FS_CardinalityType
  <1>2. Sizes \subseteq Nat /\ Sizes # {}
    BY <1>1
  <1>3. PICK m \in Sizes : \A n \in Sizes : m <= n
    BY <1>2, LeastNumber, Zenon
  <1>4. PICK T \in Bad : m = Cardinality(T)
    BY <1>3
  <1>5. ASSUME NEW U \in SUBSET T, U # T PROVE U \in Good
    <2>1. Cardinality(U) < Cardinality(T)
      <3>1. Cardinality(U) <= Cardinality(T) /\ Cardinality(U) # Cardinality(T)
        BY <1>1, <1>5, FS_Subset
      <3>2. U \in SUBSET S
        OBVIOUS
      <3> QED
        BY <1>1, <3>1, <3>2
    <2>2. U \in Bad => Cardinality(U) \in Sizes
      OBVIOUS
    <2>3. U \notin Bad
      <3> HIDE DEF Bad, Sizes
      <3>1. U \in SUBSET S
        BY DEF Bad
      <3> QED
        BY <1>1, <1>3, <1>4, <2>1, <2>2, <3>1 DEF Bad
    <2> QED
      BY <2>3
  <1> QED
    BY <1>4, <1>5

---------------------------------------------------------------------------
(* The sum of a function over a finite set.                                  *)
SumOver(f, S) == MapThenSumSet(LAMBDA x : f[x], S)

Chosen(s) == CHOOSE x \in s : TRUE

(* What the recursive function inside MapThenSumSet has to satisfy.          *)
Summed(f, S, g) == g = [s \in SUBSET S |-> IF s = {} THEN 0 ELSE f[Chosen(s)] + g[s \ {Chosen(s)}]]

LEMMA SumByFunction == \A f, S : SumOver(f, S) = (CHOOSE g : Summed(f, S, g))[S]
  BY DEF SumOver, MapThenSumSet, MapThenFoldSet, Summed, Chosen

LEMMA ChosenIn == \A s : s # {} => Chosen(s) \in s
  BY DEF Chosen

(* It satisfies it up to some size of the sets.                              *)
SummedTo(f, S, g, n) ==
    /\ g = [s \in SUBSET S |-> g[s]]
    /\ \A s \in SUBSET S : Cardinality(s) <= n =>
        g[s] = IF s = {} THEN 0 ELSE f[Chosen(s)] + g[s \ {Chosen(s)}]

LEMMA SummedExists ==
    ASSUME NEW f, NEW S, IsFiniteSet(S)
    PROVE  \E g : Summed(f, S, g)
  <1>0. \A s \in SUBSET S : IsFiniteSet(s) /\ Cardinality(s) \in Nat
    BY FS_Subset, FS_CardinalityType
  <1>1. ASSUME NEW s \in SUBSET S, s # {}
        PROVE  s \ {Chosen(s)} \in SUBSET S /\ Cardinality(s \ {Chosen(s)}) = Cardinality(s) - 1 /\ Cardinality(s) # 0
    BY <1>0, <1>1, ChosenIn, FS_RemoveElement, FS_EmptySet, Zenon
  <1> DEFINE Bad == {n \in Nat : ~ \E g : SummedTo(f, S, g, n)}
  <1>2. Bad = {}
    <2> SUFFICES ASSUME Bad # {} PROVE FALSE
      OBVIOUS
    <2>1. Bad \subseteq Nat
      OBVIOUS
    <2>2. PICK n \in Bad : \A k \in Bad : n <= k
      <3> HIDE DEF Bad
      <3> QED
        BY <2>1, LeastNumber, Zenon
    <2>3. n # 0
      <3> SUFFICES ASSUME n = 0 PROVE FALSE
        OBVIOUS
      <3> DEFINE g == [s \in SUBSET S |-> 0]
      <3>1. \A s \in SUBSET S : Cardinality(s) <= 0 => s = {}
        BY <1>0, FS_EmptySet
      <3>2. g = [s \in SUBSET S |-> g[s]] /\ \A s \in SUBSET S : Cardinality(s) <= 0 => g[s] = 0
        OBVIOUS
      <3>3. SummedTo(f, S, g, 0)
        <4> HIDE DEF g
        <4> QED
          BY <3>1, <3>2, Zenon DEF SummedTo
      <3> QED
        BY <3>3
    <2>4. n - 1 \in Nat /\ n - 1 \notin Bad
      <3>1. n \in Nat /\ n - 1 \in Nat /\ ~(n <= n - 1)
        BY <2>1, <2>3
      <3> HIDE DEF Bad
      <3> QED
        BY <2>2, <3>1
    <2>5. PICK g : SummedTo(f, S, g, n - 1)
      BY <2>4
    <2> DEFINE h == [s \in SUBSET S |-> IF Cardinality(s) <= n - 1 THEN g[s] ELSE f[Chosen(s)] + g[s \ {Chosen(s)}]]
    <2>6. h = [s \in SUBSET S |-> h[s]]
      OBVIOUS
    <2>7. ASSUME NEW s \in SUBSET S, Cardinality(s) <= n
          PROVE  h[s] = IF s = {} THEN 0 ELSE f[Chosen(s)] + h[s \ {Chosen(s)}]
      <3>1. CASE s = {}
        <4>1. Cardinality(s) <= n - 1
          BY <2>4, <3>1, FS_EmptySet
        <4>2. h[s] = g[s]
          BY <4>1
        <4>3. g[s] = 0
          BY <2>5, <3>1, <4>1, Zenon DEF SummedTo
        <4> HIDE DEF h
        <4> QED
          BY <3>1, <4>2, <4>3
      <3>2. CASE s # {}
        <4>1. /\ s \ {Chosen(s)} \in SUBSET S /\ Cardinality(s \ {Chosen(s)}) <= n - 1
          BY <1>0, <1>1, <2>4, <2>7, <3>2
        <4>2. h[s \ {Chosen(s)}] = g[s \ {Chosen(s)}]
          BY <4>1
        <4>3. h[s] = f[Chosen(s)] + g[s \ {Chosen(s)}]
          BY <2>5, <3>2, Zenon DEF SummedTo
        <4> HIDE DEF h
        <4> QED
          BY <3>2, <4>2, <4>3
      <3> QED
        BY <3>1, <3>2
    <2>8. SummedTo(f, S, h, n)
      <3> HIDE DEF h
      <3> QED
        BY <2>6, <2>7, Zenon DEF SummedTo
    <2> QED
      BY <2>8
  <1>3. PICK g : SummedTo(f, S, g, Cardinality(S))
    BY <1>0, <1>2
  <1>4. \A s \in SUBSET S : g[s] = IF s = {} THEN 0 ELSE f[Chosen(s)] + g[s \ {Chosen(s)}]
    BY <1>3, FS_Subset, Zenon DEF SummedTo
  <1>5. g = [s \in SUBSET S |-> g[s]]
    BY <1>3 DEF SummedTo
  <1> QED
    BY <1>4, <1>5, Zenon DEF Summed

(* The sum of a part does not depend on the set it is a part of.              *)
LEMMA SummedSame ==
    ASSUME NEW f, NEW S, IsFiniteSet(S), NEW g, Summed(f, S, g),
           NEW e, NEW T, NEW h, Summed(e, T, h), S \subseteq T,
           \A x \in S : f[x] = e[x]
    PROVE  \A s \in SUBSET S : g[s] = h[s]
  <1> DEFINE Good == {s \in SUBSET S : g[s] = h[s]}
  <1>1. ASSUME NEW s \in SUBSET S, \A u \in SUBSET s : u # s => u \in Good PROVE s \in Good
    <2>1. /\ g[s] = IF s = {} THEN 0 ELSE f[Chosen(s)] + g[s \ {Chosen(s)}]
          /\ h[s] = IF s = {} THEN 0 ELSE e[Chosen(s)] + h[s \ {Chosen(s)}]
      BY Zenon DEF Summed
    <2>2. CASE s = {}
      BY <2>1, <2>2
    <2>3. CASE s # {}
      <3>1. Chosen(s) \in s
        BY <2>3, ChosenIn
      <3>2. s \ {Chosen(s)} \in SUBSET s /\ s \ {Chosen(s)} # s
        BY <3>1
      <3>3. g[s \ {Chosen(s)}] = h[s \ {Chosen(s)}]
        BY <1>1, <3>2
      <3> QED
        BY <2>1, <2>3, <3>1, <3>3
    <2> QED
      BY <2>2, <2>3
  <1>2. SUBSET S \subseteq Good
    <2> HIDE DEF Good
    <2> QED
      BY <1>1, EveryPartOf, Zenon
  <1> QED
    BY <1>2

LEMMA SumOfPart ==
    ASSUME NEW f, NEW S, IsFiniteSet(S), NEW g, Summed(f, S, g), NEW s \in SUBSET S
    PROVE  SumOver(f, s) = g[s]
  <1>1. IsFiniteSet(s)
    BY FS_Subset
  <1>2. PICK h : h = CHOOSE k : Summed(f, s, k)
    OBVIOUS
  <1>3. Summed(f, s, h)
    BY <1>1, <1>2, SummedExists
  <1>4. SumOver(f, s) = h[s]
    BY <1>2, SumByFunction
  <1>5. \A u \in SUBSET s : h[u] = g[u]
    BY <1>1, <1>3, SummedSame
  <1> QED
    BY <1>4, <1>5

(* Two functions that agree on a set have the same sum over it.              *)
LEMMA SumSame ==
    ASSUME NEW f, NEW e, NEW S, IsFiniteSet(S), \A x \in S : f[x] = e[x]
    PROVE  SumOver(f, S) = SumOver(e, S)
  <1>1. PICK g : Summed(f, S, g)
    BY SummedExists
  <1>2. PICK h : Summed(e, S, h)
    BY SummedExists
  <1>3. \A s \in SUBSET S : g[s] = h[s]
    BY <1>1, <1>2, SummedSame
  <1> QED
    BY <1>1, <1>2, <1>3, SumOfPart

LEMMA SumEmpty == \A f : SumOver(f, {}) = 0
  <1> TAKE f
  <1>1. IsFiniteSet({})
    BY FS_EmptySet
  <1>2. PICK g : Summed(f, {}, g)
    BY <1>1, SummedExists
  <1>3. g[{}] = 0
    BY <1>2 DEF Summed
  <1> QED
    BY <1>1, <1>2, <1>3, SumOfPart

LEMMA SumChosen ==
    ASSUME NEW f, NEW S, IsFiniteSet(S), S # {}
    PROVE  SumOver(f, S) = f[Chosen(S)] + SumOver(f, S \ {Chosen(S)})
  <1>1. PICK g : Summed(f, S, g)
    BY SummedExists
  <1>2. g[S] = f[Chosen(S)] + g[S \ {Chosen(S)}]
    BY <1>1, Zenon DEF Summed
  <1>3. SumOver(f, S) = g[S] /\ SumOver(f, S \ {Chosen(S)}) = g[S \ {Chosen(S)}]
    BY <1>1, SumOfPart
  <1> QED
    BY <1>2, <1>3

LEMMA SumInt ==
    ASSUME NEW f, NEW S, IsFiniteSet(S), \A x \in S : f[x] \in Int
    PROVE  \A s \in SUBSET S : SumOver(f, s) \in Int
  <1> DEFINE Good == {s \in SUBSET S : SumOver(f, s) \in Int}
  <1>1. ASSUME NEW s \in SUBSET S, \A u \in SUBSET s : u # s => u \in Good PROVE s \in Good
    <2>1. CASE s = {}
      BY <2>1, SumEmpty
    <2>2. CASE s # {}
      <3>1. Chosen(s) \in s /\ IsFiniteSet(s)
        BY <2>2, ChosenIn, FS_Subset
      <3>2. s \ {Chosen(s)} \in SUBSET s /\ s \ {Chosen(s)} # s
        BY <3>1
      <3>3. SumOver(f, s \ {Chosen(s)}) \in Int
        BY <1>1, <3>2
      <3>4. SumOver(f, s) = f[Chosen(s)] + SumOver(f, s \ {Chosen(s)})
        BY <2>2, <3>1, SumChosen
      <3>5. f[Chosen(s)] \in Int
        BY <3>1
      <3> QED
        BY <3>3, <3>4, <3>5
    <2> QED
      BY <2>1, <2>2
  <1>2. SUBSET S \subseteq Good
    <2> HIDE DEF Good
    <2> QED
      BY <1>1, EveryPartOf
  <1> QED
    BY <1>2

(* Any element may be taken out first.                                       *)
LEMMA SumRemove ==
    ASSUME NEW f, NEW S, IsFiniteSet(S), \A x \in S : f[x] \in Int
    PROVE  \A s \in SUBSET S : \A x \in s : SumOver(f, s) = f[x] + SumOver(f, s \ {x})
  <1> DEFINE Good == {s \in SUBSET S : \A x \in s : SumOver(f, s) = f[x] + SumOver(f, s \ {x})}
  <1>0. \A s \in SUBSET S : SumOver(f, s) \in Int
    BY SumInt
  <1>1. ASSUME NEW s \in SUBSET S, \A u \in SUBSET s : u # s => u \in Good PROVE s \in Good
    <2> SUFFICES ASSUME NEW x \in s PROVE SumOver(f, s) = f[x] + SumOver(f, s \ {x})
      OBVIOUS
    <2>1. PICK c : c = Chosen(s)
      OBVIOUS
    <2>2. c \in s /\ IsFiniteSet(s) /\ SumOver(f, s) = f[c] + SumOver(f, s \ {c})
      BY <2>1, ChosenIn, FS_Subset, SumChosen
    <2>3. CASE x = c
      BY <2>2, <2>3
    <2>4. CASE x # c
      <3>1. /\ s \ {c} \in SUBSET s /\ s \ {c} # s /\ x \in s \ {c}
            /\ s \ {x} \in SUBSET s /\ s \ {x} # s /\ c \in s \ {x}
            /\ (s \ {c}) \ {x} = (s \ {x}) \ {c}
        BY <2>2, <2>4
      <3>2. s \ {c} \in Good /\ s \ {x} \in Good
        BY <1>1, <3>1
      <3>3. SumOver(f, s \ {c}) = f[x] + SumOver(f, (s \ {c}) \ {x})
        BY <3>1, <3>2
      <3>4. SumOver(f, s \ {x}) = f[c] + SumOver(f, (s \ {x}) \ {c})
        BY <3>1, <3>2, Zenon
      <3>5. f[c] \in Int /\ f[x] \in Int
        BY <2>2
      <3>6. (s \ {x}) \ {c} \in SUBSET S
        OBVIOUS
      <3>7. SumOver(f, (s \ {x}) \ {c}) \in Int
        BY <1>0, <3>6
      <3>8. PICK r : r = SumOver(f, (s \ {x}) \ {c}) /\ r = SumOver(f, (s \ {c}) \ {x})
        BY <3>1
      <3> QED
        BY <2>2, <3>3, <3>4, <3>5, <3>7, <3>8
    <2> QED
      BY <2>3, <2>4
  <1>2. SUBSET S \subseteq Good
    <2> HIDE DEF Good
    <2> QED
      BY <1>1, EveryPartOf
  <1> QED
    BY <1>2, Zenon

(* One element more.                                                         *)
LEMMA SumAdd ==
    ASSUME NEW f, NEW S, IsFiniteSet(S), NEW x, x \notin S, \A y \in S \cup {x} : f[y] \in Int
    PROVE  SumOver(f, S \cup {x}) = f[x] + SumOver(f, S)
  <1>1. IsFiniteSet(S \cup {x}) /\ (S \cup {x}) \ {x} = S
    BY FS_AddElement
  <1>2. S \cup {x} \in SUBSET (S \cup {x}) /\ x \in S \cup {x}
    OBVIOUS
  <1>3. SumOver(f, S \cup {x}) = f[x] + SumOver(f, (S \cup {x}) \ {x})
    BY <1>1, <1>2, SumRemove
  <1> QED
    BY <1>1, <1>3

LEMMA SumNat ==
    ASSUME NEW f, NEW S, IsFiniteSet(S), \A x \in S : f[x] \in Nat
    PROVE  \A s \in SUBSET S : SumOver(f, s) \in Nat
  <1> DEFINE Good == {s \in SUBSET S : SumOver(f, s) \in Nat}
  <1>1. ASSUME NEW s \in SUBSET S, \A u \in SUBSET s : u # s => u \in Good PROVE s \in Good
    <2>1. CASE s = {}
      BY <2>1, SumEmpty
    <2>2. CASE s # {}
      <3>1. Chosen(s) \in s /\ IsFiniteSet(s)
        BY <2>2, ChosenIn, FS_Subset
      <3>2. s \ {Chosen(s)} \in SUBSET s /\ s \ {Chosen(s)} # s
        BY <3>1
      <3>3. SumOver(f, s \ {Chosen(s)}) \in Nat
        BY <1>1, <3>2
      <3>4. SumOver(f, s) = f[Chosen(s)] + SumOver(f, s \ {Chosen(s)})
        BY <2>2, <3>1, SumChosen
      <3>5. f[Chosen(s)] \in Nat
        BY <3>1
      <3> QED
        BY <3>3, <3>4, <3>5
    <2> QED
      BY <2>1, <2>2
  <1>2. SUBSET S \subseteq Good
    <2> HIDE DEF Good
    <2> QED
      BY <1>1, EveryPartOf
  <1> QED
    BY <1>2

(* What counts nothing may be left out.                                      *)
LEMMA SumZero ==
    ASSUME NEW f, NEW S, IsFiniteSet(S), \A x \in S : f[x] \in Int,
           NEW T, \A x \in S : x \notin T => f[x] = 0
    PROVE  SumOver(f, S) = SumOver(f, S \cap T)
  <1> DEFINE Good == {s \in SUBSET S : SumOver(f, s) = SumOver(f, s \cap T)}
  <1>0. \A s \in SUBSET S : SumOver(f, s) \in Int
    BY SumInt
  <1>1. ASSUME NEW s \in SUBSET S, \A u \in SUBSET s : u # s => u \in Good PROVE s \in Good
    <2>1. CASE s = {}
      BY <2>1
    <2>2. CASE s # {}
      <3>1. PICK c : c \in s
        BY <2>2
      <3>2. s \ {c} \in SUBSET s /\ s \ {c} # s
        BY <3>1
      <3>3. SumOver(f, s \ {c}) = SumOver(f, (s \ {c}) \cap T)
        BY <1>1, <3>2
      <3>4. SumOver(f, s) = f[c] + SumOver(f, s \ {c})
        BY <3>1, SumRemove
      <3>5. CASE c \in T
        <4>1. c \in s \cap T /\ (s \cap T) \ {c} = (s \ {c}) \cap T /\ s \cap T \in SUBSET S
          BY <3>1, <3>5
        <4>2. SumOver(f, s \cap T) = f[c] + SumOver(f, (s \ {c}) \cap T)
          BY <4>1, SumRemove
        <4>3. SumOver(f, s) = SumOver(f, s \cap T)
          BY <3>3, <3>4, <4>2
        <4> QED
          BY <4>3
      <3>6. CASE c \notin T
        <4>1. s \cap T = (s \ {c}) \cap T /\ f[c] = 0 /\ s \ {c} \in SUBSET S
          BY <3>1, <3>6
        <4>2. SumOver(f, s \ {c}) \in Int
          BY <1>0, <4>1
        <4>3. SumOver(f, s) = SumOver(f, s \ {c})
          BY <3>4, <4>1, <4>2
        <4>4. SumOver(f, s \cap T) = SumOver(f, (s \ {c}) \cap T)
          BY <4>1
        <4> QED
          BY <3>3, <4>3, <4>4
      <3> QED
        BY <3>5, <3>6
    <2> QED
      BY <2>1, <2>2
  <1>2. SUBSET S \subseteq Good
    <2> HIDE DEF Good
    <2> QED
      BY <1>1, EveryPartOf
  <1> QED
    BY <1>2

(* What is nowhere more sums to no more.                                     *)
LEMMA SumBelow ==
    ASSUME NEW f, NEW h, NEW S, IsFiniteSet(S),
           \A x \in S : f[x] \in Int /\ h[x] \in Int /\ f[x] <= h[x]
    PROVE  SumOver(f, S) <= SumOver(h, S)
  <1> DEFINE Good == {s \in SUBSET S : SumOver(f, s) <= SumOver(h, s)}
  <1>0. \A s \in SUBSET S : SumOver(f, s) \in Int /\ SumOver(h, s) \in Int
    BY SumInt
  <1>1. ASSUME NEW s \in SUBSET S, \A u \in SUBSET s : u # s => u \in Good PROVE s \in Good
    <2>1. CASE s = {}
      <3>1. SumOver(f, s) = 0 /\ SumOver(h, s) = 0
        BY <2>1, SumEmpty
      <3> QED
        BY <3>1
    <2>2. CASE s # {}
      <3>1. PICK c : c \in s
        BY <2>2
      <3>2. s \ {c} \in SUBSET s /\ s \ {c} # s /\ s \ {c} \in SUBSET S
        BY <3>1
      <3>3. SumOver(f, s \ {c}) <= SumOver(h, s \ {c})
        BY <1>1, <3>2
      <3>4. SumOver(f, s) = f[c] + SumOver(f, s \ {c})
        BY <3>1, SumRemove
      <3>5. SumOver(h, s) = h[c] + SumOver(h, s \ {c})
        BY <3>1, SumRemove
      <3>6. /\ f[c] \in Int /\ h[c] \in Int /\ f[c] <= h[c]
            /\ SumOver(f, s \ {c}) \in Int /\ SumOver(h, s \ {c}) \in Int
        BY <1>0, <3>1, <3>2
      <3> QED
        BY <3>3, <3>4, <3>5, <3>6
    <2> QED
      BY <2>1, <2>2
  <1>2. SUBSET S \subseteq Good
    <2> HIDE DEF Good
    <2> QED
      BY <1>1, EveryPartOf
  <1> QED
    BY <1>2

(* What is left out of a set lowers its sum when it is not negative, and raises  *)
(* it when it is not positive.                                               *)
LEMMA SumPart ==
    ASSUME NEW f, NEW S, IsFiniteSet(S), \A x \in S : f[x] \in Int, NEW T \in SUBSET S
    PROVE  /\ (\A x \in S : x \notin T => f[x] >= 0) => SumOver(f, T) <= SumOver(f, S)
           /\ (\A x \in S : x \notin T => f[x] <= 0) => SumOver(f, S) <= SumOver(f, T)
  <1>1. PICK g : g = [x \in S |-> IF x \in T THEN f[x] ELSE 0]
    BY Zenon
  <1>2. \A x \in S : g[x] \in Int /\ (x \in T => g[x] = f[x]) /\ (x \notin T => g[x] = 0)
    BY <1>1
  <1>3. IsFiniteSet(T) /\ S \cap T = T
    BY FS_Subset
  <1>4. SumOver(g, S) = SumOver(g, S \cap T)
    BY <1>2, SumZero
  <1>5. SumOver(g, T) = SumOver(f, T)
    BY <1>2, <1>3, SumSame
  <1>6. (\A x \in S : x \notin T => f[x] >= 0) => SumOver(g, S) <= SumOver(f, S)
    <2> SUFFICES ASSUME \A x \in S : x \notin T => f[x] >= 0 PROVE SumOver(g, S) <= SumOver(f, S)
      OBVIOUS
    <2>1. \A x \in S : g[x] \in Int /\ f[x] \in Int /\ g[x] <= f[x]
      BY <1>2
    <2> QED
      BY <2>1, SumBelow
  <1>7. (\A x \in S : x \notin T => f[x] <= 0) => SumOver(f, S) <= SumOver(g, S)
    <2> SUFFICES ASSUME \A x \in S : x \notin T => f[x] <= 0 PROVE SumOver(f, S) <= SumOver(g, S)
      OBVIOUS
    <2>1. \A x \in S : f[x] \in Int /\ g[x] \in Int /\ f[x] <= g[x]
      BY <1>2
    <2> QED
      BY <2>1, SumBelow
  <1> QED
    BY <1>3, <1>4, <1>5, <1>6, <1>7

(* A common factor comes out of the sum.                                     *)
LEMMA SumScaled ==
    ASSUME NEW f, NEW h, NEW k \in Int, NEW S, IsFiniteSet(S),
           \A x \in S : f[x] \in Int /\ h[x] = f[x] * k
    PROVE  SumOver(h, S) = SumOver(f, S) * k
  <1> DEFINE Good == {s \in SUBSET S : SumOver(h, s) = SumOver(f, s) * k}
  <1>0. /\ \A s \in SUBSET S : SumOver(f, s) \in Int
        /\ \A x \in S : h[x] \in Int
    BY SumInt
  <1>1. ASSUME NEW s \in SUBSET S, \A u \in SUBSET s : u # s => u \in Good PROVE s \in Good
    <2>1. CASE s = {}
      <3>1. SumOver(h, s) = 0 /\ SumOver(f, s) = 0
        BY <2>1, SumEmpty
      <3> QED
        BY <3>1
    <2>2. CASE s # {}
      <3>1. PICK c : c \in s
        BY <2>2
      <3>2. s \ {c} \in SUBSET s /\ s \ {c} # s /\ s \ {c} \in SUBSET S
        BY <3>1
      <3>3. SumOver(h, s \ {c}) = SumOver(f, s \ {c}) * k
        BY <1>1, <3>2
      <3>4. SumOver(f, s) = f[c] + SumOver(f, s \ {c})
        BY <3>1, SumRemove
      <3>5. SumOver(h, s) = h[c] + SumOver(h, s \ {c})
        BY <1>0, <3>1, SumRemove
      <3>6. h[c] = f[c] * k /\ f[c] \in Int /\ SumOver(f, s \ {c}) \in Int
        BY <1>0, <3>1, <3>2
      <3>7. \A a, b \in Int : (a + b) * k = a * k + b * k
        OBVIOUS
      <3>8. (f[c] + SumOver(f, s \ {c})) * k = f[c] * k + SumOver(f, s \ {c}) * k
        BY <3>6, <3>7
      <3> QED
        BY <3>3, <3>4, <3>5, <3>6, <3>8
    <2> QED
      BY <2>1, <2>2
  <1>2. SUBSET S \subseteq Good
    <2> HIDE DEF Good
    <2> QED
      BY <1>1, EveryPartOf, Zenon
  <1> QED
    BY <1>2

(***************************************************************************)
(* Event delivery.                                                          *)
(***************************************************************************)
EdRecord == [status : {"pending", "delivered", "retrying", "failed"}, retries : Nat]

(* What an event that was tried once has for a record.                       *)
TriedOnce(e) ==
    IF edSent[e] = 1 THEN [status |-> "delivered", retries |-> 0] ELSE [status |-> "retrying", retries |-> 1]

(* While no two batches overlapped, what is under way has not been tried, and   *)
(* its record is its own.                                                   *)
EdAlone ==
    /\ \A b, o \in Batchers : UnderWay(b) /\ UnderWay(o) => b = o
    /\ \A e \in DOMAIN edRecords : e <= edLast /\ edObjects[edRecords[e]] = TriedOnce(e)
    /\ \A b \in Batchers : edSending[b] # NoDelivery =>
        /\ edSending[b].event > edLast
        /\ edObjects[edSending[b].object] = [status |-> "pending", retries |-> 0]
        /\ \A e \in DOMAIN edRecords : edRecords[e] # edSending[b].object

EdInv ==
    /\ edLast \in Feed \cup {0} /\ edOverlap \in BOOLEAN /\ edBatches \in 0 .. MaxBatches
    /\ DOMAIN edRecords \subseteq Feed /\ edObjects \in Seq(EdRecord)
    /\ \A e \in DOMAIN edRecords : edRecords[e] \in 1 .. Len(edObjects)
    /\ edBatch \in [Batchers -> SUBSET Feed]
    /\ edSending \in [Batchers -> [event : Feed \cup {0}, object : Nat]]
    /\ \A b \in Batchers : edSending[b] # NoDelivery =>
        edSending[b].event \in Feed /\ edSending[b].object \in 1 .. Len(edObjects)
    /\ edSent \in [Feed -> Nat]
    /\ edLast # 0 => edLast \in DOMAIN edRecords
    /\ \A e \in Feed : edSent[e] > 0 => e \in DOMAIN edRecords
    /\ ~edOverlap => EdAlone

LEMMA EdInitInv == EdInit => EdInv
  <1> SUFFICES ASSUME EdInit PROVE EdInv
    OBVIOUS
  <1>1. DOMAIN edRecords = {} /\ edObjects \in Seq(EdRecord)
    BY DEF EdInit
  <1>2. \A b \in Batchers : edSending[b] = NoDelivery /\ ~UnderWay(b)
    BY DEF EdInit, UnderWay
  <1>3. edSending \in [Batchers -> [event : Feed \cup {0}, object : Nat]]
    BY DEF EdInit, NoDelivery
  <1>4. EdAlone
    BY <1>1, <1>2 DEF EdAlone
  <1>5. edSent \in [Feed -> Nat] /\ \A e \in Feed : ~(edSent[e] > 0)
    BY DEF EdInit
  <1>6. edBatch \in [Batchers -> SUBSET Feed]
    BY DEF EdInit
  <1>7. edLast = 0 /\ edBatches \in 0 .. MaxBatches /\ edOverlap \in BOOLEAN
    <2>1. edLast = 0 /\ edBatches = 0 /\ edOverlap = FALSE
      BY DEF EdInit
    <2>2. MaxBatches \in Nat
      BY DeliveryAssumption
    <2>3. 0 \in 0 .. MaxBatches
      BY <2>2
    <2> QED
      BY <2>1, <2>3, Zenon
  <1> QED
    BY <1>1, <1>2, <1>3, <1>4, <1>5, <1>6, <1>7 DEF EdInv

LEMMA EdInvSound == EdInv => EdSound
  BY DEF EdInv, EdAlone, EdSound, TriedOnce, RecordOf

LEMMA NextEventIn == ASSUME NEW S, S \subseteq Feed, S # {} PROVE NextEvent(S) \in S
  <1>1. \E e \in S : \A o \in S : e <= o
    BY LeastNumber, DeliveryAssumption, Zenon
  <1> QED
    BY <1>1 DEF NextEvent

LEMMA EdBatchInv ==
    ASSUME EdInv, NEW b \in Batchers, NEW events \in SUBSET Feed, ProcessBatch(b, events)
    PROVE  EdInv'
  <1>1. ASSUME ~edOverlap' PROVE EdAlone'
    <2>1. ~edOverlap /\ \A o \in Batchers : ~UnderWay(o)
      BY <1>1, Zenon DEF ProcessBatch
    <2>2. \A o \in Batchers : o # b => ~UnderWay(o)'
      BY <2>1 DEF ProcessBatch, UnderWay, EdInv
    <2>3. \A o \in Batchers : edSending'[o] = NoDelivery
      BY <2>1 DEF ProcessBatch, UnderWay
    <2> QED
      BY <2>1, <2>2, <2>3 DEF EdInv, EdAlone, ProcessBatch, TriedOnce
  <1>2. edBatches' \in 0 .. MaxBatches
    BY DeliveryAssumption DEF EdInv, ProcessBatch
  <1> QED
    BY <1>1, <1>2 DEF EdInv, ProcessBatch

LEMMA EdSkipInv == ASSUME EdInv, NEW b \in Batchers, SkipEvent(b) PROVE EdInv'
  <1>1. ASSUME ~edOverlap' PROVE EdAlone'
    <2>1. ~edOverlap /\ EdAlone
      BY <1>1 DEF SkipEvent, EdInv
    <2>2. \A o \in Batchers : UnderWay(o)' => UnderWay(o)
      BY DEF SkipEvent, UnderWay, EdInv
    <2> QED
      BY <2>1, <2>2 DEF EdAlone, SkipEvent, TriedOnce
  <1>2. edBatch' \in [Batchers -> SUBSET Feed]
    BY DEF EdInv, SkipEvent
  <1> QED
    BY <1>1, <1>2 DEF EdInv, SkipEvent

LEMMA EdBeginInv == ASSUME EdInv, NEW b \in Batchers, BeginDelivery(b) PROVE EdInv'
  <1> DEFINE e == NextEvent(edBatch[b])
             known == e \in DOMAIN edRecords
             fresh == [status |-> "pending", retries |-> 0]
             o == IF known THEN edRecords[e] ELSE Len(edObjects) + 1
  <1>1. e \in Feed /\ e \in Nat \ {0} /\ ~(e <= edLast) /\ edLast \in Nat
    <2>1. e \in edBatch[b] /\ edBatch[b] \subseteq Feed
      BY NextEventIn, Zenon DEF EdInv, BeginDelivery
    <2>2. e \in Feed
      BY <2>1
    <2>3. ~(e <= edLast)
      BY DEF BeginDelivery, AlreadyProcessed
    <2>4. edLast \in Nat
      BY DeliveryAssumption DEF EdInv
    <2> QED
      BY <2>2, <2>3, <2>4, DeliveryAssumption, Zenon
  <1>2. /\ edSending' = [edSending EXCEPT ![b] = [event |-> e, object |-> o]]
        /\ edObjects' = IF known THEN edObjects ELSE Append(edObjects, fresh)
        /\ edBatch' = [edBatch EXCEPT ![b] = @ \ {e}]
        /\ edSending[b] = NoDelivery /\ edBatch[b] # {}
        /\ UNCHANGED <<edLast, edRecords, edSent, edBatches, edOverlap>>
    BY DEF BeginDelivery
  <1> HIDE DEF e
  <1>3. fresh \in EdRecord
    BY DEF EdRecord
  <1>4. /\ edObjects' \in Seq(EdRecord) /\ Len(edObjects) \in Nat /\ Len(edObjects') >= Len(edObjects)
        /\ Len(edObjects') \in Nat /\ o \in 1 .. Len(edObjects')
        /\ \A i \in 1 .. Len(edObjects) : edObjects'[i] = edObjects[i]
        /\ ~known => edObjects'[o] = fresh
    BY <1>2, <1>3 DEF EdInv
  <1>5. edSending' \in [Batchers -> [event : Feed \cup {0}, object : Nat]]
    BY <1>1, <1>2, <1>4 DEF EdInv
  <1>6. edBatch' \in [Batchers -> SUBSET Feed]
    BY <1>2 DEF EdInv
  <1>7. edSending'[b] = [event |-> e, object |-> o] /\ \A c \in Batchers : c # b => edSending'[c] = edSending[c]
    BY <1>2 DEF EdInv
  <1>8. ASSUME ~edOverlap' PROVE EdAlone'
    <2>1. EdAlone /\ UnderWay(b)
      BY <1>2, <1>8 DEF EdInv, UnderWay
    <2>2. ~known
      BY <1>1, <2>1, DeliveryAssumption DEF EdAlone, EdInv
    <2>3. \A c \in Batchers : c # b => ~UnderWay(c)
      BY <2>1 DEF EdAlone
    <2>4. \A c \in Batchers : c # b => ~UnderWay(c)' /\ edSending'[c] = NoDelivery
      BY <1>2, <1>7, <2>3 DEF UnderWay, EdInv
    <2>5. \A x \in DOMAIN edRecords : edRecords[x] \in 1 .. Len(edObjects) /\ edRecords[x] # o
      BY <1>4, <2>2 DEF EdInv
    <2>6. /\ edSending'[b].event > edLast /\ edObjects'[edSending'[b].object] = fresh
          /\ \A x \in DOMAIN edRecords : edRecords[x] # edSending'[b].object
      BY <1>1, <1>4, <1>7, <2>2, <2>5
    <2>7. \A x \in DOMAIN edRecords' : x <= edLast' /\ edObjects'[edRecords'[x]] = TriedOnce(x)'
      BY <1>2, <1>4, <2>1, <2>5 DEF EdAlone, TriedOnce
    <2> QED
      BY <1>2, <2>4, <2>6, <2>7, Zenon DEF EdAlone
  <1>9. \A c \in Batchers : edSending'[c] # NoDelivery =>
            edSending'[c].event \in Feed /\ edSending'[c].object \in 1 .. Len(edObjects')
    BY <1>1, <1>4, <1>7 DEF EdInv
  <1>10. \A x \in DOMAIN edRecords : edRecords[x] \in 1 .. Len(edObjects')
    BY <1>4 DEF EdInv
  <1> QED
    BY <1>2, <1>4, <1>5, <1>6, <1>8, <1>9, <1>10 DEF EdInv

LEMMA EdEndInv ==
    ASSUME EdInv, NEW b \in Batchers, NEW delivered \in BOOLEAN, EndDelivery(b, delivered)
    PROVE  EdInv'
  <1>0. PICK e, o : e = edSending[b].event /\ o = edSending[b].object
    OBVIOUS
  <1> DEFINE new == Attempted(edObjects[o], delivered)
  <1>1. /\ e \in Feed /\ e \in Nat \ {0} /\ o \in 1 .. Len(edObjects) /\ edLast \in Nat /\ Len(edObjects) \in Nat
        /\ edObjects[o] \in EdRecord /\ edSending[b] # NoDelivery
    BY <1>0, DeliveryAssumption DEF EdInv, EndDelivery
  <1>2. /\ edObjects' = [edObjects EXCEPT ![o] = new]
        /\ edRecords' = [x \in DOMAIN edRecords \cup {e} |-> IF x = e THEN o ELSE edRecords[x]]
        /\ edSent' = [edSent EXCEPT ![e] = IF delivered THEN @ + 1 ELSE @]
        /\ edLast' = e
        /\ edSending' = [edSending EXCEPT ![b] = NoDelivery]
        /\ UNCHANGED <<edBatch, edBatches, edOverlap>>
    BY <1>0 DEF EndDelivery
  <1>3. new \in EdRecord
    BY <1>1, DeliveryAssumption DEF Attempted, EdRecord
  <1>4. edObjects[o] = [status |-> "pending", retries |-> 0] =>
            new = IF delivered THEN [status |-> "delivered", retries |-> 0] ELSE [status |-> "retrying", retries |-> 1]
    BY DeliveryAssumption DEF Attempted
  <1> HIDE DEF new
  <1>5. /\ edObjects' \in Seq(EdRecord) /\ Len(edObjects') = Len(edObjects) /\ edObjects'[o] = new
        /\ \A i \in 1 .. Len(edObjects) : i # o => edObjects'[i] = edObjects[i]
    BY <1>1, <1>2, <1>3 DEF EdInv
  <1>6. /\ DOMAIN edRecords' = DOMAIN edRecords \cup {e} /\ edRecords'[e] = o
        /\ \A x \in DOMAIN edRecords : x # e => edRecords'[x] = edRecords[x]
    BY <1>2
  <1>7. /\ edSent' \in [Feed -> Nat] /\ edSent'[e] = (IF delivered THEN edSent[e] + 1 ELSE edSent[e])
        /\ \A x \in Feed : x # e => edSent'[x] = edSent[x]
    BY <1>1, <1>2 DEF EdInv
  <1>8. /\ edSending' \in [Batchers -> [event : Feed \cup {0}, object : Nat]] /\ edSending'[b] = NoDelivery
        /\ \A c \in Batchers : c # b => edSending'[c] = edSending[c]
    BY <1>2 DEF EdInv, NoDelivery
  <1>9. ASSUME ~edOverlap' PROVE EdAlone'
    <2>1. EdAlone /\ UnderWay(b)
      BY <1>1, <1>2, <1>9 DEF EdInv, UnderWay
    <2>2. \A c \in Batchers : UnderWay(c)' => UnderWay(c)
      BY <1>2, <1>8 DEF UnderWay
    <2>3. \A c \in Batchers : edSending'[c] = NoDelivery
      BY <1>8, <2>1 DEF EdAlone, UnderWay
    <2>4. /\ e > edLast /\ edObjects[o] = [status |-> "pending", retries |-> 0]
          /\ \A x \in DOMAIN edRecords : edRecords[x] # o
      BY <1>0, <1>1, <2>1 DEF EdAlone
    <2>5. e \notin DOMAIN edRecords /\ edSent[e] = 0
      BY <1>1, <2>1, <2>4 DEF EdAlone, EdInv
    <2>6. edObjects'[edRecords'[e]] = TriedOnce(e)'
      BY <1>4, <1>5, <1>6, <1>7, <2>4, <2>5 DEF TriedOnce
    <2>7. \A x \in DOMAIN edRecords : x < edLast' /\ edObjects'[edRecords'[x]] = TriedOnce(x)'
      <3> SUFFICES ASSUME NEW x \in DOMAIN edRecords PROVE x < edLast' /\ edObjects'[edRecords'[x]] = TriedOnce(x)'
        OBVIOUS
      <3>1. x \in Feed /\ x \in Nat /\ x # e /\ edRecords[x] \in 1 .. Len(edObjects) /\ edRecords[x] # o
        BY <2>4, <2>5, DeliveryAssumption, Zenon DEF EdInv
      <3>2. edObjects'[edRecords'[x]] = edObjects[edRecords[x]] /\ edSent'[x] = edSent[x]
        BY <1>5, <1>6, <1>7, <3>1
      <3>3. x <= edLast /\ edObjects[edRecords[x]] = TriedOnce(x)
        BY <2>1 DEF EdAlone
      <3>4. x < e
        BY <1>1, <2>4, <3>1, <3>3
      <3> QED
        BY <1>2, <3>2, <3>3, <3>4 DEF TriedOnce
    <2>8. \A x \in DOMAIN edRecords' : x <= edLast' /\ edObjects'[edRecords'[x]] = TriedOnce(x)'
      <3>1. e <= edLast'
        BY <1>1, <1>2
      <3>2. \A x \in DOMAIN edRecords : x \in Nat
        BY DeliveryAssumption, Zenon DEF EdInv
      <3>3. \A x \in DOMAIN edRecords : x <= edLast'
        BY <1>1, <1>2, <2>7, <3>2
      <3> QED
        BY <1>6, <2>6, <2>7, <3>1, <3>3
    <2> QED
      BY <2>1, <2>2, <2>3, <2>8 DEF EdAlone
  <1>10. \A x \in DOMAIN edRecords' : x \in Feed /\ edRecords'[x] \in 1 .. Len(edObjects')
    BY <1>1, <1>5, <1>6 DEF EdInv
  <1>11. \A c \in Batchers : edSending'[c] # NoDelivery =>
            edSending'[c].event \in Feed /\ edSending'[c].object \in 1 .. Len(edObjects')
    BY <1>5, <1>8 DEF EdInv
  <1>12. \A x \in Feed : edSent'[x] > 0 => x \in DOMAIN edRecords'
    BY <1>6, <1>7 DEF EdInv
  <1> QED
    BY <1>1, <1>2, <1>5, <1>6, <1>7, <1>8, <1>9, <1>10, <1>11, <1>12 DEF EdInv

LEMMA EdStepInv == EdInv /\ [EdNext]_edVars => EdInv'
  <1> SUFFICES ASSUME EdInv, [EdNext]_edVars PROVE EdInv'
    OBVIOUS
  <1>1. CASE UNCHANGED edVars
    BY <1>1 DEF edVars, EdInv, EdAlone, TriedOnce, UnderWay
  <1> QED
    BY <1>1, EdBatchInv, EdSkipInv, EdBeginInv, EdEndInv DEF EdNext

LEMMA EdStepFinal == EdInv /\ EdNext => EdFinal
  <1> SUFFICES ASSUME EdInv, EdNext PROVE EdFinal
    OBVIOUS
  <1>0. edLast \in Nat
    BY DeliveryAssumption DEF EdInv
  <1>1. CASE UNCHANGED <<edLast, edRecords>>
    BY <1>0, <1>1 DEF EdFinal
  <1>2. ASSUME NEW b \in Batchers, NEW delivered \in BOOLEAN, EndDelivery(b, delivered)
        PROVE  EdFinal
    <2>1. edLast' = edSending[b].event /\ DOMAIN edRecords \subseteq DOMAIN edRecords' /\ edSending[b] # NoDelivery
      BY <1>2 DEF EndDelivery
    <2>2. edSending[b].event \in Nat
      BY <2>1, DeliveryAssumption DEF EdInv
    <2>3. ~edOverlap => edSending[b].event > edLast
      BY <2>1 DEF EdInv, EdAlone
    <2> QED
      BY <1>0, <2>1, <2>2, <2>3 DEF EdFinal
  <1> QED
    BY <1>1, <1>2 DEF EdNext, ProcessBatch, SkipEvent, BeginDelivery

(* Theorem: while no two batches overlapped, an event is tried once and its     *)
(* record says what became of it; what was delivered has a record, and the mark *)
(* is at an event that was tried, always (EdSound).                          *)
THEOREM EventsSound == EdInit /\ [][EdNext]_edVars => []EdSound
  BY EdInitInv, EdStepInv, EdInvSound, PTL

(* Theorem: the mark goes back only when two batches overlapped, and no record  *)
(* is given up (EdFinal).                                                    *)
THEOREM EventsFinal == EdInit /\ [][EdNext]_edVars => [][EdFinal]_edVars
  <1>1. EdInv /\ [EdNext]_edVars => [EdFinal]_edVars
    BY EdStepFinal
  <1> QED
    BY <1>1, EdInitInv, EdStepInv, PTL

(***************************************************************************)
(* The support mail workers.                                                *)
(***************************************************************************)
MailPlaces == {"file", "refetch", "flag", "drop", "ack", "mark"}

(* What a worker is at when it is at no message.                             *)
AtNoMessage == {<<>>, <<"next">>}

Acking(m) == {w \in MailWorkers : MailAt(w, m, "ack")}

(* While nothing failed and no two workers overlapped, a message has an issue  *)
(* from its filing on, and is then at a worker until it is marked.            *)
SmAlone ==
    /\ \A w, o \in MailWorkers : Polling(w) /\ Polling(o) => w = o
    /\ \A w \in MailWorkers : smTodo[w] # {} => Polling(w)
    /\ \A m \in Mails :
        /\ smIssues[m] <= 1
        /\ smIssues[m] = 1 => "seen" \in smBox[m] \/ \E w \in MailWorkers : MailAt(w, m, "ack") \/ MailAt(w, m, "mark")
    /\ \A w \in MailWorkers : \A m \in Mails :
        /\ m \in smTodo[w] => smIssues[m] = 0
        /\ \A at \in {"file", "refetch", "flag", "drop"} : MailAt(w, m, at) => smIssues[m] = 0 /\ m \notin smTodo[w]

SmInv ==
    /\ smBox \in [Mails -> SUBSET {"arrived", "seen", "flagged"}]
    /\ smIssues \in [Mails -> Nat] /\ smAcks \in [Mails -> Nat]
    /\ smTodo \in [MailWorkers -> SUBSET Mails]
    /\ DOMAIN smStep = MailWorkers
    /\ smPolls \in 0 .. MaxPolls /\ smWithheld \subseteq Mails /\ smFaults \in BOOLEAN
    /\ \A m \in Mails :
        /\ smAcks[m] + Cardinality(Acking(m)) <= smIssues[m]
        /\ "seen" \in smBox[m] => smIssues[m] > 0 \/ m \in smWithheld
    /\ \A w \in MailWorkers : \A m \in Mails :
        /\ MailAt(w, m, "ack") \/ MailAt(w, m, "mark") => smIssues[m] > 0
        /\ MailAt(w, m, "flag") \/ MailAt(w, m, "drop") => m \in smWithheld
    /\ ~smFaults => SmAlone

(* Tuples of different lengths or places differ.                             *)
LEMMA SmTuples ==
    ASSUME NEW at, NEW m, NEW to, NEW n
    PROVE  /\ <<at, m>> # <<>> /\ <<at, m>> # <<"next">> /\ <<"next">> # <<>>
           /\ <<at, m>> = <<to, n>> <=> at = to /\ m = n
  <1>1. Len(<<at, m>>) = 2 /\ Len(<<"next">>) = 1 /\ Len(<<>>) = 0
    OBVIOUS
  <1> QED
    BY <1>1

LEMMA AckingFinite == \A m : IsFiniteSet(Acking(m)) /\ Cardinality(Acking(m)) \in Nat
  <1>1. \A m : Acking(m) \subseteq MailWorkers
    BY DEF Acking
  <1> QED
    BY <1>1, FS_Subset, FS_CardinalityType, MailAssumption

LEMMA SmInitInv == SmInit => SmInv
  <1> SUFFICES ASSUME SmInit PROVE SmInv
    OBVIOUS
  <1>1. \A w \in MailWorkers : smStep[w] = <<>> /\ smTodo[w] = {}
    BY DEF SmInit
  <1>2. \A w \in MailWorkers : ~Polling(w) /\ \A m, at : ~MailAt(w, m, at)
    BY <1>1, SmTuples DEF Polling, MailAt
  <1>3. \A m : Acking(m) = {}
    BY <1>2 DEF Acking
  <1>4. \A m \in Mails : smIssues[m] = 0 /\ smAcks[m] = 0 /\ smBox[m] = {} /\ Cardinality(Acking(m)) = 0
    BY <1>3, FS_EmptySet, Zenon DEF SmInit
  <1>5. smPolls \in 0 .. MaxPolls
    <2>1. smPolls = 0 /\ MaxPolls \in Nat
      BY MailAssumption DEF SmInit
    <2> QED
      BY <2>1
  <1>6. /\ smBox \in [Mails -> SUBSET {"arrived", "seen", "flagged"}] /\ smIssues \in [Mails -> Nat]
        /\ smAcks \in [Mails -> Nat] /\ smTodo \in [MailWorkers -> SUBSET Mails] /\ DOMAIN smStep = MailWorkers
        /\ smWithheld = {} /\ smFaults = FALSE
    BY DEF SmInit
  <1>7. SmAlone
    BY <1>1, <1>2, <1>4 DEF SmAlone
  <1>8. \A m \in Mails :
            /\ smAcks[m] + Cardinality(Acking(m)) <= smIssues[m]
            /\ "seen" \in smBox[m] => smIssues[m] > 0 \/ m \in smWithheld
    BY <1>4
  <1> QED
    BY <1>2, <1>5, <1>6, <1>7, <1>8, Zenon DEF SmInv

LEMMA SmInvSound == SmInv => SmSound
  <1> SUFFICES ASSUME SmInv PROVE SmSound
    OBVIOUS
  <1>1. \A m \in Mails : smAcks[m] <= smIssues[m]
    BY AckingFinite DEF SmInv
  <1>2. \A w \in MailWorkers, m \in Mails : smStep[w] \in {<<"ack", m>>, <<"mark", m>>} => smIssues[m] > 0
    BY DEF SmInv, MailAt
  <1> QED
    BY <1>1, <1>2 DEF SmInv, SmAlone, SmSound

(* What a step of one worker leaves of the others.                           *)
OnlyGoes(w, to) ==
    /\ DOMAIN smStep' = MailWorkers /\ smStep'[w] = to
    /\ \A m, at : MailAt(w, m, at)' <=> to = <<at, m>>
    /\ \A o \in MailWorkers : o # w => (Polling(o)' <=> Polling(o))
    /\ \A o \in MailWorkers : \A m, at : o # w => (MailAt(o, m, at)' <=> MailAt(o, m, at))
    /\ \A m : to # <<"ack", m>> => Acking(m)' = Acking(m) \ {w}
    /\ \A m : to = <<"ack", m>> => Acking(m)' = Acking(m) \cup {w}

LEMMA SmOthers ==
    ASSUME SmInv, NEW w \in MailWorkers, NEW to, smStep' = [smStep EXCEPT ![w] = to]
    PROVE  OnlyGoes(w, to)
  <1>1. /\ DOMAIN smStep' = MailWorkers /\ smStep'[w] = to
        /\ \A o \in MailWorkers : o # w => smStep'[o] = smStep[o]
    BY DEF SmInv
  <1>2. \A m, at : MailAt(w, m, at)' <=> to = <<at, m>>
    BY <1>1 DEF MailAt
  <1>3. /\ \A o \in MailWorkers : o # w => (Polling(o)' <=> Polling(o))
        /\ \A o \in MailWorkers : \A m, at : o # w => (MailAt(o, m, at)' <=> MailAt(o, m, at))
    BY <1>1 DEF MailAt, Polling
  <1>4. /\ \A m : to # <<"ack", m>> => Acking(m)' = Acking(m) \ {w}
        /\ \A m : to = <<"ack", m>> => Acking(m)' = Acking(m) \cup {w}
    BY <1>2, <1>3 DEF Acking
  <1> QED
    BY <1>1, <1>2, <1>3, <1>4 DEF OnlyGoes

(* A step that files nothing and answers nobody: the worker goes to a message,  *)
(* or to none, and the flags it sets are accounted for.                        *)
LEMMA SmQuiet ==
    ASSUME SmInv, NEW w \in MailWorkers, NEW to, smStep' = [smStep EXCEPT ![w] = to],
           \A m : to # <<"ack", m>>,
           UNCHANGED <<smIssues, smAcks>>,
           smBox' \in [Mails -> SUBSET {"arrived", "seen", "flagged"}],
           \A m \in Mails : "seen" \in smBox'[m] \ smBox[m] => smIssues[m] > 0 \/ m \in smWithheld,
           smTodo' \in [MailWorkers -> SUBSET Mails],
           smPolls' \in 0 .. MaxPolls, smWithheld \subseteq smWithheld', smWithheld' \subseteq Mails,
           smFaults' \in BOOLEAN,
           \A m \in Mails : to = <<"mark", m>> => smIssues[m] > 0,
           \A m \in Mails : to \in {<<"flag", m>>, <<"drop", m>>} => m \in smWithheld',
           ~smFaults' => SmAlone'
    PROVE  SmInv'
  <1>0. OnlyGoes(w, to)
    BY SmOthers, Zenon
  <1>1. \A m \in Mails : Acking(m)' \subseteq Acking(m)
    BY <1>0 DEF OnlyGoes
  <1>2. \A m \in Mails : Cardinality(Acking(m)') <= Cardinality(Acking(m)) /\ Cardinality(Acking(m)') \in Nat
    BY <1>1, AckingFinite, FS_Subset, FS_CardinalityType
  <1>3. \A m \in Mails : smAcks'[m] + Cardinality(Acking(m)') <= smIssues'[m]
    BY <1>2, AckingFinite DEF SmInv
  <1>4. \A o \in MailWorkers : \A m \in Mails :
            /\ MailAt(o, m, "ack")' \/ MailAt(o, m, "mark")' => smIssues'[m] > 0
            /\ MailAt(o, m, "flag")' \/ MailAt(o, m, "drop")' => m \in smWithheld'
    <2> SUFFICES ASSUME NEW o \in MailWorkers, NEW m \in Mails
                 PROVE  /\ MailAt(o, m, "ack")' \/ MailAt(o, m, "mark")' => smIssues[m] > 0
                        /\ MailAt(o, m, "flag")' \/ MailAt(o, m, "drop")' => m \in smWithheld'
      OBVIOUS
    <2>1. CASE o = w
      BY <1>0, <2>1 DEF OnlyGoes
    <2>2. CASE o # w
      BY <1>0, <2>2 DEF OnlyGoes, SmInv
    <2> QED
      BY <2>1, <2>2
  <1>5. \A m \in Mails : "seen" \in smBox'[m] => smIssues'[m] > 0 \/ m \in smWithheld'
    BY DEF SmInv
  <1>6. DOMAIN smStep' = MailWorkers
    BY <1>0 DEF OnlyGoes
  <1> QED
    BY <1>3, <1>4, <1>5, <1>6 DEF SmInv

LEMMA SmArriveInv == ASSUME SmInv, NEW m \in Mails, Arrive(m) PROVE SmInv'
  <1>1. /\ smBox' = [smBox EXCEPT ![m] = {"arrived"}] /\ smBox[m] = {}
        /\ UNCHANGED <<smIssues, smAcks, smTodo, smStep, smPolls, smWithheld, smFaults>>
    BY DEF Arrive
  <1>2. \A n \in Mails : ("seen" \in smBox'[n] <=> "seen" \in smBox[n])
    BY <1>1 DEF SmInv
  <1>3. smBox' \in [Mails -> SUBSET {"arrived", "seen", "flagged"}]
    BY <1>1 DEF SmInv
  <1>4. SmAlone => SmAlone'
    <2>1. \A o : (Polling(o)' <=> Polling(o)) /\ \A n, at : MailAt(o, n, at)' <=> MailAt(o, n, at)
      BY <1>1 DEF Polling, MailAt
    <2> QED
      BY <1>1, <1>2, <2>1 DEF SmAlone
  <1> QED
    BY <1>1, <1>2, <1>3, <1>4, Zenon DEF SmInv, Acking, MailAt

LEMMA SmBeginInv == ASSUME SmInv, NEW w \in MailWorkers, BeginPoll(w) PROVE SmInv'
  <1>1. /\ ~Polling(w) /\ smStep' = [smStep EXCEPT ![w] = <<"next">>]
        /\ smTodo' = [smTodo EXCEPT ![w] = {m \in Mails : Unread(m)}]
        /\ smFaults' = (smFaults \/ \E o \in MailWorkers : Polling(o))
        /\ UNCHANGED <<smBox, smIssues, smAcks, smWithheld>>
    BY DEF BeginPoll
  <1>2. smPolls' \in 0 .. MaxPolls
    BY MailAssumption DEF BeginPoll, SmInv
  <1>3. ASSUME ~smFaults' PROVE SmAlone'
    <2>1. SmAlone /\ \A o \in MailWorkers : ~Polling(o) /\ \A m, at : ~MailAt(o, m, at)
      BY <1>1, <1>3, SmTuples, Zenon DEF SmInv, Polling, MailAt
    <2>0. OnlyGoes(w, <<"next">>)
      BY <1>1, SmOthers, Zenon
    <2>2. \A o \in MailWorkers : \A m, at : ~MailAt(o, m, at)'
      BY <2>0, <2>1, SmTuples DEF OnlyGoes
    <2>3. \A o \in MailWorkers : o # w => ~Polling(o)' /\ smTodo'[o] = {}
      BY <1>1, <2>0, <2>1 DEF OnlyGoes, SmAlone, SmInv
    <2>4. Polling(w)'
      BY <2>0, SmTuples DEF OnlyGoes, Polling
    <2>5. \A m \in Mails : smIssues[m] = 1 => "seen" \in smBox[m]
      BY <2>1 DEF SmAlone
    <2>6. \A m \in smTodo'[w] : smIssues[m] = 0
      <3>1. \A m \in smTodo'[w] : m \in Mails /\ "seen" \notin smBox[m]
        BY <1>1 DEF SmInv, Unread
      <3> QED
        BY <2>1, <2>5, <3>1 DEF SmAlone, SmInv
    <2> QED
      BY <1>1, <2>1, <2>2, <2>3, <2>4, <2>5, <2>6 DEF SmAlone
  <1>4. smTodo' \in [MailWorkers -> SUBSET Mails]
    BY <1>1 DEF SmInv
  <1>5. smFaults' \in BOOLEAN
    BY <1>1 DEF SmInv
  <1> QED
    BY <1>1, <1>2, <1>3, <1>4, <1>5, SmQuiet, SmTuples, Zenon DEF SmInv

(* While nothing failed, a worker's own step keeps the others away.           *)
LEMMA SmAloneQuiet ==
    ASSUME SmInv, NEW w \in MailWorkers, NEW to, smStep' = [smStep EXCEPT ![w] = to],
           UNCHANGED smIssues, SmAlone, Polling(w),
           smTodo' \in [MailWorkers -> SUBSET Mails],
           \A o \in MailWorkers : smTodo'[o] \subseteq smTodo[o],
           to = <<>> => smTodo'[w] = {},
           \A m \in Mails : "seen" \in smBox[m] => "seen" \in smBox'[m],
           \A m \in Mails : (MailAt(w, m, "ack") \/ MailAt(w, m, "mark")) =>
                to = <<"mark", m>> \/ "seen" \in smBox'[m],
           \A m \in Mails : to \in {<<"file", m>>, <<"refetch", m>>, <<"flag", m>>, <<"drop", m>>} =>
                smIssues[m] = 0 /\ m \notin smTodo'[w]
    PROVE  SmAlone'
  <1>0. OnlyGoes(w, to)
    BY SmOthers, Zenon
  <1>1. \A o \in MailWorkers : o # w => ~Polling(o) /\ ~Polling(o)'
    BY <1>0 DEF OnlyGoes, SmAlone
  <1>2. \A o \in MailWorkers : smTodo'[o] # {} => Polling(o)'
    <2>1. \A o \in MailWorkers : smTodo'[o] # {} => Polling(o)
      BY DEF SmAlone
    <2>2. smTodo'[w] # {} => Polling(w)'
      BY <1>0 DEF OnlyGoes, Polling
    <2> QED
      BY <1>1, <2>1, <2>2
  <1>3. \A o \in MailWorkers : \A m, at : MailAt(o, m, at) => o = w
    BY <1>1, SmTuples DEF MailAt, Polling
  <1>4. \A m \in Mails : smIssues[m] = 1 =>
            "seen" \in smBox'[m] \/ \E o \in MailWorkers : MailAt(o, m, "ack")' \/ MailAt(o, m, "mark")'
    <2> SUFFICES ASSUME NEW m \in Mails, smIssues[m] = 1, "seen" \notin smBox'[m]
                 PROVE  MailAt(w, m, "mark")'
      OBVIOUS
    <2>1. PICK o \in MailWorkers : MailAt(o, m, "ack") \/ MailAt(o, m, "mark")
      BY DEF SmAlone
    <2>2. to = <<"mark", m>>
      BY <1>3, <2>1
    <2> QED
      BY <1>0, <2>2 DEF OnlyGoes
  <1>5. \A o \in MailWorkers : \A m \in Mails : \A at \in {"file", "refetch", "flag", "drop"} :
            MailAt(o, m, at)' => smIssues[m] = 0 /\ m \notin smTodo'[o]
    <2> SUFFICES ASSUME NEW o \in MailWorkers, NEW m \in Mails, NEW at \in {"file", "refetch", "flag", "drop"},
                        MailAt(o, m, at)'
                 PROVE  smIssues[m] = 0 /\ m \notin smTodo'[o]
      OBVIOUS
    <2>1. CASE o = w
      BY <1>0, <2>1 DEF OnlyGoes
    <2>2. CASE o # w
      BY <1>0, <2>2 DEF OnlyGoes, SmAlone
    <2> QED
      BY <2>1, <2>2
  <1>6. \A o \in MailWorkers : \A m \in smTodo'[o] : smIssues[m] = 0
    BY DEF SmAlone
  <1>7. \A m \in Mails : smIssues[m] <= 1
    BY DEF SmAlone
  <1> QED
    BY <1>1, <1>2, <1>4, <1>5, <1>6, <1>7 DEF SmAlone

LEMMA SmQuietSteps ==
    ASSUME SmInv, NEW w \in MailWorkers,
           \/ EndPoll(w) \/ StopWorker(w)
           \/ \E m \in Mails, done \in BOOLEAN :
                \/ TakeMail(w, m, done) \/ RefetchSource(w, m, done)
                \/ FlagMissing(w, m, done) \/ DropMissing(w, m, done)
                \/ \E answered \in BOOLEAN : MarkSeen(w, m, done, answered)
    PROVE  SmInv'
  <1> USE DEF SmInv
  <1>1. CASE EndPoll(w)
    <2>1. /\ smStep[w] = <<"next">> /\ smTodo[w] = {} /\ smStep' = [smStep EXCEPT ![w] = <<>>]
          /\ UNCHANGED <<smBox, smIssues, smAcks, smTodo, smPolls, smWithheld, smFaults>>
      BY <1>1 DEF EndPoll
    <2>2. Polling(w) /\ \A m, at : ~MailAt(w, m, at)
      BY <2>1, SmTuples DEF Polling, MailAt
    <2>3. ~smFaults' => SmAlone'
      BY <2>1, <2>2, SmTuples, SmAloneQuiet, Zenon
    <2> QED
      BY <2>1, <2>3, SmTuples, SmQuiet, Zenon
  <1>2. CASE StopWorker(w)
    <2>1. /\ smStep' = [smStep EXCEPT ![w] = <<>>] /\ smTodo' = [smTodo EXCEPT ![w] = {}] /\ smFaults' = TRUE
          /\ UNCHANGED <<smBox, smIssues, smAcks, smPolls, smWithheld>>
      BY <1>2 DEF StopWorker
    <2> QED
      BY <2>1, SmTuples, SmQuiet, Zenon
  <1>3. ASSUME NEW m \in Mails, NEW done \in BOOLEAN, TakeMail(w, m, done) PROVE SmInv'
    <2> DEFINE at == IF done THEN "file" ELSE "refetch"
    <2>1. /\ smStep[w] = <<"next">> /\ m \in smTodo[w] /\ smTodo' = [smTodo EXCEPT ![w] = @ \ {m}]
          /\ smStep' = [smStep EXCEPT ![w] = <<at, m>>]
          /\ UNCHANGED <<smBox, smIssues, smAcks, smPolls, smWithheld, smFaults>>
      BY <1>3 DEF TakeMail, Goes
    <2>2. Polling(w) /\ \A n, a : ~MailAt(w, n, a)
      BY <2>1, SmTuples DEF Polling, MailAt
    <2>3. at \in {"file", "refetch"}
      OBVIOUS
    <2> HIDE DEF at
    <2>4. smTodo' \in [MailWorkers -> SUBSET Mails] /\ \A o \in MailWorkers : smTodo'[o] \subseteq smTodo[o]
      BY <2>1
    <2>5. ~smFaults' => SmAlone'
      <3>1. SUFFICES ASSUME ~smFaults' PROVE SmAlone'
        OBVIOUS
      <3>2. SmAlone /\ smIssues[m] = 0
        BY <2>1, <3>1 DEF SmAlone
      <3>3. \A n \in Mails : <<at, m>> \in {<<"file", n>>, <<"refetch", n>>, <<"flag", n>>, <<"drop", n>>} =>
                smIssues[n] = 0 /\ n \notin smTodo'[w]
        BY <2>1, <2>2, <3>2, SmTuples
      <3> HIDE DEF SmInv
      <3> QED
        BY <2>1, <2>2, <2>4, <3>2, <3>3, SmTuples, SmAloneQuiet, Zenon
    <2>6. /\ \A n : <<at, m>> # <<"ack", n>> /\ <<at, m>> # <<"mark", n>>
          /\ \A n : <<at, m>> \notin {<<"flag", n>>, <<"drop", n>>}
      BY <2>3, SmTuples
    <2> QED
      BY <2>1, <2>4, <2>5, <2>6, SmQuiet, Zenon
  <1>4. ASSUME NEW m \in Mails, NEW done \in BOOLEAN, RefetchSource(w, m, done) PROVE SmInv'
    <2> DEFINE at == IF done THEN "file" ELSE "flag"
    <2>1. /\ smStep[w] = <<"refetch", m>> /\ smStep' = [smStep EXCEPT ![w] = <<at, m>>]
          /\ smWithheld' = IF done THEN smWithheld ELSE smWithheld \cup {m}
          /\ UNCHANGED <<smBox, smIssues, smAcks, smTodo, smPolls, smFaults>>
      BY <1>4 DEF RefetchSource, Goes, MailAt
    <2>2. Polling(w) /\ MailAt(w, m, "refetch") /\ \A n : ~MailAt(w, n, "ack") /\ ~MailAt(w, n, "mark")
      BY <2>1, SmTuples DEF Polling, MailAt
    <2>3. at \in {"file", "flag"} /\ (at = "flag" => m \in smWithheld')
      BY <2>1
    <2> HIDE DEF at
    <2>5. ~smFaults' => SmAlone'
      <3>1. SUFFICES ASSUME ~smFaults' PROVE SmAlone'
        OBVIOUS
      <3>2. SmAlone /\ smIssues[m] = 0 /\ m \notin smTodo[w]
        BY <2>1, <2>2, <3>1 DEF SmAlone
      <3>3. \A n \in Mails : <<at, m>> \in {<<"file", n>>, <<"refetch", n>>, <<"flag", n>>, <<"drop", n>>} =>
                smIssues[n] = 0 /\ n \notin smTodo'[w]
        BY <2>1, <2>2, <3>2, SmTuples
      <3> QED
        BY <2>1, <2>2, <3>2, <3>3, SmTuples, SmAloneQuiet, Zenon
    <2>6. /\ \A n : <<at, m>> # <<"ack", n>> /\ <<at, m>> # <<"mark", n>>
          /\ \A n : <<at, m>> \in {<<"flag", n>>, <<"drop", n>>} => n \in smWithheld'
      BY <2>3, SmTuples
    <2>7. smWithheld \subseteq smWithheld' /\ smWithheld' \subseteq Mails
      BY <2>1
    <2>8. /\ smTodo' \in [MailWorkers -> SUBSET Mails] /\ smPolls' \in 0 .. MaxPolls /\ smFaults' \in BOOLEAN
          /\ smBox' \in [Mails -> SUBSET {"arrived", "seen", "flagged"}]
          /\ \A n \in Mails : "seen" \notin smBox'[n] \ smBox[n]
      BY <2>1
    <2>9. /\ \A n \in Mails : <<at, m>> = <<"mark", n>> => smIssues[n] > 0
          /\ \A n : <<at, m>> # <<"ack", n>>
      BY <2>6
    <2>10. smIssues' = smIssues /\ smAcks' = smAcks /\ smStep' = [smStep EXCEPT ![w] = <<at, m>>]
      BY <2>1
    <2>11. PICK to : to = <<at, m>>
      BY Zenon
    <2>12. /\ smStep' = [smStep EXCEPT ![w] = to] /\ \A n : to # <<"ack", n>>
           /\ \A n \in Mails : to = <<"mark", n>> => smIssues[n] > 0
           /\ \A n \in Mails : to \in {<<"flag", n>>, <<"drop", n>>} => n \in smWithheld'
      BY <2>6, <2>9, <2>10, <2>11
    <2> HIDE DEF SmInv
    <2> QED
      BY <2>5, <2>7, <2>8, <2>10, <2>12, SmQuiet, Zenon
  <1>5. ASSUME NEW m \in Mails, NEW done \in BOOLEAN, FlagMissing(w, m, done) PROVE SmInv'
    <2>1. /\ smStep[w] = <<"flag", m>> /\ smStep' = [smStep EXCEPT ![w] = <<"drop", m>>]
          /\ smBox' = IF done THEN [smBox EXCEPT ![m] = @ \cup {"flagged"}] ELSE smBox
          /\ UNCHANGED <<smIssues, smAcks, smTodo, smPolls, smWithheld, smFaults>>
      BY <1>5 DEF FlagMissing, Goes, MailAt
    <2>2. Polling(w) /\ MailAt(w, m, "flag") /\ \A n : ~MailAt(w, n, "ack") /\ ~MailAt(w, n, "mark")
      BY <2>1, SmTuples DEF Polling, MailAt
    <2>3. /\ smBox' \in [Mails -> SUBSET {"arrived", "seen", "flagged"}]
          /\ \A n \in Mails : "seen" \in smBox'[n] <=> "seen" \in smBox[n]
      BY <2>1
    <2>5. ~smFaults' => SmAlone'
      <3>1. SUFFICES ASSUME ~smFaults' PROVE SmAlone'
        OBVIOUS
      <3>2. SmAlone /\ smIssues[m] = 0 /\ m \notin smTodo[w]
        BY <2>1, <2>2, <3>1 DEF SmAlone
      <3>3. \A n \in Mails : <<"drop", m>> \in {<<"file", n>>, <<"refetch", n>>, <<"flag", n>>, <<"drop", n>>} =>
                smIssues[n] = 0 /\ n \notin smTodo'[w]
        BY <2>1, <2>2, <3>2, SmTuples
      <3> QED
        BY <2>1, <2>2, <2>3, <3>2, <3>3, SmTuples, SmAloneQuiet, Zenon
    <2>6. /\ \A n : <<"drop", m>> # <<"ack", n>> /\ <<"drop", m>> # <<"mark", n>>
          /\ \A n : <<"drop", m>> \in {<<"flag", n>>, <<"drop", n>>} => n \in smWithheld'
      BY <2>1, <2>2, SmTuples
    <2>7. \A n \in Mails : "seen" \in smBox'[n] \ smBox[n] => smIssues[n] > 0 \/ n \in smWithheld
      BY <2>3
    <2>8. /\ smTodo' \in [MailWorkers -> SUBSET Mails] /\ smPolls' \in 0 .. MaxPolls /\ smFaults' \in BOOLEAN
          /\ smWithheld \subseteq smWithheld' /\ smWithheld' \subseteq Mails
      BY <2>1
    <2>9. /\ \A n \in Mails : <<"drop", m>> = <<"mark", n>> => smIssues[n] > 0
          /\ \A n : <<"drop", m>> # <<"ack", n>>
      BY <2>6
    <2>10. smIssues' = smIssues /\ smAcks' = smAcks /\ smStep' = [smStep EXCEPT ![w] = <<"drop", m>>]
      BY <2>1
    <2>11. PICK to : to = <<"drop", m>>
      BY Zenon
    <2>12. /\ smStep' = [smStep EXCEPT ![w] = to] /\ \A n : to # <<"ack", n>>
           /\ \A n \in Mails : to = <<"mark", n>> => smIssues[n] > 0
           /\ \A n \in Mails : to \in {<<"flag", n>>, <<"drop", n>>} => n \in smWithheld'
      BY <2>6, <2>9, <2>10, <2>11
    <2> HIDE DEF SmInv
    <2> QED
      BY <2>3, <2>5, <2>7, <2>8, <2>10, <2>12, SmQuiet, Zenon
  <1>6. ASSUME NEW m \in Mails, NEW done \in BOOLEAN, DropMissing(w, m, done) PROVE SmInv'
    <2>1. /\ smStep[w] = <<"drop", m>> /\ smStep' = [smStep EXCEPT ![w] = <<"next">>]
          /\ smBox' = IF done THEN [smBox EXCEPT ![m] = @ \cup {"seen"}] ELSE smBox
          /\ UNCHANGED <<smIssues, smAcks, smTodo, smPolls, smWithheld, smFaults>>
      BY <1>6 DEF DropMissing, MailAt
    <2>2. Polling(w) /\ MailAt(w, m, "drop") /\ \A n : ~MailAt(w, n, "ack") /\ ~MailAt(w, n, "mark")
      BY <2>1, SmTuples DEF Polling, MailAt
    <2>3. /\ smBox' \in [Mails -> SUBSET {"arrived", "seen", "flagged"}]
          /\ \A n \in Mails : "seen" \in smBox[n] => "seen" \in smBox'[n]
          /\ \A n \in Mails : "seen" \in smBox'[n] \ smBox[n] => n = m
      BY <2>1
    <2>5. ~smFaults' => SmAlone'
      <3>1. SUFFICES ASSUME ~smFaults' PROVE SmAlone'
        OBVIOUS
      <3> QED
        BY <2>1, <2>2, <2>3, <3>1, SmTuples, SmAloneQuiet, Zenon
    <2>6. \A n \in Mails : "seen" \in smBox'[n] \ smBox[n] => smIssues[n] > 0 \/ n \in smWithheld
      BY <2>2, <2>3
    <2>7. \A n, a : <<"next">> # <<a, n>>
      BY SmTuples
    <2> QED
      BY <2>1, <2>3, <2>5, <2>6, <2>7, SmQuiet, Zenon
  <1>7. ASSUME NEW m \in Mails, NEW applied \in BOOLEAN, NEW answered \in BOOLEAN, MarkSeen(w, m, applied, answered)
        PROVE  SmInv'
    <2> DEFINE to == IF answered THEN <<"next">> ELSE <<>>
    <2>1. /\ smStep[w] = <<"mark", m>> /\ smStep' = [smStep EXCEPT ![w] = to] /\ (answered => applied)
          /\ smBox' = IF applied THEN [smBox EXCEPT ![m] = @ \cup {"seen"}] ELSE smBox
          /\ smTodo' = IF answered THEN smTodo ELSE [smTodo EXCEPT ![w] = {}]
          /\ smFaults' = (smFaults \/ ~applied)
          /\ UNCHANGED <<smIssues, smAcks, smPolls, smWithheld>>
      BY <1>7 DEF MarkSeen, MailAt
    <2>2. Polling(w) /\ MailAt(w, m, "mark") /\ \A n : ~MailAt(w, n, "ack") /\ (MailAt(w, n, "mark") => n = m)
      BY <2>1, SmTuples DEF Polling, MailAt
    <2>3. /\ smBox' \in [Mails -> SUBSET {"arrived", "seen", "flagged"}]
          /\ \A n \in Mails : "seen" \in smBox[n] => "seen" \in smBox'[n]
          /\ \A n \in Mails : "seen" \in smBox'[n] \ smBox[n] => n = m
          /\ applied => "seen" \in smBox'[m]
      BY <2>1
    <2>4. /\ smTodo' \in [MailWorkers -> SUBSET Mails] /\ \A o \in MailWorkers : smTodo'[o] \subseteq smTodo[o]
          /\ to = <<>> => smTodo'[w] = {}
      BY <2>1, SmTuples
    <2>6. to = <<"next">> \/ to = <<>>
      OBVIOUS
    <2>7. \A n, a : to # <<a, n>>
      BY <2>6, SmTuples, Zenon
    <2> HIDE DEF to
    <2>5. ~smFaults' => SmAlone'
      <3>1. SUFFICES ASSUME ~smFaults' PROVE SmAlone'
        OBVIOUS
      <3>2. SmAlone /\ "seen" \in smBox'[m]
        BY <2>1, <2>3, <3>1, Zenon
      <3>3. \A n \in Mails : (MailAt(w, n, "ack") \/ MailAt(w, n, "mark")) => to = <<"mark", n>> \/ "seen" \in smBox'[n]
        BY <2>2, <3>2
      <3>4. \A n \in Mails : to \in {<<"file", n>>, <<"refetch", n>>, <<"flag", n>>, <<"drop", n>>} =>
                smIssues[n] = 0 /\ n \notin smTodo'[w]
        BY <2>7
      <3>5. smIssues' = smIssues
        BY <2>1
      <3> QED
        BY <2>1, <2>2, <2>3, <2>4, <3>2, <3>3, <3>4, <3>5, SmAloneQuiet, Zenon
    <2>8. \A n \in Mails : "seen" \in smBox'[n] \ smBox[n] => smIssues[n] > 0 \/ n \in smWithheld
      BY <2>2, <2>3
    <2>9. smFaults' \in BOOLEAN
      BY <2>1
    <2> QED
      BY <2>1, <2>3, <2>4, <2>5, <2>7, <2>8, <2>9, SmQuiet, Zenon
  <1> QED
    BY <1>1, <1>2, <1>3, <1>4, <1>5, <1>6, <1>7

LEMMA SmFileInv ==
    ASSUME SmInv, NEW w \in MailWorkers, NEW m \in Mails, NEW filed \in BOOLEAN, NEW answered \in BOOLEAN,
           FileIssue(w, m, filed, answered)
    PROVE  SmInv'
  <1> DEFINE to == IF answered THEN <<"ack", m>> ELSE <<"next">>
  <1>1. /\ smStep[w] = <<"file", m>> /\ (answered => filed)
        /\ smIssues' = [smIssues EXCEPT ![m] = IF filed THEN @ + 1 ELSE @]
        /\ smStep' = [smStep EXCEPT ![w] = to]
        /\ smFaults' = (smFaults \/ (filed /\ ~answered))
        /\ UNCHANGED <<smBox, smAcks, smTodo, smPolls, smWithheld>>
    BY Zenon DEF FileIssue, AfterFiling, MailAt
  <1>2. /\ Polling(w) /\ MailAt(w, m, "file") /\ w \notin Acking(m)
        /\ \A n : ~MailAt(w, n, "ack") /\ ~MailAt(w, n, "mark")
    BY <1>1, SmTuples DEF Polling, MailAt, Acking
  <1>3. /\ \A n : n # m => to # <<"ack", n>>
        /\ ~answered => to # <<"ack", m>>
        /\ answered => to = <<"ack", m>>
        /\ \A n : \A at \in {"file", "refetch", "flag", "drop", "mark"} : to # <<at, n>>
        /\ to # <<>>
    BY SmTuples
  <1>0. OnlyGoes(w, to)
    BY <1>1, SmOthers, Zenon
  <1>9. \A n, at : to = <<at, n>> => at = "ack" /\ n = m /\ answered
    BY SmTuples
  <1> HIDE DEF to
  <1>4. /\ smIssues' \in [Mails -> Nat] /\ \A n \in Mails : n # m => smIssues'[n] = smIssues[n]
        /\ smIssues'[m] = (IF filed THEN smIssues[m] + 1 ELSE smIssues[m])
        /\ \A n \in Mails : smIssues[n] <= smIssues'[n]
    BY <1>1 DEF SmInv
  <1>5. \A n \in Mails : smAcks'[n] + Cardinality(Acking(n)') <= smIssues'[n]
    <2> SUFFICES ASSUME NEW n \in Mails PROVE smAcks[n] + Cardinality(Acking(n)') <= smIssues'[n]
      BY <1>1
    <2>1. CASE n = m /\ answered
      <3>1. Acking(n)' = Acking(n) \cup {w}
        BY <1>0, <1>3, <2>1 DEF OnlyGoes
      <3>2. Cardinality(Acking(n)') = Cardinality(Acking(n)) + 1
        BY <1>2, <2>1, <3>1, AckingFinite, FS_AddElement, Zenon
      <3> QED
        BY <1>1, <1>4, <2>1, <3>2, AckingFinite DEF SmInv
    <2>2. CASE ~(n = m /\ answered)
      <3>1. Acking(n)' \subseteq Acking(n)
        BY <1>0, <1>3, <2>2 DEF OnlyGoes
      <3>2. Cardinality(Acking(n)') <= Cardinality(Acking(n)) /\ Cardinality(Acking(n)') \in Nat
        BY <3>1, AckingFinite, FS_Subset, FS_CardinalityType
      <3>3. /\ smAcks[n] + Cardinality(Acking(n)) <= smIssues[n] /\ smIssues[n] <= smIssues'[n]
            /\ smAcks[n] \in Nat /\ smIssues[n] \in Nat /\ smIssues'[n] \in Nat
        BY <1>4 DEF SmInv
      <3> QED
        BY <3>2, <3>3, AckingFinite
    <2> QED
      BY <2>1, <2>2
  <1>6. \A o \in MailWorkers : \A n \in Mails :
            /\ MailAt(o, n, "ack")' \/ MailAt(o, n, "mark")' => smIssues'[n] > 0
            /\ MailAt(o, n, "flag")' \/ MailAt(o, n, "drop")' => n \in smWithheld'
    <2> SUFFICES ASSUME NEW o \in MailWorkers, NEW n \in Mails
                 PROVE  /\ MailAt(o, n, "ack")' \/ MailAt(o, n, "mark")' => smIssues'[n] > 0
                        /\ MailAt(o, n, "flag")' \/ MailAt(o, n, "drop")' => n \in smWithheld'
      OBVIOUS
    <2>1. CASE o # w
      <3>1. \A at : MailAt(o, n, at)' <=> MailAt(o, n, at)
        BY <1>0, <2>1 DEF OnlyGoes
      <3>2. smIssues[n] > 0 => smIssues'[n] > 0
        BY <1>4 DEF SmInv
      <3> QED
        BY <1>1, <3>1, <3>2 DEF SmInv
    <2>2. CASE o = w
      <3>1. \A at : MailAt(o, n, at)' => at = "ack" /\ n = m /\ answered
        BY <1>0, <1>9, <2>2 DEF OnlyGoes
      <3>2. answered => smIssues'[m] > 0
        BY <1>1, <1>4 DEF SmInv
      <3> QED
        BY <3>1, <3>2
    <2> QED
      BY <2>1, <2>2
  <1>7. ASSUME ~smFaults' PROVE SmAlone'
    <2>1. SmAlone /\ smIssues[m] = 0 /\ (filed <=> answered)
      BY <1>1, <1>2, <1>7 DEF SmInv, SmAlone
    <2>2. \A o \in MailWorkers : o # w => ~Polling(o) /\ ~Polling(o)' /\ smTodo[o] = {}
      BY <1>0, <1>2, <2>1 DEF OnlyGoes, SmAlone
    <2>3. Polling(w)'
      BY <1>0, <1>3 DEF OnlyGoes, Polling
    <2>4. \A o \in MailWorkers : \A n, at : MailAt(o, n, at) => o = w
      BY <2>2, SmTuples DEF MailAt, Polling
    <2>5. m \notin smTodo[w]
      BY <1>2, <2>1 DEF SmAlone
    <2>6. \A o \in MailWorkers : \A n \in Mails : \A at \in {"file", "refetch", "flag", "drop"} : ~MailAt(o, n, at)'
      <3> SUFFICES ASSUME NEW o \in MailWorkers, NEW n \in Mails, NEW at \in {"file", "refetch", "flag", "drop"}
                   PROVE  ~MailAt(o, n, at)'
        OBVIOUS
      <3>1. CASE o = w
        BY <1>0, <1>9, <3>1 DEF OnlyGoes
      <3>2. CASE o # w
        BY <1>0, <2>4, <3>2 DEF OnlyGoes
      <3> QED
        BY <3>1, <3>2
    <2>7. \A o \in MailWorkers : \A n \in smTodo'[o] : smIssues'[n] = 0
      <3> SUFFICES ASSUME NEW o \in MailWorkers, NEW n \in smTodo'[o] PROVE smIssues'[n] = 0
        OBVIOUS
      <3>1. o = w /\ n \in smTodo[w] /\ n # m /\ n \in Mails
        BY <1>1, <2>2, <2>5 DEF SmInv
      <3> QED
        BY <1>4, <2>1, <3>1 DEF SmAlone
    <2>8. \A n \in Mails :
            /\ smIssues'[n] <= 1
            /\ smIssues'[n] = 1 =>
                "seen" \in smBox'[n] \/ \E o \in MailWorkers : MailAt(o, n, "ack")' \/ MailAt(o, n, "mark")'
      <3> SUFFICES ASSUME NEW n \in Mails
                   PROVE  /\ smIssues'[n] <= 1
                          /\ smIssues'[n] = 1 => "seen" \in smBox'[n] \/
                                \E o \in MailWorkers : MailAt(o, n, "ack")' \/ MailAt(o, n, "mark")'
        OBVIOUS
      <3>1. CASE n = m
        <4>1. smIssues'[n] = (IF filed THEN 1 ELSE 0)
          BY <1>4, <2>1, <3>1
        <4>2. answered => MailAt(w, n, "ack")'
          BY <1>0, <1>3, <3>1 DEF OnlyGoes
        <4> QED
          BY <2>1, <4>1, <4>2
      <3>2. CASE n # m
        <4>1. smIssues'[n] = smIssues[n] /\ smIssues[n] <= 1
          BY <1>4, <2>1, <3>2 DEF SmAlone
        <4>2. smIssues[n] = 1 => "seen" \in smBox[n]
          BY <1>2, <2>1, <2>4 DEF SmAlone
        <4> QED
          BY <1>1, <4>1, <4>2
      <3> QED
        BY <3>1, <3>2
    <2>9. \A o, p \in MailWorkers : Polling(o)' /\ Polling(p)' => o = p
      BY <2>2
    <2>10. \A o \in MailWorkers : smTodo'[o] # {} => Polling(o)'
      BY <1>1, <2>2, <2>3
    <2> QED
      BY <2>6, <2>7, <2>8, <2>9, <2>10 DEF SmAlone
  <1>10. /\ DOMAIN smStep' = MailWorkers /\ smFaults' \in BOOLEAN
    BY <1>0, <1>1 DEF OnlyGoes, SmInv
  <1>11. \A n \in Mails : "seen" \in smBox'[n] => smIssues'[n] > 0 \/ n \in smWithheld'
    BY <1>1, <1>4 DEF SmInv
  <1> QED
    BY <1>1, <1>4, <1>5, <1>6, <1>7, <1>10, <1>11 DEF SmInv

LEMMA SmAckInv ==
    ASSUME SmInv, NEW w \in MailWorkers, NEW m \in Mails, NEW sent \in BOOLEAN, SendAutoAck(w, m, sent)
    PROVE  SmInv'
  <1>1. /\ MailAt(w, m, "ack") /\ w \in Acking(m)
        /\ smAcks' = [smAcks EXCEPT ![m] = IF sent THEN @ + 1 ELSE @]
        /\ smStep' = [smStep EXCEPT ![w] = <<"mark", m>>]
        /\ UNCHANGED <<smBox, smIssues, smTodo, smPolls, smWithheld, smFaults>>
    BY DEF SendAutoAck, Goes, Acking
  <1>0. OnlyGoes(w, <<"mark", m>>)
    BY <1>1, SmOthers, Zenon
  <1>2. /\ smAcks' \in [Mails -> Nat] /\ \A n \in Mails : n # m => smAcks'[n] = smAcks[n]
        /\ smAcks'[m] <= smAcks[m] + 1
    BY <1>1 DEF SmInv
  <1>3. \A n, at : <<"mark", m>> = <<at, n>> <=> at = "mark" /\ n = m
    BY SmTuples
  <1>4. \A n \in Mails : Acking(n)' = Acking(n) \ {w}
    BY <1>0, <1>3 DEF OnlyGoes
  <1>5. \A n \in Mails : smAcks'[n] + Cardinality(Acking(n)') <= smIssues'[n]
    <2> SUFFICES ASSUME NEW n \in Mails PROVE smAcks'[n] + Cardinality(Acking(n)') <= smIssues[n]
      BY <1>1
    <2>1. CASE n = m
      <3>1. Cardinality(Acking(n)') = Cardinality(Acking(n)) - 1
        BY <1>1, <1>4, <2>1, AckingFinite, FS_RemoveElement
      <3> QED
        BY <1>2, <2>1, <3>1, AckingFinite DEF SmInv
    <2>2. CASE n # m
      <3>1. Cardinality(Acking(n)') <= Cardinality(Acking(n)) /\ Cardinality(Acking(n)') \in Nat
        BY <1>4, AckingFinite, FS_Subset, FS_CardinalityType
      <3> QED
        BY <1>2, <2>2, <3>1, AckingFinite DEF SmInv
    <2> QED
      BY <2>1, <2>2
  <1>6. \A o \in MailWorkers : \A n \in Mails :
            /\ MailAt(o, n, "ack")' \/ MailAt(o, n, "mark")' => smIssues[n] > 0
            /\ MailAt(o, n, "flag")' \/ MailAt(o, n, "drop")' => n \in smWithheld
    <2> SUFFICES ASSUME NEW o \in MailWorkers, NEW n \in Mails
                 PROVE  /\ MailAt(o, n, "ack")' \/ MailAt(o, n, "mark")' => smIssues[n] > 0
                        /\ MailAt(o, n, "flag")' \/ MailAt(o, n, "drop")' => n \in smWithheld
      OBVIOUS
    <2>1. CASE o = w
      <3>1. smIssues[m] > 0
        BY <1>1 DEF SmInv
      <3> QED
        BY <1>0, <1>3, <2>1, <3>1 DEF OnlyGoes
    <2>2. CASE o # w
      BY <1>0, <2>2 DEF OnlyGoes, SmInv
    <2> QED
      BY <2>1, <2>2
  <1>7. ASSUME ~smFaults' PROVE SmAlone'
    <2>1. SmAlone /\ Polling(w)
      BY <1>1, <1>7, SmTuples DEF SmInv, MailAt, Polling
    <2>2. \A n \in Mails : (MailAt(w, n, "ack") \/ MailAt(w, n, "mark")) => <<"mark", m>> = <<"mark", n>>
      BY <1>1, SmTuples DEF MailAt
    <2>3. <<"mark", m>> # <<>> /\
          \A n : <<"mark", m>> \notin {<<"file", n>>, <<"refetch", n>>, <<"flag", n>>, <<"drop", n>>}
      BY SmTuples
    <2>4. smTodo' \in [MailWorkers -> SUBSET Mails]
      BY <1>1 DEF SmInv
    <2> QED
      BY <1>1, <2>1, <2>2, <2>3, <2>4, SmAloneQuiet, Zenon
  <1>8. DOMAIN smStep' = MailWorkers
    BY <1>0 DEF OnlyGoes
  <1>9. \A n \in Mails : "seen" \in smBox'[n] => smIssues'[n] > 0 \/ n \in smWithheld'
    BY <1>1 DEF SmInv
  <1> QED
    BY <1>1, <1>2, <1>5, <1>6, <1>7, <1>8, <1>9 DEF SmInv

LEMMA SmStepInv == SmInv /\ [SmNext]_smVars => SmInv'
  <1> SUFFICES ASSUME SmInv, [SmNext]_smVars PROVE SmInv'
    OBVIOUS
  <1>1. CASE UNCHANGED smVars
    <2>1. /\ \A o : (Polling(o)' <=> Polling(o)) /\ \A n, at : MailAt(o, n, at)' <=> MailAt(o, n, at)
          /\ \A n : Acking(n)' = Acking(n)
      BY <1>1 DEF smVars, Polling, MailAt, Acking
    <2>2. SmAlone => SmAlone'
      BY <1>1, <2>1 DEF smVars, SmAlone
    <2> QED
      BY <1>1, <2>1, <2>2, Zenon DEF smVars, SmInv
  <1>2. CASE \E m \in Mails : Arrive(m)
    BY <1>2, SmArriveInv
  <1>3. ASSUME NEW w \in MailWorkers,
               \/ BeginPoll(w) \/ EndPoll(w) \/ StopWorker(w)
               \/ \E m \in Mails, done \in BOOLEAN :
                  \/ TakeMail(w, m, done) \/ RefetchSource(w, m, done)
                  \/ FlagMissing(w, m, done) \/ DropMissing(w, m, done) \/ SendAutoAck(w, m, done)
                  \/ \E answered \in BOOLEAN : FileIssue(w, m, done, answered) \/ MarkSeen(w, m, done, answered)
        PROVE  SmInv'
    BY <1>3, SmBeginInv, SmQuietSteps, SmFileInv, SmAckInv
  <1> QED
    BY <1>1, <1>2, <1>3 DEF SmNext

LEMMA SmStepFinal == SmInv /\ SmNext => SmFinal
  <1> SUFFICES ASSUME SmInv, SmNext, NEW m \in Mails
               PROVE  /\ smBox[m] \subseteq smBox'[m]
                      /\ "seen" \in smBox'[m] \ smBox[m] => \E w \in MailWorkers : MailAt(w, m, "mark") \/ MailAt(w, m, "drop")
    BY DEF SmFinal
  <1>0. smBox \in [Mails -> SUBSET {"arrived", "seen", "flagged"}]
    BY DEF SmInv
  <1>1. ASSUME NEW n \in Mails, Arrive(n)
        PROVE  smBox[m] \subseteq smBox'[m] /\ "seen" \notin smBox'[m] \ smBox[m]
    BY <1>0, <1>1 DEF Arrive
  <1>2. ASSUME NEW w \in MailWorkers, NEW n \in Mails, NEW done \in BOOLEAN, FlagMissing(w, n, done)
        PROVE  smBox[m] \subseteq smBox'[m] /\ "seen" \notin smBox'[m] \ smBox[m]
    BY <1>0, <1>2 DEF FlagMissing
  <1>3. ASSUME NEW w \in MailWorkers, NEW n \in Mails, NEW done \in BOOLEAN,
               DropMissing(w, n, done) \/ \E answered \in BOOLEAN : MarkSeen(w, n, done, answered)
        PROVE  /\ smBox[m] \subseteq smBox'[m]
               /\ "seen" \in smBox'[m] \ smBox[m] => MailAt(w, m, "mark") \/ MailAt(w, m, "drop")
    BY <1>0, <1>3 DEF DropMissing, MarkSeen
  <1>4. CASE UNCHANGED smBox
    BY <1>4
  <1> QED
    BY <1>1, <1>2, <1>3, <1>4
    DEF SmNext, BeginPoll, EndPoll, StopWorker, TakeMail, RefetchSource, SendAutoAck, FileIssue

(* Theorem: no message is put aside as read without an issue unless its text     *)
(* was withheld twice, there is an issue for every answer, and without a fault   *)
(* or an overlap a message has at most one (SmSound).                         *)
THEOREM MailSound == SmInit /\ [][SmNext]_smVars => []SmSound
  BY SmInitInv, SmStepInv, SmInvSound, PTL

(* Theorem: a message is never unread again, and the worker that filed its issue *)
(* or was refused its text is the one that marks it read (SmFinal).           *)
THEOREM MailFinal == SmInit /\ [][SmNext]_smVars => [][SmFinal]_smVars
  <1>1. SmInv /\ [SmNext]_smVars => [SmFinal]_smVars
    BY SmStepFinal
  <1> QED
    BY <1>1, SmInitInv, SmStepInv, PTL

(***************************************************************************)
(* The shadow monitor.                                                      *)
(***************************************************************************)
ShadowEvent == [number : Nat, tx : Nat]

Announced(n) == [number |-> n, tx |-> 0]

(* A poller is about to ask for the transactions of the block.                *)
Asks(a, n) == shPoll[a] = <<"transactions", n>>

Numbered(events, n) == {j \in DOMAIN events : events[j].number = n}

TxsOf(events, n) == {events[i].tx : i \in Numbered(events, n)}

(* The events so far: no two are equal, each number seen was announced first,   *)
(* and one whose transactions are still to be asked for has no other event.    *)
EventsGood(events, seen) ==
    /\ events \in Seq(ShadowEvent)
    /\ \A i, j \in DOMAIN events : events[i] = events[j] => i = j
    /\ \A i \in DOMAIN events : \E j \in 1 .. i : events[j] = Announced(events[i].number)
    /\ \A i \in DOMAIN events : events[i].number \in seen
    /\ \A n \in seen : \E i \in DOMAIN events : events[i] = Announced(n)

ShInv ==
    /\ shChain \in ShadowBlocks /\ shSeen \subseteq Nat
    /\ shTaken \in Seq(ShadowEvent) /\ shQueue \in Seq(ShadowEvent)
    /\ DOMAIN shPoll = Adapters
    /\ EventsGood(Events, shSeen)
    /\ \A a \in Adapters : \A n : Asks(a, n) =>
        /\ n \in shSeen /\ \A b \in Adapters : Asks(b, n) => a = b
        /\ \A i \in Numbered(Events, n) : Events[i].tx = 0
    /\ \A n \in shSeen \ shCut :
        (\E a \in Adapters : Asks(a, n)) \/ \E b \in ShadowBlocks : b.number = n /\ TxsOf(Events, n) = 0 .. b.txs
    /\ ~shRunning => \A a \in Adapters : shPoll[a] = <<>>

LEMMA ShTuples ==
    ASSUME NEW at, NEW n, NEW m
    PROVE  /\ <<at, n>> # <<>> /\ <<at, n>> # <<"block">>
           /\ <<at, n>> = <<at, m>> <=> n = m
  <1>1. Len(<<at, n>>) = 2 /\ Len(<<"block">>) = 1 /\ Len(<<>>) = 0
    OBVIOUS
  <1> QED
    BY <1>1

LEMMA SeqSame ==
    ASSUME NEW S, NEW s \in Seq(S), NEW t \in Seq(S), Len(s) = Len(t), \A i \in 1 .. Len(s) : s[i] = t[i]
    PROVE  s = t
  OBVIOUS

LEMMA Joined ==
    ASSUME NEW S, NEW s \in Seq(S), NEW t \in Seq(S)
    PROVE  /\ s \o t \in Seq(S) /\ Len(s \o t) = Len(s) + Len(t)
           /\ DOMAIN (s \o t) = 1 .. Len(s) + Len(t) /\ DOMAIN s = 1 .. Len(s) /\ DOMAIN t = 1 .. Len(t)
           /\ Len(s) \in Nat /\ Len(t) \in Nat
           /\ \A i \in 1 .. Len(s) : (s \o t)[i] = s[i]
           /\ \A i \in 1 .. Len(t) : (s \o t)[Len(s) + i] = t[i]
           /\ \A i \in 1 .. Len(s) + Len(t) : i \in 1 .. Len(s) \/ \E j \in 1 .. Len(t) : i = Len(s) + j
           /\ SubSeq(s \o t, 1, Len(s)) = s
  <1>1. /\ s \o t \in Seq(S) /\ Len(s \o t) = Len(s) + Len(t)
        /\ DOMAIN (s \o t) = 1 .. Len(s) + Len(t) /\ DOMAIN s = 1 .. Len(s) /\ DOMAIN t = 1 .. Len(t)
        /\ Len(s) \in Nat /\ Len(t) \in Nat
        /\ \A i \in 1 .. Len(s) : (s \o t)[i] = s[i]
        /\ \A i \in 1 .. Len(t) : (s \o t)[Len(s) + i] = t[i]
    OBVIOUS
  <1>2. ASSUME NEW i \in 1 .. Len(s) + Len(t), i \notin 1 .. Len(s)
        PROVE  i - Len(s) \in 1 .. Len(t) /\ i = Len(s) + (i - Len(s))
    BY <1>1, <1>2
  <1>3. /\ SubSeq(s \o t, 1, Len(s)) \in Seq(S) /\ Len(SubSeq(s \o t, 1, Len(s))) = Len(s)
        /\ \A i \in 1 .. Len(s) : SubSeq(s \o t, 1, Len(s))[i] = (s \o t)[i]
    BY <1>1
  <1> HIDE DEF Joined
  <1>4. SubSeq(s \o t, 1, Len(s)) = s
    BY <1>1, <1>3, SeqSame
  <1> QED
    BY <1>1, <1>2, <1>4, Zenon

(* What is taken from the queue stays where it was.                          *)
LEMMA Moved ==
    ASSUME NEW S, NEW s \in Seq(S), NEW q \in Seq(S), q # <<>>
    PROVE  Append(s, Head(q)) \o Tail(q) = s \o q
  <1>1. /\ Tail(q) \in Seq(S) /\ Len(Tail(q)) = Len(q) - 1 /\ Len(q) \in Nat \ {0} /\ Head(q) = q[1] /\ q[1] \in S
        /\ \A i \in 1 .. Len(q) - 1 : Tail(q)[i] = q[i + 1]
    OBVIOUS
  <1> DEFINE p == Append(s, Head(q))
  <1>2. p \in Seq(S) /\ Len(p) = Len(s) + 1 /\ p[Len(s) + 1] = q[1] /\ \A i \in 1 .. Len(s) : p[i] = s[i]
    BY <1>1
  <1> HIDE DEF p
  <1>3. /\ p \o Tail(q) \in Seq(S) /\ s \o q \in Seq(S) /\ Len(s) \in Nat
        /\ Len(p \o Tail(q)) = Len(s) + Len(q) /\ Len(s \o q) = Len(s) + Len(q)
    BY <1>1, <1>2
  <1>4. ASSUME NEW i \in 1 .. Len(s) + Len(q)
        PROVE  (p \o Tail(q))[i] = (s \o q)[i]
    <2>1. CASE i \in 1 .. Len(s)
      BY <1>1, <1>2, <1>3, <2>1
    <2>2. CASE i = Len(s) + 1
      BY <1>1, <1>2, <1>3, <2>2
    <2>3. CASE i > Len(s) + 1
      <3>1. /\ (p \o Tail(q))[i] = Tail(q)[i - (Len(s) + 1)] /\ (s \o q)[i] = q[i - Len(s)]
            /\ i - (Len(s) + 1) \in 1 .. Len(q) - 1
        <4>1. i - (Len(s) + 1) \in 1 .. Len(q) - 1 /\ i - Len(s) \in 1 .. Len(q)
          BY <1>1, <1>3, <2>3
        <4>2. i = Len(p) + (i - (Len(s) + 1)) /\ i = Len(s) + (i - Len(s))
          BY <1>1, <1>2, <1>3, <2>3
        <4>3. \A k \in 1 .. Len(q) - 1 : (p \o Tail(q))[Len(p) + k] = Tail(q)[k]
          BY <1>1, <1>2, Joined
        <4>4. \A k \in 1 .. Len(q) : (s \o q)[Len(s) + k] = q[k]
          BY Joined
        <4> QED
          BY <4>1, <4>2, <4>3, <4>4, Zenon
      <3>2. Tail(q)[i - (Len(s) + 1)] = q[i - (Len(s) + 1) + 1]
        BY <1>1, <3>1
      <3>3. i - (Len(s) + 1) + 1 = i - Len(s)
        BY <1>3
      <3> QED
        BY <3>1, <3>2, <3>3, Zenon
    <2> QED
      BY <1>3, <2>1, <2>2, <2>3
  <1>5. p \o Tail(q) = s \o q
    BY <1>3, <1>4, SeqSame, Zenon
  <1> QED
    BY <1>5 DEF p

(* Events are added for one number: its announcement when it is new, its        *)
(* transactions when there are none of it yet.                                *)
Addition(s, seen, new, n) ==
    /\ EventsGood(s, seen) /\ new \in Seq(ShadowEvent)
    /\ \A i \in 1 .. Len(new) : new[i].number = n
    /\ \A i, j \in 1 .. Len(new) : new[i] = new[j] => i = j
    /\ \/ n \notin seen /\ Len(new) = 1 /\ new[1] = Announced(n)
       \/ /\ n \in seen /\ \A i \in Numbered(s, n) : s[i].tx = 0
          /\ \A i \in 1 .. Len(new) : new[i].tx # 0

Grown(s, seen, t, new, n) ==
    /\ EventsGood(t, seen \cup {n})
    /\ \A m : m # n => /\ TxsOf(t, m) = TxsOf(s, m)
                       /\ \A i \in Numbered(t, m) : i \in Numbered(s, m) /\ t[i] = s[i]
    /\ TxsOf(t, n) = TxsOf(s, n) \cup {new[i].tx : i \in 1 .. Len(new)}
    /\ n \notin seen => TxsOf(s, n) = {}
    /\ n \in seen => TxsOf(s, n) = {0}

LEMMA EventsGrow ==
    ASSUME NEW s, NEW seen, NEW new, NEW n, Addition(s, seen, new, n)
    PROVE  Grown(s, seen, s \o new, new, n)
  <1> DEFINE t == s \o new
  <1>0. s \in Seq(ShadowEvent) /\ new \in Seq(ShadowEvent)
    BY DEF EventsGood, Addition
  <1>1. /\ t \in Seq(ShadowEvent) /\ DOMAIN t = 1 .. Len(s) + Len(new) /\ DOMAIN s = 1 .. Len(s)
        /\ Len(s) \in Nat /\ Len(new) \in Nat
        /\ \A i \in 1 .. Len(s) : t[i] = s[i] /\ i \in DOMAIN t
        /\ \A i \in 1 .. Len(new) : t[Len(s) + i] = new[i] /\ Len(s) + i \in DOMAIN t
        /\ \A i \in DOMAIN t : i \in 1 .. Len(s) \/ \E j \in 1 .. Len(new) : i = Len(s) + j
    BY <1>0, Joined
  <1> HIDE DEF t
  <1>14. DOMAIN s = 1 .. Len(s)
    BY <1>1
  <1>15. /\ \A i, j \in 1 .. Len(s) : s[i] = s[j] => i = j
         /\ \A i \in 1 .. Len(s) : \E j \in 1 .. i : s[j] = Announced(s[i].number)
         /\ \A i \in 1 .. Len(s) : s[i].number \in seen
         /\ \A m \in seen : \E i \in 1 .. Len(s) : s[i] = Announced(m)
    BY <1>14, Zenon DEF Addition, EventsGood
  <1>16. /\ \A i \in 1 .. Len(new) : new[i].number = n
         /\ \A i, j \in 1 .. Len(new) : new[i] = new[j] => i = j
         /\ n \notin seen => Len(new) = 1 /\ new[1] = Announced(n)
         /\ n \in seen => /\ \A i \in 1 .. Len(s) : s[i].number = n => s[i].tx = 0
                          /\ \A i \in 1 .. Len(new) : new[i].tx # 0
    BY <1>14 DEF Addition, Numbered
  <1>2. /\ n \notin seen => \A i \in 1 .. Len(s) : s[i].number # n
        /\ n \in seen => \E i \in 1 .. Len(s) : s[i] = Announced(n)
    BY <1>15
  <1>3. ASSUME NEW i \in 1 .. Len(s), NEW j \in 1 .. Len(new) PROVE s[i] # new[j]
    BY <1>2, <1>16
  <1>4. ASSUME NEW i \in DOMAIN t, NEW j \in DOMAIN t, t[i] = t[j] PROVE i = j
    <2>1. CASE i \in 1 .. Len(s) /\ j \in 1 .. Len(s)
      BY <1>1, <1>4, <1>15, <2>1
    <2>2. ASSUME NEW k \in 1 .. Len(new), j = Len(s) + k, i \in 1 .. Len(s) PROVE FALSE
      BY <1>1, <1>3, <1>4, <2>2
    <2>3. ASSUME NEW k \in 1 .. Len(new), i = Len(s) + k, j \in 1 .. Len(s) PROVE FALSE
      BY <1>1, <1>3, <1>4, <2>3
    <2>4. ASSUME NEW k \in 1 .. Len(new), NEW l \in 1 .. Len(new), i = Len(s) + k, j = Len(s) + l PROVE i = j
      <3>1. t[i] = new[k] /\ t[j] = new[l]
        BY <1>1, <2>4
      <3> QED
        BY <1>4, <1>16, <2>4, <3>1, Zenon
    <2> QED
      BY <1>1, <2>1, <2>2, <2>3, <2>4
  <1>5. ASSUME NEW i \in DOMAIN t PROVE \E j \in 1 .. i : t[j] = Announced(t[i].number)
    <2>1. CASE i \in 1 .. Len(s)
      <3>1. PICK j \in 1 .. i : s[j] = Announced(s[i].number)
        BY <1>15, <2>1
      <3>2. j \in 1 .. Len(s)
        BY <1>1, <2>1
      <3> QED
        BY <1>1, <2>1, <3>1, <3>2
    <2>2. ASSUME NEW k \in 1 .. Len(new), i = Len(s) + k PROVE \E j \in 1 .. i : t[j] = Announced(t[i].number)
      <3>1. t[i] = new[k] /\ new[k].number = n
        BY <1>1, <1>16, <2>2
      <3>2. CASE n \in seen
        <4>1. PICK j \in 1 .. Len(s) : s[j] = Announced(n)
          BY <1>2, <3>2
        <4>2. t[j] = s[j] /\ j \in 1 .. i
          BY <1>1, <2>2, <4>1
        <4> QED
          BY <3>1, <4>1, <4>2
      <3>3. CASE n \notin seen
        <4>1. k = 1 /\ new[k] = Announced(n)
          <5>1. Len(new) = 1 /\ new[1] = Announced(n)
            BY <1>16, <3>3
          <5>2. k = 1
            BY <5>1
          <5> QED
            BY <5>1, <5>2
        <4>2. i \in 1 .. i
          BY <1>1, <2>2
        <4> QED
          BY <3>1, <4>1, <4>2
      <3> QED
        BY <3>2, <3>3
    <2> QED
      BY <1>1, <2>1, <2>2
  <1>6. ASSUME NEW i \in DOMAIN t PROVE t[i].number \in seen \cup {n}
    <2>1. CASE i \in 1 .. Len(s)
      BY <1>1, <1>15, <2>1
    <2>2. ASSUME NEW j \in 1 .. Len(new), i = Len(s) + j PROVE t[i].number \in seen \cup {n}
      BY <1>1, <1>16, <2>2
    <2> QED
      BY <1>1, <2>1, <2>2
  <1>7. \A m \in seen \cup {n} : \E i \in DOMAIN t : t[i] = Announced(m)
    <2> SUFFICES ASSUME NEW m \in seen \cup {n} PROVE \E i \in DOMAIN t : t[i] = Announced(m)
      OBVIOUS
    <2>1. CASE m \in seen
      <3>1. PICK i \in 1 .. Len(s) : s[i] = Announced(m)
        BY <1>15, <2>1
      <3> QED
        BY <1>1, <3>1, Zenon
    <2>2. CASE m \notin seen
      <3>1. Len(new) = 1 /\ new[1] = Announced(m)
        BY <1>16, <2>2
      <3>2. t[Len(s) + 1] = Announced(m) /\ Len(s) + 1 \in DOMAIN t
        BY <1>1, <3>1
      <3> QED
        BY <3>2
    <2> QED
      BY <2>1, <2>2
  <1>8. EventsGood(t, seen \cup {n})
    BY <1>1, <1>4, <1>5, <1>6, <1>7 DEF EventsGood
  <1>9. \A m : m # n =>
            /\ Numbered(t, m) = Numbered(s, m)
            /\ \A i \in Numbered(t, m) : i \in Numbered(s, m) /\ t[i] = s[i]
    <2> SUFFICES ASSUME NEW m, m # n
                 PROVE  /\ Numbered(t, m) = Numbered(s, m)
                        /\ \A i \in Numbered(t, m) : i \in Numbered(s, m) /\ t[i] = s[i]
      OBVIOUS
    <2>1. ASSUME NEW i \in DOMAIN t, t[i].number = m PROVE i \in 1 .. Len(s) /\ t[i] = s[i]
      <3>1. ASSUME NEW j \in 1 .. Len(new), i = Len(s) + j PROVE FALSE
        BY <1>1, <1>16, <2>1, <3>1
      <3> QED
        BY <1>1, <3>1
    <2>2. \A i \in 1 .. Len(s) : i \in DOMAIN t /\ t[i] = s[i]
      BY <1>1
    <2> QED
      BY <1>14, <2>1, <2>2 DEF Numbered
  <1>10. \A m : m # n => TxsOf(t, m) = TxsOf(s, m)
    BY <1>9 DEF TxsOf
  <1>11. TxsOf(t, n) = TxsOf(s, n) \cup {new[i].tx : i \in 1 .. Len(new)}
    <2>1. ASSUME NEW i \in Numbered(t, n) PROVE t[i].tx \in TxsOf(s, n) \cup {new[k].tx : k \in 1 .. Len(new)}
      BY <1>1 DEF Numbered, TxsOf
    <2>2. ASSUME NEW i \in Numbered(s, n) PROVE s[i].tx \in TxsOf(t, n)
      BY <1>1, <2>2 DEF Numbered, TxsOf
    <2>3. ASSUME NEW k \in 1 .. Len(new) PROVE new[k].tx \in TxsOf(t, n)
      <3>1. Len(s) + k \in Numbered(t, n) /\ t[Len(s) + k].tx = new[k].tx
        BY <1>1, <1>16 DEF Numbered
      <3> QED
        BY <3>1 DEF TxsOf
    <2> QED
      BY <2>1, <2>2, <2>3 DEF TxsOf
  <1>12. n \notin seen => Numbered(s, n) = {} /\ TxsOf(s, n) = {}
    BY <1>1, <1>2 DEF Numbered, TxsOf
  <1>13. n \in seen => TxsOf(s, n) = {0}
    <2> SUFFICES ASSUME n \in seen PROVE TxsOf(s, n) = {0}
      OBVIOUS
    <2>1. PICK i \in 1 .. Len(s) : s[i] = Announced(n)
      BY <1>2
    <2>2. i \in Numbered(s, n) /\ s[i].tx = 0
      BY <1>1, <2>1 DEF Numbered, Announced
    <2> QED
      BY <1>14, <1>16, <2>2 DEF TxsOf, Numbered
  <1> QED
    BY <1>8, <1>9, <1>10, <1>11, <1>12, <1>13, Zenon DEF t, Grown

LEMMA ShInitInv == ShInit => ShInv
  <1> SUFFICES ASSUME ShInit PROVE ShInv
    OBVIOUS
  <1>1. /\ shSeen = {} /\ shQueue = <<>> /\ shTaken = <<>> /\ shCut = {} /\ shChain \in ShadowBlocks
        /\ DOMAIN shPoll = Adapters /\ \A a \in Adapters : shPoll[a] = <<>>
    BY DEF ShInit
  <1>2. Events = <<>>
    BY <1>1 DEF Events
  <1>3. EventsGood(Events, shSeen)
    BY <1>1, <1>2 DEF EventsGood
  <1>4. \A a \in Adapters : \A n : ~Asks(a, n)
    BY <1>1, ShTuples DEF Asks
  <1>5. <<>> \in Seq(ShadowEvent)
    OBVIOUS
  <1> QED
    BY <1>1, <1>3, <1>4, <1>5 DEF ShInv

LEMMA ShInvSound == ShInv => ShSound
  <1> SUFFICES ASSUME ShInv PROVE ShSound
    OBVIOUS
  <1>1. EventsGood(Events, shSeen)
    BY DEF ShInv
  <1>2. ASSUME NEW n
        PROVE  Cardinality(Places(Announced(n))) = IF n \in shSeen THEN 1 ELSE 0
    <2>1. CASE n \in shSeen
      <3>1. PICK i \in DOMAIN Events : Events[i] = Announced(n)
        BY <1>1, <2>1 DEF EventsGood
      <3>2. Places(Announced(n)) = {i}
        BY <1>1, <3>1 DEF EventsGood, Places
      <3> QED
        BY <2>1, <3>2, FS_Singleton
    <2>2. CASE n \notin shSeen
      <3>1. \A i \in DOMAIN Events : Events[i].number # n
        BY <1>1, <2>2 DEF EventsGood
      <3>2. Places(Announced(n)) = {}
        BY <3>1 DEF Places, Announced
      <3> QED
        BY <2>2, <3>2, FS_EmptySet
    <2> QED
      BY <2>1, <2>2
  <1>3. \A n \in shSeen \ shCut :
            <<"transactions", n>> \in {shPoll[a] : a \in Adapters} \/
            \E b \in ShadowBlocks : b.number = n /\
                {Events[i].tx : i \in {j \in DOMAIN Events : Events[j].number = n}} = 0 .. b.txs
    BY Zenon DEF ShInv, TxsOf, Numbered, Asks
  <1> QED
    BY <1>1, <1>2, <1>3, Zenon DEF ShSound, EventsGood, Announced

(* What is seen and not cut off stays accounted for when a number joins.       *)
LEMMA ShPollInv == ASSUME ShInv, NEW a \in Adapters, PollBlock(a) PROVE ShInv'
  <1> DEFINE n == shChain.number
             new == <<Announced(n)>>
             to == IF shChain.txs = 0 THEN <<"block">> ELSE <<"transactions", n>>
  <1>0. /\ shPoll[a] = <<"block">> /\ n \in Nat /\ shChain.txs \in Nat /\ shChain \in ShadowBlocks
        /\ UNCHANGED <<shChain, shTaken, shRunning, shStarts, shCut>>
    BY ShadowAssumption DEF PollBlock, ShInv
  <1>1. CASE UNCHANGED <<shSeen, shQueue, shPoll>>
    BY <1>0, <1>1, Zenon DEF ShInv, Events, Asks
  <1>2. CASE n \notin shSeen
    <2>1. /\ shSeen' = shSeen \cup {n} /\ shQueue' = Append(shQueue, Announced(n))
          /\ shPoll' = [shPoll EXCEPT ![a] = to]
      BY <1>2 DEF PollBlock, IsNew, Announced
    <2>2. new \in Seq(ShadowEvent) /\ Len(new) = 1 /\ new[1] = Announced(n) /\ Announced(n) \in ShadowEvent
          /\ Announced(n).number = n /\ Announced(n).tx = 0
      BY <1>0 DEF Announced, ShadowEvent
    <2>3. shQueue' \in Seq(ShadowEvent) /\ Events' = Events \o new
      <3>1. shQueue \in Seq(ShadowEvent) /\ shTaken \in Seq(ShadowEvent)
        BY DEF ShInv
      <3>2. shTaken \o Append(shQueue, Announced(n)) = (shTaken \o shQueue) \o <<Announced(n)>>
        BY <2>2, <3>1
      <3> QED
        BY <1>0, <2>1, <2>2, <3>1, <3>2 DEF Events
    <2> HIDE DEF new, n
    <2>4. /\ EventsGood(Events', shSeen')
          /\ \A m : m # n => /\ TxsOf(Events', m) = TxsOf(Events, m)
                             /\ \A i \in Numbered(Events', m) : i \in Numbered(Events, m) /\ Events'[i] = Events[i]
          /\ TxsOf(Events', n) = {} \cup {new[i].tx : i \in 1 .. Len(new)}
      <3>1. \A i, j \in 1 .. Len(new) : new[i] = new[j] => i = j
        BY <2>2
      <3>2. \A i \in 1 .. Len(new) : new[i].number = n
        BY <2>2
      <3>3. EventsGood(Events, shSeen)
        BY DEF ShInv
      <3>4. Addition(Events, shSeen, new, n)
        BY <1>2, <2>2, <3>1, <3>2, <3>3 DEF Addition
      <3>5. Grown(Events, shSeen, Events', new, n)
        BY <2>3, <3>4, EventsGrow
      <3>6. shSeen' = shSeen \cup {n}
        BY <2>1
      <3> QED
        BY <1>2, <3>5, <3>6 DEF Grown
    <2>5. TxsOf(Events', n) = {0}
      BY <2>2, <2>4
    <2>6. \A i \in Numbered(Events', n) : Events'[i].tx = 0
      BY <2>5 DEF TxsOf
    <2>7. /\ DOMAIN shPoll' = Adapters
          /\ \A b \in Adapters : \A m : Asks(b, m)' => Asks(b, m) \/ (b = a /\ m = n)
          /\ \A m : ~Asks(a, m)
          /\ \A b \in Adapters : \A m : Asks(b, m) => Asks(b, m)' /\ m # n
          /\ \A m : m = n => Asks(a, m)' \/ shChain.txs = 0
      <3>1. \A m : ~Asks(a, m)
        BY <1>0, ShTuples DEF Asks
      <3>2. DOMAIN shPoll = Adapters /\ \A b \in Adapters : \A m : Asks(b, m) => m # n
        BY <1>2 DEF ShInv
      <3>3. to = <<"block">> \/ to = <<"transactions", n>>
        OBVIOUS
      <3>4. shChain.txs # 0 => to = <<"transactions", n>>
        OBVIOUS
      <3> HIDE DEF to
      <3>5. shPoll'[a] = to /\ \A b \in Adapters : b # a => shPoll'[b] = shPoll[b]
        BY <2>1, <3>2
      <3>6. \A m : to = <<"transactions", m>> => m = n
        BY <3>3, ShTuples
      <3>7. DOMAIN shPoll' = Adapters
        BY <2>1, <3>2
      <3>8. \A b \in Adapters : \A m : b # a => (Asks(b, m)' <=> Asks(b, m))
        BY <3>5 DEF Asks
      <3>9. \A m : Asks(a, m)' <=> to = <<"transactions", m>>
        BY <3>5 DEF Asks
      <3>10. \A b \in Adapters : \A m : Asks(b, m)' => Asks(b, m) \/ (b = a /\ m = n)
        <4> SUFFICES ASSUME NEW b \in Adapters, NEW m, Asks(b, m)', ~Asks(b, m) PROVE b = a /\ m = n
          OBVIOUS
        <4>1. b = a
          BY <3>8
        <4> QED
          BY <3>6, <3>9, <4>1
      <3>11. \A b \in Adapters : \A m : Asks(b, m) => Asks(b, m)' /\ m # n
        <4> SUFFICES ASSUME NEW b \in Adapters, NEW m, Asks(b, m) PROVE Asks(b, m)' /\ m # n
          OBVIOUS
        <4>1. b # a
          BY <3>1
        <4> QED
          BY <3>2, <3>8, <4>1
      <3>12. \A m : m = n => Asks(a, m)' \/ shChain.txs = 0
        BY <3>4, <3>9
      <3> QED
        BY <3>1, <3>7, <3>10, <3>11, <3>12
    <2>8. \A b \in Adapters : \A m : Asks(b, m)' =>
            /\ m \in shSeen' /\ \A c \in Adapters : Asks(c, m)' => b = c
            /\ \A i \in Numbered(Events', m) : Events'[i].tx = 0
      BY <2>1, <2>4, <2>6, <2>7 DEF ShInv
    <2>9. \A m \in shSeen' \ shCut' :
            (\E b \in Adapters : Asks(b, m)') \/ \E b \in ShadowBlocks : b.number = m /\ TxsOf(Events', m) = 0 .. b.txs
      <3> SUFFICES ASSUME NEW m \in shSeen' \ shCut'
                   PROVE  (\E b \in Adapters : Asks(b, m)') \/
                          \E b \in ShadowBlocks : b.number = m /\ TxsOf(Events', m) = 0 .. b.txs
        OBVIOUS
      <3>1. CASE m = n
        <4>1. shChain.txs = 0 => TxsOf(Events', m) = 0 .. shChain.txs
          BY <2>5, <3>1
        <4> QED
          BY <1>0, <2>7, <3>1, <4>1 DEF n
      <3>2. CASE m # n
        BY <1>0, <2>1, <2>4, <2>7, <3>2 DEF ShInv
      <3> QED
        BY <3>1, <3>2
    <2>10. shRunning
      <3>1. <<"block">> # <<>>
        <4>1. Len(<<"block">>) = 1 /\ Len(<<>>) = 0
          OBVIOUS
        <4> QED
          BY <4>1
      <3> QED
        BY <1>0, <3>1, Zenon DEF ShInv
    <2>11. shSeen' \subseteq Nat
      BY <1>0, <2>1, Zenon DEF ShInv, n
    <2> QED
      BY <1>0, <2>3, <2>4, <2>7, <2>8, <2>9, <2>10, <2>11, Zenon DEF ShInv
  <1> QED
    BY <1>1, <1>2 DEF PollBlock, IsNew

LEMMA ShEmitInv ==
    ASSUME ShInv, NEW a \in Adapters, NEW b \in ShadowBlocks, EmitTransactions(a, b)
    PROVE  ShInv'
  <1> DEFINE n == b.number
             new == [i \in 1 .. b.txs |-> [number |-> b.number, tx |-> i]]
  <1>0. /\ Asks(a, n) /\ n \in Nat /\ b.txs \in Nat /\ n \in shSeen
        /\ shQueue' = shQueue \o new /\ shPoll' = [shPoll EXCEPT ![a] = <<"block">>]
        /\ UNCHANGED <<shChain, shSeen, shTaken, shRunning, shPolls, shStarts, shCut>>
    BY ShadowAssumption DEF EmitTransactions, Asks, ShInv
  <1>2. new \in Seq(ShadowEvent) /\ Len(new) = b.txs /\ \A i \in 1 .. b.txs : new[i].number = n /\ new[i].tx = i
    <2>1. \A i \in 1 .. b.txs : [number |-> b.number, tx |-> i] \in ShadowEvent
      BY <1>0 DEF ShadowEvent
    <2> QED
      BY <1>0, <2>1
  <1>3. shQueue' \in Seq(ShadowEvent) /\ Events' = Events \o new
    <2>1. shQueue \in Seq(ShadowEvent) /\ shTaken \in Seq(ShadowEvent)
      BY DEF ShInv
    <2> HIDE DEF new
    <2>2. shTaken \o (shQueue \o new) = (shTaken \o shQueue) \o new
      BY <1>2, <2>1
    <2> QED
      BY <1>0, <1>2, <2>1, <2>2 DEF Events
  <1> HIDE DEF new, n
  <1>4. /\ EventsGood(Events', shSeen')
        /\ \A m : m # n => /\ TxsOf(Events', m) = TxsOf(Events, m)
                           /\ \A i \in Numbered(Events', m) : i \in Numbered(Events, m) /\ Events'[i] = Events[i]
        /\ TxsOf(Events', n) = {0} \cup {new[i].tx : i \in 1 .. Len(new)}
    <2>1. \A i, j \in 1 .. Len(new) : new[i] = new[j] => i = j
      BY <1>2
    <2>2. \A i \in 1 .. Len(new) : new[i].number = n /\ new[i].tx # 0
      BY <1>0, <1>2
    <2>3. EventsGood(Events, shSeen) /\ \A i \in Numbered(Events, n) : Events[i].tx = 0
      BY <1>0 DEF ShInv
    <2>4. shSeen \cup {n} = shSeen'
      BY <1>0
    <2>5. Addition(Events, shSeen, new, n)
      BY <1>0, <1>2, <2>1, <2>2, <2>3 DEF Addition
    <2>6. Grown(Events, shSeen, Events', new, n)
      BY <1>3, <2>5, EventsGrow
    <2> QED
      BY <1>0, <2>4, <2>6, Zenon DEF Grown
  <1>5. TxsOf(Events', n) = 0 .. b.txs
    <2>1. \A k \in {new[i].tx : i \in 1 .. Len(new)} : k \in 1 .. b.txs
      BY <1>2
    <2>2. \A k \in 1 .. b.txs : k \in {new[i].tx : i \in 1 .. Len(new)}
      BY <1>2
    <2>3. 0 .. b.txs = {0} \cup 1 .. b.txs
      BY <1>0
    <2> QED
      BY <1>4, <2>1, <2>2, <2>3
  <1>6. /\ DOMAIN shPoll' = Adapters
        /\ \A c \in Adapters : \A m : Asks(c, m)' => Asks(c, m) /\ c # a
        /\ \A c \in Adapters : \A m : Asks(c, m) => Asks(c, m)' \/ (c = a /\ m = n)
    <2>1. DOMAIN shPoll = Adapters
      BY DEF ShInv
    <2>2. shPoll'[a] = <<"block">> /\ \A c \in Adapters : c # a => shPoll'[c] = shPoll[c]
      BY <1>0, <2>1
    <2>3. \A m : ~Asks(a, m)' /\ (Asks(a, m) => m = n)
      BY <1>0, <2>2, ShTuples DEF Asks
    <2>4. \A c \in Adapters : \A m : c # a => (Asks(c, m)' <=> Asks(c, m))
      BY <2>2 DEF Asks
    <2> QED
      BY <1>0, <2>1, <2>3, <2>4
  <1>7. \A c \in Adapters : \A m : Asks(c, m)' =>
            /\ m \in shSeen' /\ \A d \in Adapters : Asks(d, m)' => c = d
            /\ \A i \in Numbered(Events', m) : Events'[i].tx = 0
    <2> SUFFICES ASSUME NEW c \in Adapters, NEW m, Asks(c, m)'
                 PROVE  /\ m \in shSeen' /\ \A d \in Adapters : Asks(d, m)' => c = d
                        /\ \A i \in Numbered(Events', m) : Events'[i].tx = 0
      OBVIOUS
    <2>1. Asks(c, m) /\ c # a
      BY <1>6
    <2>2. m # n
      BY <1>0, <2>1 DEF ShInv
    <2>3. m \in shSeen /\ \A i \in Numbered(Events, m) : Events[i].tx = 0
      BY <2>1 DEF ShInv
    <2>4. \A i \in Numbered(Events', m) : i \in Numbered(Events, m) /\ Events'[i] = Events[i]
      BY <1>4, <2>2
    <2>5. \A d \in Adapters : Asks(d, m)' => c = d
      BY <1>6, <2>1 DEF ShInv
    <2> QED
      BY <1>0, <2>3, <2>4, <2>5
  <1>8. \A m \in shSeen' \ shCut' :
            (\E c \in Adapters : Asks(c, m)') \/ \E d \in ShadowBlocks : d.number = m /\ TxsOf(Events', m) = 0 .. d.txs
    <2> SUFFICES ASSUME NEW m \in shSeen' \ shCut'
                 PROVE  (\E c \in Adapters : Asks(c, m)') \/
                        \E d \in ShadowBlocks : d.number = m /\ TxsOf(Events', m) = 0 .. d.txs
      OBVIOUS
    <2>1. CASE m = n
      BY <1>5, <2>1 DEF n
    <2>2. CASE m # n
      BY <1>0, <1>4, <1>6, <2>2, Zenon DEF ShInv
    <2> QED
      BY <2>1, <2>2
  <1>9. shRunning
    BY <1>0, ShTuples, Zenon DEF ShInv, Asks
  <1> QED
    BY <1>0, <1>3, <1>4, <1>6, <1>7, <1>8, <1>9, Zenon DEF ShInv

(* A step that adds no event: some pollers ask no more, and what they were to    *)
(* ask for is cut off.                                                       *)
LEMMA ShQuiet ==
    ASSUME ShInv, Events' = Events, shTaken' \in Seq(ShadowEvent), shQueue' \in Seq(ShadowEvent),
           shChain' \in ShadowBlocks, shSeen' = shSeen, shCut \subseteq shCut', DOMAIN shPoll' = Adapters,
           \A a \in Adapters : \A n : Asks(a, n)' => Asks(a, n),
           \A a \in Adapters : \A n : Asks(a, n) => Asks(a, n)' \/ n \in shCut',
           ~shRunning' => \A a \in Adapters : shPoll'[a] = <<>>
    PROVE  ShInv'
  BY DEF ShInv

LEMMA ShStepInv == ShInv /\ [ShNext]_shVars => ShInv'
  <1> SUFFICES ASSUME ShInv, [ShNext]_shVars PROVE ShInv'
    OBVIOUS
  <1>0. /\ DOMAIN shPoll = Adapters /\ shTaken \in Seq(ShadowEvent) /\ shQueue \in Seq(ShadowEvent)
        /\ shChain \in ShadowBlocks /\ (~shRunning => \A a \in Adapters : shPoll[a] = <<>>)
        /\ \A a \in Adapters : \A n : Asks(a, n) => n \in shSeen
    BY DEF ShInv
  <1>1. CASE UNCHANGED shVars
    BY <1>0, <1>1, ShQuiet DEF shVars, Events, Asks
  <1>2. CASE MoveRollup
    BY <1>0, <1>2, ShQuiet DEF MoveRollup, Events, Asks
  <1>3. CASE StartMonitor
    <2>1. \A a \in Adapters : \A n : ~Asks(a, n) /\ ~Asks(a, n)'
      BY <1>0, <1>3, ShTuples DEF StartMonitor, Asks
    <2> QED
      BY <1>0, <1>3, <2>1, ShQuiet DEF StartMonitor, Events
  <1>4. CASE StopMonitor
    <2>1. \A a \in Adapters : \A n : ~Asks(a, n)'
      BY <1>4, ShTuples DEF StopMonitor, Asks
    <2>2. \A a \in Adapters : \A n : Asks(a, n) => n \in shCut'
      BY <1>0, <1>4 DEF StopMonitor, Asks
    <2> QED
      BY <1>0, <1>4, <2>1, <2>2, ShQuiet, Zenon DEF StopMonitor, Events
  <1>5. CASE TakeEvent
    <2>1. /\ Events' = Events /\ shTaken' \in Seq(ShadowEvent) /\ shQueue' \in Seq(ShadowEvent)
          /\ UNCHANGED <<shChain, shSeen, shPoll, shRunning, shPolls, shStarts, shCut>>
      BY <1>0, <1>5, Moved DEF TakeEvent, Events
    <2> QED
      BY <1>0, <2>1, ShQuiet DEF Asks
  <1>6. ASSUME NEW a \in Adapters, NEW n \in shSeen, LoseTransactions(a, n) PROVE ShInv'
    <2>1. /\ shPoll[a] = <<"transactions", n>> /\ shPoll'[a] = <<"block">>
          /\ \A b \in Adapters : b # a => shPoll'[b] = shPoll[b]
          /\ DOMAIN shPoll' = Adapters /\ n \in shCut' /\ shCut \subseteq shCut'
      BY <1>0, <1>6 DEF LoseTransactions
    <2>2. \A b \in Adapters : \A m : Asks(b, m)' => Asks(b, m)
      BY <2>1, ShTuples DEF Asks
    <2>3. \A b \in Adapters : \A m : Asks(b, m) => Asks(b, m)' \/ m \in shCut'
      BY <2>1, ShTuples DEF Asks
    <2>4. shRunning' /\ UNCHANGED <<shChain, shSeen, shQueue, shTaken>>
      BY <1>0, <1>6, <2>1, ShTuples DEF LoseTransactions
    <2> QED
      BY <1>0, <2>1, <2>2, <2>3, <2>4, ShQuiet DEF Events
  <1> QED
    BY <1>1, <1>2, <1>3, <1>4, <1>5, <1>6, ShPollInv, ShEmitInv DEF ShNext

LEMMA ShStepFinal == ShInv /\ ShNext => ShFinal
  <1> SUFFICES ASSUME ShInv, ShNext PROVE ShFinal
    OBVIOUS
  <1>0. /\ shTaken \in Seq(ShadowEvent) /\ shQueue \in Seq(ShadowEvent) /\ Events \in Seq(ShadowEvent)
        /\ ~shRunning => \A a \in Adapters : shPoll[a] = <<>>
    BY DEF ShInv, EventsGood
  <1>1. CASE Events' = Events /\ shSeen' = shSeen
    <2>1. SubSeq(Events, 1, Len(Events)) = Events
      BY <1>0
    <2> QED
      BY <1>1, <2>1 DEF ShFinal, Events
  <1>2. ASSUME NEW new \in Seq(ShadowEvent), Events' = Events \o new, shRunning, shSeen \subseteq shSeen'
        PROVE  ShFinal
    <2>1. SubSeq(Events \o new, 1, Len(Events)) = Events
      BY <1>0, Joined
    <2> QED
      BY <1>2, <2>1, Zenon DEF ShFinal, Events
  <1>3. ASSUME NEW a \in Adapters, PollBlock(a) PROVE ShFinal
    <2>1. CASE UNCHANGED <<shSeen, shQueue, shPoll>>
      BY <1>1, <1>3, <2>1 DEF PollBlock, Events
    <2>2. CASE IsNew(shChain)
      <3>1. shChain.number \in Nat /\ Announced(shChain.number) \in ShadowEvent
        BY ShadowAssumption DEF ShInv, Announced, ShadowEvent
      <3>2. shTaken \o Append(shQueue, Announced(shChain.number)) = (shTaken \o shQueue) \o <<Announced(shChain.number)>>
        BY <1>0, <3>1
      <3>3. /\ Events' = Events \o <<Announced(shChain.number)>> /\ shSeen \subseteq shSeen'
        BY <1>3, <2>2, <3>2, Zenon DEF PollBlock, Events, Announced
      <3>4. shRunning
        <4>1. Len(<<"block">>) = 1 /\ Len(<<>>) = 0
          OBVIOUS
        <4>2. shPoll[a] # <<>>
          BY <1>3, <4>1 DEF PollBlock
        <4> QED
          BY <1>0, <4>2
      <3>5. <<Announced(shChain.number)>> \in Seq(ShadowEvent)
        BY <3>1
      <3> QED
        BY <1>2, <3>3, <3>4, <3>5, Zenon
    <2> QED
      BY <1>3, <2>1, <2>2 DEF PollBlock
  <1>4. ASSUME NEW a \in Adapters, NEW b \in ShadowBlocks, EmitTransactions(a, b) PROVE ShFinal
    <2> DEFINE new == [i \in 1 .. b.txs |-> [number |-> b.number, tx |-> i]]
    <2>1. new \in Seq(ShadowEvent)
      <3>1. b.txs \in Nat /\ \A i \in 1 .. b.txs : [number |-> b.number, tx |-> i] \in ShadowEvent
        BY ShadowAssumption DEF ShadowEvent
      <3> QED
        BY <3>1
    <2>2. shQueue' = shQueue \o new /\ shTaken' = shTaken /\ shSeen' = shSeen /\ shPoll[a] = <<"transactions", b.number>>
      BY <1>4 DEF EmitTransactions
    <2> HIDE DEF new
    <2>3. shTaken \o (shQueue \o new) = (shTaken \o shQueue) \o new
      BY <1>0, <2>1
    <2>4. Events' = Events \o new
      BY <2>2, <2>3 DEF Events
    <2>5. shRunning
      BY <1>0, <2>2, ShTuples, Zenon
    <2> QED
      BY <1>2, <2>1, <2>2, <2>4, <2>5, Zenon
  <1>5. CASE TakeEvent
    <2>1. Events' = Events /\ shSeen' = shSeen
      BY <1>0, <1>5, Moved, Zenon DEF TakeEvent, Events
    <2> QED
      BY <1>1, <2>1
  <1>6. ASSUME NEW a \in Adapters, NEW n, LoseTransactions(a, n) PROVE ShFinal
    BY <1>1, <1>6 DEF LoseTransactions, Events
  <1>7. CASE MoveRollup \/ StartMonitor \/ StopMonitor
    BY <1>1, <1>7, Zenon DEF MoveRollup, StartMonitor, StopMonitor, Events
  <1> QED
    BY <1>3, <1>4, <1>5, <1>6, <1>7 DEF ShNext

(* Theorem: a number seen is announced once, no transaction of it twice or       *)
(* before it, and what is not cut off and not asked for any more is what one     *)
(* block of that number holds (ShSound).                                      *)
THEOREM ShadowSound == ShInit /\ [][ShNext]_shVars => []ShSound
  BY ShInitInv, ShStepInv, ShInvSound, PTL

(* Theorem: no event is lost or overtaken between the monitor and its consumer,  *)
(* and a stopped monitor adds none (ShFinal).                                *)
THEOREM ShadowFinal == ShInit /\ [][ShNext]_shVars => [][ShFinal]_shVars
  <1>1. ShInv /\ [ShNext]_shVars => [ShFinal]_shVars
    BY ShStepFinal
  <1> QED
    BY <1>1, ShInitInv, ShStepInv, PTL

(***************************************************************************)
(* The knowledge store.                                                     *)
(***************************************************************************)
KbGraphs ==
    [entries : UNION {[D -> Confidences] : D \in SUBSET KnowledgeIds},
     relations : UNION {[D -> SUBSET KnowledgeIds] : D \in SUBSET KnowledgeIds},
     version : Nat \ {0}, rewritten : SUBSET KnowledgeIds]

(* A relation goes both ways, but for an entry that was added over itself.    *)
Linked(g) ==
    /\ DOMAIN g.entries \subseteq DOMAIN g.relations
    /\ \A a \in DOMAIN g.relations : \A b \in g.relations[a] :
        b \in DOMAIN g.relations /\ (b \in g.rewritten \/ a \in g.relations[b])

GoodGraph(g) == g \in KbGraphs /\ Linked(g)

KbInv ==
    /\ kbFile \in {NoGraph, TornFile} \/ GoodGraph(kbFile)
    /\ DOMAIN kbGraph = KbScripts
    /\ \A s \in KbScripts : kbGraph[s] = NoGraph \/ GoodGraph(kbGraph[s])
    /\ kbChanges \in 0 .. MaxKnowledge /\ kbShared \in BOOLEAN
    /\ ~kbShared =>
        /\ \A s, t \in KbScripts : ScriptRuns(s) /\ ScriptRuns(t) => s = t
        /\ \A s \in KbScripts : ScriptRuns(s) => kbGraph[s] = LoadGraph

LEMMA KbGraphForm ==
    ASSUME NEW g \in KbGraphs
    PROVE  /\ g = [entries |-> g.entries, relations |-> g.relations, version |-> g.version, rewritten |-> g.rewritten]
           /\ DOMAIN g.entries \subseteq KnowledgeIds /\ g.entries \in [DOMAIN g.entries -> Confidences]
           /\ DOMAIN g.relations \subseteq KnowledgeIds /\ g.relations \in [DOMAIN g.relations -> SUBSET KnowledgeIds]
           /\ g.version \in Nat \ {0} /\ g.rewritten \subseteq KnowledgeIds
  <1>1. /\ g.entries \in UNION {[D -> Confidences] : D \in SUBSET KnowledgeIds}
        /\ g.relations \in UNION {[D -> SUBSET KnowledgeIds] : D \in SUBSET KnowledgeIds}
    BY DEF KbGraphs
  <1>2. PICK D \in SUBSET KnowledgeIds : g.entries \in [D -> Confidences]
    BY <1>1
  <1>3. PICK E \in SUBSET KnowledgeIds : g.relations \in [E -> SUBSET KnowledgeIds]
    BY <1>1
  <1>4. DOMAIN g.entries = D /\ DOMAIN g.relations = E
    BY <1>2, <1>3
  <1> QED
    BY <1>2, <1>3, <1>4 DEF KbGraphs

LEMMA KbGraphMade ==
    ASSUME NEW D \in SUBSET KnowledgeIds, NEW E \in SUBSET KnowledgeIds,
           NEW e \in [D -> Confidences], NEW r \in [E -> SUBSET KnowledgeIds],
           NEW v \in Nat \ {0}, NEW w \in SUBSET KnowledgeIds
    PROVE  [entries |-> e, relations |-> r, version |-> v, rewritten |-> w] \in KbGraphs
  BY DEF KbGraphs

(* What EXCEPT makes of a graph.                                             *)
LEMMA KbRecordExcept ==
    ASSUME NEW E, NEW R, NEW V, NEW W, NEW x \in R, NEW y \in E, NEW n \in V,
           NEW g \in [entries : E, relations : R, version : V, rewritten : W]
    PROVE  /\ LET h == [g EXCEPT !.relations = x] IN
              /\ h \in [entries : E, relations : R, version : V, rewritten : W] /\ h.relations = x
              /\ h.entries = g.entries /\ h.version = g.version /\ h.rewritten = g.rewritten
           /\ LET h == [g EXCEPT !.entries = y, !.version = n] IN
              /\ h \in [entries : E, relations : R, version : V, rewritten : W] /\ h.relations = g.relations
              /\ h.entries = y /\ h.version = n /\ h.rewritten = g.rewritten
  BY Zenon

LEMMA IsGraphForm ==
    /\ ~IsGraph(NoGraph) /\ ~IsGraph(TornFile)
    /\ \A g \in KbGraphs : IsGraph(g)
  BY DEF IsGraph, NoGraph, TornFile, KbGraphs

LEMMA EmptyGood == GoodGraph(CreateEmpty)
  <1>1. /\ <<>> \in [{} -> Confidences] /\ <<>> \in [{} -> SUBSET KnowledgeIds]
    OBVIOUS
  <1>2. CreateEmpty \in KbGraphs
    <2>1. {} \in SUBSET KnowledgeIds /\ 1 \in Nat \ {0}
      OBVIOUS
    <2> QED
      BY <1>1, <2>1, KbGraphMade, Zenon DEF CreateEmpty
  <1> QED
    BY <1>2 DEF GoodGraph, Linked, CreateEmpty

LEMMA WithGood ==
    ASSUME NEW g, GoodGraph(g), NEW id \in KnowledgeIds, NEW c \in Confidences
    PROVE  /\ GoodGraph(GraphWith(g, id, c)) /\ GraphWith(g, id, c).version >= g.version
           /\ DOMAIN g.entries \subseteq DOMAIN GraphWith(g, id, c).entries
           /\ id \in DOMAIN GraphWith(g, id, c).relations /\ GraphWith(g, id, c).relations[id] = {}
  <1> DEFINE e == Extended(g.entries, id, c)
             r == Extended(g.relations, id, {})
             w == IF id \in DOMAIN g.relations THEN g.rewritten \cup {id} ELSE g.rewritten
  <1>1. /\ DOMAIN g.entries \subseteq KnowledgeIds /\ g.entries \in [DOMAIN g.entries -> Confidences]
        /\ DOMAIN g.relations \subseteq KnowledgeIds /\ g.relations \in [DOMAIN g.relations -> SUBSET KnowledgeIds]
        /\ g.version \in Nat \ {0} /\ g.rewritten \subseteq KnowledgeIds
    BY KbGraphForm DEF GoodGraph
  <1>2. /\ DOMAIN e = DOMAIN g.entries \cup {id} /\ e \in [DOMAIN g.entries \cup {id} -> Confidences]
        /\ DOMAIN r = DOMAIN g.relations \cup {id} /\ r \in [DOMAIN g.relations \cup {id} -> SUBSET KnowledgeIds]
        /\ r[id] = {} /\ \A x \in DOMAIN g.relations : x # id => r[x] = g.relations[x]
    BY <1>1 DEF Extended
  <1>3. w \in SUBSET KnowledgeIds /\ g.rewritten \subseteq w /\ (id \in DOMAIN g.relations => id \in w)
    BY <1>1
  <1>4. GraphWith(g, id, c) = [entries |-> e, relations |-> r, version |-> g.version + 1, rewritten |-> w]
    BY DEF GraphWith
  <1> HIDE DEF e, r, w
  <1>5. GraphWith(g, id, c) \in KbGraphs
    BY <1>1, <1>2, <1>3, <1>4, KbGraphMade
  <1>6. ASSUME NEW a \in DOMAIN r, NEW b \in r[a]
        PROVE  b \in DOMAIN r /\ (b \in w \/ a \in r[b])
    <2>1. a # id /\ a \in DOMAIN g.relations /\ b \in g.relations[a]
      BY <1>2, <1>6
    <2>2. b \in DOMAIN g.relations /\ (b \in g.rewritten \/ a \in g.relations[b])
      BY <2>1 DEF GoodGraph, Linked
    <2> QED
      BY <1>2, <1>3, <2>2
  <1> QED
    BY <1>1, <1>2, <1>4, <1>5, <1>6 DEF GoodGraph, Linked

LEMMA RelatedGood ==
    ASSUME NEW g, GoodGraph(g), NEW id \in DOMAIN g.relations, g.relations[id] = {},
           NEW related \in SUBSET KnowledgeIds
    PROVE  /\ GoodGraph(Related(g, id, related)) /\ Related(g, id, related).version = g.version
           /\ Related(g, id, related).entries = g.entries
  <1> DEFINE l == Extended(g.relations, id, related)
             D == DOMAIN g.relations \cup related
             r == [x \in DOMAIN l \cup related |->
                    (IF x \in DOMAIN l THEN l[x] ELSE {}) \cup (IF x \in related THEN {id} ELSE {})]
  <1>1. /\ g = [entries |-> g.entries, relations |-> g.relations, version |-> g.version, rewritten |-> g.rewritten]
        /\ DOMAIN g.entries \subseteq KnowledgeIds /\ g.entries \in [DOMAIN g.entries -> Confidences]
        /\ DOMAIN g.relations \subseteq KnowledgeIds /\ g.relations \in [DOMAIN g.relations -> SUBSET KnowledgeIds]
        /\ g.version \in Nat \ {0} /\ g.rewritten \subseteq KnowledgeIds /\ id \in KnowledgeIds
    BY KbGraphForm DEF GoodGraph
  <1>2. /\ DOMAIN l = DOMAIN g.relations /\ l \in [DOMAIN g.relations -> SUBSET KnowledgeIds]
        /\ l[id] = related /\ \A x \in DOMAIN g.relations : x # id => l[x] = g.relations[x]
    BY <1>1 DEF Extended
  <1>3. Related(g, id, related) = [g EXCEPT !.relations = r]
    BY DEF Related
  <1> HIDE DEF l
  <1>4. DOMAIN r = D /\ r \in [D -> SUBSET KnowledgeIds]
    BY <1>1, <1>2
  <1>5. /\ \A x \in related : id \in r[x]
        /\ \A x \in DOMAIN g.relations : l[x] \subseteq r[x]
        /\ \A x \in D : \A b \in r[x] : (b = id /\ x \in related) \/ (x \in DOMAIN g.relations /\ b \in l[x])
    BY <1>2
  <1> HIDE DEF r
  <1>6. ASSUME NEW a \in D, NEW b \in r[a]
        PROVE  b \in D /\ (b \in g.rewritten \/ a \in r[b])
    <2>1. CASE b = id /\ a \in related
      BY <1>2, <1>5, <2>1
    <2>2. CASE a = id /\ b \in l[id]
      BY <1>2, <1>5, <2>2
    <2>3. CASE a # id /\ a \in DOMAIN g.relations /\ b \in l[a]
      <3>1. b \in DOMAIN g.relations /\ (b \in g.rewritten \/ a \in g.relations[b])
        BY <1>2, <2>3 DEF GoodGraph, Linked
      <3>2. b = id => b \in g.rewritten
        BY <3>1
      <3> QED
        BY <1>2, <1>5, <3>1, <3>2
    <2> QED
      BY <1>5, <1>6, <2>1, <2>2, <2>3
  <1>7. D \in SUBSET KnowledgeIds
    BY <1>1
  <1>8. r \in UNION {[E -> SUBSET KnowledgeIds] : E \in SUBSET KnowledgeIds}
    BY <1>4, <1>7
  <1> DEFINE h == [g EXCEPT !.relations = r]
  <1>9. /\ h \in KbGraphs /\ h.relations = r /\ h.entries = g.entries /\ h.version = g.version
        /\ h.rewritten = g.rewritten
    BY <1>8, KbRecordExcept, Zenon DEF KbGraphs, GoodGraph
  <1> HIDE DEF h
  <1>10. DOMAIN g.entries \subseteq D
    BY DEF GoodGraph, Linked
  <1>11. Related(g, id, related) = h
    BY <1>3 DEF h
  <1> QED
    BY <1>4, <1>6, <1>9, <1>10, <1>11 DEF GoodGraph, Linked

LEMMA UpdatedGood ==
    ASSUME NEW g, GoodGraph(g), NEW id \in DOMAIN g.entries, NEW c \in Confidences
    PROVE  /\ GoodGraph(GraphUpdated(g, id, c)) /\ GraphUpdated(g, id, c).version >= g.version
           /\ DOMAIN GraphUpdated(g, id, c).entries = DOMAIN g.entries
  <1>1. /\ g = [entries |-> g.entries, relations |-> g.relations, version |-> g.version, rewritten |-> g.rewritten]
        /\ DOMAIN g.entries \subseteq KnowledgeIds /\ g.entries \in [DOMAIN g.entries -> Confidences]
        /\ DOMAIN g.relations \subseteq KnowledgeIds /\ g.relations \in [DOMAIN g.relations -> SUBSET KnowledgeIds]
        /\ g.version \in Nat \ {0} /\ g.rewritten \subseteq KnowledgeIds
    BY KbGraphForm DEF GoodGraph
  <1>2. GraphUpdated(g, id, c) = [g EXCEPT !.entries = [g.entries EXCEPT ![id] = c], !.version = g.version + 1]
    BY DEF GraphUpdated
  <1>3. /\ [g.entries EXCEPT ![id] = c] \in [DOMAIN g.entries -> Confidences] /\ g.version + 1 \in Nat \ {0}
        /\ DOMAIN [g.entries EXCEPT ![id] = c] = DOMAIN g.entries
    BY <1>1
  <1>4. [g.entries EXCEPT ![id] = c] \in UNION {[D -> Confidences] : D \in SUBSET KnowledgeIds}
    BY <1>1, <1>3
  <1> DEFINE h == [g EXCEPT !.entries = [g.entries EXCEPT ![id] = c], !.version = g.version + 1]
  <1>5. /\ h \in KbGraphs /\ h.relations = g.relations /\ h.entries = [g.entries EXCEPT ![id] = c]
        /\ h.version = g.version + 1 /\ h.rewritten = g.rewritten
    BY <1>3, <1>4, KbRecordExcept, Zenon DEF KbGraphs, GoodGraph
  <1>6. GraphUpdated(g, id, c) = h
    BY <1>2
  <1> HIDE DEF h
  <1> QED
    BY <1>1, <1>3, <1>5, <1>6 DEF GoodGraph, Linked

LEMMA WithoutGood ==
    ASSUME NEW g, GoodGraph(g), NEW id \in KnowledgeIds
    PROVE  /\ GoodGraph(GraphWithout(g, id)) /\ GraphWithout(g, id).version >= g.version
           /\ DOMAIN GraphWithout(g, id).entries = DOMAIN g.entries \ {id}
  <1> DEFINE e == Restrained(g.entries, id)
             r == [x \in DOMAIN g.relations \ {id} |-> g.relations[x] \ {id}]
  <1>1. /\ DOMAIN g.entries \subseteq KnowledgeIds /\ g.entries \in [DOMAIN g.entries -> Confidences]
        /\ DOMAIN g.relations \subseteq KnowledgeIds /\ g.relations \in [DOMAIN g.relations -> SUBSET KnowledgeIds]
        /\ g.version \in Nat \ {0} /\ g.rewritten \subseteq KnowledgeIds
    BY KbGraphForm DEF GoodGraph
  <1>2. /\ DOMAIN e = DOMAIN g.entries \ {id} /\ e \in [DOMAIN g.entries \ {id} -> Confidences]
        /\ DOMAIN r = DOMAIN g.relations \ {id} /\ r \in [DOMAIN g.relations \ {id} -> SUBSET KnowledgeIds]
        /\ \A x \in DOMAIN g.relations \ {id} : r[x] = g.relations[x] \ {id}
    BY <1>1 DEF Restrained
  <1>3. GraphWithout(g, id) = [entries |-> e, relations |-> r, version |-> g.version + 1, rewritten |-> g.rewritten \ {id}]
    BY DEF GraphWithout
  <1> HIDE DEF e, r
  <1>4. GraphWithout(g, id) \in KbGraphs
    <2>1. g.rewritten \ {id} \in SUBSET KnowledgeIds /\ g.version + 1 \in Nat \ {0}
      BY <1>1
    <2>2. DOMAIN g.entries \ {id} \in SUBSET KnowledgeIds /\ DOMAIN g.relations \ {id} \in SUBSET KnowledgeIds
      BY <1>1
    <2> QED
      BY <1>2, <1>3, <2>1, <2>2, KbGraphMade
  <1>5. ASSUME NEW a \in DOMAIN r, NEW b \in r[a]
        PROVE  b \in DOMAIN r /\ (b \in g.rewritten \ {id} \/ a \in r[b])
    <2>1. a \in DOMAIN g.relations /\ a # id /\ b \in g.relations[a] /\ b # id
      BY <1>2, <1>5
    <2>2. b \in DOMAIN g.relations /\ (b \in g.rewritten \/ a \in g.relations[b])
      BY <2>1 DEF GoodGraph, Linked
    <2> QED
      BY <1>2, <2>1, <2>2
  <1> QED
    BY <1>1, <1>2, <1>3, <1>4, <1>5 DEF GoodGraph, Linked

LEMMA KbInitInv == KbInit => KbInv
  <1> SUFFICES ASSUME KbInit PROVE KbInv
    OBVIOUS
  <1>1. kbChanges = 0 /\ kbShared = FALSE /\ kbFile = NoGraph /\ kbGraph = [s \in KbScripts |-> NoGraph]
    BY DEF KbInit
  <1>2. \A s \in KbScripts : ~ScriptRuns(s)
    BY <1>1, IsGraphForm DEF ScriptRuns
  <1>3. kbChanges \in 0 .. MaxKnowledge
    BY <1>1, KnowledgeAssumption
  <1> QED
    BY <1>1, <1>2, <1>3, Zenon DEF KbInv

LEMMA LoadGood == KbInv => GoodGraph(LoadGraph)
  BY EmptyGood, IsGraphForm DEF KbInv, LoadGraph

LEMMA RunsGood ==
    ASSUME KbInv, NEW s \in KbScripts, ScriptRuns(s)
    PROVE  GoodGraph(kbGraph[s])
  BY IsGraphForm DEF KbInv, ScriptRuns

LEMMA KbSavedInv ==
    ASSUME KbInv, NEW s \in KbScripts, NEW first, NEW last, GoodGraph(first), GoodGraph(last),
           SaveChange(s, first, last)
    PROVE  KbInv'
  <1>1. /\ kbFile' = TornFile \/ GoodGraph(kbFile')
        /\ kbGraph'[s] = NoGraph \/ GoodGraph(kbGraph'[s])
        /\ \A t \in KbScripts : t # s => kbGraph'[t] = kbGraph[t]
        /\ DOMAIN kbGraph' = KbScripts
        /\ kbGraph'[s] = NoGraph \/ (kbGraph'[s] = last /\ kbFile' = last)
        /\ kbChanges' \in 0 .. MaxKnowledge /\ kbShared' = kbShared /\ ScriptRuns(s)
    <2>1. kbChanges' \in 0 .. MaxKnowledge /\ kbShared' = kbShared /\ ScriptRuns(s)
      BY KnowledgeAssumption DEF KbInv, SaveChange
    <2>2. \/ kbFile' = last /\ kbGraph' = [kbGraph EXCEPT ![s] = last]
          \/ kbFile' \in {TornFile, first} /\ kbGraph' = [kbGraph EXCEPT ![s] = NoGraph]
      BY DEF SaveChange
    <2>3. DOMAIN kbGraph = KbScripts
      BY DEF KbInv
    <2> QED
      BY <2>1, <2>2, <2>3
  <1>2. ASSUME ~kbShared', NEW t \in KbScripts, ScriptRuns(t)'
        PROVE  t = s /\ kbGraph'[t] = last /\ kbFile' = last
    <2>1. t = s
      BY <1>1, <1>2 DEF KbInv, ScriptRuns
    <2> QED
      BY <1>1, <1>2, <2>1, IsGraphForm DEF ScriptRuns
  <1>3. ASSUME ~kbShared', NEW t \in KbScripts, ScriptRuns(t)'
        PROVE  kbGraph'[t] = LoadGraph'
    <2>1. kbGraph'[t] = last /\ kbFile' = last /\ IsGraph(last)
      BY <1>2, <1>3, IsGraphForm DEF GoodGraph
    <2> QED
      BY <2>1 DEF LoadGraph
  <1>4. \A t \in KbScripts : kbGraph'[t] = NoGraph \/ GoodGraph(kbGraph'[t])
    BY <1>1 DEF KbInv
  <1>5. kbFile' \in {NoGraph, TornFile} \/ GoodGraph(kbFile')
    BY <1>1
  <1>6. \A t, u \in KbScripts : ~kbShared' /\ ScriptRuns(t)' /\ ScriptRuns(u)' => t = u
    BY <1>2
  <1> QED
    BY <1>1, <1>3, <1>4, <1>5, <1>6 DEF KbInv

(* What a change saves is a good graph, and in none of them a version falls or  *)
(* an entry is lost, but by a removal.                                        *)
Keeps(g, h) == h.version >= g.version /\ DOMAIN g.entries \subseteq DOMAIN h.entries

LEMMA KbChange ==
    ASSUME KbInv, NEW s \in KbScripts, NEW first, NEW last, SaveChange(s, first, last),
           \/ \E id \in KnowledgeIds, c \in Confidences :
                /\ first = GraphWith(kbGraph[s], id, c)
                /\ \/ last = first
                   \/ \E related \in SUBSET KnowledgeIds : last = Related(first, id, related)
           \/ \E c \in Confidences : \E id \in DOMAIN kbGraph[s].entries :
                first = GraphUpdated(kbGraph[s], id, c) /\ last = first
           \/ \E id \in KnowledgeIds : first = GraphWithout(kbGraph[s], id) /\ last = first
    PROVE  /\ GoodGraph(first) /\ GoodGraph(last)
           /\ first.version >= kbGraph[s].version /\ last.version >= kbGraph[s].version
           /\ \/ Keeps(kbGraph[s], first) /\ Keeps(kbGraph[s], last)
              \/ \E id \in KnowledgeIds :
                    /\ first = GraphWithout(kbGraph[s], id) /\ last = first
                    /\ DOMAIN first.entries = DOMAIN kbGraph[s].entries \ {id}
  <1>1. GoodGraph(kbGraph[s])
    BY RunsGood DEF SaveChange
  <1>2. ASSUME NEW id \in KnowledgeIds, NEW c \in Confidences, first = GraphWith(kbGraph[s], id, c)
        PROVE  /\ GoodGraph(first) /\ Keeps(kbGraph[s], first)
               /\ \A related \in SUBSET KnowledgeIds :
                    GoodGraph(Related(first, id, related)) /\ Keeps(kbGraph[s], Related(first, id, related))
    <2>1. /\ GoodGraph(first) /\ first.version >= kbGraph[s].version
          /\ DOMAIN kbGraph[s].entries \subseteq DOMAIN first.entries
          /\ id \in DOMAIN first.relations /\ first.relations[id] = {}
      BY <1>1, <1>2, WithGood
    <2>2. ASSUME NEW related \in SUBSET KnowledgeIds
          PROVE  GoodGraph(Related(first, id, related)) /\ Keeps(kbGraph[s], Related(first, id, related))
      <3>1. /\ GoodGraph(Related(first, id, related)) /\ Related(first, id, related).version = first.version
            /\ Related(first, id, related).entries = first.entries
        BY <2>1, RelatedGood
      <3> QED
        BY <2>1, <3>1 DEF Keeps
    <2> QED
      BY <2>1, <2>2 DEF Keeps
  <1>3. ASSUME NEW c \in Confidences, NEW id \in DOMAIN kbGraph[s].entries, first = GraphUpdated(kbGraph[s], id, c)
        PROVE  GoodGraph(first) /\ Keeps(kbGraph[s], first)
    BY <1>1, <1>3, UpdatedGood DEF Keeps
  <1>4. ASSUME NEW id \in KnowledgeIds, first = GraphWithout(kbGraph[s], id)
        PROVE  /\ GoodGraph(first) /\ first.version >= kbGraph[s].version
               /\ DOMAIN first.entries = DOMAIN kbGraph[s].entries \ {id}
    BY <1>1, <1>4, WithoutGood
  <1> QED
    BY <1>2, <1>3, <1>4 DEF Keeps

(* The steps of the store, as the two lemmas above name them.                 *)
LEMMA KbSteps ==
    ASSUME KbInv, KbNext
    PROVE  \E s \in KbScripts :
            \/ StartScript(s) \/ EndScript(s)
            \/ \E t \in KbScripts \ {s} : ImportGraph(s, t)
            \/ \E first, last :
                /\ SaveChange(s, first, last)
                /\ \/ \E id \in KnowledgeIds, c \in Confidences :
                        /\ first = GraphWith(kbGraph[s], id, c)
                        /\ \/ last = first
                           \/ \E related \in SUBSET KnowledgeIds : last = Related(first, id, related)
                   \/ \E c \in Confidences : \E id \in DOMAIN kbGraph[s].entries :
                        first = GraphUpdated(kbGraph[s], id, c) /\ last = first
                   \/ \E id \in KnowledgeIds : first = GraphWithout(kbGraph[s], id) /\ last = first
  <1>1. PICK s \in KbScripts :
            \/ StartScript(s) \/ EndScript(s)
            \/ \E id \in KnowledgeIds :
                \/ RemoveEntry(s, id)
                \/ \E c \in Confidences :
                    \/ AddEntry(s, id, c) \/ UpdateEntry(s, id, c)
                    \/ \E related \in SUBSET KnowledgeIds \ {{}} : AddWithRelation(s, id, c, related)
            \/ \E t \in KbScripts \ {s} : ImportGraph(s, t)
    BY DEF KbNext
  <1>2. ASSUME NEW id \in KnowledgeIds, RemoveEntry(s, id)
        PROVE  \E first, last : SaveChange(s, first, last) /\ first = GraphWithout(kbGraph[s], id) /\ last = first
    BY <1>2 DEF RemoveEntry
  <1>3. ASSUME NEW id \in KnowledgeIds, NEW c \in Confidences, AddEntry(s, id, c)
        PROVE  \E first, last : SaveChange(s, first, last) /\ first = GraphWith(kbGraph[s], id, c) /\ last = first
    BY <1>3 DEF AddEntry
  <1>4. ASSUME NEW id \in KnowledgeIds, NEW c \in Confidences, UpdateEntry(s, id, c)
        PROVE  /\ id \in DOMAIN kbGraph[s].entries
               /\ \E first, last : SaveChange(s, first, last) /\ first = GraphUpdated(kbGraph[s], id, c) /\ last = first
    BY <1>4 DEF UpdateEntry
  <1>5. ASSUME NEW id \in KnowledgeIds, NEW c \in Confidences, NEW related \in SUBSET KnowledgeIds,
               AddWithRelation(s, id, c, related)
        PROVE  \E first, last : /\ SaveChange(s, first, last) /\ first = GraphWith(kbGraph[s], id, c)
                                /\ last = Related(first, id, related)
    BY <1>5 DEF AddWithRelation
  <1> QED
    BY <1>1, <1>2, <1>3, <1>4, <1>5

LEMMA KbStepInv == KbInv /\ [KbNext]_kbVars => KbInv'
  <1> SUFFICES ASSUME KbInv, [KbNext]_kbVars PROVE KbInv'
    OBVIOUS
  <1>1. CASE UNCHANGED kbVars
    BY <1>1 DEF kbVars, KbInv, ScriptRuns, LoadGraph
  <1>2. ASSUME NEW s \in KbScripts, StartScript(s) PROVE KbInv'
    <2>1. GoodGraph(LoadGraph) /\ kbFile' = kbFile /\ LoadGraph' = LoadGraph
      BY <1>2, LoadGood DEF StartScript, LoadGraph
    <2>2. kbGraph'[s] = LoadGraph /\ \A t \in KbScripts : t # s => kbGraph'[t] = kbGraph[t]
      BY <1>2 DEF StartScript, KbInv
    <2>3. ASSUME ~kbShared', NEW t \in KbScripts, t # s PROVE ~ScriptRuns(t)'
      BY <1>2, <2>2, <2>3, Zenon DEF StartScript, ScriptRuns
    <2> QED
      BY <1>2, <2>1, <2>2, <2>3 DEF StartScript, KbInv
  <1>3. ASSUME NEW s \in KbScripts, EndScript(s) PROVE KbInv'
    <2>1. /\ kbGraph'[s] = NoGraph /\ ~ScriptRuns(s)'
          /\ \A t \in KbScripts : t # s => kbGraph'[t] = kbGraph[t] /\ ScriptRuns(t)' = ScriptRuns(t)
      BY <1>3, IsGraphForm DEF EndScript, KbInv, ScriptRuns
    <2> QED
      BY <1>3, <2>1 DEF EndScript, KbInv, LoadGraph
  <1>4. ASSUME NEW s \in KbScripts, NEW t \in KbScripts, ImportGraph(s, t) PROVE KbInv'
    BY <1>4, RunsGood, KbSavedInv DEF ImportGraph
  <1> QED
    BY <1>1, <1>2, <1>3, <1>4, KbSteps, KbChange, KbSavedInv

LEMMA KbInvSound == KbInv => KbSound
  <1> SUFFICES ASSUME KbInv PROVE KbSound
    OBVIOUS
  <1>1. ASSUME NEW g, GoodGraph(g)
        PROVE  /\ Linked(g)
               /\ \A a, b \in DOMAIN g.entries \ g.rewritten : b \in GetRelated(g, a) <=> a \in GetRelated(g, b)
    BY <1>1 DEF GoodGraph, Linked, GetRelated
  <1>2. \A g \in {kbFile} \cup {kbGraph[s] : s \in KbScripts} : IsGraph(g) => GoodGraph(g)
    BY IsGraphForm DEF KbInv
  <1>3. ~kbShared => \A s \in KbScripts : ScriptRuns(s) => kbGraph[s] = LoadGraph
    BY DEF KbInv
  <1> QED
    BY <1>1, <1>2, <1>3 DEF KbSound, Linked, LoadGraph

LEMMA KbStepFinal == KbInv /\ KbNext => KbFinal
  <1> SUFFICES ASSUME KbInv, KbNext, ~kbShared', IsGraph(kbFile), IsGraph(kbFile')
               PROVE  /\ kbFile'.version >= kbFile.version
                      /\ \A id \in DOMAIN kbFile.entries \ DOMAIN kbFile'.entries : kbFile' = GraphWithout(kbFile, id)
    BY DEF KbFinal
  <1>0. GoodGraph(kbFile) /\ kbFile.version \in Nat
    BY IsGraphForm, KbGraphForm DEF KbInv, GoodGraph
  <1>1. CASE kbFile' = kbFile
    BY <1>0, <1>1
  <1>2. ASSUME NEW s \in KbScripts, NEW first, NEW last, SaveChange(s, first, last),
               kbFile' \in {first, last} => /\ kbFile'.version >= kbGraph[s].version
                                            /\ \/ Keeps(kbGraph[s], kbFile')
                                               \/ \E id \in KnowledgeIds :
                                                    /\ kbFile' = GraphWithout(kbGraph[s], id)
                                                    /\ DOMAIN kbFile'.entries = DOMAIN kbGraph[s].entries \ {id}
        PROVE  /\ kbFile'.version >= kbFile.version
               /\ \A id \in DOMAIN kbFile.entries \ DOMAIN kbFile'.entries : kbFile' = GraphWithout(kbFile, id)
    <2>1. kbGraph[s] = kbFile
      BY <1>2 DEF KbInv, SaveChange, LoadGraph
    <2>2. kbFile' \in {first, last}
      BY <1>2, IsGraphForm DEF SaveChange
    <2> QED
      BY <1>2, <2>1, <2>2 DEF Keeps
  <1>3. ASSUME NEW s \in KbScripts, NEW t \in KbScripts \ {s}, ImportGraph(s, t) PROVE FALSE
    BY <1>3 DEF ImportGraph, SaveChange, KbInv
  <1>4. ASSUME NEW s \in KbScripts, StartScript(s) \/ EndScript(s) PROVE kbFile' = kbFile
    BY <1>4 DEF StartScript, EndScript
  <1> QED
    BY <1>1, <1>2, <1>3, <1>4, KbSteps, KbChange

(* Theorem: every entry of the store has its relations, which go both ways but  *)
(* for an entry added over itself, and while scripts ran one after the other     *)
(* each holds what the file holds (KbSound).                                  *)
THEOREM KnowledgeSound == KbInit /\ [][KbNext]_kbVars => []KbSound
  BY KbInitInv, KbStepInv, KbInvSound, PTL

(* Theorem: while scripts ran one after the other, no version goes back and no  *)
(* entry is lost, but by its removal (KbFinal).                              *)
THEOREM KnowledgeFinal == KbInit /\ [][KbNext]_kbVars => [][KbFinal]_kbVars
  <1>1. KbInv /\ [KbNext]_kbVars => [KbFinal]_kbVars
    BY KbStepFinal
  <1> QED
    BY <1>1, KbInitInv, KbStepInv, PTL

(***************************************************************************)
(* The claims ledger.                                                       *)
(***************************************************************************)
(* The entries of the ledger, and what is computed of a list of them.         *)
ClEntry ==
    [who : Contributors, artifact : {q.artifact : q \in ClaimRequests}, month : 0 .. MaxMonth,
     recognized : Int, deferred : Nat, status : Statuses, marks : SUBSET Marked, amount : Int]

RecognizedOf(entries) == [e \in DOMAIN entries |-> entries[e].recognized]

AmountOf(entries) == [e \in DOMAIN entries |-> entries[e].amount]

InMonth(entries, who, month) ==
    {e \in DOMAIN entries :
        entries[e].status # "revoked" /\ entries[e].who = who /\ entries[e].month = month}

MonthSum(entries, who, month) == SumOver(RecognizedOf(entries), InMonth(entries, who, month))

(* What the cap is held to: a negative claim counts also when it was revoked.  *)
HeldIn(entries, who, month) ==
    {e \in DOMAIN entries :
        /\ entries[e].who = who /\ entries[e].month = month
        /\ entries[e].status # "revoked" \/ entries[e].recognized < 0}

HeldSum(entries, who, month) == SumOver(RecognizedOf(entries), HeldIn(entries, who, month))

PoolSum(entries) == SumOver(AmountOf(entries), DOMAIN entries)

LEMMA EntriesFinite ==
    ASSUME NEW entries \in Seq(ClEntry)
    PROVE  /\ IsFiniteSet(DOMAIN entries)
           /\ \A T \in SUBSET DOMAIN entries : IsFiniteSet(T)
           /\ \A e \in DOMAIN entries : entries[e] \in ClEntry
           /\ DOMAIN entries = 1 .. Len(entries)
  <1>1. DOMAIN entries = 1 .. Len(entries) /\ Len(entries) \in Nat
    OBVIOUS
  <1>2. IsFiniteSet(1 .. Len(entries))
    BY <1>1, FS_Interval
  <1>3. \A e \in DOMAIN entries : entries[e] \in ClEntry
    OBVIOUS
  <1> QED
    BY <1>1, <1>2, <1>3, FS_Subset

(* What the recursive function in MapThenSumSet(Recognized, T) satisfies.     *)
RecognizedSummed(T, g) ==
    g = [s \in SUBSET T |-> IF s = {} THEN 0 ELSE Recognized(Chosen(s)) + g[s \ {Chosen(s)}]]

AmountSummed(T, g) ==
    g = [s \in SUBSET T |-> IF s = {} THEN 0 ELSE Amount(Chosen(s)) + g[s \ {Chosen(s)}]]

LEMMA RecognizedByFunction == \A T : MapThenSumSet(Recognized, T) = (CHOOSE g : RecognizedSummed(T, g))[T]
  BY DEF MapThenSumSet, MapThenFoldSet, RecognizedSummed, Chosen

LEMMA AmountByFunction == \A T : MapThenSumSet(Amount, T) = (CHOOSE g : AmountSummed(T, g))[T]
  BY DEF MapThenSumSet, MapThenFoldSet, AmountSummed, Chosen

(* The sums of the ledger are sums over functions of its entries.             *)
LEMMA RecognizedSum ==
    ASSUME NEW T, T \subseteq ClaimIds, IsFiniteSet(T)
    PROVE  MapThenSumSet(Recognized, T) = SumOver(RecognizedOf(clEntries), T)
  <1>1. PICK f : f = RecognizedOf(clEntries)
    OBVIOUS
  <1>2. \A x \in T : f[x] = Recognized(x)
    BY <1>1 DEF RecognizedOf, Recognized, ClaimIds
  <1>3. \A g : RecognizedSummed(T, g) <=> Summed(f, T, g)
    <2> TAKE g
    <2>1. \A s \in SUBSET T : s # {} => Recognized(Chosen(s)) = f[Chosen(s)]
      BY <1>2, ChosenIn
    <2>2. [s \in SUBSET T |-> IF s = {} THEN 0 ELSE Recognized(Chosen(s)) + g[s \ {Chosen(s)}]]
            = [s \in SUBSET T |-> IF s = {} THEN 0 ELSE f[Chosen(s)] + g[s \ {Chosen(s)}]]
      BY <2>1
    <2> QED
      BY <2>2, Zenon DEF RecognizedSummed, Summed
  <1>4. PICK h : h = CHOOSE k : RecognizedSummed(T, k)
    OBVIOUS
  <1>5. Summed(f, T, h)
    BY <1>3, <1>4, SummedExists
  <1>6. MapThenSumSet(Recognized, T) = h[T]
    BY <1>4, RecognizedByFunction
  <1>7. SumOver(f, T) = h[T]
    BY <1>5, SumOfPart
  <1> QED
    BY <1>1, <1>6, <1>7

LEMMA AmountSum ==
    ASSUME NEW T, T \subseteq ClaimIds, IsFiniteSet(T)
    PROVE  MapThenSumSet(Amount, T) = SumOver(AmountOf(clEntries), T)
  <1>1. PICK f : f = AmountOf(clEntries)
    OBVIOUS
  <1>2. \A x \in T : f[x] = Amount(x)
    BY <1>1 DEF AmountOf, Amount, ClaimIds
  <1>3. \A g : AmountSummed(T, g) <=> Summed(f, T, g)
    <2> TAKE g
    <2>1. \A s \in SUBSET T : s # {} => Amount(Chosen(s)) = f[Chosen(s)]
      BY <1>2, ChosenIn
    <2>2. [s \in SUBSET T |-> IF s = {} THEN 0 ELSE Amount(Chosen(s)) + g[s \ {Chosen(s)}]]
            = [s \in SUBSET T |-> IF s = {} THEN 0 ELSE f[Chosen(s)] + g[s \ {Chosen(s)}]]
      BY <2>1
    <2> QED
      BY <2>2, Zenon DEF AmountSummed, Summed
  <1>4. PICK h : h = CHOOSE k : AmountSummed(T, k)
    OBVIOUS
  <1>5. Summed(f, T, h)
    BY <1>3, <1>4, SummedExists
  <1>6. MapThenSumSet(Amount, T) = h[T]
    BY <1>4, AmountByFunction
  <1>7. SumOver(f, T) = h[T]
    BY <1>5, SumOfPart
  <1> QED
    BY <1>1, <1>6, <1>7

ClListed == clEntries \in Seq(ClEntry)

SumsRight ==
    /\ \A who, month : MonthToDate(who, month) = MonthSum(clEntries, who, month)
    /\ \A who, month :
        MapThenSumSet(Recognized, HeldToCap(who, month)) = HeldSum(clEntries, who, month)
    /\ MapThenSumSet(Amount, ClaimIds) = PoolSum(clEntries)
    /\ MapThenSumSet(Recognized, Eligible) = SumOver(RecognizedOf(clEntries), Eligible)

LEMMA LedgerSums == ClListed => SumsRight
  <1> SUFFICES ASSUME ClListed PROVE SumsRight
    OBVIOUS
  <1>1. /\ IsFiniteSet(ClaimIds) /\ \A T \in SUBSET ClaimIds : IsFiniteSet(T)
    BY EntriesFinite DEF ClListed, ClaimIds
  <1>2. ASSUME NEW who, NEW month PROVE MonthToDate(who, month) = MonthSum(clEntries, who, month)
    <2>1. CountsInMonth(who, month) = InMonth(clEntries, who, month)
      BY DEF CountsInMonth, InMonth, Live, ClaimIds
    <2>2. CountsInMonth(who, month) \subseteq ClaimIds
      BY DEF CountsInMonth
    <2>3. MapThenSumSet(Recognized, CountsInMonth(who, month))
            = SumOver(RecognizedOf(clEntries), CountsInMonth(who, month))
      BY <1>1, <2>2, RecognizedSum
    <2> QED
      BY <2>1, <2>3 DEF MonthToDate, MonthSum
  <1>6. ASSUME NEW who, NEW month
        PROVE  MapThenSumSet(Recognized, HeldToCap(who, month)) = HeldSum(clEntries, who, month)
    <2>1. HeldToCap(who, month) = HeldIn(clEntries, who, month) /\ HeldToCap(who, month) \subseteq ClaimIds
      BY DEF HeldToCap, HeldIn, Live, Recognized, ClaimIds
    <2>2. MapThenSumSet(Recognized, HeldToCap(who, month))
            = SumOver(RecognizedOf(clEntries), HeldToCap(who, month))
      BY <1>1, <2>1, RecognizedSum
    <2> QED
      BY <2>1, <2>2 DEF HeldSum
  <1>3. MapThenSumSet(Amount, ClaimIds) = PoolSum(clEntries)
    BY <1>1, AmountSum DEF PoolSum, ClaimIds
  <1>4. Eligible \subseteq ClaimIds
    BY DEF Eligible
  <1>5. MapThenSumSet(Recognized, Eligible) = SumOver(RecognizedOf(clEntries), Eligible)
    BY <1>1, <1>4, RecognizedSum
  <1> QED
    BY <1>2, <1>3, <1>5, <1>6 DEF SumsRight

LEMMA LedgerSumsNext == ClListed' => SumsRight'
  BY LedgerSums, PTL

---------------------------------------------------------------------------
(* How the sums change with the entries.                                     *)

(* Entries of the same claims, of which none came back to life.               *)
SameClaims(old, new) ==
    /\ DOMAIN new = DOMAIN old
    /\ \A e \in DOMAIN old :
        /\ new[e].recognized = old[e].recognized /\ new[e].who = old[e].who
        /\ new[e].month = old[e].month /\ new[e].artifact = old[e].artifact
        /\ new[e].status # "revoked" => old[e].status # "revoked"

LEMMA HeldNotRaised ==
    ASSUME NEW old \in Seq(ClEntry), NEW new \in Seq(ClEntry), SameClaims(old, new), NEW who, NEW month
    PROVE  HeldSum(new, who, month) <= HeldSum(old, who, month)
  <1>1. PICK T, S : T = HeldIn(new, who, month) /\ S = HeldIn(old, who, month)
    OBVIOUS
  <1>2. T \in SUBSET S /\ S \subseteq DOMAIN old
    BY <1>1 DEF HeldIn, SameClaims
  <1>3. PICK f, h : f = RecognizedOf(old) /\ h = RecognizedOf(new)
    OBVIOUS
  <1>4. \A e \in DOMAIN old : f[e] \in Int /\ h[e] = f[e] /\ f[e] = old[e].recognized
    BY <1>3, EntriesFinite, Zenon DEF RecognizedOf, SameClaims, ClEntry
  <1>5. IsFiniteSet(S) /\ IsFiniteSet(T)
    BY <1>2, EntriesFinite
  <1>6. \A e \in S : e \notin T => f[e] >= 0
    BY <1>1, <1>2, <1>4 DEF HeldIn, SameClaims
  <1>7. SumOver(f, T) <= SumOver(f, S)
    <2>1. \A e \in S : f[e] \in Int
      BY <1>2, <1>4
    <2> QED
      BY <1>2, <1>5, <1>6, <2>1, SumPart
  <1>8. SumOver(h, T) = SumOver(f, T)
    BY <1>2, <1>4, <1>5, SumSame
  <1> QED
    BY <1>1, <1>3, <1>7, <1>8 DEF HeldSum

(* A month to date is no less than what the cap is held to: it leaves out only   *)
(* what is negative.                                                        *)
LEMMA HeldBelowMonth ==
    ASSUME NEW entries \in Seq(ClEntry), NEW who, NEW month
    PROVE  /\ HeldSum(entries, who, month) \in Int /\ MonthSum(entries, who, month) \in Int
           /\ HeldSum(entries, who, month) <= MonthSum(entries, who, month)
  <1>1. PICK f : f = RecognizedOf(entries)
    OBVIOUS
  <1>2. PICK S, T : S = HeldIn(entries, who, month) /\ T = InMonth(entries, who, month)
    OBVIOUS
  <1>3. T \in SUBSET S /\ S \subseteq DOMAIN entries
    BY <1>2 DEF HeldIn, InMonth
  <1>4. \A e \in DOMAIN entries : f[e] \in Int /\ f[e] = entries[e].recognized
    BY <1>1, EntriesFinite, Zenon DEF RecognizedOf, ClEntry
  <1>5. IsFiniteSet(S) /\ \A e \in S : f[e] \in Int
    BY <1>3, <1>4, EntriesFinite
  <1>6. SumOver(f, S) \in Int /\ SumOver(f, T) \in Int
    BY <1>3, <1>5, SumInt
  <1>7. \A e \in S : e \notin T => f[e] <= 0
    BY <1>2, <1>3, <1>4 DEF HeldIn, InMonth
  <1>8. SumOver(f, S) <= SumOver(f, T)
    BY <1>3, <1>5, <1>7, SumPart
  <1> QED
    BY <1>1, <1>2, <1>6, <1>8 DEF HeldSum, MonthSum

LEMMA HeldOfOneMore ==
    ASSUME NEW old \in Seq(ClEntry), NEW x \in ClEntry, x.status # "revoked", NEW who, NEW month
    PROVE  HeldSum(Append(old, x), who, month) =
                HeldSum(old, who, month) + IF x.who = who /\ x.month = month THEN x.recognized ELSE 0
  <1>0. PICK new : new = Append(old, x)
    BY Zenon
  <1>1. PICK n : n = Len(old) + 1
    OBVIOUS
  <1>2. /\ new \in Seq(ClEntry) /\ DOMAIN new = DOMAIN old \cup {n} /\ n \notin DOMAIN old
        /\ new[n] = x /\ \A e \in DOMAIN old : new[e] = old[e]
    BY <1>0, <1>1
  <1>3. PICK f, h : f = RecognizedOf(old) /\ h = RecognizedOf(new)
    OBVIOUS
  <1>4. /\ \A e \in DOMAIN old : f[e] \in Int /\ h[e] = f[e]
        /\ h[n] = x.recognized /\ h[n] \in Int
    BY <1>2, <1>3, EntriesFinite, Zenon DEF RecognizedOf, ClEntry
  <1>5. PICK S, T : S = HeldIn(old, who, month) /\ T = HeldIn(new, who, month)
    OBVIOUS
  <1>6. S \subseteq DOMAIN old
    BY <1>5 DEF HeldIn
  <1>7. IsFiniteSet(S) /\ n \notin S
    BY <1>2, <1>6, EntriesFinite
  <1>8. T = IF x.who = who /\ x.month = month THEN S \cup {n} ELSE S
    BY <1>2, <1>5 DEF HeldIn
  <1>9. SumOver(h, S) = SumOver(f, S)
    BY <1>4, <1>6, <1>7, SumSame
  <1>10. SumOver(f, S) \in Int
    <2>1. \A y \in S : f[y] \in Int
      BY <1>4, <1>6
    <2> QED
      BY <1>7, <2>1, SumInt
  <1>11. SumOver(h, S \cup {n}) = h[n] + SumOver(h, S)
    <2>1. \A y \in S \cup {n} : h[y] \in Int
      BY <1>4, <1>6
    <2> QED
      BY <1>7, <2>1, SumAdd
  <1>12. HeldSum(old, who, month) = SumOver(f, S) /\ HeldSum(new, who, month) = SumOver(h, T)
    BY <1>3, <1>5 DEF HeldSum
  <1> QED
    BY <1>0, <1>4, <1>8, <1>9, <1>10, <1>11, <1>12

LEMMA PoolKept ==
    ASSUME NEW old \in Seq(ClEntry), NEW new \in Seq(ClEntry), DOMAIN new = DOMAIN old,
           \A e \in DOMAIN old : new[e].amount = old[e].amount
    PROVE  PoolSum(new) = PoolSum(old)
  <1>1. PICK f, h : f = AmountOf(old) /\ h = AmountOf(new)
    OBVIOUS
  <1>2. \A e \in DOMAIN old : h[e] = f[e]
    BY <1>1 DEF AmountOf
  <1>3. SumOver(f, DOMAIN old) = SumOver(h, DOMAIN old)
    BY <1>2, EntriesFinite, SumSame
  <1> QED
    BY <1>1, <1>3 DEF PoolSum

LEMMA PoolOfOneMore ==
    ASSUME NEW old \in Seq(ClEntry), NEW x \in ClEntry, x.amount = 0
    PROVE  PoolSum(Append(old, x)) = PoolSum(old)
  <1>0. PICK new : new = Append(old, x)
    BY Zenon
  <1>1. PICK n, S : n = Len(old) + 1 /\ S = DOMAIN old
    OBVIOUS
  <1>2. /\ new \in Seq(ClEntry) /\ DOMAIN new = S \cup {n} /\ n \notin S
        /\ new[n] = x /\ \A e \in S : new[e] = old[e]
    BY <1>0, <1>1
  <1>3. PICK f, h : f = AmountOf(old) /\ h = AmountOf(new)
    OBVIOUS
  <1>4. /\ \A e \in S : f[e] \in Int /\ h[e] = f[e]
        /\ h[n] = 0 /\ \A y \in S \cup {n} : h[y] \in Int
    <2>1. \A e \in S : f[e] = old[e].amount /\ h[e] = new[e].amount
      BY <1>1, <1>2, <1>3 DEF AmountOf
    <2>2. \A e \in S : old[e].amount \in Int
      BY <1>1, EntriesFinite, Zenon DEF ClEntry
    <2>3. h[n] = 0
      BY <1>2, <1>3 DEF AmountOf
    <2> QED
      BY <1>2, <2>1, <2>2, <2>3
  <1>5. IsFiniteSet(S)
    BY <1>1, EntriesFinite
  <1>6. SumOver(h, S) = SumOver(f, S)
    BY <1>4, <1>5, SumSame
  <1>7. SumOver(h, S \cup {n}) = h[n] + SumOver(h, S)
    BY <1>2, <1>4, <1>5, SumAdd
  <1>8. SumOver(f, S) \in Int
    BY <1>4, <1>5, SumInt, Zenon
  <1> QED
    BY <1>0, <1>1, <1>2, <1>3, <1>4, <1>6, <1>7, <1>8 DEF PoolSum

(* The snapshot gives every eligible claim its share, and nothing to others.  *)
LEMMA PoolShared ==
    ASSUME NEW old \in Seq(ClEntry), NEW new \in Seq(ClEntry), DOMAIN new = DOMAIN old,
           NEW chosen \in SUBSET DOMAIN old, NEW pool \in Int,
           \A e \in DOMAIN old :
               new[e].amount = IF e \in chosen THEN old[e].recognized * pool ELSE 0
    PROVE  PoolSum(new) = SumOver(RecognizedOf(old), chosen) * pool
  <1>1. PICK f, h : f = RecognizedOf(old) /\ h = AmountOf(new)
    OBVIOUS
  <1>2. PICK S : S = DOMAIN old
    OBVIOUS
  <1>3. IsFiniteSet(S) /\ IsFiniteSet(chosen) /\ S \cap chosen = chosen
    BY <1>2, EntriesFinite
  <1>4. /\ \A e \in S : f[e] \in Int
        /\ \A e \in S : h[e] \in Int
        /\ \A e \in S : e \notin chosen => h[e] = 0
        /\ \A e \in chosen : f[e] \in Int /\ h[e] = f[e] * pool
    <2>1. \A e \in S : f[e] = old[e].recognized /\ h[e] = new[e].amount
      BY <1>1, <1>2 DEF RecognizedOf, AmountOf
    <2>2. \A e \in S : old[e].recognized \in Int /\ new[e].amount \in Int
      BY <1>2, EntriesFinite, Zenon DEF ClEntry
    <2>3. \A e \in S : h[e] = IF e \in chosen THEN f[e] * pool ELSE 0
      BY <1>2, <2>1
    <2> QED
      BY <1>2, <2>1, <2>2, <2>3
  <1>5. SumOver(h, S) = SumOver(h, S \cap chosen)
    <2>1. IsFiniteSet(S) /\ \A x \in S : h[x] \in Int
      BY <1>3, <1>4
    <2>2. \A x \in S : x \notin chosen => h[x] = 0
      BY <1>4
    <2>3. \A T : (\A x \in S : x \notin T => h[x] = 0) => SumOver(h, S) = SumOver(h, S \cap T)
      BY <2>1, SumZero, Zenon
    <2> QED
      BY <2>2, <2>3, Zenon
  <1>6. SumOver(h, chosen) = SumOver(f, chosen) * pool
    BY <1>2, <1>3, <1>4, SumScaled
  <1> QED
    BY <1>1, <1>2, <1>3, <1>5, <1>6, Zenon DEF PoolSum

LEMMA PoolOfNone ==
    ASSUME NEW old \in Seq(ClEntry), \A e \in DOMAIN old : old[e].amount = 0
    PROVE  PoolSum(old) = 0
  <1>1. PICK f, S, T : f = AmountOf(old) /\ S = DOMAIN old /\ T = {}
    BY Zenon
  <1>2. IsFiniteSet(S) /\ S \cap T = {}
    BY <1>1, EntriesFinite
  <1>3. \A e \in S : f[e] = 0
    BY <1>1 DEF AmountOf
  <1>4. SumOver(f, S) = SumOver(f, S \cap T)
    BY <1>2, <1>3, SumZero
  <1>5. SumOver(f, {}) = 0
    BY SumEmpty
  <1> QED
    BY <1>1, <1>2, <1>4, <1>5 DEF PoolSum

---------------------------------------------------------------------------
(* The inductive invariant.                                                  *)
ClTyped ==
    /\ ClListed /\ clFile \in {"absent", "whole", "torn"} /\ clMonth \in 0 .. MaxMonth
    /\ clTrail \in Seq(Seq(EventTypes)) /\ Len(clTrail) = Len(clEntries)

(* The pool was divided once, among claims that had something recognized.    *)
Activated(pool, total) == total # 0 /\ clActivation = [pool |-> pool, total |-> total]

ClActivated == clActivation = NotActivated \/ \E pool, total \in Int : Activated(pool, total)

Converted(status) == IF status = "recognized" THEN "convertible" ELSE status

(* The last own event of a claim, and after it none but the one snapshot.     *)
TrailSays(e) ==
    \/ clTrail[e] = <<clEntries[e].status>>
    \/ \E status \in Statuses :
        /\ clTrail[e] = <<status, "GLOBAL_SNAPSHOT_CONVERSION">>
        /\ clEntries[e].status = Converted(status)

ClTrailed == \A e \in ClaimIds : TrailSays(e)

(* Before the snapshot nothing is promised, and no event tells of one.       *)
ClUnpaid ==
    clActivation = NotActivated =>
        \A e \in ClaimIds : clEntries[e].amount = 0 /\ clTrail[e] = <<clEntries[e].status>>

Payable == {"recognized", "convertible", "converted", "settled"}

(* The marks a status or a promise needs were set on the way to it.          *)
ClMarked ==
    \A e \in ClaimIds :
        /\ clEntries[e].status = "approved" => "approved" \in clEntries[e].marks
        /\ clEntries[e].status \in Payable \/ clEntries[e].amount # 0
            => {"approved", "recognized"} \subseteq clEntries[e].marks

ClCapped == \A who, month : HeldSum(clEntries, who, month) <= MonthlyCap

ClDivided == PoolSum(clEntries) = clActivation.pool * clActivation.total

ClInv ==
    ClTyped /\ ClActivated /\ ClTrailed /\ ClUnpaid /\ ClMarked /\ ClCapped /\ CountedOnce /\ ClDivided

LEMMA ClNoEntries ==
    ASSUME clEntries = <<>>, clTrail = <<>>, clActivation = NotActivated,
           clFile \in {"absent", "whole", "torn"}, clMonth \in 0 .. MaxMonth
    PROVE  ClInv
  <1>1. clEntries \in Seq(ClEntry) /\ DOMAIN clEntries = {} /\ ClaimIds = {} /\ Len(clEntries) = 0
    BY DEF ClaimIds
  <1>2. ClTyped
    BY <1>1 DEF ClTyped, ClListed
  <1>3. ClActivated /\ ClTrailed /\ ClUnpaid /\ ClMarked /\ CountedOnce
    BY <1>1 DEF ClActivated, ClTrailed, ClUnpaid, ClMarked, CountedOnce
  <1>4. ClCapped
    <2>1. MonthlyCap \in Nat
      BY ClaimsAssumption
    <2>2. \A who, month : HeldIn(clEntries, who, month) = {}
      BY <1>1 DEF HeldIn
    <2>3. \A f : SumOver(f, {}) = 0
      BY SumEmpty
    <2>4. \A who, month : HeldSum(clEntries, who, month) = 0
      BY <2>2, <2>3 DEF HeldSum
    <2> QED
      BY <2>1, <2>4 DEF ClCapped
  <1>5. ClDivided
    <2>1. PoolSum(clEntries) = 0
      BY <1>1, PoolOfNone, Zenon
    <2>2. clActivation.pool = 0 /\ clActivation.total = 0
      BY DEF NotActivated
    <2> QED
      BY <2>1, <2>2 DEF ClDivided
  <1> QED
    BY <1>2, <1>3, <1>4, <1>5 DEF ClInv

ClEmpty ==
    /\ clEntries = <<>> /\ clTrail = <<>> /\ clActivation = NotActivated
    /\ clFile \in {"absent", "whole", "torn"} /\ clMonth \in 0 .. MaxMonth

LEMMA ClEmptyInv == ClEmpty => ClInv
  BY ClNoEntries DEF ClEmpty

LEMMA ClInitInv == ClInit => ClInv
  <1>1. MaxMonth \in Nat
    BY ClaimsAssumption
  <1>2. 0 \in 0 .. MaxMonth
    BY <1>1
  <1> QED
    BY <1>2, ClNoEntries DEF ClInit

(* What a step may do to a claim it changes: leave a status that is not final, *)
(* and enter one whose mark it sets and whose predecessor it comes from.       *)
LegalChange(from, to, marks) ==
    /\ to \in Statuses /\ marks \subseteq Marked /\ from \notin {"revoked", "settled"}
    /\ to = "approved" => "approved" \in marks
    /\ to = "recognized" => from = "approved" /\ "recognized" \in marks
    /\ to \in Payable \ {"recognized"} => from \in Payable

LEMMA TransitionLegal ==
    ASSUME NEW from \in Statuses, NEW to \in AllowedTransitions[from]
    PROVE  LegalChange(from, to, {to} \cap Marked)
  <1> USE DEF LegalChange, AllowedTransitions, Statuses, Marked, Payable
  <1>1. CASE from = "proposed"
    BY <1>1
  <1>2. CASE from = "verified"
    BY <1>2, Zenon
  <1>3. CASE from = "approved"
    BY <1>3, Zenon
  <1>4. CASE from = "recognized"
    BY <1>4
  <1>5. CASE from = "convertible"
    BY <1>5
  <1>6. CASE from = "converted"
    BY <1>6
  <1>7. CASE from = "disputed"
    BY <1>7, Zenon
  <1>8. CASE from \in {"settled", "revoked"}
    BY <1>8
  <1> QED
    BY <1>1, <1>2, <1>3, <1>4, <1>5, <1>6, <1>7, <1>8

LEMMA ClChangeStep ==
    ASSUME ClInv, NEW e \in ClaimIds, NEW to, NEW marks, Change(e, to, marks),
           LegalChange(clEntries[e].status, to, marks)
    PROVE  ClInv' /\ ClFinal
  <1>1. /\ clEntries \in Seq(ClEntry) /\ clTrail \in Seq(Seq(EventTypes))
        /\ Len(clTrail) = Len(clEntries) /\ clEntries[e] \in ClEntry
        /\ DOMAIN clTrail = ClaimIds /\ DOMAIN clEntries = ClaimIds
    BY DEF ClInv, ClTyped, ClListed, ClaimIds
  <1>2. PICK x : x = [clEntries[e] EXCEPT !.status = to, !.marks = @ \cup marks]
    OBVIOUS
  <1>3. /\ x \in ClEntry /\ x.status = to /\ x.marks = clEntries[e].marks \cup marks
        /\ x.who = clEntries[e].who /\ x.artifact = clEntries[e].artifact /\ x.month = clEntries[e].month
        /\ x.recognized = clEntries[e].recognized /\ x.amount = clEntries[e].amount
    BY <1>1, <1>2, Zenon DEF ClEntry, LegalChange
  <1>4. clEntries' = [clEntries EXCEPT ![e] = x]
    BY <1>2, Zenon DEF Change
  <1>5. /\ clEntries' \in Seq(ClEntry) /\ ClaimIds' = ClaimIds /\ Len(clEntries') = Len(clEntries)
        /\ clEntries'[e] = x /\ \A d \in ClaimIds : d # e => clEntries'[d] = clEntries[d]
        /\ DOMAIN clEntries' = ClaimIds
    BY <1>1, <1>3, <1>4 DEF ClaimIds
  <1>6. <<to>> \in Seq(EventTypes)
    BY DEF LegalChange, EventTypes
  <1>7. /\ clTrail' \in Seq(Seq(EventTypes)) /\ Len(clTrail') = Len(clTrail)
        /\ clTrail'[e] = <<to>> /\ \A d \in ClaimIds : d # e => clTrail'[d] = clTrail[d]
    BY <1>1, <1>6 DEF Change
  <1>8. UNCHANGED <<clFile, clActivation, clMonth>>
    BY DEF Change
  <1>9. ClTyped'
    BY <1>1, <1>5, <1>7, <1>8 DEF ClInv, ClTyped, ClListed
  <1>10. ClActivated'
    BY <1>8 DEF ClInv, ClActivated, Activated
  <1>11. ClTrailed'
    <2> SUFFICES ASSUME NEW d \in ClaimIds PROVE TrailSays(d)'
      BY <1>5 DEF ClTrailed
    <2>1. CASE d = e
      BY <1>3, <1>5, <1>7, <2>1 DEF TrailSays
    <2>2. CASE d # e
      BY <1>5, <1>7, <2>2, Zenon DEF ClInv, ClTrailed, TrailSays
    <2> QED
      BY <2>1, <2>2
  <1>12. ClUnpaid'
    <2> SUFFICES ASSUME clActivation = NotActivated, NEW d \in ClaimIds
                 PROVE  clEntries'[d].amount = 0 /\ clTrail'[d] = <<clEntries'[d].status>>
      BY <1>5, <1>8 DEF ClUnpaid
    <2>1. CASE d = e
      BY <1>3, <1>5, <1>7, <2>1 DEF ClInv, ClUnpaid
    <2>2. CASE d # e
      BY <1>5, <1>7, <2>2, Zenon DEF ClInv, ClUnpaid
    <2> QED
      BY <2>1, <2>2
  <1>13. ClMarked'
    <2> SUFFICES ASSUME NEW d \in ClaimIds
                 PROVE  /\ clEntries'[d].status = "approved" => "approved" \in clEntries'[d].marks
                        /\ clEntries'[d].status \in Payable \/ clEntries'[d].amount # 0
                            => {"approved", "recognized"} \subseteq clEntries'[d].marks
      BY <1>5 DEF ClMarked
    <2>1. CASE d = e
      BY <1>3, <1>5, <2>1 DEF ClInv, ClMarked, LegalChange, Payable
    <2>2. CASE d # e
      BY <1>5, <2>2 DEF ClInv, ClMarked
    <2> QED
      BY <2>1, <2>2
  <1>14. SameClaims(clEntries, clEntries')
    BY <1>3, <1>5 DEF SameClaims, ClaimIds, LegalChange
  <1>15. ClCapped'
    <2> SUFFICES ASSUME NEW who, NEW month PROVE HeldSum(clEntries', who, month) <= MonthlyCap
      BY DEF ClCapped
    <2>1. HeldSum(clEntries', who, month) <= HeldSum(clEntries, who, month)
      BY <1>1, <1>5, <1>14, HeldNotRaised
    <2>2. HeldSum(clEntries, who, month) <= MonthlyCap
      BY DEF ClInv, ClCapped
    <2>3. HeldSum(clEntries, who, month) \in Int /\ HeldSum(clEntries', who, month) \in Int /\ MonthlyCap \in Nat
      BY <1>1, <1>5, HeldBelowMonth, ClaimsAssumption
    <2> QED
      BY <2>1, <2>2, <2>3
  <1>16. CountedOnce'
    BY <1>5, <1>14 DEF ClInv, CountedOnce, Live, SameClaims
  <1>17. ClDivided'
    <2>1. PoolSum(clEntries') = PoolSum(clEntries)
      BY <1>1, <1>3, <1>5, PoolKept, Zenon
    <2> QED
      BY <1>8, <2>1 DEF ClInv, ClDivided
  <1>18. ClFinal
    BY <1>3, <1>5, <1>8 DEF ClFinal, LegalChange
  <1> QED
    BY <1>9, <1>10, <1>11, <1>12, <1>13, <1>15, <1>16, <1>17, <1>18 DEF ClInv

LEMMA ClProposeStep ==
    ASSUME ClInv, NEW q \in ClaimRequests, Propose(q)
    PROVE  ClInv' /\ ClFinal
  <1>1. /\ clEntries \in Seq(ClEntry) /\ clTrail \in Seq(Seq(EventTypes))
        /\ Len(clTrail) = Len(clEntries) /\ DOMAIN clTrail = ClaimIds /\ DOMAIN clEntries = ClaimIds
        /\ ClListed
    BY DEF ClInv, ClTyped, ClListed, ClaimIds
  <1>2. Awarded(q) \in Int
    <2>1. /\ q.base \in Int /\ q.impact \in Int /\ q.quality \in Int
      BY ClaimsAssumption
    <2>2. \A a, b \in Int : a * b \in Int
      OBVIOUS
    <2> QED
      BY <2>1, <2>2 DEF Awarded
  <1>3. PICK sum, held : sum = MonthSum(clEntries, q.who, clMonth) /\ held = HeldSum(clEntries, q.who, clMonth)
    OBVIOUS
  <1>4. MonthToDate(q.who, clMonth) = sum
    BY <1>1, <1>3, LedgerSums DEF SumsRight
  <1>5. /\ sum \in Int /\ held \in Int /\ held <= sum
        /\ held <= MonthlyCap /\ MonthlyCap \in Nat
    BY <1>1, <1>3, HeldBelowMonth, ClaimsAssumption DEF ClInv, ClCapped
  <1>6. PICK recognized, deferred : recognized = RecognizedFor(q) /\ deferred = DeferredFor(q)
    OBVIOUS
  <1>7. recognized \in Int /\ deferred \in Nat /\ held + recognized <= MonthlyCap
    <2>1. PICK left : left = RemainingCap(q.who)
      OBVIOUS
    <2>2. left \in Nat /\ (left = 0 \/ left = MonthlyCap - sum)
      BY <1>4, <1>5, <2>1 DEF RemainingCap
    <2>3. q.number \in {"finite", "infinite", "none"}
      BY ClaimsAssumption
    <2>4. CASE q.number = "finite"
      <3>1. recognized = Smaller(Awarded(q), left) /\ deferred = Awarded(q) - recognized
        BY <1>6, <2>1, <2>4 DEF RecognizedFor, DeferredFor
      <3> QED
        BY <1>2, <1>5, <2>2, <3>1 DEF Smaller
    <2>5. CASE q.number = "infinite"
      <3>1. recognized = left /\ deferred = 0
        BY <1>6, <2>1, <2>5 DEF RecognizedFor, DeferredFor
      <3> QED
        BY <1>5, <2>2, <3>1
    <2>6. CASE q.number = "none"
      <3>1. recognized = 0 /\ deferred = 0
        BY <1>6, <2>6 DEF RecognizedFor, DeferredFor
      <3> QED
        BY <1>5, <3>1
    <2> QED
      BY <2>3, <2>4, <2>5, <2>6
  <1>8. PICK x : x = [who |-> q.who, artifact |-> q.artifact, month |-> clMonth,
                      recognized |-> recognized, deferred |-> deferred,
                      status |-> "proposed", marks |-> {}, amount |-> 0]
    BY Zenon
  <1>9. /\ x \in ClEntry /\ x.status = "proposed" /\ x.amount = 0 /\ x.month = clMonth
        /\ x.who = q.who /\ x.artifact = q.artifact /\ x.recognized \in Int
        /\ held + x.recognized <= MonthlyCap
    <2>1. q.who \in Contributors /\ clMonth \in 0 .. MaxMonth
      BY DEF Propose, ValidClaim, ClInv, ClTyped
    <2>2. "proposed" \in Statuses
      BY DEF Statuses
    <2> QED
      BY <1>7, <1>8, <2>1, <2>2 DEF ClEntry
  <1>10. clEntries' = Append(clEntries, x) /\ clTrail' = Append(clTrail, <<"proposed">>)
    BY <1>6, <1>8 DEF Propose
  <1>11. PICK n : n = Len(clEntries) + 1
    OBVIOUS
  <1>12. /\ clEntries' \in Seq(ClEntry) /\ ClaimIds' = ClaimIds \cup {n} /\ n \notin ClaimIds
         /\ clEntries'[n] = x /\ \A d \in ClaimIds : clEntries'[d] = clEntries[d]
         /\ Len(clEntries') = n
    BY <1>1, <1>9, <1>10, <1>11 DEF ClaimIds
  <1>13. /\ clTrail' \in Seq(Seq(EventTypes)) /\ Len(clTrail') = n
         /\ clTrail'[n] = <<"proposed">> /\ \A d \in ClaimIds : clTrail'[d] = clTrail[d]
    <2>1. <<"proposed">> \in Seq(EventTypes)
      BY DEF EventTypes, Statuses
    <2> QED
      BY <1>1, <1>10, <1>11, <2>1
  <1>14. clFile' = "whole" /\ UNCHANGED <<clActivation, clMonth>>
    BY DEF Propose
  <1>15. ClTyped'
    BY <1>12, <1>13, <1>14 DEF ClInv, ClTyped, ClListed
  <1>16. ClActivated'
    BY <1>14 DEF ClInv, ClActivated, Activated
  <1>17. ClTrailed'
    BY <1>9, <1>12, <1>13, Zenon DEF ClInv, ClTrailed, TrailSays
  <1>18. ClUnpaid'
    BY <1>9, <1>12, <1>13, <1>14 DEF ClInv, ClUnpaid
  <1>19. ClMarked'
    BY <1>9, <1>12 DEF ClInv, ClMarked, Payable
  <1>20. ClCapped'
    <2> SUFFICES ASSUME NEW who, NEW month PROVE HeldSum(clEntries', who, month) <= MonthlyCap
      BY DEF ClCapped
    <2>1. HeldSum(clEntries, who, month) <= MonthlyCap /\ HeldSum(clEntries, who, month) \in Int
      BY <1>1, HeldBelowMonth DEF ClInv, ClCapped
    <2>2. HeldSum(clEntries', who, month) =
            HeldSum(clEntries, who, month) + IF x.who = who /\ x.month = month THEN x.recognized ELSE 0
      BY <1>1, <1>9, <1>10, HeldOfOneMore
    <2>3. CASE x.who = who /\ x.month = month
      BY <1>3, <1>9, <2>2, <2>3
    <2>4. CASE ~(x.who = who /\ x.month = month)
      BY <2>1, <2>2, <2>4
    <2> QED
      BY <2>3, <2>4
  <1>21. CountedOnce'
    <2> SUFFICES ASSUME NEW d \in ClaimIds', NEW e \in ClaimIds', Live(d)', Live(e)',
                        clEntries'[d].who = clEntries'[e].who, clEntries'[d].artifact = clEntries'[e].artifact
                 PROVE  d = e
      BY DEF CountedOnce
    <2>1. \A c \in ClaimIds : ~(Live(c) /\ clEntries[c].who = x.who /\ clEntries[c].artifact = x.artifact)
      BY <1>9 DEF Propose, Duplicate
    <2>2. \A c \in ClaimIds : Live(c)' <=> Live(c)
      BY <1>12 DEF Live
    <2>3. CASE d = n /\ e # n
      BY <1>12, <2>1, <2>2, <2>3
    <2>4. CASE e = n /\ d # n
      BY <1>12, <2>1, <2>2, <2>4
    <2>5. CASE d # n /\ e # n
      BY <1>12, <2>2, <2>5 DEF ClInv, CountedOnce
    <2> QED
      BY <2>3, <2>4, <2>5
  <1>22. ClDivided'
    <2>1. PoolSum(clEntries') = PoolSum(clEntries)
      BY <1>1, <1>9, <1>10, PoolOfOneMore
    <2> QED
      BY <1>14, <2>1 DEF ClInv, ClDivided
  <1>23. ClFinal
    BY <1>12, <1>14 DEF ClFinal
  <1> QED
    BY <1>15, <1>16, <1>17, <1>18, <1>19, <1>20, <1>21, <1>22, <1>23 DEF ClInv

LEMMA AppendTwo == \A a, b : Append(<<a>>, b) = <<a, b>>
  <1> TAKE a, b
  <1>1. PICK q, r : q = Append(<<a>>, b) /\ r = <<a, b>>
    BY Zenon
  <1>2. <<a>> \in Seq({a, b}) /\ b \in {a, b} /\ Len(<<a>>) = 1
    OBVIOUS
  <1>3. q \in Seq({a, b}) /\ Len(q) = 2 /\ q[1] = a /\ q[2] = b
    BY <1>1, <1>2
  <1>4. r \in Seq({a, b}) /\ Len(r) = 2 /\ r[1] = a /\ r[2] = b
    BY <1>1
  <1>5. q = [i \in 1 .. 2 |-> q[i]] /\ r = [i \in 1 .. 2 |-> r[i]]
    BY <1>3, <1>4
  <1>6. \A i \in 1 .. 2 : q[i] = r[i]
    BY <1>3, <1>4
  <1> QED
    BY <1>1, <1>5, <1>6, Zenon

LEMMA ClSnapshotStep ==
    ASSUME ClInv, NEW pool \in Pools, NEW gates, Snapshot(pool, gates)
    PROVE  ClInv' /\ ClFinal
  <1>1. /\ clEntries \in Seq(ClEntry) /\ clTrail \in Seq(Seq(EventTypes)) /\ ClListed
        /\ Len(clTrail) = Len(clEntries) /\ DOMAIN clTrail = ClaimIds /\ DOMAIN clEntries = ClaimIds
        /\ ClaimIds = 1 .. Len(clEntries) /\ Len(clEntries) \in Nat
        /\ \A e \in ClaimIds : clEntries[e] \in ClEntry /\ clTrail[e] \in Seq(EventTypes)
    BY DEF ClInv, ClTyped, ClListed, ClaimIds
  <1>2. /\ clActivation = NotActivated /\ UNCHANGED <<clFile, clMonth>> /\ pool \in Int
        /\ \A e \in ClaimIds : clEntries[e].amount = 0 /\ clTrail[e] = <<clEntries[e].status>>
    BY ClaimsAssumption, Zenon DEF Snapshot, SnapshotAllowed, ClInv, ClUnpaid
  <1>3. PICK total : total = MapThenSumSet(Recognized, Eligible)
    OBVIOUS
  <1>4. /\ total # 0 /\ clActivation' = [pool |-> pool, total |-> total]
        /\ total = SumOver(RecognizedOf(clEntries), Eligible)
    BY <1>1, <1>3, LedgerSums, Zenon DEF Snapshot, SumsRight
  <1>5. Eligible \subseteq ClaimIds /\ IsFiniteSet(Eligible)
    BY <1>1, EntriesFinite DEF Eligible
  <1>6. total \in Int
    <2>1. PICK f, S : f = RecognizedOf(clEntries) /\ S = Eligible
      OBVIOUS
    <2>2. \A e \in S : f[e] \in Int
      BY <1>1, <1>5, <2>1 DEF RecognizedOf, ClEntry
    <2>3. SumOver(f, S) \in Int
      BY <1>5, <2>1, <2>2, SumInt
    <2> QED
      BY <1>4, <2>1, <2>3
  <1>7. \A e \in ClaimIds :
            /\ clEntries'[e] = IF e \in Eligible
                  THEN [clEntries[e] EXCEPT !.status = "convertible", !.amount = clEntries[e].recognized * pool]
                  ELSE clEntries[e]
            /\ clTrail'[e] = Append(clTrail[e], "GLOBAL_SNAPSHOT_CONVERSION")
    BY Zenon DEF Snapshot, Recognized
  <1>8. ASSUME NEW e \in ClaimIds
        PROVE  /\ clEntries'[e] \in ClEntry /\ clTrail'[e] \in Seq(EventTypes)
               /\ clEntries'[e].recognized = clEntries[e].recognized
               /\ clEntries'[e].marks = clEntries[e].marks
               /\ clEntries'[e].who = clEntries[e].who /\ clEntries'[e].month = clEntries[e].month
               /\ clEntries'[e].artifact = clEntries[e].artifact
               /\ clEntries'[e].status = Converted(clEntries[e].status)
               /\ clEntries'[e].amount = IF e \in Eligible THEN clEntries[e].recognized * pool ELSE 0
               /\ clTrail'[e] = <<clEntries[e].status, "GLOBAL_SNAPSHOT_CONVERSION">>
               /\ e \in Eligible <=> clEntries[e].status = "recognized"
    <2>1. clEntries[e].recognized * pool \in Int
      BY <1>1, <1>2 DEF ClEntry
    <2>2. e \in Eligible <=> clEntries[e].status = "recognized"
      BY DEF Eligible
    <2>3. clEntries'[e] \in ClEntry
      <3>1. CASE e \in Eligible
        <4>1. PICK a \in Int : a = clEntries[e].recognized * pool
          BY <2>1
        <4>2. clEntries'[e] = [clEntries[e] EXCEPT !.status = "convertible", !.amount = a]
          BY <1>7, <3>1, <4>1, Zenon
        <4>3. "convertible" \in Statuses
          BY DEF Statuses
        <4> QED
          BY <1>1, <4>2, <4>3, Zenon DEF ClEntry
      <3>2. CASE e \notin Eligible
        BY <1>1, <1>7, <3>2, Zenon
      <3> QED
        BY <3>1, <3>2
    <2>4. "GLOBAL_SNAPSHOT_CONVERSION" \in EventTypes
      BY DEF EventTypes
    <2>5. clTrail'[e] \in Seq(EventTypes) /\ clTrail'[e] = <<clEntries[e].status, "GLOBAL_SNAPSHOT_CONVERSION">>
      <3>1. PICK a, b : a = clEntries[e].status /\ b = "GLOBAL_SNAPSHOT_CONVERSION"
        OBVIOUS
      <3>2. Append(<<a>>, b) = <<a, b>>
        BY AppendTwo
      <3>3. clTrail'[e] = Append(clTrail[e], b) /\ clTrail[e] = <<a>> /\ clTrail[e] \in Seq(EventTypes)
        BY <1>1, <1>2, <1>7, <3>1, Zenon
      <3>4. Append(clTrail[e], b) \in Seq(EventTypes)
        BY <2>4, <3>1, <3>3
      <3> QED
        BY <3>1, <3>2, <3>3, <3>4
    <2> QED
      BY <1>1, <1>2, <1>7, <2>1, <2>2, <2>3, <2>5, Zenon DEF ClEntry, Converted
  <1>9. /\ clEntries' = [e \in 1 .. Len(clEntries) |-> clEntries'[e]]
        /\ clTrail' = [e \in 1 .. Len(clEntries) |-> clTrail'[e]]
    BY <1>1, Zenon DEF Snapshot
  <1>10. /\ clEntries' \in Seq(ClEntry) /\ Len(clEntries') = Len(clEntries) /\ DOMAIN clEntries' = ClaimIds
         /\ clTrail' \in Seq(Seq(EventTypes)) /\ Len(clTrail') = Len(clEntries) /\ ClaimIds' = ClaimIds
    <2>1. PICK m \in Nat : m = Len(clEntries)
      BY <1>1, Zenon
    <2>2. \A e \in 1 .. m : clEntries'[e] \in ClEntry /\ clTrail'[e] \in Seq(EventTypes)
      BY <1>1, <1>8, <2>1
    <2>3. clEntries' \in [1 .. m -> ClEntry] /\ clTrail' \in [1 .. m -> Seq(EventTypes)]
      BY <1>9, <2>1, <2>2
    <2>4. clEntries' \in Seq(ClEntry) /\ Len(clEntries') = m /\ DOMAIN clEntries' = 1 .. m
      BY <2>3
    <2>5. clTrail' \in Seq(Seq(EventTypes)) /\ Len(clTrail') = m
      BY <2>3
    <2> QED
      BY <1>1, <2>1, <2>4, <2>5 DEF ClaimIds
  <1>11. ClTyped'
    BY <1>2, <1>10 DEF ClInv, ClTyped, ClListed
  <1>12. ClActivated'
    BY <1>2, <1>4, <1>6 DEF ClActivated, Activated
  <1>13. ClTrailed'
    <2> SUFFICES ASSUME NEW e \in ClaimIds PROVE TrailSays(e)'
      BY <1>10 DEF ClTrailed
    <2>1. clEntries[e].status \in Statuses
      BY <1>1 DEF ClEntry
    <2> QED
      BY <1>8, <2>1 DEF TrailSays
  <1>14. clActivation' # NotActivated
    BY <1>4, <1>6 DEF NotActivated
  <1>15. ClUnpaid'
    BY <1>14 DEF ClUnpaid, NotActivated
  <1>16. ClMarked'
    <2> SUFFICES ASSUME NEW e \in ClaimIds
                 PROVE  /\ clEntries'[e].status = "approved" => "approved" \in clEntries'[e].marks
                        /\ clEntries'[e].status \in Payable \/ clEntries'[e].amount # 0
                            => {"approved", "recognized"} \subseteq clEntries'[e].marks
      BY <1>10 DEF ClMarked
    <2> QED
      BY <1>8 DEF ClInv, ClMarked, Converted, Payable
  <1>17. SameClaims(clEntries, clEntries')
    BY <1>1, <1>8, <1>10 DEF SameClaims, Converted
  <1>18. ClCapped'
    <2> SUFFICES ASSUME NEW who, NEW month PROVE HeldSum(clEntries', who, month) <= MonthlyCap
      BY DEF ClCapped
    <2>1. HeldSum(clEntries', who, month) <= HeldSum(clEntries, who, month)
      BY <1>1, <1>10, <1>17, HeldNotRaised
    <2>2. HeldSum(clEntries, who, month) <= MonthlyCap
      BY DEF ClInv, ClCapped
    <2>4. HeldSum(clEntries, who, month) \in Int /\ HeldSum(clEntries', who, month) \in Int /\ MonthlyCap \in Nat
      BY <1>1, <1>10, HeldBelowMonth, ClaimsAssumption
    <2> QED
      BY <2>1, <2>2, <2>4
  <1>19. CountedOnce'
    <2> SUFFICES ASSUME NEW d \in ClaimIds, NEW e \in ClaimIds, Live(d)', Live(e)',
                        clEntries'[d].who = clEntries'[e].who, clEntries'[d].artifact = clEntries'[e].artifact
                 PROVE  d = e
      BY <1>10 DEF CountedOnce
    <2>1. /\ Live(d) /\ Live(e) /\ clEntries[d].who = clEntries[e].who
          /\ clEntries[d].artifact = clEntries[e].artifact
      BY <1>1, <1>17, Zenon DEF Live, SameClaims
    <2> QED
      BY <2>1 DEF ClInv, CountedOnce
  <1>20. ClDivided'
    <2>1. PICK chosen \in SUBSET DOMAIN clEntries : chosen = Eligible
      BY <1>1, <1>5, Zenon
    <2>2. \A e \in DOMAIN clEntries :
              clEntries'[e].amount = IF e \in chosen THEN clEntries[e].recognized * pool ELSE 0
      BY <1>1, <1>8, <2>1
    <2>3. PoolSum(clEntries') = SumOver(RecognizedOf(clEntries), chosen) * pool
      BY <1>1, <1>2, <1>10, <2>2, PoolShared, Zenon
    <2>4. total * pool = pool * total
      BY <1>2, <1>6
    <2> QED
      BY <1>4, <2>1, <2>3, <2>4 DEF ClDivided
  <1>21. ClFinal
    BY <1>2, <1>8, <1>10 DEF ClFinal, Converted
  <1> QED
    BY <1>11, <1>12, <1>13, <1>15, <1>16, <1>18, <1>19, <1>20, <1>21 DEF ClInv

---------------------------------------------------------------------------
LEMMA ClStepInv == ClInv /\ [ClNext]_clVars => ClInv' /\ ClFinal
  <1> SUFFICES ASSUME ClInv, [ClNext]_clVars PROVE ClInv' /\ ClFinal
    OBVIOUS
  <1>0. ASSUME UNCHANGED <<clEntries, clTrail, clActivation>>, clFile' \in {"absent", "whole", "torn"},
               clMonth' \in 0 .. MaxMonth
        PROVE  ClInv' /\ ClFinal
    <2>1. ClTyped'
      BY <1>0 DEF ClInv, ClTyped, ClListed
    <2>2. ClActivated' /\ ClTrailed' /\ ClUnpaid' /\ ClMarked'
      BY <1>0 DEF ClInv, ClActivated, Activated, ClTrailed, TrailSays, ClUnpaid, ClMarked, ClaimIds
    <2>3. ClCapped' /\ ClDivided'
      BY <1>0 DEF ClInv, ClCapped, ClDivided
    <2>4. CountedOnce'
      BY <1>0 DEF ClInv, CountedOnce, Live, ClaimIds
    <2>5. ClFinal
      BY <1>0 DEF ClFinal
    <2> QED
      BY <2>1, <2>2, <2>3, <2>4, <2>5 DEF ClInv
  <1>1. CASE LoadLedger
    BY <1>0, <1>1 DEF LoadLedger, ClInv, ClTyped
  <1>2. CASE \E q \in ClaimRequests : Propose(q)
    BY <1>2, ClProposeStep
  <1>3. CASE \E e \in ClaimIds : Dispute(e)
    <2>1. PICK e \in ClaimIds : Dispute(e)
      BY <1>3
    <2>2. LegalChange(clEntries[e].status, "disputed", {})
      BY <2>1 DEF Dispute, LegalChange, Statuses, Payable
    <2>3. Change(e, "disputed", {})
      BY <2>1 DEF Dispute
    <2> QED
      BY <2>2, <2>3, ClChangeStep
  <1>4. CASE \E e \in ClaimIds, to \in Statuses : Transition(e, to)
    <2>1. PICK e \in ClaimIds, to \in Statuses : Transition(e, to)
      BY <1>4
    <2>2. clEntries[e].status \in Statuses
      <3>1. clEntries[e] \in ClEntry
        BY EntriesFinite DEF ClInv, ClTyped, ClListed, ClaimIds
      <3> QED
        BY <3>1 DEF ClEntry
    <2>3. LegalChange(clEntries[e].status, to, {to} \cap Marked)
      BY <2>1, <2>2, TransitionLegal DEF Transition
    <2>4. Change(e, to, {to} \cap Marked)
      BY <2>1 DEF Transition
    <2> QED
      BY <2>3, <2>4, ClChangeStep
  <1>5. CASE \E pool \in Pools, gates \in Environments : Snapshot(pool, gates)
    BY <1>5, ClSnapshotStep
  <1>6. CASE TearFile
    <2>1. ClInv'
      <3>1. /\ clEntries' = <<>> /\ clTrail' = <<>> /\ clActivation' = NotActivated
            /\ clFile' \in {"absent", "whole", "torn"} /\ clMonth' \in 0 .. MaxMonth
        BY <1>6 DEF TearFile, ClInv, ClTyped
      <3>2. ClEmpty' => ClInv'
        BY ClEmptyInv, PTL
      <3> QED
        BY <3>1, <3>2 DEF ClEmpty
    <2>2. ClFinal
      BY <1>6 DEF TearFile, ClFinal, Usable
    <2> QED
      BY <2>1, <2>2
  <1>7. CASE NextMonth
    <2>1. clMonth' \in 0 .. MaxMonth
      BY <1>7, ClaimsAssumption DEF NextMonth, ClInv, ClTyped
    <2> QED
      BY <1>0, <1>7, <2>1 DEF NextMonth, ClInv, ClTyped
  <1>8. CASE UNCHANGED clVars
    BY <1>0, <1>8 DEF clVars, ClInv, ClTyped
  <1> QED
    BY <1>1, <1>2, <1>3, <1>4, <1>5, <1>6, <1>7, <1>8 DEF ClNext

---------------------------------------------------------------------------
(* What the last events of a claim replay to.                                *)
ReplayedBy(S, seq, g) ==
    g = [s \in SUBSET S |-> IF s = {} THEN "none" ELSE Replayed(g[s \ {Max(s)}], seq[Max(s)])]

LEMMA ReplayByFunction ==
    \A seq : FoldLeft(Replayed, "none", seq) = (CHOOSE g : ReplayedBy(DOMAIN seq, seq, g))[DOMAIN seq]
  BY DEF FoldLeft, MapThenFoldSet, ReplayedBy

LEMMA ReplayOne ==
    ASSUME NEW a
    PROVE  FoldLeft(Replayed, "none", <<a>>) = Replayed("none", a)
  <1>1. PICK q : q = <<a>>
    BY Zenon
  <1>2. DOMAIN q = {1} /\ q[1] = a
    BY <1>1
  <1>3. Max({1}) = 1
    BY DEF Max
  <1>4. SUBSET {1} = {{}, {1}} /\ {1} \ {1} = {} /\ {1} # {}
    OBVIOUS
  <1>5. PICK h : h = [s \in SUBSET {1} |-> IF s = {} THEN "none" ELSE Replayed("none", q[Max(s)])]
    BY Zenon
  <1>6. ReplayedBy({1}, q, h)
    BY <1>3, <1>4, <1>5, Zenon DEF ReplayedBy
  <1>7. PICK g : g = CHOOSE k : ReplayedBy({1}, q, k)
    OBVIOUS
  <1>8. ReplayedBy({1}, q, g)
    BY <1>6, <1>7
  <1>9. g[{}] = "none" /\ g[{1}] = Replayed(g[{1} \ {Max({1})}], q[Max({1})])
    BY <1>4, <1>8, Zenon DEF ReplayedBy
  <1>10. g[{1}] = Replayed("none", a)
    BY <1>2, <1>3, <1>4, <1>9
  <1> QED
    BY <1>1, <1>2, <1>7, <1>10, ReplayByFunction, Zenon

LEMMA ReplayTwo ==
    ASSUME NEW a, NEW b
    PROVE  FoldLeft(Replayed, "none", <<a, b>>) = Replayed(Replayed("none", a), b)
  <1>1. PICK q : q = <<a, b>>
    BY Zenon
  <1>2. DOMAIN q = {1, 2} /\ q[1] = a /\ q[2] = b
    BY <1>1
  <1>3. Max({1}) = 1 /\ Max({2}) = 2 /\ Max({1, 2}) = 2
    BY DEF Max
  <1>4. /\ SUBSET {1, 2} = {{}, {1}, {2}, {1, 2}}
        /\ {1} \ {1} = {} /\ {2} \ {2} = {} /\ {1, 2} \ {2} = {1}
        /\ {1} # {} /\ {2} # {} /\ {1, 2} # {} /\ {1} # {1, 2} /\ {2} # {1, 2}
    OBVIOUS
  <1>5. PICK h : h = [s \in SUBSET {1, 2} |->
                        IF s = {} THEN "none"
                        ELSE IF s = {1, 2} THEN Replayed(Replayed("none", a), b)
                        ELSE Replayed("none", q[Max(s)])]
    BY Zenon
  <1>6. ReplayedBy({1, 2}, q, h)
    <2>1. h[{}] = "none" /\ h[{1}] = Replayed("none", a) /\ h[{2}] = Replayed("none", b)
          /\ h[{1, 2}] = Replayed(Replayed("none", a), b)
      BY <1>2, <1>3, <1>4, <1>5
    <2>2. \A s \in SUBSET {1, 2} :
              h[s] = IF s = {} THEN "none" ELSE Replayed(h[s \ {Max(s)}], q[Max(s)])
      <3> TAKE s \in SUBSET {1, 2}
      <3>1. CASE s = {}
        BY <2>1, <3>1
      <3>2. CASE s = {1}
        <4>1. s # {} /\ s \ {Max(s)} = {} /\ q[Max(s)] = a
          BY <1>2, <1>3, <3>2
        <4> QED
          BY <2>1, <3>2, <4>1
      <3>3. CASE s = {2}
        <4>1. s # {} /\ s \ {Max(s)} = {} /\ q[Max(s)] = b
          BY <1>2, <1>3, <3>3
        <4> QED
          BY <2>1, <3>3, <4>1
      <3>4. CASE s = {1, 2}
        <4>1. s # {} /\ s \ {Max(s)} = {1} /\ q[Max(s)] = b
          BY <1>2, <1>3, <3>4
        <4> QED
          BY <2>1, <3>4, <4>1
      <3> QED
        BY <1>4, <3>1, <3>2, <3>3, <3>4, Zenon
    <2>3. h = [s \in SUBSET {1, 2} |-> h[s]]
      BY <1>5
    <2> QED
      BY <2>2, <2>3, Zenon DEF ReplayedBy
  <1>7. PICK g : g = CHOOSE k : ReplayedBy({1, 2}, q, k)
    OBVIOUS
  <1>8. ReplayedBy({1, 2}, q, g)
    BY <1>6, <1>7
  <1>9. \A s \in SUBSET {1, 2} : g[s] = IF s = {} THEN "none" ELSE Replayed(g[s \ {Max(s)}], q[Max(s)])
    BY <1>8, Zenon DEF ReplayedBy
  <1>10. g[{}] = "none" /\ g[{1}] = Replayed(g[{}], a) /\ g[{1, 2}] = Replayed(g[{1}], b)
    <2>1. g[{}] = "none"
      BY <1>4, <1>9, Zenon
    <2>2. g[{1}] = Replayed(g[{1} \ {Max({1})}], q[Max({1})])
      BY <1>4, <1>9, Zenon
    <2>3. g[{1, 2}] = Replayed(g[{1, 2} \ {Max({1, 2})}], q[Max({1, 2})])
      BY <1>4, <1>9, Zenon
    <2> QED
      BY <1>2, <1>3, <1>4, <2>1, <2>2, <2>3, Zenon
  <1> QED
    BY <1>1, <1>2, <1>7, <1>10, ReplayByFunction, Zenon

LEMMA ClInvSound == ClInv => ClSound /\ ClTrailExplains /\ ClTypeOK
  <1> SUFFICES ASSUME ClInv PROVE ClSound /\ ClTrailExplains /\ ClTypeOK
    OBVIOUS
  <1>1. SumsRight /\ DOMAIN clTrail = ClaimIds /\ \A e \in ClaimIds : clEntries[e] \in ClEntry
    BY LedgerSums, EntriesFinite DEF ClInv, ClTyped, ClaimIds, ClListed
  <1>2. CapHeld
    BY <1>1 DEF CapHeld, SumsRight, ClInv, ClCapped
  <1>3. PoolDivided
    BY <1>1 DEF PoolDivided, SumsRight, ClInv, ClDivided
  <1>4. Reviewed
    BY DEF Reviewed, ClInv, ClMarked, Payable, Amount
  <1>5. ClTrailExplains
    <2> SUFFICES ASSUME NEW e \in ClaimIds
                 PROVE  clEntries[e].status = FoldLeft(Replayed, "none", clTrail[e])
      BY DEF ClTrailExplains
    <2>1. clEntries[e].status \in Statuses
      BY <1>1 DEF ClEntry
    <2>2. CASE clTrail[e] = <<clEntries[e].status>>
      <3>1. FoldLeft(Replayed, "none", clTrail[e]) = Replayed("none", clEntries[e].status)
        BY <2>2, ReplayOne, Zenon
      <3> QED
        BY <2>1, <3>1, Zenon DEF Replayed
    <2>3. ASSUME NEW status \in Statuses, clTrail[e] = <<status, "GLOBAL_SNAPSHOT_CONVERSION">>,
                 clEntries[e].status = Converted(status)
          PROVE  clEntries[e].status = FoldLeft(Replayed, "none", clTrail[e])
      <3>1. FoldLeft(Replayed, "none", clTrail[e]) =
                Replayed(Replayed("none", status), "GLOBAL_SNAPSHOT_CONVERSION")
        BY <2>3, ReplayTwo, Zenon
      <3>2. Replayed("none", status) = status
        BY DEF Replayed
      <3>3. Replayed(status, "GLOBAL_SNAPSHOT_CONVERSION") = Converted(status)
        BY DEF Replayed, Converted, Statuses
      <3> QED
        BY <2>3, <3>1, <3>2, <3>3, Zenon
    <2> QED
      BY <2>2, <2>3 DEF ClInv, ClTrailed, TrailSays
  <1>6. ClTypeOK
    <2>1. clActivation.pool \in Int /\ clActivation.total \in Int
      BY DEF ClInv, ClActivated, Activated, NotActivated
    <2> QED
      BY <1>1, <2>1 DEF ClTypeOK, ClInv, ClTyped, ClEntry
  <1> QED
    BY <1>2, <1>3, <1>4, <1>5, <1>6 DEF ClSound, ClInv

(* The ledger of contribution units: the cap holds, an artifact counts once,   *)
(* the pool is divided exactly, what is paid was reviewed, and the events      *)
(* explain the statuses.                                                     *)
THEOREM ClaimsSound == ClInit /\ [][ClNext]_clVars => [](ClSound /\ ClTrailExplains)
  <1>1. ClInv /\ [ClNext]_clVars => ClInv'
    BY ClStepInv
  <1> QED
    BY <1>1, ClInitInv, ClInvSound, PTL

(* No claim leaves a final status, nothing recognized or promised is changed,  *)
(* and the snapshot is taken once.                                           *)
THEOREM ClaimsFinal == ClInit /\ [][ClNext]_clVars => [][ClFinal]_clVars
  <1>1. ClInv /\ [ClNext]_clVars => ClInv' /\ [ClFinal]_clVars
    BY ClStepInv
  <1> QED
    BY <1>1, ClInitInv, PTL

(***************************************************************************)
(* The SIDL store.                                                          *)
(***************************************************************************)
CheckoutEvents == {"payment-required", "payment-attempted", "payment-settled"}

CheckoutRecord ==
    [status : {"not-started", "payment-required", "settled"}, challenges : Nat, attempts : Nat,
     settled : Nat, events : Seq(CheckoutEvents)]

(* The record of a state.                                                    *)
SidlRecord(proposals, votes, tallies, checkouts) ==
    [saved |-> TRUE, proposals |-> proposals, votes |-> votes, tallies |-> tallies, checkouts |-> checkouts]

(* A state the program may hold or have saved: typed, and explained by its    *)
(* events.                                                                   *)
GoodSidl(s) ==
    /\ s = SidlRecord(s.proposals, s.votes, s.tallies, s.checkouts)
    /\ SeedProposals \subseteq s.proposals /\ s.proposals \subseteq Proposals
    /\ s.votes \in [VoteEvents -> Nat]
    /\ s.tallies \in [s.proposals -> [VoteChoices -> Nat]]
    /\ s.checkouts \in [Mandates -> CheckoutRecord]
    /\ TalliesExplained(s)
    /\ \A m \in Mandates : CheckoutExplained(s.checkouts[m])

(* Nothing counted in s is missing in t.                                     *)
Grows(s, t) ==
    /\ s.proposals \subseteq t.proposals
    /\ \A p \in s.proposals, c \in VoteChoices : t.tallies[p][c] >= s.tallies[p][c]
    /\ \A m \in Mandates : t.checkouts[m].settled >= s.checkouts[m].settled

(* All of what was confirmed is counted in s.                                *)
Counted(s, votes, settled) ==
    /\ \A p \in Proposals, c \in VoteChoices :
        votes[p][c] > 0 => p \in s.proposals /\ s.tallies[p][c] >= votes[p][c]
    /\ \A m \in Mandates : s.checkouts[m].settled >= settled[m]

VotesWith(votes, r) == IF r.kind = "vote" THEN [votes EXCEPT ![r.proposal][r.choice] = @ + 1] ELSE votes

SettledWith(settled, r) == IF r.kind = "pay" THEN [settled EXCEPT ![r.mandate] = @ + 1] ELSE settled

AckedVotes == [Proposals -> [VoteChoices -> Nat]]

AckedSettled == [Mandates -> Nat]

---------------------------------------------------------------------------
LEMMA SidlFields ==
    \A p, v, t, c :
        /\ SidlRecord(p, v, t, c).proposals = p /\ SidlRecord(p, v, t, c).votes = v
        /\ SidlRecord(p, v, t, c).tallies = t /\ SidlRecord(p, v, t, c).checkouts = c
        /\ SidlRecord(p, v, t, c).saved = TRUE
  BY DEF SidlRecord

LEMMA SeededGood == GoodSidl(Seeded) /\ \A votes \in AckedVotes, settled \in AckedSettled :
                        (\A p \in Proposals, c \in VoteChoices : votes[p][c] = 0)
                        /\ (\A m \in Mandates : settled[m] = 0) => Counted(Seeded, votes, settled)
  <1>1. PICK s : s = Seeded
    OBVIOUS
  <1>2. /\ s.proposals = SeedProposals /\ s.votes = [v \in VoteEvents |-> 0]
        /\ s.tallies = [p \in SeedProposals |-> NoVotes] /\ s.checkouts = [m \in Mandates |-> NotStarted]
        /\ s = SidlRecord(s.proposals, s.votes, s.tallies, s.checkouts)
    BY <1>1 DEF Seeded, SidlRecord
  <1>3. NoVotes \in [VoteChoices -> Nat]
    BY DEF NoVotes
  <1>4. NotStarted \in CheckoutRecord
    BY DEF NotStarted, CheckoutRecord
  <1>5. /\ s.votes \in [VoteEvents -> Nat] /\ s.tallies \in [s.proposals -> [VoteChoices -> Nat]]
        /\ s.checkouts \in [Mandates -> CheckoutRecord]
        /\ SeedProposals \subseteq s.proposals /\ s.proposals \subseteq Proposals
    BY <1>2, <1>3, <1>4, SidlAssumption
  <1>6. TalliesExplained(s)
    <2>1. \A v \in VoteEvents : s.votes[v] = 0
      BY <1>2
    <2>2. ASSUME NEW p \in s.proposals, NEW c \in VoteChoices PROVE s.tallies[p][c] >= VotesOf(s, p, c)
      <3>1. /\ [proposal |-> p, choice |-> c, finite |-> TRUE] \in VoteEvents
            /\ [proposal |-> p, choice |-> c, finite |-> FALSE] \in VoteEvents
        BY <1>5 DEF VoteEvents
      <3>2. VotesOf(s, p, c) = 0
        BY <2>1, <3>1 DEF VotesOf
      <3>3. s.tallies[p][c] = 0
        BY <1>2 DEF NoVotes
      <3> QED
        BY <3>2, <3>3
    <2> QED
      BY <2>1, <2>2 DEF TalliesExplained
  <1>7. CheckoutExplained(NotStarted)
    <2>1. \A e : Occurrences(<<>>, e) = 0
      <3> TAKE e
      <3>1. {i \in DOMAIN <<>> : <<>>[i] = e} = {}
        OBVIOUS
      <3> QED
        BY <3>1, FS_EmptySet DEF Occurrences
    <2> QED
      BY <2>1 DEF CheckoutExplained, NotStarted
  <1>8. \A m \in Mandates : CheckoutExplained(s.checkouts[m])
    BY <1>2, <1>7
  <1>9. GoodSidl(s)
    BY <1>2, <1>5, <1>6, <1>8 DEF GoodSidl
  <1>10. ASSUME NEW votes \in AckedVotes, NEW settled \in AckedSettled,
                \A p \in Proposals, c \in VoteChoices : votes[p][c] = 0,
                \A m \in Mandates : settled[m] = 0
         PROVE  Counted(s, votes, settled)
    <2>1. \A m \in Mandates : s.checkouts[m].settled = 0
      BY <1>2 DEF NotStarted
    <2> QED
      BY <1>10, <2>1 DEF Counted
  <1> QED
    BY <1>1, <1>9, <1>10

(* Reading the file forgets no tally, no checkout and no proposal.            *)
LEMMA HydrateGood ==
    ASSUME NEW s, GoodSidl(s)
    PROVE  /\ GoodSidl(Hydrate(s))
           /\ Hydrate(s).proposals = s.proposals /\ Hydrate(s).tallies = s.tallies
           /\ Hydrate(s).checkouts = s.checkouts
  <1>1. PICK t : t = Hydrate(s)
    OBVIOUS
  <1>2. PICK votes : votes = [v \in VoteEvents |-> IF v.finite THEN s.votes[v] ELSE 0]
    BY Zenon
  <1>3. t = [s EXCEPT !.votes = votes]
    BY <1>1, <1>2 DEF Hydrate
  <1>4. /\ t.proposals = s.proposals /\ t.tallies = s.tallies /\ t.checkouts = s.checkouts /\ t.votes = votes
        /\ t = SidlRecord(t.proposals, t.votes, t.tallies, t.checkouts)
    <2>1. PICK p, v, a, c : s = SidlRecord(p, v, a, c)
      BY DEF GoodSidl
    <2>2. t = SidlRecord(p, votes, a, c) /\ s.proposals = p /\ s.tallies = a /\ s.checkouts = c
      BY <1>3, <2>1, Zenon DEF SidlRecord
    <2>3. t.proposals = p /\ t.votes = votes /\ t.tallies = a /\ t.checkouts = c
      BY <2>2, SidlFields
    <2> QED
      BY <2>2, <2>3
  <1>5. /\ votes \in [VoteEvents -> Nat] /\ s.votes \in [VoteEvents -> Nat]
        /\ \A v \in VoteEvents : votes[v] <= s.votes[v]
    BY <1>2 DEF GoodSidl
  <1>6. TalliesExplained(t)
    <2>1. ASSUME NEW p \in s.proposals, NEW c \in VoteChoices PROVE s.tallies[p][c] >= VotesOf(t, p, c)
      <3>1. PICK a, b : /\ a = [proposal |-> p, choice |-> c, finite |-> TRUE]
                        /\ b = [proposal |-> p, choice |-> c, finite |-> FALSE]
        BY Zenon
      <3>2. a \in VoteEvents /\ b \in VoteEvents
        BY <3>1 DEF VoteEvents, GoodSidl
      <3>3. /\ s.votes[a] \in Nat /\ s.votes[b] \in Nat /\ votes[a] \in Nat /\ votes[b] \in Nat
            /\ votes[a] <= s.votes[a] /\ votes[b] <= s.votes[b]
        BY <1>5, <3>2
      <3>4. s.tallies[p][c] >= s.votes[a] + s.votes[b] /\ s.tallies[p][c] \in Nat
        BY <3>1 DEF GoodSidl, TalliesExplained, VotesOf
      <3>5. VotesOf(t, p, c) = votes[a] + votes[b]
        BY <1>4, <3>1 DEF VotesOf
      <3> QED
        BY <3>3, <3>4, <3>5
    <2>2. ASSUME NEW v \in VoteEvents, t.votes[v] > 0 PROVE v.proposal \in s.proposals
      <3>1. s.votes[v] > 0
        BY <1>4, <1>5, <2>2
      <3> QED
        BY <3>1 DEF GoodSidl, TalliesExplained
    <2> QED
      BY <1>4, <2>1, <2>2 DEF TalliesExplained
  <1>7. GoodSidl(t)
    BY <1>4, <1>5, <1>6 DEF GoodSidl
  <1> QED
    BY <1>1, <1>4, <1>7

LEMMA EnsureGood ==
    ASSUME NEW s, GoodSidl(s), NEW p \in Proposals
    PROVE  /\ GoodSidl(EnsureProposal(s, p)) /\ Grows(s, EnsureProposal(s, p))
           /\ p \in EnsureProposal(s, p).proposals
           /\ EnsureProposal(s, p).votes = s.votes /\ EnsureProposal(s, p).checkouts = s.checkouts
  <1>1. CASE p \in s.proposals
    <2>1. EnsureProposal(s, p) = s
      BY <1>1 DEF EnsureProposal
    <2>2. Grows(s, s)
      <3>1. \A q \in s.proposals, c \in VoteChoices : s.tallies[q][c] \in Nat
        BY DEF GoodSidl
      <3>2. \A m \in Mandates : s.checkouts[m].settled \in Nat
        BY DEF GoodSidl, CheckoutRecord
      <3> QED
        BY <3>1, <3>2 DEF Grows
    <2> QED
      BY <1>1, <2>1, <2>2
  <1>2. CASE p \notin s.proposals
    <2>1. PICK ps, tallies : /\ ps = s.proposals \cup {p}
                             /\ tallies = [q \in ps |-> IF q = p THEN NoVotes ELSE s.tallies[q]]
      BY Zenon
    <2>2. PICK t : t = EnsureProposal(s, p)
      OBVIOUS
    <2>3. t = [s EXCEPT !.proposals = ps, !.tallies = tallies]
      BY <1>2, <2>1, <2>2 DEF EnsureProposal
    <2>4. /\ t.proposals = ps /\ t.tallies = tallies /\ t.checkouts = s.checkouts /\ t.votes = s.votes
          /\ t = SidlRecord(t.proposals, t.votes, t.tallies, t.checkouts)
      <3>1. PICK a, v, b, c : s = SidlRecord(a, v, b, c)
        BY DEF GoodSidl
      <3>2. t = SidlRecord(ps, v, tallies, c) /\ s.votes = v /\ s.checkouts = c
        BY <2>3, <3>1, Zenon DEF SidlRecord
      <3>3. t.proposals = ps /\ t.votes = v /\ t.tallies = tallies /\ t.checkouts = c
        BY <3>2, SidlFields
      <3> QED
        BY <3>2, <3>3
    <2>5. NoVotes \in [VoteChoices -> Nat] /\ \A c \in VoteChoices : NoVotes[c] = 0
      BY DEF NoVotes
    <2>6. /\ tallies \in [ps -> [VoteChoices -> Nat]]
          /\ \A q \in s.proposals : tallies[q] = s.tallies[q]
          /\ tallies[p] = NoVotes
      BY <1>2, <2>1, <2>5 DEF GoodSidl
    <2>7. TalliesExplained(t)
      <3>1. ASSUME NEW q \in ps, NEW c \in VoteChoices PROVE tallies[q][c] >= VotesOf(s, q, c)
        <4>1. CASE q \in s.proposals
          BY <2>6, <4>1 DEF GoodSidl, TalliesExplained
        <4>2. CASE q = p
          <5>1. PICK a, b : /\ a = [proposal |-> p, choice |-> c, finite |-> TRUE]
                            /\ b = [proposal |-> p, choice |-> c, finite |-> FALSE]
            BY Zenon
          <5>2. a \in VoteEvents /\ b \in VoteEvents /\ a.proposal = p /\ b.proposal = p
            BY <5>1 DEF VoteEvents
          <5>3. s.votes[a] \in Nat /\ s.votes[b] \in Nat
            BY <5>2 DEF GoodSidl
          <5>4. ~(s.votes[a] > 0) /\ ~(s.votes[b] > 0)
            BY <1>2, <5>2 DEF GoodSidl, TalliesExplained
          <5>5. s.votes[a] = 0 /\ s.votes[b] = 0
            BY <5>3, <5>4
          <5>6. VotesOf(s, p, c) = 0
            BY <5>1, <5>5 DEF VotesOf
          <5> QED
            BY <2>5, <2>6, <4>2, <5>6
        <4> QED
          BY <2>1, <4>1, <4>2
      <3>2. \A q, c : VotesOf(t, q, c) = VotesOf(s, q, c)
        BY <2>4 DEF VotesOf
      <3>3. \A v \in VoteEvents : t.votes[v] > 0 => v.proposal \in t.proposals
        BY <2>1, <2>4 DEF GoodSidl, TalliesExplained
      <3> QED
        BY <2>4, <3>1, <3>2, <3>3 DEF TalliesExplained
    <2>8. GoodSidl(t)
      BY <2>1, <2>4, <2>6, <2>7, Zenon DEF GoodSidl
    <2>9. Grows(s, t)
      <3>1. \A q \in s.proposals, c \in VoteChoices : s.tallies[q][c] \in Nat
        BY DEF GoodSidl
      <3>2. \A m \in Mandates : s.checkouts[m].settled \in Nat
        BY DEF GoodSidl, CheckoutRecord
      <3>3. s.proposals \subseteq t.proposals
        BY <2>1, <2>4
      <3>4. \A q \in s.proposals, c \in VoteChoices : t.tallies[q][c] >= s.tallies[q][c]
        BY <2>4, <2>6, <3>1
      <3>5. \A m \in Mandates : t.checkouts[m].settled >= s.checkouts[m].settled
        BY <2>4, <3>2
      <3> QED
        BY <3>3, <3>4, <3>5 DEF Grows
    <2> QED
      BY <2>1, <2>2, <2>4, <2>8, <2>9
  <1> QED
    BY <1>1, <1>2

---------------------------------------------------------------------------
LEMMA OccurrencesAppend ==
    ASSUME NEW events \in Seq(CheckoutEvents), NEW x \in CheckoutEvents, NEW e
    PROVE  /\ Occurrences(events, e) \in Nat
           /\ Occurrences(Append(events, x), e) = Occurrences(events, e) + IF x = e THEN 1 ELSE 0
  <1>1. PICK more, n : more = Append(events, x) /\ n = Len(events) + 1
    BY Zenon
  <1>2. /\ DOMAIN more = DOMAIN events \cup {n} /\ n \notin DOMAIN events
        /\ more[n] = x /\ \A i \in DOMAIN events : more[i] = events[i]
    BY <1>1
  <1>3. PICK S, T : S = {i \in DOMAIN events : events[i] = e} /\ T = {i \in DOMAIN more : more[i] = e}
    BY Zenon
  <1>4. IsFiniteSet(S)
    <2>1. IsFiniteSet(1 .. Len(events))
      BY FS_Interval
    <2>2. S \subseteq 1 .. Len(events)
      BY <1>3
    <2> QED
      BY <2>1, <2>2, FS_Subset, Zenon
  <1>5. n \notin S /\ T = IF x = e THEN S \cup {n} ELSE S
    BY <1>2, <1>3
  <1>6. Cardinality(S \cup {n}) = Cardinality(S) + 1 /\ Cardinality(S) \in Nat
    BY <1>4, <1>5, FS_AddElement, FS_CardinalityType, Zenon
  <1>7. Occurrences(events, e) = Cardinality(S) /\ Occurrences(more, e) = Cardinality(T)
    BY <1>3 DEF Occurrences
  <1> QED
    BY <1>1, <1>5, <1>6, <1>7

LEMMA VoteGood ==
    ASSUME NEW s, GoodSidl(s), NEW r \in Requests, r.kind = "vote"
    PROVE  LET t == RecordVote(s, r) IN
           /\ GoodSidl(t) /\ Grows(s, t) /\ t.checkouts = s.checkouts
           /\ r.proposal \in t.proposals /\ t.tallies[r.proposal][r.choice] >= 1
           /\ r.proposal \in s.proposals =>
                 t.tallies[r.proposal][r.choice] = s.tallies[r.proposal][r.choice] + 1
  <1>1. r.proposal \in Proposals /\ r.choice \in VoteChoices /\ r.finite \in BOOLEAN
    BY DEF Requests
  <1>2. PICK p, c, w, g : /\ p = r.proposal /\ c = r.choice
                          /\ w = [proposal |-> r.proposal, choice |-> r.choice, finite |-> r.finite]
                          /\ g = EnsureProposal(s, p)
    BY Zenon
  <1>3. p \in Proposals /\ c \in VoteChoices /\ w \in VoteEvents /\ w.proposal = p
    BY <1>1, <1>2 DEF VoteEvents
  <1>4. GoodSidl(g) /\ Grows(s, g) /\ p \in g.proposals /\ g.votes = s.votes /\ g.checkouts = s.checkouts
    BY <1>2, <1>3, EnsureGood
  <1>5. PICK row, tallies, votes :
            /\ row = [g.tallies[p] EXCEPT ![c] = @ + 1]
            /\ tallies = [g.tallies EXCEPT ![p] = row]
            /\ votes = [g.votes EXCEPT ![w] = @ + 1]
    BY Zenon
  <1>6. PICK t : t = RecordVote(s, r)
    OBVIOUS
  <1>7. t = [g EXCEPT !.tallies = tallies, !.votes = votes]
    BY <1>2, <1>5, <1>6 DEF RecordVote
  <1>8. /\ t.proposals = g.proposals /\ t.tallies = tallies /\ t.checkouts = g.checkouts /\ t.votes = votes
        /\ t = SidlRecord(t.proposals, t.votes, t.tallies, t.checkouts)
    <2>1. PICK a, v, b, d : g = SidlRecord(a, v, b, d)
      BY <1>4 DEF GoodSidl
    <2>2. t = SidlRecord(a, votes, tallies, d) /\ g.proposals = a /\ g.checkouts = d
      BY <1>7, <2>1, Zenon DEF SidlRecord
    <2>3. t.proposals = a /\ t.votes = votes /\ t.tallies = tallies /\ t.checkouts = d
      BY <2>2, SidlFields
    <2> QED
      BY <2>2, <2>3
  <1>9. /\ g.tallies \in [g.proposals -> [VoteChoices -> Nat]] /\ g.votes \in [VoteEvents -> Nat]
        /\ g.tallies[p] \in [VoteChoices -> Nat] /\ g.tallies[p][c] \in Nat /\ g.votes[w] \in Nat
    BY <1>3, <1>4 DEF GoodSidl
  <1>10. /\ row \in [VoteChoices -> Nat] /\ row[c] = g.tallies[p][c] + 1
         /\ \A d \in VoteChoices : d # c => row[d] = g.tallies[p][d]
    BY <1>3, <1>5, <1>9
  <1>11. /\ tallies \in [g.proposals -> [VoteChoices -> Nat]] /\ tallies[p] = row
         /\ \A q \in g.proposals : q # p => tallies[q] = g.tallies[q]
    BY <1>4, <1>5, <1>9, <1>10
  <1>12. /\ votes \in [VoteEvents -> Nat] /\ votes[w] = g.votes[w] + 1
         /\ \A v \in VoteEvents : v # w => votes[v] = g.votes[v]
    BY <1>3, <1>5, <1>9
  <1>13. TalliesExplained(t)
    <2>1. ASSUME NEW q \in g.proposals, NEW d \in VoteChoices PROVE tallies[q][d] >= VotesOf(t, q, d)
      <3>1. PICK a, b : /\ a = [proposal |-> q, choice |-> d, finite |-> TRUE]
                        /\ b = [proposal |-> q, choice |-> d, finite |-> FALSE]
        BY Zenon
      <3>2. a \in VoteEvents /\ b \in VoteEvents /\ a # b
        BY <1>4, <3>1 DEF VoteEvents, GoodSidl
      <3>3. /\ g.votes[a] \in Nat /\ g.votes[b] \in Nat /\ g.tallies[q][d] \in Nat
            /\ g.tallies[q][d] >= g.votes[a] + g.votes[b]
        BY <1>4, <1>9, <3>1, <3>2 DEF GoodSidl, TalliesExplained, VotesOf
      <3>4. VotesOf(t, q, d) = votes[a] + votes[b]
        BY <1>8, <3>1 DEF VotesOf
      <3>5. CASE q = p /\ d = c
        <4>1. tallies[q][d] = g.tallies[q][d] + 1
          BY <1>10, <1>11, <3>5
        <4>2. w = a \/ w = b
          BY <1>1, <1>2, <3>1, <3>5, Zenon
        <4>3. votes[a] + votes[b] = g.votes[a] + g.votes[b] + 1
          BY <1>12, <3>2, <3>3, <4>2
        <4> QED
          BY <3>3, <3>4, <4>1, <4>3
      <3>6. CASE ~(q = p /\ d = c)
        <4>1. tallies[q][d] = g.tallies[q][d]
          BY <1>10, <1>11, <3>6
        <4>2. w # a /\ w # b
          BY <1>2, <3>1, <3>6
        <4>3. votes[a] = g.votes[a] /\ votes[b] = g.votes[b]
          BY <1>12, <3>2, <4>2
        <4> QED
          BY <3>3, <3>4, <4>1, <4>3
      <3> QED
        BY <3>5, <3>6
    <2>2. ASSUME NEW v \in VoteEvents, votes[v] > 0 PROVE v.proposal \in g.proposals
      <3>1. CASE v = w
        BY <1>3, <1>4, <3>1
      <3>2. CASE v # w
        BY <1>4, <1>12, <2>2, <3>2 DEF GoodSidl, TalliesExplained
      <3> QED
        BY <3>1, <3>2
    <2> QED
      BY <1>8, <2>1, <2>2 DEF TalliesExplained
  <1>14. GoodSidl(t)
    BY <1>4, <1>8, <1>11, <1>12, <1>13 DEF GoodSidl
  <1>15. Grows(s, t)
    <2>1. s.proposals \subseteq t.proposals
      BY <1>4, <1>8 DEF Grows
    <2>2. ASSUME NEW q \in s.proposals, NEW d \in VoteChoices PROVE t.tallies[q][d] >= s.tallies[q][d]
      <3>1. g.tallies[q][d] >= s.tallies[q][d] /\ s.tallies[q][d] \in Nat /\ g.tallies[q][d] \in Nat /\ q \in g.proposals
        BY <1>4 DEF Grows, GoodSidl
      <3>2. tallies[q][d] >= g.tallies[q][d] /\ tallies[q][d] \in Nat
        BY <1>9, <1>10, <1>11, <3>1
      <3> QED
        BY <1>8, <3>1, <3>2
    <2>3. \A m \in Mandates : t.checkouts[m].settled >= s.checkouts[m].settled
      BY <1>4, <1>8 DEF GoodSidl, CheckoutRecord
    <2> QED
      BY <2>1, <2>2, <2>3 DEF Grows
  <1>16. p \in s.proposals => g.tallies[p] = s.tallies[p]
    BY <1>2 DEF EnsureProposal
  <1> QED
    BY <1>2, <1>4, <1>6, <1>8, <1>9, <1>10, <1>11, <1>14, <1>15, <1>16

(* A checkout that is changed, and nothing else.                             *)
LEMMA CheckoutGood ==
    ASSUME NEW s, GoodSidl(s), NEW m \in Mandates, NEW k \in CheckoutRecord, CheckoutExplained(k),
           k.settled >= s.checkouts[m].settled, NEW t, t = [s EXCEPT !.checkouts[m] = k]
    PROVE  /\ GoodSidl(t) /\ Grows(s, t) /\ t.checkouts[m] = k
           /\ t.proposals = s.proposals /\ t.tallies = s.tallies
  <1>1. PICK checkouts : checkouts = [s.checkouts EXCEPT ![m] = k]
    BY Zenon
  <1>2. t = [s EXCEPT !.checkouts = checkouts]
    BY <1>1
  <1>3. /\ t.proposals = s.proposals /\ t.tallies = s.tallies /\ t.votes = s.votes
        /\ t.checkouts = checkouts
        /\ t = SidlRecord(t.proposals, t.votes, t.tallies, t.checkouts)
    <2>1. PICK a, v, b, d : s = SidlRecord(a, v, b, d)
      BY DEF GoodSidl
    <2>2. t = SidlRecord(a, v, b, checkouts) /\ s.proposals = a /\ s.votes = v /\ s.tallies = b
      BY <1>2, <2>1, Zenon DEF SidlRecord
    <2>3. t.proposals = a /\ t.votes = v /\ t.tallies = b /\ t.checkouts = checkouts
      BY ONLY <2>2, SidlFields
    <2> QED
      BY <2>2, <2>3
  <1>4. /\ checkouts \in [Mandates -> CheckoutRecord] /\ checkouts[m] = k
        /\ \A n \in Mandates : n # m => checkouts[n] = s.checkouts[n]
    BY <1>1 DEF GoodSidl
  <1>5. TalliesExplained(t)
    BY <1>3 DEF GoodSidl, TalliesExplained, VotesOf
  <1>6. \A n \in Mandates : CheckoutExplained(checkouts[n])
    BY <1>4 DEF GoodSidl
  <1>7. GoodSidl(t)
    BY <1>3, <1>4, <1>5, <1>6 DEF GoodSidl
  <1>8. Grows(s, t)
    <2>1. \A q \in s.proposals, c \in VoteChoices : s.tallies[q][c] \in Nat
      BY DEF GoodSidl
    <2>2. \A n \in Mandates : s.checkouts[n].settled \in Nat
      BY DEF GoodSidl, CheckoutRecord
    <2>3. \A n \in Mandates : checkouts[n].settled >= s.checkouts[n].settled
      BY <1>4, <2>2
    <2>4. \A q \in s.proposals, c \in VoteChoices : t.tallies[q][c] >= s.tallies[q][c]
      BY <1>3, <2>1
    <2> QED
      BY <1>3, <2>3, <2>4, Zenon DEF Grows
  <1> QED
    BY <1>3, <1>4, <1>7, <1>8

CheckoutOf(status, challenges, attempts, settled, events) ==
    [status |-> status, challenges |-> challenges, attempts |-> attempts, settled |-> settled, events |-> events]

LEMMA CheckoutForm ==
    ASSUME NEW j \in CheckoutRecord
    PROVE  \E a \in {"not-started", "payment-required", "settled"}, b, c, d \in Nat, e \in Seq(CheckoutEvents) :
               j = CheckoutOf(a, b, c, d, e)
  <1>1. /\ j.status \in {"not-started", "payment-required", "settled"}
        /\ j.challenges \in Nat /\ j.attempts \in Nat /\ j.settled \in Nat /\ j.events \in Seq(CheckoutEvents)
    BY DEF CheckoutRecord
  <1>2. j = CheckoutOf(j.status, j.challenges, j.attempts, j.settled, j.events)
    BY DEF CheckoutRecord, CheckoutOf
  <1> QED
    BY <1>1, <1>2

LEMMA ChallengeGood ==
    ASSUME NEW s, GoodSidl(s), NEW r, r.mandate \in Mandates
    PROVE  LET t == RecordChallenge(s, r) IN
           GoodSidl(t) /\ Grows(s, t) /\ t.proposals = s.proposals /\ t.tallies = s.tallies
  <1>1. PICK m, j : m = r.mandate /\ j = s.checkouts[m]
    OBVIOUS
  <1>2. m \in Mandates /\ j \in CheckoutRecord /\ CheckoutExplained(j)
    BY <1>1 DEF GoodSidl
  <1>3. PICK k : k = [j EXCEPT !.status = "payment-required", !.challenges = @ + 1,
                               !.events = Append(@, "payment-required")]
    OBVIOUS
  <1>4. /\ k \in CheckoutRecord /\ k.settled = j.settled /\ k.attempts = j.attempts
        /\ k.challenges = j.challenges + 1 /\ k.status = "payment-required"
        /\ k.events = Append(j.events, "payment-required") /\ j.settled \in Nat
    <2>1. PICK a \in {"not-started", "payment-required", "settled"}, b, c, d \in Nat, e \in Seq(CheckoutEvents) :
              j = CheckoutOf(a, b, c, d, e)
      BY <1>2, CheckoutForm
    <2>2. PICK f : f = Append(e, "payment-required")
      BY Zenon
    <2>3. f \in Seq(CheckoutEvents)
      BY <2>2 DEF CheckoutEvents
    <2>4. k = CheckoutOf("payment-required", b + 1, c, d, f)
      BY <1>3, <2>1, <2>2, Zenon DEF CheckoutOf
    <2>5. k \in CheckoutRecord
      BY <2>3, <2>4 DEF CheckoutRecord, CheckoutOf
    <2> QED
      BY <2>1, <2>2, <2>4, <2>5 DEF CheckoutOf
  <1>5. CheckoutExplained(k)
    <2>1. j.events \in Seq(CheckoutEvents) /\ "payment-required" \in CheckoutEvents
      BY <1>2 DEF CheckoutRecord, CheckoutEvents
    <2>2. \A e : /\ Occurrences(j.events, e) \in Nat
                 /\ Occurrences(k.events, e) = Occurrences(j.events, e) + IF "payment-required" = e THEN 1 ELSE 0
      BY <1>4, <2>1, OccurrencesAppend
    <2>3. k.events # <<>> /\ k.events[Len(k.events)] = "payment-required"
      BY <1>4, <2>1
    <2> QED
      BY <1>2, <1>4, <2>2, <2>3 DEF CheckoutExplained, StatusAfter
  <1>6. PICK t : t = RecordChallenge(s, r)
    OBVIOUS
  <1>7. t = [s EXCEPT !.checkouts[m] = k]
    <2>1. k = [s.checkouts[r.mandate] EXCEPT !.status = "payment-required", !.challenges = @ + 1,
                    !.events = Append(@, "payment-required")]
      BY <1>1, <1>3
    <2>2. t = [s EXCEPT !.checkouts[r.mandate] = k]
      BY <1>6, <2>1 DEF RecordChallenge
    <2> QED
      BY <1>1, <2>2
  <1>8. k.settled >= s.checkouts[m].settled
    BY <1>1, <1>4
  <1> QED
    BY <1>2, <1>4, <1>5, <1>6, <1>7, <1>8, CheckoutGood

LEMMA PaymentGood ==
    ASSUME NEW s, GoodSidl(s), NEW r, r.mandate \in Mandates
    PROVE  LET t == RecordPayment(s, r) IN
           /\ GoodSidl(t) /\ Grows(s, t) /\ t.proposals = s.proposals /\ t.tallies = s.tallies
           /\ t.checkouts[r.mandate].settled = s.checkouts[r.mandate].settled + 1
  <1>1. PICK m, j : m = r.mandate /\ j = s.checkouts[m]
    OBVIOUS
  <1>2. m \in Mandates /\ j \in CheckoutRecord /\ CheckoutExplained(j)
    BY <1>1 DEF GoodSidl
  <1>3. PICK k : k = [j EXCEPT !.status = "settled", !.attempts = @ + 1, !.settled = @ + 1,
                               !.events = Append(Append(@, "payment-attempted"), "payment-settled")]
    OBVIOUS
  <1>4. PICK half : half = Append(j.events, "payment-attempted")
    BY Zenon
  <1>5. /\ j.events \in Seq(CheckoutEvents) /\ half \in Seq(CheckoutEvents)
        /\ "payment-attempted" \in CheckoutEvents /\ "payment-settled" \in CheckoutEvents
    BY <1>2, <1>4 DEF CheckoutRecord, CheckoutEvents
  <1>6. /\ k \in CheckoutRecord /\ k.settled = j.settled + 1 /\ k.attempts = j.attempts + 1
        /\ k.challenges = j.challenges /\ k.status = "settled"
        /\ k.events = Append(half, "payment-settled") /\ j.settled \in Nat
    <2>1. PICK a \in {"not-started", "payment-required", "settled"}, b, c, d \in Nat, e \in Seq(CheckoutEvents) :
              j = CheckoutOf(a, b, c, d, e)
      BY <1>2, CheckoutForm
    <2>2. PICK f : f = Append(half, "payment-settled")
      BY Zenon
    <2>3. f \in Seq(CheckoutEvents)
      BY <1>5, <2>2
    <2>4. k = CheckoutOf("settled", b, c + 1, d + 1, f)
      <3>1. f = Append(Append(e, "payment-attempted"), "payment-settled")
        BY <1>4, <2>1, <2>2 DEF CheckoutOf
      <3> QED
        BY <1>3, <2>1, <3>1, Zenon DEF CheckoutOf
    <2>5. k \in CheckoutRecord
      BY <2>3, <2>4 DEF CheckoutRecord, CheckoutOf
    <2> QED
      BY <2>1, <2>2, <2>4, <2>5 DEF CheckoutOf
  <1>7. CheckoutExplained(k)
    <2>1. \A e : /\ Occurrences(j.events, e) \in Nat
                 /\ Occurrences(half, e) = Occurrences(j.events, e) + IF "payment-attempted" = e THEN 1 ELSE 0
      BY <1>4, <1>5, OccurrencesAppend
    <2>2. \A e : Occurrences(k.events, e) = Occurrences(half, e) + IF "payment-settled" = e THEN 1 ELSE 0
      BY <1>5, <1>6, OccurrencesAppend
    <2>3. k.events # <<>> /\ k.events[Len(k.events)] = "payment-settled"
      BY <1>5, <1>6
    <2> QED
      BY <1>2, <1>6, <2>1, <2>2, <2>3 DEF CheckoutExplained, StatusAfter
  <1>8. PICK t : t = RecordPayment(s, r)
    OBVIOUS
  <1>9. t = [s EXCEPT !.checkouts[m] = k]
    <2>1. k = [s.checkouts[r.mandate] EXCEPT !.status = "settled", !.attempts = @ + 1, !.settled = @ + 1,
                    !.events = Append(Append(@, "payment-attempted"), "payment-settled")]
      BY <1>1, <1>3
    <2>2. t = [s EXCEPT !.checkouts[r.mandate] = k]
      BY <1>8, <2>1 DEF RecordPayment
    <2> QED
      BY <1>1, <2>2
  <1>10. k.settled >= s.checkouts[m].settled
    BY <1>1, <1>6
  <1> QED
    BY <1>1, <1>2, <1>6, <1>7, <1>8, <1>9, <1>10, CheckoutGood

(* What was counted in a state is counted in one that has grown.               *)
LEMMA GrowsCounted ==
    ASSUME NEW s, GoodSidl(s), NEW t, GoodSidl(t), Grows(s, t),
           NEW votes \in AckedVotes, NEW settled \in AckedSettled, Counted(s, votes, settled)
    PROVE  Counted(t, votes, settled)
  <1>1. ASSUME NEW p \in Proposals, NEW c \in VoteChoices, votes[p][c] > 0
        PROVE  p \in t.proposals /\ t.tallies[p][c] >= votes[p][c]
    <2>1. p \in s.proposals /\ s.tallies[p][c] >= votes[p][c]
      BY <1>1 DEF Counted
    <2>2. p \in t.proposals /\ t.tallies[p][c] >= s.tallies[p][c]
      BY <2>1 DEF Grows
    <2>3. votes[p][c] \in Nat /\ s.tallies[p][c] \in Nat /\ t.tallies[p][c] \in Nat
      BY <2>1, <2>2 DEF GoodSidl, AckedVotes
    <2> QED
      BY <2>1, <2>2, <2>3
  <1>2. ASSUME NEW m \in Mandates PROVE t.checkouts[m].settled >= settled[m]
    <2>1. t.checkouts[m].settled >= s.checkouts[m].settled /\ s.checkouts[m].settled >= settled[m]
      BY DEF Grows, Counted
    <2>2. t.checkouts[m].settled \in Nat /\ s.checkouts[m].settled \in Nat /\ settled[m] \in Nat
      BY DEF GoodSidl, CheckoutRecord, AckedSettled
    <2> QED
      BY <2>1, <2>2
  <1> QED
    BY <1>1, <1>2 DEF Counted

(* What Save writes, whatever the request.                                   *)
LEMMA MutatedGood ==
    ASSUME NEW s, GoodSidl(s), NEW r \in Requests,
           NEW votes \in AckedVotes, NEW settled \in AckedSettled
    PROVE  /\ GoodSidl(Mutated(s, r)) /\ Grows(s, Mutated(s, r))
           /\ VotesWith(votes, r) \in AckedVotes /\ SettledWith(settled, r) \in AckedSettled
           /\ Counted(s, votes, settled) => Counted(Mutated(s, r), VotesWith(votes, r), SettledWith(settled, r))
  <1>1. PICK t : t = Mutated(s, r)
    OBVIOUS
  <1>2. ASSUME GoodSidl(t), Grows(s, t), Counted(s, votes, settled) PROVE Counted(t, votes, settled)
    BY <1>2, GrowsCounted
  <1>3. CASE r.kind = "vote"
    <2>1. t = RecordVote(s, r)
      BY <1>1, <1>3 DEF Mutated
    <2>2. /\ GoodSidl(t) /\ Grows(s, t) /\ t.checkouts = s.checkouts
          /\ r.proposal \in t.proposals /\ t.tallies[r.proposal][r.choice] >= 1
          /\ r.proposal \in s.proposals =>
                 t.tallies[r.proposal][r.choice] = s.tallies[r.proposal][r.choice] + 1
      BY <1>3, <2>1, VoteGood
    <2>3. PICK p, c : p = r.proposal /\ c = r.choice
      OBVIOUS
    <2>4. p \in Proposals /\ c \in VoteChoices
      BY <1>3, <2>3 DEF Requests
    <2>5. PICK more : more = VotesWith(votes, r)
      OBVIOUS
    <2>6. more = [votes EXCEPT ![p][c] = @ + 1]
      BY <1>3, <2>3, <2>5 DEF VotesWith
    <2>7. /\ more \in AckedVotes /\ more[p][c] = votes[p][c] + 1
          /\ \A q \in Proposals, d \in VoteChoices : ~(q = p /\ d = c) => more[q][d] = votes[q][d]
      BY <2>4, <2>6 DEF AckedVotes
    <2>8. SettledWith(settled, r) = settled
      BY <1>3 DEF SettledWith
    <2>9. ASSUME Counted(s, votes, settled) PROVE Counted(t, more, settled)
      <3>1. Counted(t, votes, settled)
        BY <1>2, <2>2, <2>9
      <3>2. ASSUME NEW q \in Proposals, NEW d \in VoteChoices, more[q][d] > 0
            PROVE  q \in t.proposals /\ t.tallies[q][d] >= more[q][d]
        <4>1. CASE ~(q = p /\ d = c)
          BY <2>7, <3>1, <3>2, <4>1 DEF Counted
        <4>2. CASE q = p /\ d = c
          <5>1. votes[p][c] \in Nat /\ t.tallies[p][c] \in Nat
            BY <2>2, <2>3, <2>4 DEF AckedVotes, GoodSidl
          <5>2. CASE votes[p][c] = 0
            BY <2>2, <2>3, <2>7, <4>2, <5>1, <5>2
          <5>3. CASE votes[p][c] > 0
            <6>1. p \in s.proposals /\ s.tallies[p][c] >= votes[p][c]
              BY <2>4, <2>9, <5>3 DEF Counted
            <6>2. t.tallies[p][c] = s.tallies[p][c] + 1 /\ s.tallies[p][c] \in Nat
              BY <2>2, <2>3, <2>4, <6>1 DEF GoodSidl
            <6> QED
              BY <2>2, <2>3, <2>7, <4>2, <5>1, <6>1, <6>2
          <5> QED
            BY <5>1, <5>2, <5>3
        <4> QED
          BY <4>1, <4>2
      <3> QED
        BY <3>1, <3>2 DEF Counted
    <2> QED
      BY <1>1, <2>2, <2>5, <2>7, <2>8, <2>9
  <1>4. CASE r.kind = "tally"
    <2>1. t = EnsureProposal(s, r.proposal) /\ r.proposal \in Proposals
      BY <1>1, <1>4 DEF Mutated, Requests
    <2>2. GoodSidl(t) /\ Grows(s, t)
      BY <2>1, EnsureGood
    <2>3. VotesWith(votes, r) = votes /\ SettledWith(settled, r) = settled
      BY <1>4 DEF VotesWith, SettledWith
    <2> QED
      BY <1>1, <1>2, <2>2, <2>3
  <1>5. CASE r.kind = "challenge"
    <2>1. t = RecordChallenge(s, r) /\ r.mandate \in Mandates
      BY <1>1, <1>5 DEF Mutated, Requests
    <2>2. GoodSidl(t) /\ Grows(s, t)
      BY <2>1, ChallengeGood
    <2>3. VotesWith(votes, r) = votes /\ SettledWith(settled, r) = settled
      BY <1>5 DEF VotesWith, SettledWith
    <2> QED
      BY <1>1, <1>2, <2>2, <2>3
  <1>6. CASE r.kind = "pay"
    <2>1. t = RecordPayment(s, r) /\ r.mandate \in Mandates
      BY <1>1, <1>6 DEF Mutated, Requests
    <2>2. /\ GoodSidl(t) /\ Grows(s, t) /\ t.proposals = s.proposals /\ t.tallies = s.tallies
          /\ t.checkouts[r.mandate].settled = s.checkouts[r.mandate].settled + 1
      BY <2>1, PaymentGood
    <2>3. PICK more, m : more = SettledWith(settled, r) /\ m = r.mandate
      OBVIOUS
    <2>4. more = [settled EXCEPT ![m] = @ + 1] /\ VotesWith(votes, r) = votes
      BY <1>6, <2>3 DEF SettledWith, VotesWith
    <2>5. /\ more \in AckedSettled /\ more[m] = settled[m] + 1
          /\ \A n \in Mandates : n # m => more[n] = settled[n]
      BY <2>1, <2>3, <2>4 DEF AckedSettled
    <2>6. ASSUME Counted(s, votes, settled) PROVE Counted(t, votes, more)
      <3>1. Counted(t, votes, settled)
        BY <1>2, <2>2, <2>6
      <3>2. s.checkouts[m].settled >= settled[m] /\ s.checkouts[m].settled \in Nat /\ settled[m] \in Nat
        BY <2>1, <2>3, <2>6 DEF Counted, GoodSidl, CheckoutRecord, AckedSettled
      <3>3. t.checkouts[m].settled >= more[m]
        BY <2>2, <2>3, <2>5, <3>2
      <3>4. \A n \in Mandates : t.checkouts[n].settled >= more[n]
        BY <2>5, <3>1, <3>3 DEF Counted
      <3> QED
        BY <3>1, <3>4 DEF Counted
    <2> QED
      BY <1>1, <2>2, <2>3, <2>4, <2>5, <2>6
  <1>7. r.kind \in {"vote", "tally", "challenge", "pay"}
    BY DEF Requests
  <1> QED
    BY <1>3, <1>4, <1>5, <1>6, <1>7

---------------------------------------------------------------------------
(* The inductive invariant.  A process is at rest or holds a good state; only  *)
(* a seed is held while there is no file; nothing was confirmed before there   *)
(* was one.                                                                  *)
Working(p, at, r, s) == siWork[p] = [at |-> at, request |-> r, state |-> s]

SidlWork(p) ==
    \/ siWork[p] = Rest
    \/ /\ p \in siWorkers
       /\ \E r \in SidlRequests : Working(p, "seed", r, Seeded)
    \/ /\ p \in siWorkers /\ Saved
       /\ \E at \in {"loaded", "saved"}, r \in SidlRequests :
              \E s : Working(p, at, r, s) /\ GoodSidl(s)

(* A process alone: what it holds is what is in the file, and the file has     *)
(* what was confirmed and what is about to be.                               *)
SidlAlone(w) ==
    /\ Saved => Counted(siFile, siAcked.votes, siAcked.settled)
    /\ siWork[w].at = "seed" => ~Saved
    /\ siWork[w].at = "loaded" =>
        /\ siWork[w].state.proposals = siFile.proposals /\ siWork[w].state.tallies = siFile.tallies
        /\ siWork[w].state.checkouts = siFile.checkouts
    /\ siWork[w].at = "saved" =>
        Counted(siFile, VotesWith(siAcked.votes, siWork[w].request),
              SettledWith(siAcked.settled, siWork[w].request))

SidlAcked ==
    /\ siAcked = [votes |-> siAcked.votes, settled |-> siAcked.settled]
    /\ siAcked.votes \in AckedVotes /\ siAcked.settled \in AckedSettled
    /\ ~Saved => siAcked = NothingAcked

SidlInv ==
    /\ siWorkers \in WorkerSets /\ siRequests \in 0 .. MaxRequests
    /\ siFile = Absent \/ GoodSidl(siFile)
    /\ siWork = [p \in Processes |-> siWork[p]] /\ \A p \in Processes : SidlWork(p)
    /\ SidlAcked
    /\ \A w \in Processes : siWorkers = {w} => SidlAlone(w)

LEMMA GoodSaved == \A s : GoodSidl(s) => s # Absent
  <1> SUFFICES ASSUME NEW s, GoodSidl(s) PROVE s # Absent
    OBVIOUS
  <1>1. s.saved = TRUE
    <2>1. PICK a, v, b, d : s = SidlRecord(a, v, b, d)
      BY DEF GoodSidl
    <2> QED
      BY <2>1 DEF SidlRecord
  <1>2. Absent.saved = FALSE
    BY DEF Absent
  <1> QED
    BY <1>1, <1>2

LEMMA NothingKept == GoodSidl(Seeded) /\ Counted(Seeded, NothingAcked.votes, NothingAcked.settled)
                     /\ NothingAcked.votes \in AckedVotes /\ NothingAcked.settled \in AckedSettled
                     /\ NothingAcked = [votes |-> NothingAcked.votes, settled |-> NothingAcked.settled]
  <1>1. PICK v, t : v = NothingAcked.votes /\ t = NothingAcked.settled
    OBVIOUS
  <1>2. v = [p \in Proposals |-> NoVotes] /\ t = [m \in Mandates |-> 0]
    BY <1>1 DEF NothingAcked
  <1>3. NoVotes \in [VoteChoices -> Nat] /\ \A c \in VoteChoices : NoVotes[c] = 0
    BY DEF NoVotes
  <1>4. /\ v \in AckedVotes /\ t \in AckedSettled
        /\ \A p \in Proposals, c \in VoteChoices : v[p][c] = 0
        /\ \A m \in Mandates : t[m] = 0
    BY <1>2, <1>3 DEF AckedVotes, AckedSettled
  <1>5. NothingAcked = [votes |-> NothingAcked.votes, settled |-> NothingAcked.settled]
    BY DEF NothingAcked
  <1> QED
    BY <1>1, <1>4, <1>5, SeededGood

LEMMA SidlInitInv == SidlInit => SidlInv
  <1> SUFFICES ASSUME SidlInit PROVE SidlInv
    OBVIOUS
  <1>1. siRequests \in 0 .. MaxRequests
    BY SidlAssumption DEF SidlInit
  <1>2. /\ siFile = Absent /\ siWorkers \in WorkerSets /\ siAcked = NothingAcked
        /\ siWork = [p \in Processes |-> Rest]
    BY DEF SidlInit
  <1>3. SidlAcked
    BY <1>2, NothingKept DEF SidlAcked
  <1>4. \A p \in Processes : siWork[p] = Rest
    BY <1>2
  <1>5. \A w \in Processes : SidlAlone(w)
    BY <1>2, <1>4 DEF SidlAlone, Saved, Rest
  <1> QED
    BY <1>1, <1>2, <1>3, <1>4, <1>5 DEF SidlInv, SidlWork

(* The steps: each leaves a good file, and a good state with its process.      *)
SidlTaken(p) == siWork' = [q \in Processes |-> IF q = p THEN siWork'[p] ELSE siWork[q]]

LEMMA SidlWorkStep ==
    ASSUME SidlInv, NEW p \in Processes, p \in siWorkers, SidlTaken(p), siWorkers' = siWorkers,
           Saved => Saved', siFile' = Absent \/ GoodSidl(siFile'), siRequests' \in 0 .. MaxRequests,
           SidlWork(p)', SidlAcked', siWorkers = {p} => SidlAlone(p)'
    PROVE  SidlInv'
  <1>1. siWork' = [q \in Processes |-> siWork'[q]]
    BY DEF SidlTaken
  <1>2. \A q \in Processes : q # p => siWork'[q] = siWork[q]
    BY DEF SidlTaken
  <1>3. ASSUME NEW q \in Processes, q # p PROVE SidlWork(q)'
    BY <1>2, <1>3 DEF SidlInv, SidlWork, Working
  <1>4. \A q \in Processes : SidlWork(q)'
    BY <1>3
  <1>5. \A w \in Processes : siWorkers' = {w} => w = p
    OBVIOUS
  <1> QED
    BY <1>1, <1>4, <1>5 DEF SidlInv

LEMMA SidlLoadStep ==
    ASSUME SidlInv, NEW p \in Processes, NEW r \in SidlRequests, Load(p, r)
    PROVE  SidlInv' /\ SidlNothingLost
  <1>1. PICK w : w = IF siFile = Absent THEN [at |-> "seed", request |-> r, state |-> Seeded]
                     ELSE [at |-> "loaded", request |-> r, state |-> Hydrate(siFile)]
    BY Zenon
  <1>2. /\ siWork' = [siWork EXCEPT ![p] = w] /\ siWork[p].at = "rest" /\ p \in siWorkers
        /\ siFile' = siFile /\ siWorkers' = siWorkers /\ siAcked' = siAcked
        /\ siRequests' = siRequests + 1 /\ siRequests < MaxRequests
    BY <1>1 DEF Load, WorkAt
  <1>3. siRequests' \in 0 .. MaxRequests
    BY <1>2, SidlAssumption DEF SidlInv
  <1>4. SidlTaken(p) /\ siWork'[p] = w
    BY <1>2 DEF SidlTaken, SidlInv
  <1>5. (Saved => Saved') /\ SidlAcked'
    BY <1>2 DEF Saved, SidlInv, SidlAcked
  <1>6. CASE siFile = Absent
    <2>1. w = [at |-> "seed", request |-> r, state |-> Seeded]
      BY <1>1, <1>6
    <2>2. w.at = "seed" /\ ~Saved'
      BY <1>2, <1>6, <2>1 DEF Saved
    <2>3. SidlWork(p)'
      BY <1>2, <1>4, <2>1 DEF SidlWork, Working
    <2>4. SidlAlone(p)'
      BY <1>4, <2>2 DEF SidlAlone
    <2> QED
      BY <1>2, <1>3, <1>4, <1>5, <1>6, <2>3, <2>4, SidlWorkStep DEF SidlInv, SidlNothingLost, Saved
  <1>7. CASE siFile # Absent
    <2>1. PICK s : s = Hydrate(siFile)
      OBVIOUS
    <2>2. w = [at |-> "loaded", request |-> r, state |-> s] /\ GoodSidl(siFile)
      BY <1>1, <1>7, <2>1 DEF SidlInv
    <2>3. GoodSidl(s) /\ s.proposals = siFile.proposals /\ s.tallies = siFile.tallies
          /\ s.checkouts = siFile.checkouts
      BY <2>1, <2>2, HydrateGood
    <2>4. w.at = "loaded" /\ w.state = s /\ Saved'
      BY <1>2, <1>7, <2>2 DEF Saved
    <2>5. SidlWork(p)'
      <3>1. Working(p, "loaded", r, s)'
        BY <1>4, <2>2 DEF Working
      <3> QED
        BY <1>2, <2>3, <2>4, <3>1 DEF SidlWork
    <2>6. ASSUME siWorkers = {p} PROVE SidlAlone(p)'
      <3>1. SidlAlone(p) /\ Saved
        BY <1>7, <2>6 DEF SidlInv, Saved
      <3>2. Counted(siFile, siAcked.votes, siAcked.settled)'
        BY <1>2, <3>1 DEF SidlAlone, Counted
      <3> QED
        BY <1>2, <1>4, <2>3, <2>4, <3>2 DEF SidlAlone
    <2>7. SidlInv'
      BY <1>2, <1>3, <1>4, <1>5, <2>2, <2>5, <2>6, SidlWorkStep
    <2>8. SidlNothingLost
      <3>1. \A q \in siFile.proposals, c \in VoteChoices : siFile.tallies[q][c] \in Nat
        BY <2>2 DEF GoodSidl
      <3>2. \A m \in Mandates : siFile.checkouts[m].settled \in Nat
        BY <2>2 DEF GoodSidl, CheckoutRecord
      <3> QED
        BY <1>2, <3>1, <3>2 DEF SidlNothingLost, Saved
    <2> QED
      BY <2>7, <2>8
  <1> QED
    BY <1>6, <1>7

(* The file that a step leaves, in the words of SidlNothingLost.               *)
LEMMA SidlKeepsOn ==
    ASSUME SidlInv,
           \/ siFile' = siFile
           \/ ~Saved
           \/ siFile' # Absent /\ (siWorkers \in {{p} : p \in Processes} => Grows(siFile, siFile'))
    PROVE  SidlNothingLost
  <1>1. CASE siFile' = siFile /\ Saved
    <2>1. GoodSidl(siFile)
      BY <1>1 DEF SidlInv, Saved
    <2>2. \A q \in siFile.proposals, c \in VoteChoices : siFile.tallies[q][c] \in Nat
      BY <2>1 DEF GoodSidl
    <2>3. \A m \in Mandates : siFile.checkouts[m].settled \in Nat
      BY <2>1 DEF GoodSidl, CheckoutRecord
    <2> QED
      BY <1>1, <2>2, <2>3 DEF SidlNothingLost, Saved
  <1>2. CASE siFile' # siFile /\ Saved
    BY <1>2 DEF SidlNothingLost, Grows
  <1>3. CASE ~Saved
    BY <1>3 DEF SidlNothingLost
  <1> QED
    BY <1>1, <1>2, <1>3

LEMMA SidlSeedStep ==
    ASSUME SidlInv, NEW p \in Processes, SaveSeed(p)
    PROVE  SidlInv' /\ SidlNothingLost
  <1>1. /\ siWork[p].at = "seed" /\ siFile' = siWork[p].state
        /\ siWork' = [siWork EXCEPT ![p].at = "loaded"]
        /\ siWorkers' = siWorkers /\ siAcked' = siAcked /\ siRequests' = siRequests
    BY DEF SaveSeed, WorkAt
  <1>2. PICK r \in SidlRequests : siWork[p] = [at |-> "seed", request |-> r, state |-> Seeded]
                                  /\ p \in siWorkers
    <2>1. siWork[p] # Rest
      BY <1>1 DEF Rest
    <2>2. ASSUME NEW at, NEW r, NEW s, Working(p, at, r, s) PROVE at = "seed"
      BY <1>1, <2>2 DEF Working
    <2> QED
      BY <2>1, <2>2 DEF SidlInv, SidlWork, Working
  <1>3. PICK w : w = [at |-> "loaded", request |-> r, state |-> Seeded]
    BY Zenon
  <1>4. SidlTaken(p) /\ siWork'[p] = w
    <2>1. [siWork[p] EXCEPT !.at = "loaded"] = w
      BY <1>2, <1>3
    <2>2. siWork' = [siWork EXCEPT ![p] = w]
      BY <1>1, <2>1, Zenon
    <2> QED
      BY <2>2 DEF SidlTaken, SidlInv
  <1>5. siFile' = Seeded /\ GoodSidl(Seeded) /\ Saved'
    BY <1>1, <1>2, NothingKept, GoodSaved DEF Saved
  <1>6. siRequests' \in 0 .. MaxRequests /\ SidlAcked'
    BY <1>1, <1>5 DEF SidlInv, SidlAcked
  <1>7. SidlWork(p)'
    <2>1. Working(p, "loaded", r, Seeded)'
      BY <1>3, <1>4 DEF Working
    <2> QED
      BY <1>1, <1>2, <1>5, <2>1 DEF SidlWork
  <1>8. siWorkers = {p} => SidlAlone(p)' /\ ~Saved
    <2>1. ASSUME siWorkers = {p} PROVE SidlAlone(p)' /\ ~Saved
      <3>1. ~Saved
        BY <1>1, <2>1 DEF SidlInv, SidlAlone
      <3>2. siAcked = NothingAcked
        BY <3>1 DEF SidlInv, SidlAcked
      <3>3. Counted(siFile', siAcked'.votes, siAcked'.settled)
        BY <1>1, <1>5, <3>2, NothingKept
      <3>4. w.at = "loaded" /\ w.state = Seeded
        BY <1>3
      <3> QED
        BY <1>4, <1>5, <3>1, <3>3, <3>4 DEF SidlAlone
    <2> QED
      BY <2>1
  <1>9. SidlInv'
    BY <1>1, <1>2, <1>4, <1>5, <1>6, <1>7, <1>8, SidlWorkStep
  <1>10. siWorkers \in {{q} : q \in Processes} => siWorkers = {p}
    BY <1>2
  <1>11. \/ ~Saved
         \/ siFile' # Absent /\ (siWorkers \in {{q} : q \in Processes} => Grows(siFile, siFile'))
    BY <1>5, <1>8, <1>10 DEF Saved
  <1>12. SidlNothingLost
    BY <1>11, SidlKeepsOn
  <1> QED
    BY <1>9, <1>12

LEMMA SidlSaveStep ==
    ASSUME SidlInv, NEW p \in Processes, Save(p)
    PROVE  SidlInv' /\ SidlNothingLost
  <1>1. /\ siWork[p].at = "loaded"
        /\ siWork' = [siWork EXCEPT ![p].at = "saved"]
        /\ siWorkers' = siWorkers /\ siAcked' = siAcked /\ siRequests' = siRequests
    BY DEF Save, WorkAt
  <1>2. PICK r, s : /\ siWork[p] = [at |-> "loaded", request |-> r, state |-> s]
                    /\ r \in SidlRequests /\ p \in siWorkers /\ Saved /\ GoodSidl(s)
    <2>1. siWork[p] # Rest
      BY <1>1 DEF Rest
    <2>2. ASSUME NEW at, NEW r, NEW s, Working(p, at, r, s) PROVE at = "loaded"
      BY <1>1, <2>2 DEF Working
    <2> QED
      BY <2>1, <2>2 DEF SidlInv, SidlWork, Working
  <1>3. PICK w, t : w = [at |-> "saved", request |-> r, state |-> s] /\ t = Mutated(s, r)
    BY Zenon
  <1>4. SidlTaken(p) /\ siWork'[p] = w
    <2>1. [siWork[p] EXCEPT !.at = "saved"] = w
      BY <1>2, <1>3
    <2>2. siWork' = [siWork EXCEPT ![p] = w]
      BY <1>1, <2>1, Zenon
    <2> QED
      BY <2>2 DEF SidlTaken, SidlInv
  <1>5. siFile' = IF r.kind = "tally" /\ t = s THEN siFile ELSE t
    BY <1>2, <1>3 DEF Save
  <1>6. /\ r \in Requests /\ siAcked.votes \in AckedVotes /\ siAcked.settled \in AckedSettled
        /\ GoodSidl(siFile)
    BY <1>2, SidlAssumption DEF SidlInv, SidlAcked, Saved
  <1>7. /\ GoodSidl(t) /\ Grows(s, t)
        /\ Counted(s, siAcked.votes, siAcked.settled) =>
               Counted(t, VotesWith(siAcked.votes, r), SettledWith(siAcked.settled, r))
    BY <1>2, <1>3, <1>6, MutatedGood
  <1>8. GoodSidl(siFile') /\ Saved'
    BY <1>5, <1>6, <1>7, GoodSaved DEF Saved
  <1>9. siRequests' \in 0 .. MaxRequests /\ SidlAcked'
    BY <1>1, <1>8 DEF SidlInv, SidlAcked
  <1>10. SidlWork(p)'
    <2>1. Working(p, "saved", r, s)'
      BY <1>3, <1>4 DEF Working
    <2> QED
      BY <1>1, <1>2, <1>8, <2>1 DEF SidlWork
  <1>11. ASSUME siWorkers = {p} PROVE SidlAlone(p)' /\ (siFile' = siFile \/ Grows(siFile, siFile'))
    <2>1. /\ Counted(siFile, siAcked.votes, siAcked.settled)
          /\ s.proposals = siFile.proposals /\ s.tallies = siFile.tallies
          /\ s.checkouts = siFile.checkouts
      BY <1>1, <1>2, <1>11 DEF SidlInv, SidlAlone
    <2>2. Counted(s, siAcked.votes, siAcked.settled)
      BY <2>1 DEF Counted
    <2>3. Counted(siFile', VotesWith(siAcked.votes, r), SettledWith(siAcked.settled, r))
      <3>1. CASE r.kind = "tally" /\ t = s
        BY <1>5, <2>1, <3>1 DEF VotesWith, SettledWith
      <3>2. CASE ~(r.kind = "tally" /\ t = s)
        BY <1>5, <1>7, <2>2, <3>2
      <3> QED
        BY <3>1, <3>2
    <2>4. Counted(siFile', siAcked.votes, siAcked.settled)
      <3>1. CASE r.kind = "tally" /\ t = s
        BY <1>5, <2>1, <3>1
      <3>2. CASE ~(r.kind = "tally" /\ t = s)
        BY <1>2, <1>5, <1>6, <1>7, <2>2, <3>2, GrowsCounted
      <3> QED
        BY <3>1, <3>2
    <2>5. siFile' = siFile \/ Grows(siFile, siFile')
      BY <1>5, <1>7, <2>1 DEF Grows
    <2>6. w.at = "saved" /\ w.request = r
      BY <1>3
    <2> QED
      BY <1>1, <1>4, <2>3, <2>4, <2>5, <2>6, Zenon DEF SidlAlone
  <1>12. SidlInv'
    BY <1>1, <1>2, <1>4, <1>8, <1>9, <1>10, <1>11, SidlWorkStep
  <1>13. siWorkers \in {{q} : q \in Processes} => siWorkers = {p}
    BY <1>2
  <1>14. \/ siFile' = siFile
         \/ siFile' # Absent /\ (siWorkers \in {{q} : q \in Processes} => Grows(siFile, siFile'))
    BY <1>8, <1>11, <1>13 DEF Saved
  <1>15. SidlNothingLost
    BY <1>14, SidlKeepsOn
  <1> QED
    BY <1>12, <1>15

LEMMA SidlAckStep ==
    ASSUME SidlInv, NEW p \in Processes, Acknowledge(p)
    PROVE  SidlInv' /\ SidlNothingLost
  <1>1. /\ siWork[p].at = "saved" /\ siWork' = [siWork EXCEPT ![p] = Rest]
        /\ siFile' = siFile /\ siWorkers' = siWorkers /\ siRequests' = siRequests
    BY DEF Acknowledge, WorkAt
  <1>2. PICK r \in SidlRequests : siWork[p].request = r /\ p \in siWorkers /\ Saved
    <2>1. siWork[p] # Rest
      BY <1>1 DEF Rest
    <2>2. siWork[p].at # "seed"
      BY <1>1
    <2>3. ASSUME NEW r, Working(p, "seed", r, Seeded) PROVE FALSE
      BY <2>2, <2>3 DEF Working
    <2>4. ASSUME NEW at, NEW r, NEW s, Working(p, at, r, s) PROVE siWork[p].request = r
      BY <2>4 DEF Working
    <2> QED
      BY <2>1, <2>3, <2>4 DEF SidlInv, SidlWork
  <1>3. PICK v, t : v = siAcked.votes /\ t = siAcked.settled
    OBVIOUS
  <1>4. siAcked = [votes |-> v, settled |-> t] /\ v \in AckedVotes /\ t \in AckedSettled
    BY <1>3 DEF SidlInv, SidlAcked
  <1>5. r \in Requests
    BY SidlAssumption
  <1>6. siAcked' = [votes |-> VotesWith(v, r), settled |-> SettledWith(t, r)]
    <2>1. siAcked' = CASE r.kind = "vote" -> [siAcked EXCEPT !.votes[r.proposal][r.choice] = @ + 1]
                       [] r.kind = "pay" -> [siAcked EXCEPT !.settled[r.mandate] = @ + 1]
                       [] OTHER -> siAcked
      BY <1>2 DEF Acknowledge
    <2>2. CASE r.kind = "vote"
      <3>1. siAcked' = [siAcked EXCEPT !.votes[r.proposal][r.choice] = @ + 1]
        BY <2>1, <2>2
      <3>2. siAcked' = [votes |-> [v EXCEPT ![r.proposal][r.choice] = @ + 1], settled |-> t]
        BY <1>4, <3>1
      <3> QED
        BY <2>2, <3>2 DEF VotesWith, SettledWith
    <2>3. CASE r.kind = "pay"
      <3>1. siAcked' = [siAcked EXCEPT !.settled[r.mandate] = @ + 1]
        BY <2>1, <2>3
      <3>2. siAcked' = [votes |-> v, settled |-> [t EXCEPT ![r.mandate] = @ + 1]]
        BY <1>4, <3>1
      <3> QED
        BY <2>3, <3>2 DEF VotesWith, SettledWith
    <2>4. CASE r.kind # "vote" /\ r.kind # "pay"
      BY <1>4, <2>1, <2>4 DEF VotesWith, SettledWith
    <2> QED
      BY <2>2, <2>3, <2>4
  <1>7. siAcked'.votes = VotesWith(v, r) /\ siAcked'.settled = SettledWith(t, r)
    BY <1>6
  <1>8. VotesWith(v, r) \in AckedVotes /\ SettledWith(t, r) \in AckedSettled
    <2>1. PICK s : GoodSidl(s)
      BY <1>2 DEF SidlInv, Saved
    <2> QED
      BY <1>4, <1>5, <2>1, MutatedGood
  <1>9. SidlAcked' /\ Saved'
    BY <1>1, <1>2, <1>6, <1>7, <1>8 DEF SidlAcked, Saved
  <1>10. SidlTaken(p) /\ siWork'[p] = Rest
    BY <1>1 DEF SidlTaken, SidlInv
  <1>11. SidlWork(p)'
    BY <1>10 DEF SidlWork
  <1>12. ASSUME siWorkers = {p} PROVE SidlAlone(p)'
    <2>1. Counted(siFile, VotesWith(v, r), SettledWith(t, r))
      BY <1>1, <1>2, <1>3, <1>12 DEF SidlInv, SidlAlone
    <2>2. Counted(siFile', siAcked'.votes, siAcked'.settled)
      BY <1>1, <1>7, <2>1
    <2>3. siWork'[p].at = "rest"
      BY <1>10 DEF Rest
    <2> QED
      BY <2>2, <2>3 DEF SidlAlone
  <1>13. GoodSidl(siFile') /\ siRequests' \in 0 .. MaxRequests
    BY <1>1, <1>2 DEF SidlInv, Saved
  <1>14. SidlInv'
    BY <1>1, <1>2, <1>9, <1>10, <1>11, <1>12, <1>13, SidlWorkStep
  <1>15. SidlNothingLost
    BY <1>1, SidlKeepsOn
  <1> QED
    BY <1>14, <1>15

LEMMA SidlDieStep ==
    ASSUME SidlInv, NEW p \in Processes, Die(p)
    PROVE  SidlInv' /\ SidlNothingLost
  <1>1. /\ siWork[p].at # "rest" /\ siWork' = [siWork EXCEPT ![p] = Rest]
        /\ siFile' = siFile /\ siWorkers' = siWorkers /\ siAcked' = siAcked
        /\ siRequests' = siRequests
    BY DEF Die, WorkAt
  <1>2. p \in siWorkers
    BY <1>1 DEF SidlInv, SidlWork, Rest
  <1>3. SidlTaken(p) /\ siWork'[p] = Rest
    BY <1>1 DEF SidlTaken, SidlInv
  <1>4. SidlWork(p)' /\ SidlAcked' /\ (Saved => Saved')
    BY <1>1, <1>3 DEF SidlWork, SidlInv, SidlAcked, Saved
  <1>5. ASSUME siWorkers = {p} PROVE SidlAlone(p)'
    <2>1. Saved => Counted(siFile', siAcked'.votes, siAcked'.settled)
      BY <1>1, <1>5 DEF SidlInv, SidlAlone
    <2>2. siWork'[p].at = "rest" /\ (Saved' => Saved)
      BY <1>1, <1>3 DEF Rest, Saved
    <2> QED
      BY <2>1, <2>2 DEF SidlAlone
  <1>6. SidlInv'
    BY <1>1, <1>2, <1>3, <1>4, <1>5, SidlWorkStep DEF SidlInv
  <1>7. SidlNothingLost
    BY <1>1, SidlKeepsOn
  <1> QED
    BY <1>6, <1>7

LEMMA SidlStepInv == SidlInv /\ [SidlNext]_siVars => SidlInv' /\ SidlNothingLost
  <1> SUFFICES ASSUME SidlInv, [SidlNext]_siVars PROVE SidlInv' /\ SidlNothingLost
    OBVIOUS
  <1>1. CASE UNCHANGED siVars
    <2>1. SidlInv'
      BY <1>1 DEF siVars, SidlInv, SidlWork, Working, SidlAlone, SidlAcked, Saved
    <2>2. SidlNothingLost
      BY <1>1, SidlKeepsOn DEF siVars
    <2> QED
      BY <2>1, <2>2
  <1>2. CASE SidlNext
    BY <1>2, SidlLoadStep, SidlSeedStep, SidlSaveStep, SidlAckStep, SidlDieStep DEF SidlNext
  <1> QED
    BY <1>1, <1>2

LEMMA SidlInvSound == SidlInv => SidlTypeOK /\ SidlTrailExplains /\ SidlAckedKept
  <1> SUFFICES ASSUME SidlInv PROVE SidlTypeOK /\ SidlTrailExplains /\ SidlAckedKept
    OBVIOUS
  <1>1. \A p \in Processes : siWork[p].at \in {"rest", "seed", "loaded", "saved"}
    BY DEF SidlInv, SidlWork, Working, Rest
  <1>2. SidlTypeOK
    BY <1>1 DEF SidlInv, SidlTypeOK, GoodSidl, Saved
  <1>3. SidlTrailExplains
    BY DEF SidlInv, SidlTrailExplains, GoodSidl, Saved
  <1>4. SidlAckedKept
    <2>1. SUFFICES ASSUME NEW w \in Processes, siWorkers = {w}, Saved
                   PROVE  Counted(siFile, siAcked.votes, siAcked.settled)
      BY DEF SidlAckedKept, Counted
    <2> QED
      BY <2>1 DEF SidlInv, SidlAlone
  <1> QED
    BY <1>2, <1>3, <1>4

(* The SIDL file is explained by its events, whichever process wrote it last;  *)
(* and of one process, whenever it died, what was confirmed is in the file.  *)
THEOREM SidlSound ==
    SidlInit /\ [][SidlNext]_siVars => [](SidlTypeOK /\ SidlTrailExplains /\ SidlAckedKept)
  <1>1. SidlInit => SidlInv
    BY SidlInitInv
  <1>2. SidlInv /\ [SidlNext]_siVars => SidlInv'
    BY SidlStepInv
  <1>3. SidlInv => SidlTypeOK /\ SidlTrailExplains /\ SidlAckedKept
    BY SidlInvSound
  <1> QED
    BY <1>1, <1>2, <1>3, PTL

(* The SIDL file is never lost, and with one process no count goes back.       *)
THEOREM SidlFinal == SidlInit /\ [][SidlNext]_siVars => [][SidlNothingLost]_siVars
  <1>1. SidlInit => SidlInv
    BY SidlInitInv
  <1>2. SidlInv /\ [SidlNext]_siVars => SidlInv' /\ [SidlNothingLost]_siVars
    BY SidlStepInv
  <1> QED
    BY <1>1, <1>2, PTL

(***************************************************************************)
(* The metrics of the dashboard.                                            *)
(***************************************************************************)
(* What counters f show of a route, as RequestsOf and the like do of the store. *)
RequestsIn(f, route) == {l \in DOMAIN f : l.metric = "requests" /\ l.route = route}

FailedIn(f, route) == {l \in RequestsIn(f, route) : l.status >= 400}

FailuresIn(f, route) == {l \in DOMAIN f : l.metric = "failures" /\ l.route = route}

AcceptedIn(f, route) == {l \in DOMAIN f : l.metric = "payments" /\ l.route = route /\ l.category = "accepted"}

SettledIn(f, route) == {l \in RequestsIn(f, route) : l.status = 200 /\ route = "checkout"}

CountedIn(f, h) == {l \in RequestsIn(f, h.route) : l.outcome = h.outcome}

GoodCounters(f) ==
    /\ f = [l \in DOMAIN f |-> f[l]]
    /\ IsFiniteSet(DOMAIN f) /\ \A l \in DOMAIN f : f[l] \in Nat

(* The counters of a route agree, whatever the route.                        *)
RoutesAgree(f) ==
    \A route \in MxRoutes :
        /\ SumOver(f, FailedIn(f, route)) = SumOver(f, FailuresIn(f, route))
        /\ SumOver(f, AcceptedIn(f, route)) = SumOver(f, SettledIn(f, route))

Histogram == [buckets : [1 .. 2 -> Nat], count : Nat]

(* A histogram counts the requests of its labels, and every request has one.   *)
HistogramsAgree(f, hist) ==
    /\ hist = [h \in DOMAIN hist |-> hist[h]]
    /\ \A l \in DOMAIN f : l.metric = "requests" => [route |-> l.route, outcome |-> l.outcome] \in DOMAIN hist
    /\ \A h \in DOMAIN hist :
        /\ h = [route |-> h.route, outcome |-> h.outcome]
        /\ hist[h] \in Histogram
        /\ hist[h].buckets[1] <= hist[h].buckets[2] /\ hist[h].buckets[2] <= hist[h].count
        /\ hist[h].count = SumOver(f, CountedIn(f, h))

(* The documents of a registry are all of the same services.                 *)
DeadlinesOf(role) == {0} \cup {IF role = "active" THEN t.active ELSE t.previous : t \in KeyTerms}

KeyDocument(services) ==
    [services -> [generation : Nat, active : DeadlinesOf("active"), previous : DeadlinesOf("previous")]]

GaugesShown ==
    /\ \E services : mxDocuments \in Seq(KeyDocument(services))
    /\ Len(mxDocuments) >= 1
    /\ mxReady \in {0, 1} /\ mxRevision \in 0 .. Len(mxDocuments)
    /\ mxReady = 0 => mxRevision = 0 /\ mxGauges = <<>>
    /\ mxReady = 1 => mxRevision # 0 /\ mxGauges = GaugesOf(mxDocuments[mxRevision])
    /\ mxRead \in [Exporters -> 0 .. Len(mxDocuments)]

MxInv ==
    /\ GoodCounters(mxCounters)
    /\ RoutesAgree(mxCounters)
    /\ HistogramsAgree(mxCounters, mxHistograms)
    /\ GaugesShown
    /\ mxObserved \in 0 .. MaxObserved

---------------------------------------------------------------------------
(* Counters of which some are one higher.                                    *)
LEMMA Incremented ==
    ASSUME NEW f, GoodCounters(f), NEW A, IsFiniteSet(A)
    PROVE  LET g == IncrementAll(f, A) IN
           /\ GoodCounters(g) /\ DOMAIN g = DOMAIN f \cup A
           /\ \A l \in DOMAIN f : g[l] >= f[l]
           /\ \A l \in DOMAIN f : l \notin A => g[l] = f[l]
           /\ \A l \in A : g[l] = (IF l \in DOMAIN f THEN f[l] ELSE 0) + 1
  <1>1. PICK g : g = IncrementAll(f, A)
    OBVIOUS
  <1>2. DOMAIN g = DOMAIN f \cup A /\ g = [l \in DOMAIN g |-> g[l]]
    BY <1>1 DEF IncrementAll
  <1>3. IsFiniteSet(DOMAIN g)
    <2>1. IsFiniteSet(DOMAIN f)
      BY DEF GoodCounters
    <2>2. IsFiniteSet(DOMAIN f \cup A)
      BY <2>1, FS_Union, Zenon
    <2> QED
      BY <1>2, <2>2
  <1>4. ASSUME NEW l \in DOMAIN f PROVE f[l] \in Nat /\ g[l] = f[l] + IF l \in A THEN 1 ELSE 0
    BY <1>1, <1>4 DEF IncrementAll, ValueOf, GoodCounters
  <1>5. ASSUME NEW l \in A, l \notin DOMAIN f PROVE g[l] = 0 + 1
    BY <1>1, <1>5 DEF IncrementAll, ValueOf
  <1>6. \A l \in DOMAIN f : g[l] >= f[l] /\ g[l] \in Nat
    BY <1>4
  <1>7. \A l \in A : l \notin DOMAIN f => g[l] \in Nat
    BY <1>5
  <1>8. GoodCounters(g)
    BY <1>2, <1>3, <1>6, <1>7 DEF GoodCounters
  <1>9. \A l \in DOMAIN f : l \notin A => g[l] = f[l]
    BY <1>4
  <1>10. \A l \in A : g[l] = (IF l \in DOMAIN f THEN f[l] ELSE 0) + 1
    BY <1>4, <1>5
  <1> QED
    BY <1>1, <1>2, <1>6, <1>8, <1>9, <1>10

(* A sum of counters that none of those touched does not change.             *)
LEMMA SumUntouched ==
    ASSUME NEW f, GoodCounters(f), NEW A, IsFiniteSet(A), NEW S, NEW T,
           S \subseteq DOMAIN f, T = S, T \cap A = {}
    PROVE  SumOver(IncrementAll(f, A), T) = SumOver(f, S)
  <1>1. PICK g : g = IncrementAll(f, A)
    OBVIOUS
  <1>2. IsFiniteSet(S)
    BY FS_Subset DEF GoodCounters
  <1>3. \A l \in DOMAIN f : l \notin A => g[l] = f[l]
    BY <1>1, Incremented, Zenon
  <1>4. \A x \in S : g[x] = f[x]
    BY <1>3
  <1> QED
    BY <1>1, <1>2, <1>4, SumSame

(* One that has exactly one of them is one higher.                           *)
LEMMA SumTouched ==
    ASSUME NEW f, GoodCounters(f), NEW A, IsFiniteSet(A), NEW a \in A, NEW S, NEW T,
           S \subseteq DOMAIN f, a \in DOMAIN f => a \in S, T = S \cup {a}, T \cap A = {a}
    PROVE  SumOver(IncrementAll(f, A), T) = SumOver(f, S) + 1
  <1>1. PICK g : g = IncrementAll(f, A)
    OBVIOUS
  <1>2. /\ GoodCounters(g) /\ DOMAIN g = DOMAIN f \cup A
        /\ \A l \in DOMAIN f : l \notin A => g[l] = f[l]
        /\ g[a] = (IF a \in DOMAIN f THEN f[a] ELSE 0) + 1
    BY <1>1, Incremented, Zenon
  <1>3. PICK rest : rest = S \ {a}
    BY Zenon
  <1>4. IsFiniteSet(S) /\ IsFiniteSet(rest) /\ IsFiniteSet(T)
    BY <1>3, FS_Subset, FS_AddElement DEF GoodCounters
  <1>5. SumOver(g, rest) = SumOver(f, rest)
    <2>1. \A x \in rest : g[x] = f[x]
      BY <1>2, <1>3
    <2> QED
      BY <1>4, <2>1, SumSame
  <1>6. \A x \in T : g[x] \in Int
    BY <1>2 DEF GoodCounters
  <1>7. \A x \in S : f[x] \in Int
    BY DEF GoodCounters
  <1>8. T = rest \cup {a} /\ a \notin rest
    BY <1>3
  <1>9. SumOver(g, T) = g[a] + SumOver(g, rest)
    BY <1>4, <1>6, <1>8, SumAdd
  <1>10. SumOver(f, rest) \in Int
    <2>1. \A x \in rest : f[x] \in Int
      BY <1>3, <1>7
    <2>2. rest \in SUBSET rest
      OBVIOUS
    <2> QED
      BY <1>4, <2>1, <2>2, SumInt
  <1>11. CASE a \in S
    <2>1. S = rest \cup {a}
      BY <1>3, <1>11
    <2>2. SumOver(f, S) = f[a] + SumOver(f, rest)
      BY <1>4, <1>7, <1>8, <2>1, SumAdd
    <2>3. g[a] = f[a] + 1 /\ f[a] \in Int
      BY <1>2, <1>7, <1>11
    <2> QED
      BY <1>1, <1>5, <1>9, <1>10, <2>2, <2>3
  <1>12. CASE a \notin S
    <2>1. S = rest
      BY <1>3, <1>12
    <2>2. g[a] = 0 + 1
      BY <1>2, <1>12
    <2> QED
      BY <1>1, <1>5, <1>9, <1>10, <2>1, <2>2
  <1> QED
    BY <1>11, <1>12

---------------------------------------------------------------------------
(* What a route tells the store of a call: its status tells a failure and a     *)
(* payment that was accepted.                                                *)
LEMMA AnswerTells ==
    ASSUME NEW q \in RouteCalls
    PROVE  LET answer == RouteAnswer(q) IN
           /\ q.route \in MxRoutes
           /\ answer.status \in Nat
           /\ answer.status >= 400 \/ (answer.status = 200 /\ answer.category = "none")
           /\ answer.payment = "accepted" <=> q.route = "checkout" /\ answer.status = 200
  <1>1. /\ q.route \in MxRoutes /\ q.auth \in {200} \cup 400 .. 599 /\ q.valid \in BOOLEAN
        /\ q.header \in {"missing", "invalid", "accepted"} /\ q.fails \in {"no", "read", "write"}
    BY MetricsAssumption
  <1>2. ASSUME NEW status \in Nat, NEW category, NEW payment
        PROVE  LET answer == Answer(status, category, payment) IN
               answer.status = status /\ answer.category = category /\ answer.payment = payment
    BY DEF Answer
  <1>3. ASSUME NEW status \in Nat
        PROVE  Plain(status).status = status /\ Plain(status).category = "none" /\ Plain(status).payment = "none"
    BY <1>2 DEF Plain
  <1>4. Thrown.status = 500 /\ Thrown.payment = "none"
    BY <1>2 DEF Thrown
  <1>5. PICK answer : answer = RouteAnswer(q)
    OBVIOUS
  <1>6. CASE q.auth # 200 /\ q.route \notin {"frame-vote", "frame-sbtc"}
    <2>1. q.auth \in Nat /\ q.auth >= 400
      BY <1>1, <1>6
    <2>2. answer.status = q.auth /\ answer.payment = "none"
      BY <1>2, <1>5, <1>6, <2>1 DEF RouteAnswer
    <2> QED
      BY <1>1, <1>5, <2>1, <2>2
  <1>7. CASE q.auth = 200 \/ q.route \in {"frame-vote", "frame-sbtc"}
    <2>1. CASE q.route = "votes"
      <3>1. answer = VoteAnswer(q)
        BY <1>5, <1>7, <2>1 DEF RouteAnswer
      <3>2. answer \in {Plain(200), Thrown, Answer(400, "invalid-body", "none")}
        BY <3>1 DEF VoteAnswer, Attempt
      <3> QED
        BY <1>1, <1>2, <1>3, <1>4, <1>5, <2>1, <3>2
    <2>2. CASE q.route \in {"tally", "frame-vote", "frame-sbtc"}
      <3>1. answer \in {Plain(200), Thrown}
        BY <1>5, <1>7, <2>2 DEF RouteAnswer, Attempt
      <3> QED
        BY <1>1, <1>3, <1>4, <1>5, <2>2, <3>1
    <2>3. CASE q.route = "mandate"
      <3>1. answer = MandateAnswer(q)
        BY <1>5, <1>7, <2>3 DEF RouteAnswer
      <3>2. answer \in {Plain(200), Thrown, Answer(404, "not-found", "none")}
        BY <3>1 DEF MandateAnswer
      <3> QED
        BY <1>1, <1>2, <1>3, <1>4, <1>5, <2>3, <3>2
    <2>4. CASE q.route = "checkout"
      <3>1. answer = CheckoutAnswer(q)
        BY <1>5, <1>7, <2>4 DEF RouteAnswer
      <3>2. answer \in {Thrown, Answer(404, "not-found", "none"), Answer(402, "payment-required", "missing"),
                        Answer(400, "invalid-payment-signature", "invalid"), Answer(200, "none", "accepted")}
        BY <1>1, <3>1 DEF CheckoutAnswer, Attempt
      <3> QED
        BY <1>1, <1>2, <1>4, <1>5, <2>4, <3>2
    <2> QED
      BY <1>1, <2>1, <2>2, <2>3, <2>4 DEF MxRoutes
  <1> QED
    BY <1>1, <1>6, <1>7

(* What it adds to the store: the request, a failure when it was one, and what   *)
(* became of a payment.                                                      *)
TellsCall(q, answer, R, F, P) ==
    /\ R.metric = "requests" /\ R.route = q.route
    /\ R.status = answer.status /\ R.outcome = ClassifyOutcome(answer.status)
    /\ answer.status = 200 => F = {}
    /\ answer.status >= 400 => \E x : F = {x}
    /\ \A x \in F : x.metric = "failures" /\ x.route = q.route
    /\ (P = {} \/ \E x : P = {x}) /\ (answer.payment = "accepted" => P # {})
    /\ \A x \in P : x.metric = "payments" /\ x.route = q.route /\ x.category = answer.payment

LEMMA CallTells == \A q \in RouteCalls :
    TellsCall(q, RouteAnswer(q), RequestLabels(q.route, RouteAnswer(q).status),
              FailureLabels(q.route, RouteAnswer(q)), PaymentLabels(q.route, RouteAnswer(q).payment))
  <1> SUFFICES ASSUME NEW q \in RouteCalls
               PROVE  TellsCall(q, RouteAnswer(q), RequestLabels(q.route, RouteAnswer(q).status),
                                FailureLabels(q.route, RouteAnswer(q)), PaymentLabels(q.route, RouteAnswer(q).payment))
    OBVIOUS
  <1>1. PICK answer : answer = RouteAnswer(q)
    OBVIOUS
  <1>2. /\ answer.status \in Nat
        /\ answer.status >= 400 \/ (answer.status = 200 /\ answer.category = "none")
    BY <1>1, AnswerTells
  <1>3. PICK R, F, P : /\ R = RequestLabels(q.route, answer.status) /\ F = FailureLabels(q.route, answer)
                       /\ P = PaymentLabels(q.route, answer.payment)
    OBVIOUS
  <1>13. R.metric = "requests" /\ R.route = q.route /\ R.status = answer.status
         /\ R.outcome = ClassifyOutcome(answer.status)
    BY <1>3 DEF RequestLabels
  <1>4. PICK category : category = IF answer.category # "none" THEN answer.category
                                   ELSE FallbackCategory(answer.status)
    OBVIOUS
  <1>5. F = IF category = "none" THEN {} ELSE {[metric |-> "failures", route |-> q.route, category |-> category]}
    BY <1>3, <1>4 DEF FailureLabels
  <1>6. answer.status = 200 => category = "none"
    BY <1>2, <1>4 DEF FallbackCategory
  <1>7. answer.status >= 400 => category # "none"
    BY <1>2, <1>4 DEF FallbackCategory
  <1>8. \A x \in F : x.metric = "failures" /\ x.route = q.route
    BY <1>5
  <1>9. P = IF answer.payment = "none" THEN {}
            ELSE {[metric |-> "payments", route |-> q.route, category |-> answer.payment]}
    BY <1>3 DEF PaymentLabels
  <1>10. \A x \in P : x.metric = "payments" /\ x.route = q.route /\ x.category = answer.payment
    BY <1>9
  <1>11. (answer.status = 200 => F = {}) /\ (answer.status >= 400 => \E x : F = {x})
    BY <1>5, <1>6, <1>7, Zenon
  <1>12. (P = {} \/ \E x : P = {x}) /\ (answer.payment = "accepted" => P # {})
    BY <1>9, Zenon
  <1>14. TellsCall(q, answer, R, F, P)
    BY <1>8, <1>10, <1>11, <1>12, <1>13, Zenon DEF TellsCall
  <1> QED
    BY <1>1, <1>3, <1>14

(* Which of the labels of a call a route counts: all of them its own.          *)
LEMMA OtherRoute ==
    ASSUME NEW f, GoodCounters(f), NEW A, IsFiniteSet(A), NEW route, NEW g, g = IncrementAll(f, A),
           \A l \in A : l.metric \in {"requests", "failures", "payments"} => l.route # route
    PROVE  /\ SumOver(g, FailedIn(g, route)) = SumOver(f, FailedIn(f, route))
           /\ SumOver(g, FailuresIn(g, route)) = SumOver(f, FailuresIn(f, route))
           /\ SumOver(g, AcceptedIn(g, route)) = SumOver(f, AcceptedIn(f, route))
           /\ SumOver(g, SettledIn(g, route)) = SumOver(f, SettledIn(f, route))
           /\ \A outcome : SumOver(g, CountedIn(g, [route |-> route, outcome |-> outcome]))
                                = SumOver(f, CountedIn(f, [route |-> route, outcome |-> outcome]))
  <1>1. DOMAIN g = DOMAIN f \cup A
    BY Incremented, Zenon
  <1>2. ASSUME NEW S, NEW T, S \subseteq DOMAIN f, T = S, T \cap A = {}
        PROVE  SumOver(g, T) = SumOver(f, S)
    BY <1>2, SumUntouched
  <1>3. RequestsIn(g, route) = RequestsIn(f, route) /\ RequestsIn(g, route) \cap A = {}
        /\ RequestsIn(f, route) \subseteq DOMAIN f
    BY <1>1 DEF RequestsIn
  <1>4. FailedIn(g, route) = FailedIn(f, route) /\ FailedIn(g, route) \cap A = {}
        /\ FailedIn(f, route) \subseteq DOMAIN f
    BY <1>3 DEF FailedIn
  <1>5. FailuresIn(g, route) = FailuresIn(f, route) /\ FailuresIn(g, route) \cap A = {}
        /\ FailuresIn(f, route) \subseteq DOMAIN f
    BY <1>1 DEF FailuresIn
  <1>6. AcceptedIn(g, route) = AcceptedIn(f, route) /\ AcceptedIn(g, route) \cap A = {}
        /\ AcceptedIn(f, route) \subseteq DOMAIN f
    BY <1>1 DEF AcceptedIn
  <1>7. SettledIn(g, route) = SettledIn(f, route) /\ SettledIn(g, route) \cap A = {}
        /\ SettledIn(f, route) \subseteq DOMAIN f
    BY <1>3 DEF SettledIn
  <1>8. ASSUME NEW outcome
        PROVE  LET h == [route |-> route, outcome |-> outcome] IN
               CountedIn(g, h) = CountedIn(f, h) /\ CountedIn(g, h) \cap A = {} /\ CountedIn(f, h) \subseteq DOMAIN f
    BY <1>3 DEF CountedIn
  <1>9. \A outcome : SumOver(g, CountedIn(g, [route |-> route, outcome |-> outcome]))
                        = SumOver(f, CountedIn(f, [route |-> route, outcome |-> outcome]))
    <2> TAKE outcome
    <2>1. PICK h : h = [route |-> route, outcome |-> outcome]
      BY Zenon
    <2>2. CountedIn(g, h) = CountedIn(f, h) /\ CountedIn(g, h) \cap A = {} /\ CountedIn(f, h) \subseteq DOMAIN f
      BY <1>8, <2>1
    <2> QED
      BY <1>2, <2>1, <2>2
  <1> QED
    BY <1>2, <1>4, <1>5, <1>6, <1>7, <1>9

LEMMA CallKeepsAgreement ==
    ASSUME NEW f, GoodCounters(f), NEW q \in RouteCalls,
           NEW answer, answer = RouteAnswer(q),
           NEW R, R = RequestLabels(q.route, answer.status),
           NEW F, F = FailureLabels(q.route, answer),
           NEW P, P = PaymentLabels(q.route, answer.payment),
           NEW g, g = IncrementAll(f, {R} \cup F \cup P),
           NEW route
    PROVE  /\ SumOver(f, FailedIn(f, route)) = SumOver(f, FailuresIn(f, route))
                => SumOver(g, FailedIn(g, route)) = SumOver(g, FailuresIn(g, route))
           /\ SumOver(f, AcceptedIn(f, route)) = SumOver(f, SettledIn(f, route))
                => SumOver(g, AcceptedIn(g, route)) = SumOver(g, SettledIn(g, route))
           /\ \A outcome : LET h == [route |-> route, outcome |-> outcome] IN
                SumOver(g, CountedIn(g, h)) = SumOver(f, CountedIn(f, h))
                    + IF route = q.route /\ outcome = R.outcome THEN 1 ELSE 0
  <1>1. /\ answer.status \in Nat
        /\ answer.status >= 400 \/ answer.status = 200
        /\ answer.payment = "accepted" <=> q.route = "checkout" /\ answer.status = 200
    BY AnswerTells
  <1>2. /\ R.metric = "requests" /\ R.route = q.route /\ R.status = answer.status
        /\ answer.status = 200 => F = {}
        /\ answer.status >= 400 => \E x : F = {x}
        /\ \A x \in F : x.metric = "failures" /\ x.route = q.route
        /\ (P = {} \/ \E x : P = {x}) /\ (answer.payment = "accepted" => P # {})
        /\ \A x \in P : x.metric = "payments" /\ x.route = q.route /\ x.category = answer.payment
    <2>1. TellsCall(q, answer, R, F, P)
      BY CallTells
    <2> QED
      BY <2>1, Zenon DEF TellsCall
  <1>3. PICK A : A = {R} \cup F \cup P
    OBVIOUS
  <1>4. IsFiniteSet(A)
    <2>1. IsFiniteSet({}) /\ \A x : IsFiniteSet({x})
      BY FS_Singleton, FS_EmptySet, Zenon
    <2>2. IsFiniteSet(F)
      <3>1. F = {} \/ \E x : F = {x}
        BY <1>1, <1>2, Zenon
      <3> QED
        BY <2>1, <3>1, Zenon
    <2>3. IsFiniteSet(P)
      <3>1. P = {} \/ \E x : P = {x}
        BY <1>2, Zenon
      <3> QED
        BY <2>1, <3>1, Zenon
    <2>4. IsFiniteSet({R} \cup F)
      BY <2>1, <2>2, FS_Union, Zenon
    <2>5. IsFiniteSet(({R} \cup F) \cup P)
      BY <2>3, <2>4, FS_Union, Zenon
    <2> QED
      BY <1>3, <2>5
  <1>5. DOMAIN g = DOMAIN f \cup A /\ g = IncrementAll(f, A) /\ R \in A
    <2>1. g = IncrementAll(f, A) /\ R \in A
      BY <1>3
    <2>2. DOMAIN IncrementAll(f, A) = DOMAIN f \cup A
      BY <1>4, Incremented, Zenon
    <2> QED
      BY <2>1, <2>2
  <1>6. ASSUME NEW S, NEW T, S \subseteq DOMAIN f, T = S, T \cap A = {}
        PROVE  SumOver(g, T) = SumOver(f, S)
    BY <1>4, <1>5, <1>6, SumUntouched
  <1>7. ASSUME NEW a \in A, NEW S, NEW T, S \subseteq DOMAIN f, a \in DOMAIN f => a \in S,
               T = S \cup {a}, T \cap A = {a}
        PROVE  SumOver(g, T) = SumOver(f, S) + 1
    BY <1>4, <1>5, <1>7, SumTouched
  <1>8. CASE route # q.route
    <2>1. \A l \in A : l.route # route
      BY <1>2, <1>3, <1>8
    <2>2. /\ SumOver(g, FailedIn(g, route)) = SumOver(f, FailedIn(f, route))
          /\ SumOver(g, FailuresIn(g, route)) = SumOver(f, FailuresIn(f, route))
          /\ SumOver(g, AcceptedIn(g, route)) = SumOver(f, AcceptedIn(f, route))
          /\ SumOver(g, SettledIn(g, route)) = SumOver(f, SettledIn(f, route))
          /\ \A outcome : SumOver(g, CountedIn(g, [route |-> route, outcome |-> outcome]))
                                = SumOver(f, CountedIn(f, [route |-> route, outcome |-> outcome]))
      BY <1>3, <1>4, <2>1, OtherRoute
    <2>3. \A outcome : SumOver(f, CountedIn(f, [route |-> route, outcome |-> outcome])) \in Int
      <3> TAKE outcome
      <3>1. PICK S : S = CountedIn(f, [route |-> route, outcome |-> outcome])
        OBVIOUS
      <3>2. S \subseteq DOMAIN f
        BY <3>1 DEF CountedIn, RequestsIn
      <3>3. IsFiniteSet(DOMAIN f) /\ \A l \in DOMAIN f : f[l] \in Int
        BY DEF GoodCounters
      <3> QED
        BY <3>1, <3>2, <3>3, SumInt
    <2>4. ASSUME NEW outcome
          PROVE  LET h == [route |-> route, outcome |-> outcome] IN
                 SumOver(g, CountedIn(g, h)) = SumOver(f, CountedIn(f, h))
                    + IF route = q.route /\ outcome = R.outcome THEN 1 ELSE 0
      <3>1. PICK h : h = [route |-> route, outcome |-> outcome]
        BY Zenon
      <3>2. SumOver(g, CountedIn(g, h)) = SumOver(f, CountedIn(f, h)) /\ SumOver(f, CountedIn(f, h)) \in Int
        BY <2>2, <2>3, <3>1
      <3> QED
        BY <1>8, <3>1, <3>2
    <2> QED
      BY <2>2, <2>4
  <1>9. CASE route = q.route
    <2>0. \A l \in A : (l.metric = "requests" <=> l = R) /\ (l.metric = "failures" <=> l \in F)
                       /\ (l.metric = "payments" <=> l \in P)
      BY <1>2, <1>3
    <2>1. RequestsIn(g, route) = RequestsIn(f, route) \cup {R} /\ RequestsIn(f, route) \subseteq DOMAIN f
          /\ RequestsIn(g, route) \cap A = {R} /\ (R \in DOMAIN f => R \in RequestsIn(f, route))
      <3>1. \A l \in A : l.metric = "requests" /\ l.route = route <=> l = R
        BY <1>2, <1>9, <2>0
      <3> QED
        BY <1>3, <1>5, <3>1, Zenon DEF RequestsIn
    <2>2. SumOver(f, FailedIn(f, route)) = SumOver(f, FailuresIn(f, route))
                => SumOver(g, FailedIn(g, route)) = SumOver(g, FailuresIn(g, route))
      <3>1. CASE answer.status = 200
        <4>1. ~(R.status >= 400) /\ F = {}
          BY <1>2, <3>1
        <4>2. FailedIn(g, route) = FailedIn(f, route) /\ FailedIn(g, route) \cap A = {}
              /\ FailedIn(f, route) \subseteq DOMAIN f
          BY <2>1, <4>1 DEF FailedIn
        <4>3. FailuresIn(g, route) = FailuresIn(f, route) /\ FailuresIn(g, route) \cap A = {}
              /\ FailuresIn(f, route) \subseteq DOMAIN f
          BY <1>5, <2>0, <4>1 DEF FailuresIn
        <4> QED
          BY <1>6, <4>2, <4>3
      <3>2. CASE answer.status >= 400
        <4>1. PICK x : F = {x}
          BY <1>2, <3>2, Zenon
        <4>2. R.status >= 400
          BY <1>2, <3>2
        <4>3. /\ FailedIn(g, route) = FailedIn(f, route) \cup {R} /\ FailedIn(f, route) \subseteq DOMAIN f
              /\ FailedIn(g, route) \cap A = {R} /\ (R \in DOMAIN f => R \in FailedIn(f, route))
          BY <2>1, <4>2 DEF FailedIn
        <4>4. x \in A /\ x.metric = "failures" /\ x.route = route
          BY <1>2, <1>3, <1>9, <4>1
        <4>5. \A l \in A : l.metric = "failures" /\ l.route = route <=> l = x
          BY <2>0, <4>1, <4>4
        <4>6. /\ FailuresIn(g, route) = FailuresIn(f, route) \cup {x} /\ FailuresIn(f, route) \subseteq DOMAIN f
              /\ FailuresIn(g, route) \cap A = {x} /\ (x \in DOMAIN f => x \in FailuresIn(f, route))
          BY <1>5, <4>4, <4>5, Zenon DEF FailuresIn
        <4>7. SumOver(g, FailedIn(g, route)) = SumOver(f, FailedIn(f, route)) + 1
          <5>1. PICK S, T : S = FailedIn(f, route) /\ T = FailedIn(g, route)
            OBVIOUS
          <5>2. S \subseteq DOMAIN f /\ T = S \cup {R} /\ T \cap A = {R} /\ R \in A
            BY <1>5, <4>3, <5>1
          <5>3. R \in DOMAIN f => R \in S
            BY <4>3, <5>1
          <5>4. SumOver(g, T) = SumOver(f, S) + 1
            BY <1>7, <5>2, <5>3
          <5> QED
            BY <5>1, <5>4
        <4>8. SumOver(g, FailuresIn(g, route)) = SumOver(f, FailuresIn(f, route)) + 1
          <5>1. PICK S, T : S = FailuresIn(f, route) /\ T = FailuresIn(g, route)
            OBVIOUS
          <5>2. S \subseteq DOMAIN f /\ T = S \cup {x} /\ T \cap A = {x} /\ x \in A
            BY <1>5, <4>4, <4>6, <5>1, Zenon
          <5>3. x \in DOMAIN f => x \in S
            BY <4>4, <4>6, <5>1
          <5>4. SumOver(g, T) = SumOver(f, S) + 1
            BY <1>7, <5>2, <5>3
          <5> QED
            BY <5>1, <5>4
        <4> QED
          BY <4>7, <4>8
      <3> QED
        BY <1>1, <3>1, <3>2
    <2>3. SumOver(f, AcceptedIn(f, route)) = SumOver(f, SettledIn(f, route))
                => SumOver(g, AcceptedIn(g, route)) = SumOver(g, SettledIn(g, route))
      <3>1. CASE answer.payment = "accepted"
        <4>1. PICK x : P = {x}
          BY <1>2, <3>1, Zenon
        <4>2. R.status = 200 /\ route = "checkout"
          BY <1>1, <1>2, <1>9, <3>1
        <4>3. /\ SettledIn(g, route) = SettledIn(f, route) \cup {R} /\ SettledIn(f, route) \subseteq DOMAIN f
              /\ SettledIn(g, route) \cap A = {R} /\ (R \in DOMAIN f => R \in SettledIn(f, route))
          BY <2>1, <4>2 DEF SettledIn
        <4>4. x \in A /\ x.metric = "payments" /\ x.route = route /\ x.category = "accepted"
          BY <1>2, <1>3, <1>9, <3>1, <4>1
        <4>5. \A l \in A : l.metric = "payments" /\ l.route = route /\ l.category = "accepted" <=> l = x
          BY <2>0, <4>1, <4>4
        <4>6. /\ AcceptedIn(g, route) = AcceptedIn(f, route) \cup {x} /\ AcceptedIn(f, route) \subseteq DOMAIN f
              /\ AcceptedIn(g, route) \cap A = {x} /\ (x \in DOMAIN f => x \in AcceptedIn(f, route))
          BY <1>5, <4>4, <4>5, Zenon DEF AcceptedIn
        <4>7. SumOver(g, SettledIn(g, route)) = SumOver(f, SettledIn(f, route)) + 1
          <5>1. PICK S, T : S = SettledIn(f, route) /\ T = SettledIn(g, route)
            OBVIOUS
          <5>2. S \subseteq DOMAIN f /\ T = S \cup {R} /\ T \cap A = {R} /\ R \in A
            BY <1>5, <4>3, <5>1
          <5>3. R \in DOMAIN f => R \in S
            BY <4>3, <5>1
          <5>4. SumOver(g, T) = SumOver(f, S) + 1
            BY <1>7, <5>2, <5>3
          <5> QED
            BY <5>1, <5>4
        <4>8. SumOver(g, AcceptedIn(g, route)) = SumOver(f, AcceptedIn(f, route)) + 1
          <5>1. PICK S, T : S = AcceptedIn(f, route) /\ T = AcceptedIn(g, route)
            OBVIOUS
          <5>2. S \subseteq DOMAIN f /\ T = S \cup {x} /\ T \cap A = {x} /\ x \in A
            BY <1>5, <4>4, <4>6, <5>1
          <5>3. x \in DOMAIN f => x \in S
            BY <4>4, <4>6, <5>1
          <5>4. SumOver(g, T) = SumOver(f, S) + 1
            BY <1>7, <5>2, <5>3
          <5> QED
            BY <5>1, <5>4
        <4> QED
          BY <4>7, <4>8
      <3>2. CASE answer.payment # "accepted"
        <4>1. ~(R.status = 200 /\ route = "checkout")
          BY <1>1, <1>2, <1>9, <3>2
        <4>2. SettledIn(g, route) = SettledIn(f, route) /\ SettledIn(g, route) \cap A = {}
              /\ SettledIn(f, route) \subseteq DOMAIN f
          BY <2>1, <4>1 DEF SettledIn
        <4>3. \A l \in A : ~(l.metric = "payments" /\ l.route = route /\ l.category = "accepted")
          BY <1>2, <2>0, <3>2
        <4>4. AcceptedIn(g, route) = AcceptedIn(f, route) /\ AcceptedIn(g, route) \cap A = {}
              /\ AcceptedIn(f, route) \subseteq DOMAIN f
          BY <1>5, <4>3 DEF AcceptedIn
        <4> QED
          BY <1>6, <4>2, <4>4
      <3> QED
        BY <3>1, <3>2
    <2>4. ASSUME NEW outcome
          PROVE  LET h == [route |-> route, outcome |-> outcome] IN
                 SumOver(g, CountedIn(g, h)) = SumOver(f, CountedIn(f, h))
                    + IF route = q.route /\ outcome = R.outcome THEN 1 ELSE 0
      <3>1. PICK h : h = [route |-> route, outcome |-> outcome]
        BY Zenon
      <3>2. h.route = route /\ h.outcome = outcome
        BY <3>1
      <3>3. CASE outcome = R.outcome
        <4>1. /\ CountedIn(g, h) = CountedIn(f, h) \cup {R} /\ CountedIn(f, h) \subseteq DOMAIN f
              /\ CountedIn(g, h) \cap A = {R} /\ (R \in DOMAIN f => R \in CountedIn(f, h))
          BY <2>1, <3>2, <3>3 DEF CountedIn
        <4>2. SumOver(g, CountedIn(g, h)) = SumOver(f, CountedIn(f, h)) + 1
          <5>1. PICK S, T : S = CountedIn(f, h) /\ T = CountedIn(g, h)
            OBVIOUS
          <5>2. S \subseteq DOMAIN f /\ T = S \cup {R} /\ T \cap A = {R} /\ R \in A
            BY <1>5, <4>1, <5>1
          <5>3. R \in DOMAIN f => R \in S
            BY <4>1, <5>1
          <5>4. SumOver(g, T) = SumOver(f, S) + 1
            BY <1>7, <5>2, <5>3
          <5> QED
            BY <5>1, <5>4
        <4> QED
          BY <1>9, <3>1, <3>3, <4>2
      <3>4. CASE outcome # R.outcome
        <4>1. CountedIn(g, h) = CountedIn(f, h) /\ CountedIn(g, h) \cap A = {} /\ CountedIn(f, h) \subseteq DOMAIN f
          BY <2>1, <3>2, <3>4 DEF CountedIn
        <4>2. SumOver(g, CountedIn(g, h)) = SumOver(f, CountedIn(f, h))
          BY <1>6, <4>1
        <4>3. SumOver(f, CountedIn(f, h)) \in Int
          <5>1. IsFiniteSet(DOMAIN f) /\ \A l \in DOMAIN f : f[l] \in Int
            BY DEF GoodCounters
          <5> QED
            BY <4>1, <5>1, SumInt
        <4> QED
          BY <1>9, <3>1, <3>4, <4>2, <4>3
      <3> QED
        BY <3>3, <3>4
    <2> QED
      BY <2>2, <2>3, <2>4
  <1> QED
    BY <1>8, <1>9

LEMMA MxInitInv == MxInit => MxInv
  <1> SUFFICES ASSUME MxInit PROVE MxInv
    OBVIOUS
  <1>1. PICK f : f = mxCounters
    OBVIOUS
  <1>2. f = <<>> /\ DOMAIN f = {} /\ f = [l \in DOMAIN f |-> f[l]]
    BY <1>1 DEF MxInit
  <1>3. GoodCounters(f)
    BY <1>2, FS_EmptySet DEF GoodCounters
  <1>4. RoutesAgree(f)
    <2>1. ASSUME NEW route
          PROVE  /\ FailedIn(f, route) = {} /\ FailuresIn(f, route) = {}
                 /\ AcceptedIn(f, route) = {} /\ SettledIn(f, route) = {}
      BY <1>2 DEF FailedIn, FailuresIn, AcceptedIn, SettledIn, RequestsIn
    <2> QED
      BY <2>1 DEF RoutesAgree
  <1>5. HistogramsAgree(f, mxHistograms)
    <2>1. DOMAIN mxHistograms = {} /\ mxHistograms = [h \in DOMAIN mxHistograms |-> mxHistograms[h]]
      BY DEF MxInit
    <2> QED
      BY <1>2, <2>1 DEF HistogramsAgree
  <1>6. GaugesShown
    <2>1. PICK services \in MeteredServices :
            mxDocuments = <<[s \in services |-> [generation |-> 1, active |-> 0, previous |-> 0]]>>
      BY DEF MxInit, FirstDocuments
    <2>2. [s \in services |-> [generation |-> 1, active |-> 0, previous |-> 0]] \in KeyDocument(services)
      BY DEF KeyDocument, DeadlinesOf
    <2>3. mxDocuments \in Seq(KeyDocument(services)) /\ Len(mxDocuments) = 1
      BY <2>1, <2>2
    <2>4. mxRead \in [Exporters -> 0 .. Len(mxDocuments)] /\ 0 \in 0 .. Len(mxDocuments)
      BY <2>3 DEF MxInit
    <2> QED
      BY <2>3, <2>4 DEF GaugesShown, MxInit
  <1>7. mxObserved \in 0 .. MaxObserved
    BY MetricsAssumption DEF MxInit
  <1> QED
    BY <1>1, <1>3, <1>4, <1>5, <1>6, <1>7 DEF MxInv

---------------------------------------------------------------------------
(* What a call does to the histograms, h being that of its labels.            *)
OneMore(hist, h, before, after) ==
    /\ DOMAIN after = DOMAIN hist \cup {h} /\ after = [l \in DOMAIN after |-> after[l]]
    /\ \A l \in DOMAIN hist : l # h => after[l] = hist[l]
    /\ before \in Histogram /\ after[h] \in Histogram
    /\ \A b \in 1 .. 2 : after[h].buckets[b] >= before.buckets[b]
    /\ after[h].count = before.count + 1
    /\ before.buckets[1] <= before.buckets[2] /\ before.buckets[2] <= before.count
        => after[h].buckets[1] <= after[h].buckets[2] /\ after[h].buckets[2] <= after[h].count

LEMMA Observed ==
    ASSUME NEW hist, NEW h, NEW latency \in Int, h \in DOMAIN hist => hist[h] \in Histogram,
           NEW after, after = ObserveHistogram(hist, h, latency),
           NEW before, before = ValueOf(hist, h, NoHistogram)
    PROVE  OneMore(hist, h, before, after)
  <1>2. DOMAIN Buckets = 1 .. 2 /\ Buckets[1] = 1 /\ Buckets[2] = 2
    BY DEF Buckets
  <1>3. NoHistogram \in Histogram
    BY <1>2 DEF NoHistogram, Histogram
  <1>4. before \in Histogram
    BY <1>3 DEF ValueOf
  <1>5. PICK seen : seen = [b \in 1 .. 2 |-> before.buckets[b] + IF latency <= Buckets[b] THEN 1 ELSE 0]
    BY Zenon
  <1>6. PICK value : value = [buckets |-> seen, count |-> before.count + 1]
    BY Zenon
  <1>7. before.buckets[1] \in Nat /\ before.buckets[2] \in Nat /\ before.count \in Nat
    BY <1>4 DEF Histogram
  <1>8. /\ seen[1] = before.buckets[1] + IF latency <= 1 THEN 1 ELSE 0
        /\ seen[2] = before.buckets[2] + IF latency <= 2 THEN 1 ELSE 0
        /\ seen = [b \in 1 .. 2 |-> seen[b]]
    BY <1>2, <1>5
  <1>9. /\ seen[1] \in Nat /\ seen[1] >= before.buckets[1]
        /\ seen[2] \in Nat /\ seen[2] >= before.buckets[2]
    BY <1>7, <1>8
  <1>10. \A b \in 1 .. 2 : seen[b] \in Nat /\ seen[b] >= before.buckets[b]
    <2>1. \A b \in 1 .. 2 : b = 1 \/ b = 2
      OBVIOUS
    <2> QED
      BY <1>9, <2>1
  <1>11. value.buckets = seen /\ value.count = before.count + 1 /\ value \in Histogram
    BY <1>6, <1>7, <1>8, <1>10 DEF Histogram
  <1>13. after = SetGauge(hist, h, value)
    BY <1>2, <1>5, <1>6 DEF ObserveHistogram
  <1>14. /\ DOMAIN after = DOMAIN hist \cup {h} /\ after = [l \in DOMAIN after |-> after[l]]
         /\ after[h] = value /\ \A l \in DOMAIN hist : l # h => after[l] = hist[l]
    BY <1>13 DEF SetGauge
  <1>15. before.buckets[1] <= before.buckets[2] /\ before.buckets[2] <= before.count
            => seen[1] <= seen[2] /\ seen[2] <= value.count
    BY <1>7, <1>8, <1>11
  <1> QED
    BY <1>4, <1>10, <1>11, <1>14, <1>15 DEF OneMore

LEMMA MxObserveInv ==
    ASSUME MxInv, NEW q \in RouteCalls, NEW latency \in Latencies, ObserveCall(q, latency)
    PROVE  MxInv' /\ MxFinal
  <1>1. PICK answer, R, F, P, f, g, hist, hist2, h0 :
            /\ answer = RouteAnswer(q) /\ R = RequestLabels(q.route, answer.status)
            /\ F = FailureLabels(q.route, answer) /\ P = PaymentLabels(q.route, answer.payment)
            /\ f = mxCounters /\ g = mxCounters' /\ hist = mxHistograms /\ hist2 = mxHistograms'
            /\ h0 = [route |-> q.route, outcome |-> ClassifyOutcome(answer.status)]
    BY Zenon
  <1>2. PICK A : A = {R} \cup F \cup P
    BY Zenon
  <1>3. g = IncrementAll(f, A) /\ hist2 = ObserveHistogram(hist, h0, latency) /\ latency \in Int
    BY <1>1, <1>2, MetricsAssumption DEF ObserveCall
  <1>4. GoodCounters(f) /\ RoutesAgree(f) /\ HistogramsAgree(f, hist)
    BY <1>1 DEF MxInv
  <1>5. /\ answer.status = 200 \/ answer.status >= 400
        /\ q.route \in MxRoutes
    BY <1>1, AnswerTells
  <1>6. /\ R.metric = "requests" /\ R.route = q.route /\ R.outcome = ClassifyOutcome(answer.status)
        /\ answer.status = 200 => F = {}
        /\ answer.status >= 400 => \E x : F = {x}
        /\ \A x \in F : x.metric = "failures"
        /\ P = {} \/ \E x : P = {x}
        /\ \A x \in P : x.metric = "payments"
    <2>1. TellsCall(q, answer, R, F, P)
      BY <1>1, CallTells
    <2> QED
      BY <2>1, Zenon DEF TellsCall
  <1>7. IsFiniteSet(A)
    <2>1. IsFiniteSet({}) /\ \A x : IsFiniteSet({x})
      BY FS_Singleton, FS_EmptySet, Zenon
    <2>2. IsFiniteSet(F)
      <3>1. F = {} \/ \E x : F = {x}
        BY <1>5, <1>6, Zenon
      <3> QED
        BY <2>1, <3>1
    <2>3. IsFiniteSet(P)
      BY <1>6, <2>1, Zenon
    <2>4. IsFiniteSet({R} \cup F)
      BY <2>1, <2>2, FS_Union, Zenon
    <2>5. IsFiniteSet(({R} \cup F) \cup P)
      BY <2>3, <2>4, FS_Union, Zenon
    <2> QED
      BY <1>2, <2>5
  <1>8. GoodCounters(g) /\ DOMAIN g = DOMAIN f \cup A /\ \A l \in DOMAIN f : g[l] >= f[l]
    BY <1>3, <1>4, <1>7, Incremented, Zenon
  <1>9. ASSUME NEW route
        PROVE  /\ SumOver(f, FailedIn(f, route)) = SumOver(f, FailuresIn(f, route))
                    => SumOver(g, FailedIn(g, route)) = SumOver(g, FailuresIn(g, route))
               /\ SumOver(f, AcceptedIn(f, route)) = SumOver(f, SettledIn(f, route))
                    => SumOver(g, AcceptedIn(g, route)) = SumOver(g, SettledIn(g, route))
               /\ \A outcome : LET h == [route |-> route, outcome |-> outcome] IN
                    SumOver(g, CountedIn(g, h)) = SumOver(f, CountedIn(f, h))
                        + IF route = q.route /\ outcome = R.outcome THEN 1 ELSE 0
    BY <1>1, <1>2, <1>3, <1>4, CallKeepsAgreement
  <1>10. RoutesAgree(g)
    BY <1>4, <1>9 DEF RoutesAgree
  <1>11. PICK before : before = ValueOf(hist, h0, NoHistogram)
    OBVIOUS
  <1>12. /\ DOMAIN hist2 = DOMAIN hist \cup {h0} /\ hist2 = [l \in DOMAIN hist2 |-> hist2[l]]
         /\ \A l \in DOMAIN hist : l # h0 => hist2[l] = hist[l]
         /\ hist2[h0] \in Histogram
         /\ \A b \in 1 .. 2 : hist2[h0].buckets[b] >= before.buckets[b]
         /\ hist2[h0].count = before.count + 1
         /\ (before.buckets[1] <= before.buckets[2] /\ before.buckets[2] <= before.count
                => hist2[h0].buckets[1] <= hist2[h0].buckets[2] /\ hist2[h0].buckets[2] <= hist2[h0].count)
    <2>1. h0 \in DOMAIN hist => hist[h0] \in Histogram
      BY <1>4 DEF HistogramsAgree
    <2>2. latency \in Int
      BY <1>3
    <2>3. OneMore(hist, h0, before, hist2)
      BY <1>3, <1>11, <2>1, <2>2, Observed
    <2> QED
      BY <2>3 DEF OneMore
  <1>13. before.buckets[1] <= before.buckets[2] /\ before.buckets[2] <= before.count
         /\ before.count = SumOver(f, CountedIn(f, h0))
    <2>1. CASE h0 \in DOMAIN hist
      BY <1>4, <1>11, <2>1 DEF HistogramsAgree, ValueOf
    <2>2. CASE h0 \notin DOMAIN hist
      <3>1. before = NoHistogram
        BY <1>11, <2>2 DEF ValueOf
      <3>2. before.buckets[1] = 0 /\ before.buckets[2] = 0 /\ before.count = 0
        <4>1. DOMAIN Buckets = 1 .. 2
          BY DEF Buckets
        <4> QED
          BY <3>1, <4>1 DEF NoHistogram
      <3>3. CountedIn(f, h0) = {}
        <4> SUFFICES ASSUME NEW l \in CountedIn(f, h0) PROVE FALSE
          OBVIOUS
        <4>1. l \in DOMAIN f /\ l.metric = "requests" /\ l.route = h0.route /\ l.outcome = h0.outcome
          BY DEF CountedIn, RequestsIn
        <4>2. [route |-> l.route, outcome |-> l.outcome] = h0
          BY <1>1, <4>1
        <4> QED
          BY <1>4, <2>2, <4>1, <4>2 DEF HistogramsAgree
      <3> QED
        BY <3>2, <3>3, SumEmpty
    <2> QED
      BY <2>1, <2>2
  <1>14. hist2[h0].count = SumOver(g, CountedIn(g, h0))
    <2>1. SumOver(g, CountedIn(g, h0)) = SumOver(f, CountedIn(f, h0)) + 1
      BY <1>1, <1>6, <1>9
    <2> QED
      BY <1>12, <1>11, <1>13, <2>1
  <1>15. ASSUME NEW h \in DOMAIN hist2
         PROVE  /\ h = [route |-> h.route, outcome |-> h.outcome]
                /\ hist2[h] \in Histogram
                /\ hist2[h].buckets[1] <= hist2[h].buckets[2] /\ hist2[h].buckets[2] <= hist2[h].count
                /\ hist2[h].count = SumOver(g, CountedIn(g, h))
    <2>1. CASE h = h0
      <3>1. h0 = [route |-> h0.route, outcome |-> h0.outcome]
        BY <1>1
      <3> QED
        BY <1>12, <1>11, <1>13, <1>14, <2>1, <3>1
    <2>2. CASE h # h0
      <3>1. h \in DOMAIN hist /\ hist2[h] = hist[h]
        BY <1>12, <2>2
      <3>2. /\ h = [route |-> h.route, outcome |-> h.outcome]
            /\ hist[h] \in Histogram
            /\ hist[h].buckets[1] <= hist[h].buckets[2] /\ hist[h].buckets[2] <= hist[h].count
            /\ hist[h].count = SumOver(f, CountedIn(f, h))
        BY <1>4, <3>1 DEF HistogramsAgree
      <3>3. ~(h.route = q.route /\ h.outcome = R.outcome)
        BY <1>1, <1>6, <2>2, <3>2
      <3>4. SumOver(g, CountedIn(g, h)) = SumOver(f, CountedIn(f, h)) + 0
        BY <1>9, <3>2, <3>3
      <3>5. hist[h].count \in Nat
        BY <3>2 DEF Histogram
      <3>6. SumOver(g, CountedIn(g, h)) = hist[h].count
        BY <3>2, <3>4, <3>5
      <3> QED
        BY <3>1, <3>2, <3>6
    <2> QED
      BY <2>1, <2>2
  <1>16. ASSUME NEW l \in DOMAIN g, l.metric = "requests"
         PROVE  [route |-> l.route, outcome |-> l.outcome] \in DOMAIN hist2
    <2>1. CASE l \in DOMAIN f
      BY <1>4, <1>12, <1>16, <2>1 DEF HistogramsAgree
    <2>2. CASE l \notin DOMAIN f
      <3>1. l = R
        BY <1>2, <1>6, <1>8, <1>16, <2>2
      <3> QED
        BY <1>1, <1>6, <1>12, <3>1
    <2> QED
      BY <2>1, <2>2
  <1>17. HistogramsAgree(g, hist2)
    BY <1>12, <1>15, <1>16 DEF HistogramsAgree
  <1>18. GaugesShown' /\ mxObserved' \in 0 .. MaxObserved
    <2>1. UNCHANGED <<mxGauges, mxReady, mxRevision, mxDocuments, mxRead>>
      BY DEF ObserveCall
    <2>2. mxObserved' \in 0 .. MaxObserved
      BY MetricsAssumption DEF ObserveCall, MxInv
    <2> QED
      BY <2>1, <2>2 DEF MxInv, GaugesShown
  <1>19. MxInv'
    BY <1>1, <1>8, <1>10, <1>17, <1>18 DEF MxInv
  <1>20. ASSUME NEW h \in DOMAIN hist, NEW b \in 1 .. 2 PROVE hist2[h].buckets[b] >= hist[h].buckets[b]
    <2>1. CASE h = h0
      BY <1>12, <1>11, <2>1 DEF ValueOf
    <2>2. CASE h # h0
      <3>1. hist[h].buckets[b] \in Nat
        BY <1>4 DEF HistogramsAgree, Histogram
      <3> QED
        BY <1>12, <2>2, <3>1
    <2> QED
      BY <2>1, <2>2
  <1>21. MxFinal
    <2>1. DOMAIN Buckets = 1 .. 2
      BY DEF Buckets
    <2>2. \A h \in DOMAIN hist : h \in DOMAIN hist2
      BY <1>12
    <2> QED
      BY <1>1, <1>8, <1>20, <2>1, <2>2 DEF MxFinal
  <1> QED
    BY <1>19, <1>21

(* Nothing that is not of the routes touches what is counted of them.          *)
LEMMA MxOutcomeInv ==
    ASSUME MxInv, NEW labels \in Outcomes, RecordOutcome(labels)
    PROVE  MxInv' /\ MxFinal
  <1>1. PICK f, g, hist : f = mxCounters /\ g = mxCounters' /\ hist = mxHistograms /\ hist = mxHistograms'
    BY DEF RecordOutcome
  <1>2. g = IncrementAll(f, {labels})
    <2>1. /\ g = [l \in DOMAIN f \cup {labels} |-> IF l = labels THEN ValueOf(f, labels, 0) + 1 ELSE f[l]]
          /\ \A l \in DOMAIN f : f[l] \in Nat
      BY <1>1 DEF RecordOutcome, IncrementCounter, SetGauge, MxInv, GoodCounters
    <2>2. ASSUME NEW l \in DOMAIN f \cup {labels}
          PROVE  ValueOf(f, l, 0) + (IF l \in {labels} THEN 1 ELSE 0)
                    = IF l = labels THEN ValueOf(f, labels, 0) + 1 ELSE f[l]
      BY <2>1 DEF ValueOf
    <2> QED
      BY <2>1, <2>2 DEF IncrementAll
  <1>3. labels.metric \notin {"requests", "failures", "payments"}
    BY MetricsAssumption
  <1>4. GoodCounters(f) /\ RoutesAgree(f) /\ HistogramsAgree(f, hist) /\ IsFiniteSet({labels})
    BY <1>1, FS_Singleton DEF MxInv
  <1>5. GoodCounters(g) /\ DOMAIN g = DOMAIN f \cup {labels} /\ \A l \in DOMAIN f : g[l] >= f[l]
    BY <1>2, <1>4, Incremented, Zenon
  <1>6. ASSUME NEW route
        PROVE  /\ SumOver(g, FailedIn(g, route)) = SumOver(f, FailedIn(f, route))
               /\ SumOver(g, FailuresIn(g, route)) = SumOver(f, FailuresIn(f, route))
               /\ SumOver(g, AcceptedIn(g, route)) = SumOver(f, AcceptedIn(f, route))
               /\ SumOver(g, SettledIn(g, route)) = SumOver(f, SettledIn(f, route))
               /\ \A outcome : SumOver(g, CountedIn(g, [route |-> route, outcome |-> outcome]))
                                = SumOver(f, CountedIn(f, [route |-> route, outcome |-> outcome]))
    <2>1. \A l \in {labels} : l.metric \in {"requests", "failures", "payments"} => l.route # route
      BY <1>3
    <2> QED
      BY <1>2, <1>4, <2>1, OtherRoute
  <1>7. RoutesAgree(g)
    BY <1>4, <1>6 DEF RoutesAgree
  <1>8. HistogramsAgree(g, hist)
    <2>1. ASSUME NEW h \in DOMAIN hist
          PROVE  /\ h = [route |-> h.route, outcome |-> h.outcome]
                 /\ hist[h] \in Histogram
                 /\ hist[h].buckets[1] <= hist[h].buckets[2] /\ hist[h].buckets[2] <= hist[h].count
                 /\ hist[h].count = SumOver(g, CountedIn(g, h))
      <3>1. /\ h = [route |-> h.route, outcome |-> h.outcome]
            /\ hist[h] \in Histogram
            /\ hist[h].buckets[1] <= hist[h].buckets[2] /\ hist[h].buckets[2] <= hist[h].count
            /\ hist[h].count = SumOver(f, CountedIn(f, h))
        BY <1>4 DEF HistogramsAgree
      <3>2. SumOver(g, CountedIn(g, h)) = SumOver(f, CountedIn(f, h))
        BY <1>6, <3>1
      <3> QED
        BY <3>1, <3>2
    <2>2. \A l \in DOMAIN g : l.metric = "requests" => [route |-> l.route, outcome |-> l.outcome] \in DOMAIN hist
      BY <1>3, <1>4, <1>5 DEF HistogramsAgree
    <2> QED
      BY <1>4, <2>1, <2>2 DEF HistogramsAgree
  <1>9. GaugesShown' /\ mxObserved' \in 0 .. MaxObserved
    <2>1. UNCHANGED <<mxGauges, mxReady, mxRevision, mxDocuments, mxRead>>
      BY DEF RecordOutcome
    <2>2. mxObserved' \in 0 .. MaxObserved
      BY MetricsAssumption DEF RecordOutcome, MxInv
    <2> QED
      BY <2>1, <2>2 DEF MxInv, GaugesShown
  <1>10. MxInv'
    BY <1>1, <1>5, <1>7, <1>8, <1>9 DEF MxInv
  <1>11. MxFinal
    <2>1. DOMAIN Buckets = 1 .. 2
      BY DEF Buckets
    <2>2. \A h \in DOMAIN hist : \A b \in 1 .. 2 : hist[h].buckets[b] >= hist[h].buckets[b]
      <3>1. \A h \in DOMAIN hist : \A b \in 1 .. 2 : hist[h].buckets[b] \in Nat
        BY <1>4 DEF HistogramsAgree, Histogram
      <3> QED
        BY <3>1
    <2> QED
      BY <1>1, <1>5, <2>1, <2>2 DEF MxFinal
  <1> QED
    BY <1>10, <1>11

---------------------------------------------------------------------------
Role == {"active", "previous"}

(* Exporting new after old leaves the gauges of new.                          *)
ReplacedBy(old, new) ==
    (DOMAIN GaugesOf(old) \cup DOMAIN GaugesOf(new)) \ GaugesWithout(new) = DOMAIN GaugesOf(new)

(* Every gauge of one document of the registry is set or deleted by another.    *)
LEMMA GaugesNamed ==
    ASSUME NEW services, NEW old \in KeyDocument(services), NEW new \in KeyDocument(services)
    PROVE  /\ ReplacedBy(old, new)
           /\ (DOMAIN GaugesOf(new)) \ GaugesWithout(new) = DOMAIN GaugesOf(new)
           /\ GaugesOf(new) = [l \in DOMAIN GaugesOf(new) |-> GaugesOf(new)[l]]
  <1>1. DOMAIN old = services /\ DOMAIN new = services
    BY DEF KeyDocument
  <1>2. PICK generations, expiries :
            /\ generations = {GenerationLabels(s) : s \in services}
            /\ expiries = {ExpiryLabels(k[1], k[2]) : k \in services \X Role}
    BY Zenon
  <1>3. ASSUME NEW d, DOMAIN d = services
        PROVE  /\ generations \subseteq DOMAIN GaugesOf(d)
               /\ DOMAIN GaugesOf(d) \subseteq generations \cup expiries
               /\ GaugesOf(d) = [l \in DOMAIN GaugesOf(d) |-> GaugesOf(d)[l]]
    <2>1. PICK finite : finite = {k \in services \X Role : d[k[1]][k[2]] # 0}
      BY Zenon
    <2>2. DOMAIN GaugesOf(d) = {GenerationLabels(s) : s \in services} \cup {ExpiryLabels(k[1], k[2]) : k \in finite}
      BY <1>3, <2>1 DEF GaugesOf, Role
    <2>3. {ExpiryLabels(k[1], k[2]) : k \in finite} \subseteq expiries
      BY <1>2, <2>1
    <2>4. GaugesOf(d) = [l \in DOMAIN GaugesOf(d) |-> GaugesOf(d)[l]]
      BY DEF GaugesOf
    <2> QED
      BY <1>2, <2>2, <2>3, <2>4
  <1>4. GaugesWithout(new) = expiries \ DOMAIN GaugesOf(new)
    BY <1>1, <1>2 DEF GaugesWithout, Role
  <1>5. /\ DOMAIN GaugesOf(old) \subseteq generations \cup expiries
        /\ generations \subseteq DOMAIN GaugesOf(new)
        /\ GaugesOf(new) = [l \in DOMAIN GaugesOf(new) |-> GaugesOf(new)[l]]
    BY <1>1, <1>3
  <1> QED
    BY <1>4, <1>5 DEF ReplacedBy

LEMMA MxDocumentInv ==
    ASSUME MxInv, NEW s, NEW terms \in KeyTerms, CommitDocument(s, terms)
    PROVE  GaugesShown'
  <1>1. PICK services : mxDocuments \in Seq(KeyDocument(services))
    BY DEF MxInv, GaugesShown
  <1>2. PICK n, last : n = Len(mxDocuments) /\ last = mxDocuments[n]
    BY Zenon
  <1>3. n \in Nat /\ n >= 1 /\ last \in KeyDocument(services)
    BY <1>1, <1>2 DEF MxInv, GaugesShown
  <1>4. PICK key : key = [generation |-> last[s].generation + 1, active |-> terms.active, previous |-> terms.previous]
    BY Zenon
  <1>5. PICK new : new = [last EXCEPT ![s] = key]
    BY Zenon
  <1>6. s \in services /\ mxDocuments' = Append(mxDocuments, new)
    BY <1>2, <1>3, <1>4, <1>5 DEF CommitDocument, KeyDocument
  <1>7. key \in [generation : Nat, active : DeadlinesOf("active"), previous : DeadlinesOf("previous")]
    <2>1. last[s].generation \in Nat
      BY <1>3, <1>6 DEF KeyDocument
    <2>2. terms.active \in DeadlinesOf("active") /\ terms.previous \in DeadlinesOf("previous")
      BY DEF DeadlinesOf
    <2> QED
      BY <1>4, <2>1, <2>2
  <1>8. new \in KeyDocument(services)
    BY <1>3, <1>5, <1>6, <1>7 DEF KeyDocument
  <1>9. /\ mxDocuments' \in Seq(KeyDocument(services)) /\ Len(mxDocuments') = n + 1
        /\ \A i \in 1 .. n : mxDocuments'[i] = mxDocuments[i]
    BY <1>1, <1>2, <1>6, <1>8
  <1>10. UNCHANGED <<mxGauges, mxReady, mxRevision, mxRead>>
    BY DEF CommitDocument, mxStore
  <1>11. 0 .. n \subseteq 0 .. n + 1
    BY <1>3
  <1>12. mxReady = 1 => mxRevision \in 1 .. n
    BY <1>2, <1>3 DEF MxInv, GaugesShown
  <1>13. mxReady' = 1 => mxRevision' # 0 /\ mxGauges' = GaugesOf(mxDocuments'[mxRevision'])
    BY <1>9, <1>10, <1>12 DEF MxInv, GaugesShown
  <1>14. mxRead' \in [Exporters -> 0 .. n + 1]
    BY <1>2, <1>10, <1>11 DEF MxInv, GaugesShown
  <1>15. mxRevision' \in 0 .. n + 1
    BY <1>2, <1>10, <1>11 DEF MxInv, GaugesShown
  <1> QED
    BY <1>3, <1>9, <1>10, <1>13, <1>14, <1>15 DEF MxInv, GaugesShown

LEMMA MxReadInv ==
    ASSUME MxInv, NEW x \in Exporters, ReadDocument(x)
    PROVE  GaugesShown'
  <1>1. /\ mxRead' = [mxRead EXCEPT ![x] = Len(mxDocuments)]
        /\ UNCHANGED <<mxGauges, mxReady, mxRevision, mxDocuments>>
    BY DEF ReadDocument, mxStore
  <1>2. PICK n : n = Len(mxDocuments)
    BY Zenon
  <1>3. n \in Nat /\ n \in 0 .. n /\ mxRead \in [Exporters -> 0 .. n]
    BY <1>2 DEF MxInv, GaugesShown
  <1>4. mxRead' \in [Exporters -> 0 .. n]
    BY <1>1, <1>2, <1>3
  <1> QED
    BY <1>1, <1>2, <1>4 DEF MxInv, GaugesShown

(* What a document exports is all of it, whatever was shown before.            *)
LEMMA MxRecordInv ==
    ASSUME MxInv, NEW x \in Exporters, RecordRegistryState(x)
    PROVE  GaugesShown'
  <1>1. PICK services : mxDocuments \in Seq(KeyDocument(services))
    BY DEF MxInv, GaugesShown
  <1>2. PICK n, r, document, set :
            n = Len(mxDocuments) /\ r = mxRead[x] /\ document = mxDocuments[r] /\ set = GaugesOf(document)
    BY Zenon
  <1>3. n \in Nat /\ n >= 1 /\ r \in 1 .. n /\ mxRead \in [Exporters -> 0 .. n]
    <2>1. n \in Nat /\ n >= 1 /\ mxRead \in [Exporters -> 0 .. n]
      BY <1>2 DEF MxInv, GaugesShown
    <2>2. r \in 0 .. n /\ r # 0
      BY <1>2, <2>1 DEF RecordRegistryState
    <2> QED
      BY <2>1, <2>2
  <1>4. document \in KeyDocument(services)
    BY <1>1, <1>2, <1>3
  <1>5. /\ mxReady' = 1 /\ mxRevision' = r /\ mxDocuments' = mxDocuments
        /\ mxGauges' = [l \in (DOMAIN mxGauges \cup DOMAIN set) \ GaugesWithout(document)
                            |-> ValueOf(set, l, ValueOf(mxGauges, l, 0))]
        /\ mxRead' = [mxRead EXCEPT ![x] = 0]
    BY <1>2 DEF RecordRegistryState
  <1>6. (DOMAIN mxGauges \cup DOMAIN set) \ GaugesWithout(document) = DOMAIN set
    <2>1. CASE mxReady = 0
      <3>1. DOMAIN mxGauges = {}
        BY <2>1 DEF MxInv, GaugesShown
      <3> QED
        BY <1>2, <1>4, <3>1, GaugesNamed, Zenon
    <2>2. CASE mxReady = 1
      <3>1. mxRevision \in 1 .. n /\ mxGauges = GaugesOf(mxDocuments[mxRevision])
        BY <1>2, <1>3, <2>2 DEF MxInv, GaugesShown
      <3>2. mxDocuments[mxRevision] \in KeyDocument(services)
        BY <1>1, <1>2, <3>1
      <3>3. PICK old : old = mxDocuments[mxRevision]
        OBVIOUS
      <3>4. old \in KeyDocument(services) /\ mxGauges = GaugesOf(old)
        BY <3>1, <3>2, <3>3
      <3>5. (DOMAIN GaugesOf(old) \cup DOMAIN GaugesOf(document)) \ GaugesWithout(document)
                = DOMAIN GaugesOf(document)
        <4>1. old \in KeyDocument(services) /\ document \in KeyDocument(services)
          BY <1>4, <3>4
        <4>2. ReplacedBy(old, document)
          BY <4>1, GaugesNamed, Zenon
        <4> QED
          BY <4>2 DEF ReplacedBy
      <3>6. set = GaugesOf(document)
        BY <1>2
      <3> QED
        BY <3>4, <3>5, <3>6
    <2> QED
      BY <2>1, <2>2 DEF MxInv, GaugesShown
  <1>7. mxGauges' = set
    <2>1. mxGauges' = [l \in DOMAIN set |-> ValueOf(set, l, ValueOf(mxGauges, l, 0))]
      BY <1>5, <1>6
    <2>2. \A l \in DOMAIN set : ValueOf(set, l, ValueOf(mxGauges, l, 0)) = set[l]
      BY DEF ValueOf
    <2>3. set = [l \in DOMAIN set |-> set[l]]
      BY <1>2, <1>4, GaugesNamed, Zenon
    <2> QED
      BY <2>1, <2>2, <2>3
  <1>8. mxRead' \in [Exporters -> 0 .. n]
    <2>1. 0 \in 0 .. n
      BY <1>3
    <2> QED
      BY <1>3, <1>5, <2>1
  <1>9. r \in 0 .. n /\ r # 0
    BY <1>3
  <1> QED
    BY <1>1, <1>2, <1>3, <1>5, <1>7, <1>8, <1>9 DEF GaugesShown

LEMMA MxUnavailableInv ==
    ASSUME MxInv, NEW x \in Exporters, RecordRegistryUnavailable(x)
    PROVE  GaugesShown'
  <1>1. PICK n : n = Len(mxDocuments)
    BY Zenon
  <1>2. n \in Nat /\ 0 \in 0 .. n /\ mxRead \in [Exporters -> 0 .. n]
    BY <1>1 DEF MxInv, GaugesShown
  <1>3. /\ mxReady' = 0 /\ mxRevision' = 0 /\ mxGauges' = <<>> /\ mxDocuments' = mxDocuments
        /\ mxRead' = [mxRead EXCEPT ![x] = 0]
    BY DEF RecordRegistryUnavailable
  <1>4. mxRead' \in [Exporters -> 0 .. n]
    BY <1>2, <1>3
  <1> QED
    BY <1>1, <1>2, <1>3, <1>4 DEF MxInv, GaugesShown

LEMMA MxStepInv == MxInv /\ [MxNext]_mxVars => MxInv' /\ MxFinal
  <1> SUFFICES ASSUME MxInv, [MxNext]_mxVars PROVE MxInv' /\ MxFinal
    OBVIOUS
  <1>1. ASSUME UNCHANGED <<mxCounters, mxHistograms, mxObserved>>, GaugesShown'
        PROVE  MxInv' /\ MxFinal
    <2>1. MxInv'
      <3>1. mxCounters' = mxCounters /\ mxHistograms' = mxHistograms /\ mxObserved' = mxObserved
        BY <1>1
      <3>2. /\ GoodCounters(mxCounters) /\ RoutesAgree(mxCounters)
            /\ HistogramsAgree(mxCounters, mxHistograms) /\ mxObserved \in 0 .. MaxObserved
        BY DEF MxInv
      <3>3. GoodCounters(mxCounters)'
        BY <3>1, <3>2 DEF GoodCounters
      <3>4. RoutesAgree(mxCounters)'
        BY <3>1, <3>2, Zenon DEF RoutesAgree, FailedIn, FailuresIn, AcceptedIn, SettledIn, RequestsIn
      <3>5. HistogramsAgree(mxCounters, mxHistograms)'
        BY <3>1, <3>2 DEF HistogramsAgree, CountedIn, RequestsIn
      <3> QED
        BY <1>1, <3>1, <3>2, <3>3, <3>4, <3>5 DEF MxInv
    <2>2. MxFinal
      <3>1. \A l \in DOMAIN mxCounters : mxCounters[l] \in Nat
        BY DEF MxInv, GoodCounters
      <3>2. \A h \in DOMAIN mxHistograms : \A b \in 1 .. 2 : mxHistograms[h].buckets[b] \in Nat
        BY DEF MxInv, HistogramsAgree, Histogram
      <3>3. DOMAIN Buckets = 1 .. 2
        BY DEF Buckets
      <3> QED
        BY <1>1, <3>1, <3>2, <3>3 DEF MxFinal
    <2> QED
      BY <2>1, <2>2
  <1>2. ASSUME NEW q \in RouteCalls, NEW latency \in Latencies, ObserveCall(q, latency)
        PROVE  MxInv' /\ MxFinal
    BY <1>2, MxObserveInv
  <1>3. ASSUME NEW labels \in Outcomes, RecordOutcome(labels)
        PROVE  MxInv' /\ MxFinal
    BY <1>3, MxOutcomeInv
  <1>4. ASSUME NEW s, NEW terms \in KeyTerms, CommitDocument(s, terms)
        PROVE  MxInv' /\ MxFinal
    <2>1. UNCHANGED <<mxCounters, mxHistograms, mxObserved>>
      BY <1>4 DEF CommitDocument, mxStore
    <2> QED
      BY <1>1, <1>4, <2>1, MxDocumentInv
  <1>5. ASSUME NEW x \in Exporters, ReadDocument(x) \/ RecordRegistryState(x) \/ RecordRegistryUnavailable(x)
        PROVE  MxInv' /\ MxFinal
    <2>1. UNCHANGED <<mxCounters, mxHistograms, mxObserved>>
      BY <1>5 DEF ReadDocument, RecordRegistryState, RecordRegistryUnavailable, mxStore
    <2>2. GaugesShown'
      BY <1>5, MxReadInv, MxRecordInv, MxUnavailableInv
    <2> QED
      BY <1>1, <2>1, <2>2
  <1>6. CASE UNCHANGED mxVars
    <2>1. GaugesShown' /\ UNCHANGED <<mxCounters, mxHistograms, mxObserved>>
      BY <1>6 DEF mxVars, mxStore, MxInv, GaugesShown
    <2> QED
      BY <1>1, <2>1
  <1> QED
    BY <1>2, <1>3, <1>4, <1>5, <1>6 DEF MxNext

(* CountOf is the sum of the counters of the store.                          *)
LEMMA CountIsSum == \A labels : CountOf(labels) = SumOver(mxCounters, labels)
  BY DEF CountOf, SumOver

LEMMA MxInvSound == MxInv => MxSound /\ MxTypeOK
  <1> SUFFICES ASSUME MxInv PROVE MxSound /\ MxTypeOK
    OBVIOUS
  <1>1. PICK shown : shown = MetricsSnapshot
    OBVIOUS
  <1>2. /\ shown.gauges = mxGauges /\ shown.ready = mxReady
        /\ shown.revisions = IF mxRevision = 0 THEN {} ELSE {mxRevision}
        /\ shown.histograms = [l \in DOMAIN mxHistograms |-> Rendered(mxHistograms[l])]
    BY <1>1 DEF MetricsSnapshot
  <1>3. /\ shown.ready = 1 => \E r \in shown.revisions : shown.gauges = GaugesOf(mxDocuments[r])
        /\ shown.ready = 0 => shown.revisions = {} /\ shown.gauges = <<>>
    BY <1>2 DEF MxInv, GaugesShown
  <1>4. ASSUME NEW route \in MxRoutes
        PROVE  /\ CountOf(FailedOf(route)) = CountOf(FailuresOf(route))
               /\ CountOf(AcceptedOf(route)) = CountOf(SettledOf(route))
    <2>1. /\ FailedOf(route) = FailedIn(mxCounters, route) /\ FailuresOf(route) = FailuresIn(mxCounters, route)
          /\ AcceptedOf(route) = AcceptedIn(mxCounters, route) /\ SettledOf(route) = SettledIn(mxCounters, route)
      BY DEF FailedOf, FailuresOf, AcceptedOf, SettledOf, RequestsOf,
             FailedIn, FailuresIn, AcceptedIn, SettledIn, RequestsIn
    <2> QED
      BY <2>1, CountIsSum DEF MxInv, RoutesAgree
  <1>5. ASSUME NEW h \in DOMAIN shown.histograms
        PROVE  LET line == shown.histograms[h] IN
               /\ \A b \in 1 .. Len(line) - 1 : line[b] <= line[b + 1]
               /\ line[Len(line)] = CountOf(CountedOf(h))
    <2>1. PICK g, line : g = mxHistograms[h] /\ line = shown.histograms[h]
      OBVIOUS
    <2>2. h \in DOMAIN mxHistograms /\ line = Append(g.buckets, g.count)
      BY <1>2, <2>1 DEF Rendered
    <2>3. /\ g \in Histogram /\ g.buckets[1] <= g.buckets[2] /\ g.buckets[2] <= g.count
          /\ g.count = SumOver(mxCounters, CountedIn(mxCounters, h))
      BY <2>1, <2>2 DEF MxInv, HistogramsAgree
    <2>4. g.buckets \in Seq(Nat) /\ Len(g.buckets) = 2 /\ g.count \in Nat
      <3>1. g.buckets \in [1 .. 2 -> Nat] /\ g.count \in Nat
        BY <2>3 DEF Histogram
      <3>2. g.buckets \in Seq(Nat)
        BY <3>1, SeqDef, Zenon
      <3>3. Len(g.buckets) = 2
        BY <3>1, <3>2
      <3> QED
        BY <3>1, <3>2, <3>3
    <2>5. Len(line) = 3 /\ line[1] = g.buckets[1] /\ line[2] = g.buckets[2] /\ line[3] = g.count
      <3>1. PICK buckets, count : buckets = g.buckets /\ count = g.count
        OBVIOUS
      <3>2. /\ buckets \in Seq(Nat) /\ count \in Nat /\ Len(buckets) = 2
            /\ line = Append(buckets, count)
        BY <2>2, <2>4, <3>1
      <3>3. Len(line) = Len(buckets) + 1 /\ line[Len(buckets) + 1] = count
        BY <3>2, AppendProperties
      <3>4. line[1] = buckets[1] /\ line[2] = buckets[2]
        BY <3>2
      <3>5. Len(line) = 3 /\ line[3] = count
        BY <3>2, <3>3
      <3> QED
        BY <3>1, <3>4, <3>5
    <2>6. \A b \in 1 .. Len(line) - 1 : line[b] <= line[b + 1]
      <3>1. ASSUME NEW b \in 1 .. Len(line) - 1 PROVE b = 1 \/ b = 2
        BY <2>5
      <3>2. line[1] <= line[1 + 1] /\ line[2] <= line[2 + 1]
        BY <2>3, <2>5
      <3> QED
        BY <3>1, <3>2
    <2>7. CountedOf(h) = CountedIn(mxCounters, h)
      BY DEF CountedOf, RequestsOf, CountedIn, RequestsIn
    <2> QED
      BY <2>1, <2>3, <2>5, <2>6, <2>7, CountIsSum
  <1>6. MxSound
    BY <1>1, <1>3, <1>4, <1>5 DEF MxSound
  <1>7. MxTypeOK
    <2>1. \A l \in DOMAIN mxCounters : mxCounters[l] \in Nat
      BY DEF MxInv, GoodCounters
    <2>2. \A h \in DOMAIN mxHistograms :
            mxHistograms[h].count \in Nat /\ mxHistograms[h].buckets \in [DOMAIN Buckets -> Nat]
      <3>1. DOMAIN Buckets = 1 .. 2
        BY DEF Buckets
      <3> QED
        BY <3>1 DEF MxInv, HistogramsAgree, Histogram
    <2> QED
      BY <2>1, <2>2 DEF MxTypeOK, MxInv, GaugesShown
  <1> QED
    BY <1>6, <1>7

(* Theorem: what a scrape of the metrics shows agrees with itself, whatever was  *)
(* exported before and in whatever order: the gauges are those of one document    *)
(* in full, failures and payments those of the requests, and the buckets of a     *)
(* histogram cumulative (MxSound).                                           *)
THEOREM MetricsSound == MxInit /\ [][MxNext]_mxVars => []MxSound
  BY MxInitInv, MxStepInv, MxInvSound, PTL

(* Theorem: no counter and no bucket ever falls (MxFinal).                    *)
THEOREM MetricsFinal == MxInit /\ [][MxNext]_mxVars => [][MxFinal]_mxVars
  <1>1. MxInv /\ [MxNext]_mxVars => MxInv' /\ [MxFinal]_mxVars
    BY MxStepInv
  <1> QED
    BY <1>1, MxInitInv, PTL

(***************************************************************************)
(* The types: what the invariants above leave unsaid of the variables of a      *)
(* service (XxTypes) is kept by its steps, and with the invariant gives the      *)
(* type invariant of the service.                                           *)
(***************************************************************************)
(* The rollup shows blocks of the model only, and a poller asks for those it saw. *)
ShTypes ==
    /\ shSeen \subseteq {b.number : b \in ShadowBlocks} /\ shRunning \in BOOLEAN
    /\ shPolls \in 0 .. MaxShadowPolls /\ shStarts \in 0 .. MaxStarts
    /\ \A a \in Adapters : shPoll[a] \in {<<>>, <<"block">>} \cup {<<"transactions", n>> : n \in shSeen}

LEMMA ShInitTypes == ShInit => ShTypes
  <1> SUFFICES ASSUME ShInit PROVE ShTypes
    OBVIOUS
  <1>1. 0 \in 0 .. MaxShadowPolls /\ 0 \in 0 .. MaxStarts
    BY ShadowAssumption
  <1>2. \A a \in Adapters : shPoll[a] = <<>>
    BY DEF ShInit
  <1> QED
    BY <1>1, <1>2, Zenon DEF ShInit, ShTypes

LEMMA ShStepTypes == ShInv /\ ShTypes /\ [ShNext]_shVars => ShTypes'
  <1> SUFFICES ASSUME ShInv, ShTypes, [ShNext]_shVars PROVE ShTypes'
    OBVIOUS
  <1>1. DOMAIN shPoll = Adapters /\ shChain \in ShadowBlocks
    BY DEF ShInv
  <1>2. /\ shSeen \subseteq {b.number : b \in ShadowBlocks} /\ shRunning \in BOOLEAN
        /\ shPolls \in 0 .. MaxShadowPolls /\ shStarts \in 0 .. MaxStarts
        /\ \A a \in Adapters : shPoll[a] \in {<<>>, <<"block">>} \cup {<<"transactions", n>> : n \in shSeen}
    BY DEF ShTypes
  <1>3. CASE MoveRollup \/ TakeEvent \/ UNCHANGED shVars
    BY <1>2, <1>3 DEF ShTypes, MoveRollup, TakeEvent, shVars
  <1>4. CASE StartMonitor
    BY <1>2, <1>4, ShadowAssumption DEF ShTypes, StartMonitor
  <1>5. CASE StopMonitor
    BY <1>2, <1>5, Zenon DEF ShTypes, StopMonitor
  <1>6. ASSUME NEW a \in Adapters, PollBlock(a)
        PROVE  ShTypes'
    <2>1. shPolls' \in 0 .. MaxShadowPolls
      BY <1>2, <1>6, ShadowAssumption DEF PollBlock
    <2>2. shSeen \subseteq shSeen' /\ shSeen' \subseteq {b.number : b \in ShadowBlocks}
      BY <1>1, <1>2, <1>6 DEF PollBlock
    <2>3. PICK next : next = IF shChain.txs = 0 THEN <<"block">> ELSE <<"transactions", shChain.number>>
      BY Zenon
    <2>4. shPoll' = shPoll \/ (shPoll' = [shPoll EXCEPT ![a] = next] /\ shChain.number \in shSeen')
      BY <1>6, <2>3 DEF PollBlock
    <2>5. \A b \in Adapters : shPoll'[b] \in {<<>>, <<"block">>} \cup {<<"transactions", n>> : n \in shSeen'}
      <3>1. CASE shPoll' = shPoll
        BY <1>2, <2>2, <3>1
      <3>2. CASE shPoll' = [shPoll EXCEPT ![a] = next] /\ shChain.number \in shSeen'
        <4>1. next \in {<<>>, <<"block">>} \cup {<<"transactions", n>> : n \in shSeen'}
          BY <2>3, <3>2
        <4> QED
          BY <1>1, <1>2, <2>2, <3>2, <4>1
      <3> QED
        BY <2>4, <3>1, <3>2
    <2> QED
      BY <1>2, <1>6, <2>1, <2>2, <2>5 DEF ShTypes, PollBlock
  <1>7. ASSUME NEW a \in Adapters, shPoll' = [shPoll EXCEPT ![a] = <<"block">>],
               UNCHANGED <<shSeen, shRunning, shPolls, shStarts>>
        PROVE  ShTypes'
    BY <1>1, <1>2, <1>7 DEF ShTypes
  <1>8. ASSUME NEW a \in Adapters, NEW b \in ShadowBlocks, EmitTransactions(a, b)
        PROVE  ShTypes'
    BY <1>7, <1>8, Zenon DEF EmitTransactions
  <1>9. ASSUME NEW a \in Adapters, NEW n \in shSeen, LoseTransactions(a, n)
        PROVE  ShTypes'
    BY <1>7, <1>9, Zenon DEF LoseTransactions
  <1> QED
    BY <1>3, <1>4, <1>5, <1>6, <1>8, <1>9 DEF ShNext

LEMMA ShInvTypeOK == ShInv /\ ShTypes => ShTypeOK
  BY DEF ShInv, ShTypes, ShTypeOK

LEMMA EdInvTypeOK == EdInv => EdTypeOK
  <1> SUFFICES ASSUME EdInv PROVE EdTypeOK
    OBVIOUS
  <1>1. edObjects \in Seq(EdRecord)
    BY DEF EdInv
  <1>2. DOMAIN edObjects = 1 .. Len(edObjects) /\ \A o \in DOMAIN edObjects : edObjects[o] \in EdRecord
    BY <1>1
  <1>3. \A o \in DOMAIN edObjects : edObjects[o].status \in {"pending", "delivered", "retrying", "failed"}
    BY <1>2 DEF EdRecord
  <1> QED
    BY <1>2, <1>3 DEF EdInv, EdTypeOK

LEMMA SmInvTypeOK == SmInv => SmTypeOK
  BY DEF SmInv, SmTypeOK

LEMMA KbInvTypeOK == KbInv => KbTypeOK
  <1> SUFFICES ASSUME KbInv PROVE KbTypeOK
    OBVIOUS
  <1>1. \A g : GoodGraph(g) =>
            /\ g.entries \in [DOMAIN g.entries -> Confidences] /\ DOMAIN g.entries \subseteq KnowledgeIds
            /\ g.relations \in [DOMAIN g.relations -> SUBSET KnowledgeIds]
            /\ DOMAIN g.relations \subseteq KnowledgeIds /\ g.rewritten \subseteq KnowledgeIds
    BY DEF GoodGraph, KbGraphs
  <1>2. ~IsGraph(NoGraph) /\ ~IsGraph(TornFile)
    BY DEF IsGraph, NoGraph, TornFile
  <1>3. \A g \in {kbFile} \cup {kbGraph[s] : s \in KbScripts} : IsGraph(g) => GoodGraph(g)
    BY <1>2 DEF KbInv
  <1> QED
    BY <1>1, <1>3 DEF KbInv, KbTypeOK
=============================================================================
