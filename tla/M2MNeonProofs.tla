------------------------------ MODULE M2MNeonProofs ------------------------------
(***************************************************************************)
(* Proofs about the Neon backend of the service-key registry: for any number *)
(* of requests, mutations, lost connections and crashes, the row only ever    *)
(* moves to a document that extends the one before it.                       *)
(***************************************************************************)
EXTENDS M2MNeonRegistry, TLAPS

(* Every document names the commits it was built on, oldest first and itself    *)
(* last; what it was built on is part of it, and the generations go up.         *)
DocSound(c) ==
    /\ Rev(c) >= 1 /\ AuditOf(c)[Rev(c)] = c
    /\ \A i \in 1..Rev(c) :
         LET k == AuditOf(c)[i]
         IN  /\ k \in 1..Len(docs) /\ Rev(k) = i
             /\ \A j \in 1..i : AuditOf(k)[j] = AuditOf(c)[j]
             /\ docs[k].gen <= docs[c].gen
    /\ docs[c].kind \in {"ROTATED", "ROLLED_BACK"} =>
         /\ docs[c].gen = docs[c].expect + 1
         /\ \A i \in 1..(Rev(c) - 1) : docs[AuditOf(c)[i]].gen <= docs[c].expect

DocsSound == \A c \in 1..Len(docs) : DocSound(c)

InsertsSound == \A c \in inserting : AuditOf(c) = <<c>>

(* The transaction that holds the row lock.                                   *)
TxnSound ==
    /\ txn.state = "none" => txn.client = Nobody
    /\ txn.state \in {"none", "open"} => txn.new = 0
    /\ txn.state = "staged" => txn.new # 0
    /\ txn.state # "none" => row # 0
    /\ txn.new # 0 => AuditOf(txn.new) = Append(AuditOf(row), txn.new)
    /\ txn.client # Nobody => pc[txn.client] \in {"locked", "staged", "commitSent", "rollback"}

(* The document that a request will answer from.                              *)
Result(r) == IF req[r].new = 0 THEN req[r].local ELSE req[r].new

Holds(r, state) == txn.client = r /\ txn.state = state

RequestSound(r) ==
    /\ pc[r] \notin {"inserted", "staged", "commitSent"} => req[r].new = 0
    /\ pc[r] \in {"insert", "inserted"} => floor[r] = {}
    /\ pc[r] = "inserted" => req[r].new # 0 /\ AuditOf(req[r].new) = <<req[r].new>>
    /\ pc[r] = "answered" => InAudit(req[r].local, row)
    /\ pc[r] = "lockRow" => row # 0
    /\ pc[r] = "locked" => Holds(r, "open") /\ req[r].local = row
    /\ pc[r] = "rollback" => Holds(r, "open")
    /\ pc[r] = "staged" => Holds(r, "staged") /\ req[r].new = txn.new
    /\ pc[r] = "commitSent" =>
         \/ Holds(r, "committing") /\ req[r].new = txn.new /\ (req[r].new = 0 => req[r].local = row)
         \/ txn.client # r /\ InAudit(Result(r), row)
    /\ req[r].op \in {"read", "list"} => req[r].expect = 0
    /\ req[r].new # 0 /\ req[r].expect # 0 /\ pc[r] \in {"staged", "commitSent"} =>
         docs[req[r].new].gen = req[r].expect + 1
    /\ pc[r] \in {"answered", "locked", "staged", "commitSent"} =>
         Result(r) # 0 /\ \A a \in floor[r] : InAudit(a[1], Result(r))

NeonInv ==
    /\ TypeOK
    /\ DocsSound
    /\ InsertsSound
    /\ TxnSound
    /\ \A r \in Requests : RequestSound(r)
    /\ AckedDurable
    /\ ReadsCommitted

---------------------------------------------------------------------------
(* Documents.                                                               *)
LEMMA DocType ==
    ASSUME TypeOK, NEW d \in 1..Len(docs)
    PROVE  /\ docs[d].gen \in Nat /\ docs[d].prev \in Nat /\ docs[d].expect \in Nat
           /\ docs[d].audit \in Seq(Nat)
  <1>1. docs \in Seq(Doc)
    BY DEF TypeOK
  <1> HIDE DEF Doc
  <1>2. docs[d] \in Doc
    BY <1>1
  <1> QED
    BY <1>2 DEF Doc

LEMMA AuditType ==
    ASSUME TypeOK, NEW d \in 0..Len(docs)
    PROVE  AuditOf(d) \in Seq(Nat) /\ Rev(d) \in Nat /\ (d = 0 => Rev(d) = 0)
  <1>1. CASE d = 0
    BY <1>1 DEF AuditOf, Rev
  <1>2. CASE d # 0
    <2>1. d \in 1..Len(docs)
      BY <1>2 DEF TypeOK
    <2>2. AuditOf(d) \in Seq(Nat)
      BY <1>2, <2>1, DocType DEF AuditOf
    <2> QED
      BY <1>2, <2>2 DEF Rev
  <1> QED
    BY <1>1, <1>2

LEMMA InAuditDoc ==
    ASSUME TypeOK, DocsSound, NEW d \in 0..Len(docs), NEW c, InAudit(c, d)
    PROVE  c \in 1..Len(docs) /\ d # 0
  <1>1. PICK i \in 1..Rev(d) : AuditOf(d)[i] = c
    BY DEF InAudit
  <1>2. d # 0
    BY <1>1, AuditType
  <1>3. DocSound(d)
    BY <1>2 DEF DocsSound, TypeOK
  <1> QED
    BY <1>1, <1>2, <1>3 DEF DocSound

LEMMA InAuditOfItself ==
    ASSUME TypeOK, DocsSound, NEW d \in 1..Len(docs)
    PROVE  InAudit(d, d)
  <1>1. DocSound(d) /\ Rev(d) \in Nat
    BY AuditType DEF DocsSound
  <1>2. Rev(d) \in 1..Rev(d) /\ AuditOf(d)[Rev(d)] = d
    BY <1>1 DEF DocSound
  <1> QED
    BY <1>2 DEF InAudit

(* What a part of a document was built on is part of the document.             *)
LEMMA InAuditTransitive ==
    ASSUME TypeOK, DocsSound, NEW d \in 0..Len(docs), NEW c, InAudit(c, d), NEW b, InAudit(b, c)
    PROVE  InAudit(b, d)
  <1>1. d \in 1..Len(docs) /\ c \in 1..Len(docs)
    BY InAuditDoc DEF TypeOK
  <1>2. DocSound(d)
    BY <1>1 DEF DocsSound
  <1>3. PICK i \in 1..Rev(d) : AuditOf(d)[i] = c
    BY DEF InAudit
  <1>4. Rev(c) = i /\ \A j \in 1..i : AuditOf(c)[j] = AuditOf(d)[j]
    BY <1>2, <1>3 DEF DocSound
  <1>5. PICK j \in 1..i : AuditOf(c)[j] = b
    BY <1>4 DEF InAudit
  <1>6. Rev(d) \in Nat
    BY AuditType
  <1>7. j \in 1..Rev(d) /\ AuditOf(d)[j] = b
    BY <1>3, <1>4, <1>5, <1>6
  <1> QED
    BY <1>7 DEF InAudit

(* Of two rotations or rollbacks in one document, the later one expected a      *)
(* later generation.                                                        *)
LEMMA ExpectationsGrow ==
    ASSUME TypeOK, DocsSound, NEW d \in 1..Len(docs), NEW i \in 1..Rev(d), NEW j \in 1..Rev(d), i < j,
           docs[AuditOf(d)[i]].kind \in {"ROTATED", "ROLLED_BACK"},
           docs[AuditOf(d)[j]].kind \in {"ROTATED", "ROLLED_BACK"}
    PROVE  docs[AuditOf(d)[i]].expect # docs[AuditOf(d)[j]].expect
  <1> DEFINE a == AuditOf(d)[i]  b == AuditOf(d)[j]
  <1>0. Rev(d) \in Nat
    BY AuditType
  <1>1. DocSound(d)
    BY DEF DocsSound
  <1>2. /\ a \in 1..Len(docs) /\ b \in 1..Len(docs) /\ Rev(b) = j
        /\ \A k \in 1..j : AuditOf(b)[k] = AuditOf(d)[k]
    BY <1>1 DEF DocSound
  <1>3. DocSound(a) /\ DocSound(b)
    BY <1>2 DEF DocsSound
  <1>4. i \in 1..(Rev(b) - 1) /\ AuditOf(b)[i] = a
    BY <1>0, <1>2
  <1>5. docs[a].gen <= docs[b].expect
    BY <1>3, <1>4 DEF DocSound
  <1>6. docs[a].gen = docs[a].expect + 1
    BY <1>3 DEF DocSound
  <1>7. docs[a].gen \in Nat /\ docs[a].expect \in Nat /\ docs[b].expect \in Nat
    BY <1>2, DocType
  <1> HIDE DEF a, b
  <1>8. docs[a].expect # docs[b].expect
    BY <1>5, <1>6, <1>7
  <1> QED
    BY <1>8 DEF a, b

(* A document more.                                                         *)
LEMMA DocumentBuilt ==
    ASSUME TypeOK, DocsSound, NEW d \in 0..Len(docs), NEW doc \in Doc, docs' = Append(docs, doc),
           doc.audit = Append(AuditOf(d), Len(docs) + 1),
           d # 0 => docs[d].gen <= doc.gen,
           doc.kind \in {"ROTATED", "ROLLED_BACK"} => d # 0 /\ doc.gen = doc.expect + 1 /\ doc.expect = docs[d].gen
    PROVE  DocsSound'
  <1>0. PICK n \in Nat \ {0} : n = Len(docs) + 1
    BY DEF TypeOK
  <1>1. /\ Len(docs') = n /\ docs'[n] = doc /\ Len(docs) \in Nat
        /\ \A c \in 1..Len(docs) : docs'[c] = docs[c]
    BY <1>0 DEF TypeOK
  <1>2. \A c \in 0..Len(docs) : AuditOf(c)' = AuditOf(c) /\ Rev(c)' = Rev(c)
    BY <1>1 DEF AuditOf, Rev
  <1>3. ASSUME NEW c \in 1..Len(docs) PROVE DocSound(c)'
    <2>1. DocSound(c)
      BY DEF DocsSound
    <2>2. \A i \in 1..Rev(c) : AuditOf(c)[i] \in 1..Len(docs)
      BY <2>1 DEF DocSound
    <2>3. Rev(c) \in Nat
      BY AuditType
    <2>4. \A i \in 1..(Rev(c) - 1) : i \in 1..Rev(c)
      BY <2>3
    <2> QED
      BY <1>1, <1>2, <2>1, <2>2, <2>4 DEF DocSound
  <1>4. DocSound(n)'
    <2>1. AuditOf(d) \in Seq(Nat) /\ Rev(d) \in Nat
      BY AuditType
    <2>2. AuditOf(n)' = Append(AuditOf(d), n) /\ Rev(n)' = Rev(d) + 1
      BY <1>0, <1>1, <2>1 DEF AuditOf, Rev
    <2>3. AuditOf(n)'[Rev(d) + 1] = n /\ \A i \in 1..Rev(d) : AuditOf(n)'[i] = AuditOf(d)[i]
      BY <2>1, <2>2 DEF Rev
    <2>4. ASSUME NEW i \in 1..Rev(d), NEW k, k = AuditOf(d)[i]
          PROVE  /\ k \in 1..Len(docs) /\ Rev(k)' = i
                 /\ \A j \in 1..i : AuditOf(k)'[j] = AuditOf(n)'[j]
                 /\ docs'[k] = docs[k] /\ d # 0 /\ docs[k].gen <= docs[d].gen
      <3>1. d # 0
        BY AuditType
      <3>2. DocSound(d)
        BY <3>1 DEF DocsSound
      <3>3. /\ k \in 1..Len(docs) /\ Rev(k) = i /\ docs[k].gen <= docs[d].gen
            /\ \A j \in 1..i : AuditOf(k)[j] = AuditOf(d)[j]
        BY <2>4, <3>2 DEF DocSound
      <3>4. AuditOf(k)' = AuditOf(k) /\ Rev(k)' = Rev(k) /\ docs'[k] = docs[k]
        BY <1>1, <1>2, <3>3
      <3>5. \A j \in 1..i : j \in 1..Rev(d)
        BY <2>1
      <3> QED
        BY <2>3, <3>1, <3>3, <3>4, <3>5
    <2>5. docs'[n] = doc /\ n \in 1..Len(docs') /\ doc.gen \in Nat
      BY <1>0, <1>1 DEF Doc
    <2>6. \A i \in 1..(Rev(d) + 1) : i \in 1..Rev(d) \/ i = Rev(d) + 1
      BY <2>1
    <2>7. \A k \in 1..Len(docs) : k \in 1..Len(docs') /\ docs[k].gen \in Nat
      BY <1>0, <1>1, DocType
    <2>8. ASSUME NEW i \in 1..(Rev(d) + 1), NEW k, k = AuditOf(n)'[i]
          PROVE  /\ k \in 1..Len(docs') /\ Rev(k)' = i
                 /\ \A j \in 1..i : AuditOf(k)'[j] = AuditOf(n)'[j]
                 /\ docs'[k].gen <= docs'[n].gen
      <3>1. CASE i \in 1..Rev(d)
        <4>1. k = AuditOf(d)[i]
          BY <2>3, <2>8, <3>1
        <4>2. /\ k \in 1..Len(docs) /\ Rev(k)' = i
              /\ \A j \in 1..i : AuditOf(k)'[j] = AuditOf(n)'[j]
              /\ docs'[k] = docs[k] /\ d # 0 /\ docs[k].gen <= docs[d].gen
          BY <2>4, <3>1, <4>1
        <4>3. d \in 1..Len(docs)
          BY <4>2
        <4>4. docs[k].gen <= doc.gen
          BY <2>5, <2>7, <4>2, <4>3
        <4> QED
          BY <2>5, <2>7, <4>2, <4>4
      <3>2. CASE i = Rev(d) + 1
        <4>1. k = n
          BY <2>3, <2>8, <3>2
        <4>2. k \in 1..Len(docs') /\ docs'[k].gen <= docs'[n].gen
          BY <2>5, <4>1
        <4>3. Rev(k)' = i
          BY <2>2, <3>2, <4>1 DEF Rev, AuditOf
        <4>4. AuditOf(k)' = AuditOf(n)'
          BY <4>1 DEF AuditOf
        <4> QED
          BY <4>2, <4>3, <4>4
      <3> QED
        BY <2>6, <3>1, <3>2
    <2>9. ASSUME doc.kind \in {"ROTATED", "ROLLED_BACK"}
          PROVE  /\ docs'[n].gen = docs'[n].expect + 1
                 /\ \A i \in 1..Rev(d) : docs'[AuditOf(n)'[i]].gen <= docs'[n].expect
      BY <2>3, <2>4, <2>5, <2>9
    <2>10. (Rev(d) + 1) - 1 = Rev(d) /\ Rev(d) + 1 >= 1
      BY <2>1
    <2> QED
      BY <2>2, <2>3, <2>5, <2>8, <2>9, <2>10 DEF DocSound
  <1>5. \A c \in 1..Len(docs') : c \in 1..Len(docs) \/ c = n
    BY <1>0, <1>1
  <1> QED
    BY <1>3, <1>4, <1>5 DEF DocsSound

---------------------------------------------------------------------------
(* Documents are only ever added.                                           *)
DocsGrow == docs' = docs \/ \E doc \in Doc : docs' = Append(docs, doc)

LEMMA Growing ==
    ASSUME TypeOK, DocsGrow
    PROVE  /\ Len(docs) \in Nat /\ Len(docs') \in Nat /\ Len(docs) <= Len(docs') /\ docs' \in Seq(Doc)
           /\ \A c \in 1..Len(docs) : c \in 1..Len(docs') /\ docs'[c] = docs[c]
           /\ \A c \in 0..Len(docs) :
                c \in 0..Len(docs') /\ AuditOf(c)' = AuditOf(c) /\ Rev(c)' = Rev(c)
           /\ \A c \in 0..Len(docs) : \A b : InAudit(b, c)' <=> InAudit(b, c)
  <1>0. docs \in Seq(Doc) /\ Len(docs) \in Nat
    BY DEF TypeOK
  <1> HIDE DEF Doc
  <1>1. /\ Len(docs') \in Nat /\ Len(docs) <= Len(docs') /\ docs' \in Seq(Doc)
        /\ \A c \in 1..Len(docs) : c \in 1..Len(docs') /\ docs'[c] = docs[c]
    BY <1>0 DEF DocsGrow
  <1>2. \A c \in 0..Len(docs) : c \in 0..Len(docs') /\ (c = 0 \/ c \in 1..Len(docs))
    BY <1>0, <1>1
  <1>3. \A c \in 0..Len(docs) : AuditOf(c)' = AuditOf(c)
    BY <1>1, <1>2 DEF AuditOf
  <1>4. \A c \in 0..Len(docs) : Rev(c)' = Rev(c)
    BY <1>3 DEF Rev
  <1>5. \A c \in 0..Len(docs) : \A b : InAudit(b, c)' <=> InAudit(b, c)
    BY <1>3, <1>4 DEF InAudit
  <1> QED
    BY <1>0, <1>1, <1>2, <1>3, <1>4, <1>5

LEMMA TypesGrow ==
    ASSUME TypeOK, DocsGrow
    PROVE  /\ row \in 0..Len(docs') /\ gauge \in 0..Len(docs') /\ inserting \subseteq 1..Len(docs')
           /\ txn \in Txn(Len(docs')) /\ \A r \in Requests : req[r] \in Request(Len(docs'))
           /\ acked \subseteq (1..Len(docs')) \X Nat /\ \A r \in Requests : reply[r] \in 0..Len(docs')
  <1>1. Len(docs) \in Nat /\ Len(docs') \in Nat /\ Len(docs) <= Len(docs')
    BY Growing
  <1>2. 0..Len(docs) \subseteq 0..Len(docs') /\ 1..Len(docs) \subseteq 1..Len(docs')
    BY <1>1
  <1>3. Txn(Len(docs)) \subseteq Txn(Len(docs')) /\ Request(Len(docs)) \subseteq Request(Len(docs'))
    BY <1>2 DEF Txn, Request
  <1> HIDE DEF Txn, Request
  <1>4. /\ row \in 0..Len(docs) /\ gauge \in 0..Len(docs) /\ inserting \subseteq 1..Len(docs)
        /\ txn \in Txn(Len(docs)) /\ req \in [Requests -> Request(Len(docs))]
        /\ acked \subseteq (1..Len(docs)) \X Nat /\ reply \in [Requests -> 0..Len(docs)]
    BY DEF TypeOK
  <1>5. acked \subseteq (1..Len(docs')) \X Nat
    BY <1>2, <1>4
  <1> QED
    BY <1>2, <1>3, <1>4, <1>5

(* A step of request q: it goes on, asks or remembers something else, and may    *)
(* be answered x, of what began with f acknowledged; s is newly acknowledged.   *)
Moves(q) ==
    /\ pc' = [pc EXCEPT ![q] = pc'[q]] /\ pc'[q] \in Places
    /\ req' = [req EXCEPT ![q] = req'[q]] /\ req'[q] \in Request(Len(docs'))
    /\ row' = row /\ gauge' \in 0..Len(docs') /\ inserting' \subseteq 1..Len(docs')
    /\ mutations' \in 0..MaxMutations /\ faults' \in 0..MaxFaults
    /\ txn' \in Txn(Len(docs'))
    /\ txn' = txn \/ {txn.client, txn'.client} \subseteq {q, Nobody}

Tells(q, s, x, f) ==
    /\ acked' = acked \cup s /\ s \subseteq (1..Len(docs)) \X Nat
    /\ \A a \in s : InAudit(a[1], row) /\ (a[2] # 0 => docs[a[1]].gen = a[2] + 1)
    /\ reply' = [reply EXCEPT ![q] = x] /\ floor' = [floor EXCEPT ![q] = f]
    /\ x \in 0..Len(docs) /\ f \subseteq acked
    /\ x # 0 => InAudit(x, row) /\ \A a \in f : InAudit(a[1], x)

LEMMA StepTypes ==
    ASSUME TypeOK, DocsGrow, NEW q \in Requests, Moves(q), NEW s, NEW x, NEW f, Tells(q, s, x, f)
    PROVE  TypeOK'
  <1> HIDE DEF Doc, Txn, Request
  <1>1. docs' \in Seq(Doc)
    BY Growing
  <1>2. row' \in 0..Len(docs') /\ gauge' \in 0..Len(docs') /\ inserting' \subseteq 1..Len(docs')
    BY TypesGrow DEF Moves
  <1>3. txn' \in Txn(Len(docs'))
    BY DEF Moves
  <1>4. pc' \in [Requests -> Places]
    BY DEF Moves, TypeOK
  <1>5. req' \in [Requests -> Request(Len(docs'))]
    BY TypesGrow DEF Moves, TypeOK
  <1>6. acked' \subseteq (1..Len(docs')) \X Nat
    <2>1. 1..Len(docs) \subseteq 1..Len(docs')
      BY Growing
    <2>2. s \subseteq (1..Len(docs')) \X Nat
      BY <2>1 DEF Tells
    <2> QED
      BY <2>2, TypesGrow DEF Tells
  <1>7. reply' \in [Requests -> 0..Len(docs')]
    <2>1. x \in 0..Len(docs')
      BY Growing DEF Tells
    <2> QED
      BY <2>1, TypesGrow DEF Tells, TypeOK
  <1>8. floor' \in [Requests -> SUBSET acked']
    <2>1. floor \in [Requests -> SUBSET acked]
      BY DEF TypeOK
    <2> QED
      BY <2>1 DEF Tells
  <1>9. mutations' \in 0..MaxMutations /\ faults' \in 0..MaxFaults
    BY DEF Moves
  <1> QED
    BY <1>1, <1>2, <1>3, <1>4, <1>5, <1>6, <1>7, <1>8, <1>9 DEF TypeOK

LEMMA StepAcked ==
    ASSUME TypeOK, AckedDurable, DocsGrow, NEW q \in Requests, Moves(q), NEW s, NEW x, NEW f, Tells(q, s, x, f)
    PROVE  AckedDurable'
  <1> SUFFICES ASSUME NEW a \in acked'
               PROVE  InAudit(a[1], row)' /\ (a[2] # 0 => docs'[a[1]].gen = a[2] + 1)
    BY DEF AckedDurable
  <1>1. InAudit(a[1], row) /\ (a[2] # 0 => docs[a[1]].gen = a[2] + 1) /\ a[1] \in 1..Len(docs)
    BY DEF Tells, AckedDurable, TypeOK
  <1>2. row' = row /\ row \in 0..Len(docs)
    BY DEF Moves, TypeOK
  <1>3. InAudit(a[1], row)'
    BY <1>1, <1>2, Growing DEF InAudit
  <1> QED
    BY <1>1, <1>3, Growing

LEMMA StepReads ==
    ASSUME TypeOK, ReadsCommitted, DocsGrow, NEW q \in Requests, Moves(q), NEW s, NEW x, NEW f, Tells(q, s, x, f)
    PROVE  ReadsCommitted'
  <1> SUFFICES ASSUME NEW r \in Requests, NEW y, y = reply'[r], y # 0
               PROVE  InAudit(y, row)' /\ \A a \in floor'[r] : InAudit(a[1], y)'
    BY DEF ReadsCommitted, InAudit, AuditOf, Rev
  <1>1. reply \in [Requests -> 0..Len(docs)] /\ floor \in [Requests -> SUBSET acked]
    BY DEF TypeOK
  <1>2. y \in 0..Len(docs) /\ InAudit(y, row) /\ \A a \in floor'[r] : InAudit(a[1], y)
    <2>1. CASE r = q
      BY <1>1, <2>1 DEF Tells
    <2>2. CASE r # q
      BY <1>1, <2>2 DEF Tells, ReadsCommitted
    <2> QED
      BY <2>1, <2>2
  <1>3. row' = row /\ row \in 0..Len(docs)
    BY DEF Moves, TypeOK
  <1>4. InAudit(y, row)'
    BY <1>2, <1>3, Growing DEF InAudit
  <1> QED
    BY <1>2, <1>4, Growing

LEMMA DocsKept ==
    ASSUME DocsSound, docs' = docs
    PROVE  DocsSound'
  BY DEF DocsSound, DocSound, AuditOf, Rev

LEMMA InsertsKept ==
    ASSUME TypeOK, InsertsSound, DocsGrow, inserting' \subseteq inserting
    PROVE  InsertsSound'
  <1> SUFFICES ASSUME NEW c \in inserting' PROVE AuditOf(c)' = <<c>>
    BY DEF InsertsSound, AuditOf
  <1>1. c \in inserting /\ c \in 0..Len(docs)
    BY DEF TypeOK
  <1> QED
    BY <1>1, Growing DEF InsertsSound

HoldsLock == {"locked", "staged", "commitSent", "rollback"}

LEMMA TxnKept ==
    ASSUME TypeOK, TxnSound, DocsGrow, NEW q \in Requests, Moves(q), txn' = txn,
           txn.client = q => pc'[q] \in HoldsLock
    PROVE  TxnSound'
  <1>1. txn.new \in 0..Len(docs) /\ row \in 0..Len(docs) /\ row' = row
    BY DEF TypeOK, Txn, Moves
  <1>2. AuditOf(txn.new)' = AuditOf(txn.new) /\ AuditOf(row)' = AuditOf(row)
    BY <1>1, Growing DEF AuditOf
  <1>3. txn.client # Nobody => pc'[txn.client] \in HoldsLock
    <2>1. pc \in [Requests -> Places] /\ (txn.client # Nobody => txn.client \in Requests)
      BY DEF TypeOK, Txn
    <2> QED
      BY <2>1 DEF Moves, TxnSound, HoldsLock
  <1> QED
    BY <1>1, <1>2, <1>3 DEF TxnSound, HoldsLock

(* A step leaves a request alone that does not take it.                         *)
Same(r) == pc'[r] = pc[r] /\ req'[r] = req[r] /\ floor'[r] = floor[r]

RowGrows ==
    /\ row' \in 0..Len(docs') /\ (row # 0 => row' # 0)
    /\ \A c \in 1..Len(docs) : InAudit(c, row) => InAudit(c, row)'

LEMMA RequestKept ==
    ASSUME TypeOK, DocsSound, DocsGrow, RowGrows, NEW r \in Requests, RequestSound(r), Same(r),
           \/ txn' = txn /\ (row # 0 => row' = row) /\ (txn.state # "none" => row # 0)
           \/ txn.client # r /\ txn'.client # r
    PROVE  RequestSound(r)'
  <1>1. PICK p, k, f, x : p = pc[r] /\ k = req[r] /\ f = floor[r] /\ x = Result(r)
    OBVIOUS
  <1>2. /\ k.local \in 0..Len(docs) /\ k.new \in 0..Len(docs) /\ row \in 0..Len(docs)
        /\ \A a \in f : a[1] \in 1..Len(docs)
    BY <1>1 DEF TypeOK, Request
  <1>3. pc'[r] = p /\ req'[r] = k /\ floor'[r] = f /\ Result(r)' = x /\ x \in 0..Len(docs)
    BY <1>1, <1>2 DEF Same, Result
  <1>4. x = IF k.new = 0 THEN k.local ELSE k.new
    BY <1>1 DEF Result
  <1>5. k.new # 0 => AuditOf(k.new)' = AuditOf(k.new) /\ docs'[k.new] = docs[k.new]
    <2>1. k.new # 0 => k.new \in 1..Len(docs)
      BY <1>2
    <2> QED
      BY <1>2, <2>1, Growing
  <1>6. \A a \in f : InAudit(a[1], x) => InAudit(a[1], x)'
    BY <1>3, Growing
  <1>7. \A c : InAudit(c, row) => InAudit(c, row)'
    BY <1>2, InAuditDoc DEF RowGrows
  <1>8. /\ p \notin {"inserted", "staged", "commitSent"} => k.new = 0
        /\ p \in {"insert", "inserted"} => f = {}
        /\ p = "inserted" => k.new # 0 /\ AuditOf(k.new) = <<k.new>>
        /\ p = "answered" => InAudit(k.local, row)
        /\ p = "lockRow" => row # 0
        /\ k.op \in {"read", "list"} => k.expect = 0
        /\ k.new # 0 /\ k.expect # 0 /\ p \in {"staged", "commitSent"} => docs[k.new].gen = k.expect + 1
        /\ p \in {"answered", "locked", "staged", "commitSent"} => x # 0 /\ \A a \in f : InAudit(a[1], x)
    BY <1>1 DEF RequestSound
  <1>9. /\ p = "locked" => Holds(r, "open") /\ k.local = row
        /\ p = "rollback" => Holds(r, "open")
        /\ p = "staged" => Holds(r, "staged") /\ k.new = txn.new
        /\ p = "commitSent" =>
             \/ Holds(r, "committing") /\ k.new = txn.new /\ (k.new = 0 => k.local = row)
             \/ txn.client # r /\ InAudit(x, row)
    BY <1>1 DEF RequestSound
  <1>10. /\ p = "locked" => Holds(r, "open")' /\ k.local = row'
         /\ p = "rollback" => Holds(r, "open")'
         /\ p = "staged" => Holds(r, "staged")' /\ k.new = txn'.new
         /\ p = "commitSent" =>
              \/ Holds(r, "committing")' /\ k.new = txn'.new /\ (k.new = 0 => k.local = row')
              \/ txn'.client # r /\ InAudit(x, row)'
    <2>1. CASE txn' = txn /\ (row # 0 => row' = row) /\ (txn.state # "none" => row # 0)
      BY <1>7, <1>9, <2>1 DEF Holds
    <2>2. CASE txn.client # r /\ txn'.client # r
      BY <1>7, <1>9, <2>2 DEF Holds
    <2> QED
      BY <2>1, <2>2
  <1>11. /\ p = "inserted" => k.new # 0 /\ AuditOf(k.new)' = <<k.new>>
         /\ p = "answered" => InAudit(k.local, row)'
         /\ p = "lockRow" => row' # 0
         /\ k.new # 0 /\ k.expect # 0 /\ p \in {"staged", "commitSent"} => docs'[k.new].gen = k.expect + 1
         /\ p \in {"answered", "locked", "staged", "commitSent"} => x # 0 /\ \A a \in f : InAudit(a[1], x)'
    BY <1>5, <1>6, <1>7, <1>8 DEF RowGrows
  <1> QED
    BY <1>3, <1>8, <1>10, <1>11 DEF RequestSound, AuditOf, InAudit, Rev

LEMMA Step ==
    ASSUME NeonInv, DocsGrow, DocsSound', InsertsSound', TxnSound', NEW q \in Requests, Moves(q),
           NEW s, NEW x, NEW f, Tells(q, s, x, f), RequestSound(q)'
    PROVE  NeonInv'
  <1>1. TypeOK /\ DocsSound /\ TxnSound /\ AckedDurable /\ ReadsCommitted
    BY DEF NeonInv
  <1>2. TypeOK' /\ AckedDurable' /\ ReadsCommitted'
    BY <1>1, StepTypes, StepAcked, StepReads
  <1>3. row \in 0..Len(docs) /\ row' = row
    BY <1>1 DEF TypeOK, Moves
  <1>4. \A c : InAudit(c, row) => InAudit(c, row)'
    BY <1>1, <1>3, Growing DEF InAudit
  <1>5. RowGrows
    BY <1>1, <1>3, <1>4, Growing DEF RowGrows
  <1>6. ASSUME NEW r \in Requests PROVE RequestSound(r)'
    <2>1. CASE r # q
      <3>1. pc \in [Requests -> Places] /\ req \in [Requests -> Request(Len(docs))]
            /\ floor \in [Requests -> SUBSET acked]
        BY <1>1 DEF TypeOK
      <3>2. Same(r)
        BY <2>1, <3>1 DEF Same, Moves, Tells
      <3>3. \/ txn' = txn /\ (row # 0 => row' = row) /\ (txn.state # "none" => row # 0)
            \/ txn.client # r /\ txn'.client # r
        BY <1>1, <1>3, <2>1, NobodyIsNoRequest DEF Moves, TxnSound
      <3>4. RequestSound(r)
        BY DEF NeonInv
      <3> QED
        BY <1>1, <1>5, <3>2, <3>3, <3>4, RequestKept
    <2> QED
      BY <2>1
  <1> QED
    BY <1>2, <1>6 DEF NeonInv

LEMMA NothingTold ==
    ASSUME NeonInv, NEW q \in Requests, UNCHANGED history
    PROVE  Tells(q, {}, reply[q], floor[q])
  <1>1. reply \in [Requests -> 0..Len(docs)] /\ floor \in [Requests -> SUBSET acked]
    BY DEF NeonInv, TypeOK
  <1>2. reply[q] # 0 => InAudit(reply[q], row) /\ \A a \in floor[q] : InAudit(a[1], reply[q])
    BY DEF NeonInv, ReadsCommitted
  <1> QED
    BY <1>1, <1>2 DEF Tells, history

(* What is the case when a request has read the row.                            *)
LEMMA RowRead ==
    ASSUME NeonInv, NEW q \in Requests
    PROVE  /\ row \in 0..Len(docs) /\ floor[q] \subseteq acked
           /\ row = 0 => acked = {}
           /\ row # 0 => InAudit(row, row) /\ \A a \in acked : InAudit(a[1], row)
  <1>1. row \in 0..Len(docs) /\ floor \in [Requests -> SUBSET acked]
    BY DEF NeonInv, TypeOK
  <1>2. \A a \in acked : InAudit(a[1], row)
    BY DEF NeonInv, AckedDurable
  <1>3. row = 0 => acked = {}
    BY <1>1, <1>2, InAuditDoc DEF NeonInv
  <1>4. row # 0 => InAudit(row, row)
    BY <1>1, InAuditOfItself DEF NeonInv
  <1> QED
    BY <1>1, <1>2, <1>3, <1>4

(* A request that is over.                                                     *)
LEMMA Over ==
    ASSUME NEW q, pc'[q] = "idle", req'[q] = NoRequest
    PROVE  RequestSound(q)'
  BY DEF RequestSound, NoRequest

(* A request that began, or goes on, without a transaction.                     *)
LEMMA NoDocument ==
    ASSUME TypeOK
    PROVE  NoRequest \in Request(Len(docs)) /\ NoTxn \in Txn(Len(docs)) /\ Len(docs) \in Nat
  BY DEF TypeOK, NoRequest, NoTxn, Request, Txn, Ops

LEMMA Unbuilt ==
    ASSUME NeonInv, docs' = docs, inserting' \subseteq inserting
    PROVE  DocsGrow /\ DocsSound' /\ InsertsSound'
  <1>1. DocsGrow
    BY DEF DocsGrow
  <1> QED
    BY <1>1, DocsKept, InsertsKept DEF NeonInv

(* What a request remembers, and how an action changes it.                      *)
Asks(k, local, new) == [op |-> k.op, expect |-> k.expect, local |-> local, new |-> new]

LEMMA RequestType ==
    ASSUME TypeOK, NEW q \in Requests
    PROVE  /\ req[q].op \in Ops /\ req[q].expect \in Nat
           /\ req[q].local \in 0..Len(docs) /\ req[q].new \in 0..Len(docs)
           /\ req[q] = Asks(req[q], req[q].local, req[q].new)
           /\ floor[q] \subseteq acked
  <1>1. req[q] \in Request(Len(docs)) /\ floor[q] \subseteq acked
    BY DEF TypeOK
  <1> QED
    BY <1>1 DEF Request, Asks

LEMMA AsksType ==
    ASSUME TypeOK, NEW q \in Requests, NEW n, NEW x \in 0..n, NEW y \in 0..n
    PROVE  Asks(req[q], x, y) \in Request(n)
  <1>1. req[q].op \in Ops /\ req[q].expect \in Nat
    BY RequestType
  <1> QED
    BY <1>1 DEF Asks, Request

LEMMA Remembers ==
    ASSUME TypeOK, NEW q \in Requests, NEW x, NEW y
    PROVE  /\ [req EXCEPT ![q].local = x] = [req EXCEPT ![q] = Asks(req[q], x, req[q].new)]
           /\ [req EXCEPT ![q].new = y] = [req EXCEPT ![q] = Asks(req[q], req[q].local, y)]
  <1>1. /\ req \in [Requests -> Request(Len(docs))]
        /\ req[q] = [op |-> req[q].op, expect |-> req[q].expect, local |-> req[q].local, new |-> req[q].new]
    BY RequestType DEF TypeOK, Asks
  <1>2. [req[q] EXCEPT !.local = x] = Asks(req[q], x, req[q].new)
    BY <1>1 DEF Asks
  <1>3. [req[q] EXCEPT !.new = y] = Asks(req[q], req[q].local, y)
    BY <1>1 DEF Asks
  <1> QED
    BY <1>2, <1>3

---------------------------------------------------------------------------
(* The actions of a request, one by one.                                      *)
LEMMA GenerationsKnown ==
    ASSUME NeonInv
    PROVE  KnownGenerations \subseteq Nat
  <1>1. row \in 0..Len(docs) /\ Len(docs) \in Nat
    BY DEF NeonInv, TypeOK
  <1>2. ASSUME NEW i \in 1..Rev(row) PROVE docs[AuditOf(row)[i]].gen \in Nat
    <2>1. row # 0
      BY <1>1, AuditType DEF NeonInv
    <2>2. AuditOf(row)[i] \in 1..Len(docs)
      BY <1>1, <2>1 DEF NeonInv, DocsSound, DocSound
    <2> QED
      BY <2>2, DocType DEF NeonInv
  <1> QED
    BY <1>2 DEF KnownGenerations

LEMMA StartSafe ==
    ASSUME NeonInv, NEW q \in Requests, NEW o \in Ops, NEW e \in {0} \cup KnownGenerations, Start(q, o, e)
    PROVE  NeonInv'
  <1>1. DocsGrow /\ DocsSound' /\ InsertsSound'
    BY Unbuilt DEF Start
  <1>2. PICK k : k = [op |-> o, expect |-> e, local |-> 0, new |-> 0]
    OBVIOUS
  <1>3. req' = [req EXCEPT ![q] = k] /\ pc' = [pc EXCEPT ![q] = "select"]
    <2>1. [NoRequest EXCEPT !.op = o, !.expect = e] = k
      <3>1. [NoRequest EXCEPT !.op = o] = [op |-> o, expect |-> 0, local |-> 0, new |-> 0]
        BY DEF NoRequest
      <3>2. [NoRequest EXCEPT !.op = o, !.expect = e] = [[NoRequest EXCEPT !.op = o] EXCEPT !.expect = e]
        OBVIOUS
      <3>3. [[op |-> o, expect |-> 0, local |-> 0, new |-> 0] EXCEPT !.expect = e] = k
        BY <1>2
      <3> QED
        BY <3>1, <3>2, <3>3, Zenon
    <2> QED
      BY <2>1 DEF Start, Goto
  <1>4. k \in Request(Len(docs))
    <2>1. e \in Nat /\ 0 \in 0..Len(docs)
      BY GenerationsKnown, NoDocument DEF NeonInv
    <2> QED
      BY <1>2, <2>1 DEF Request
  <1>5. TypeOK
    BY DEF NeonInv
  <1>6. pc'[q] = "select" /\ req'[q] = k
    BY <1>3, <1>5 DEF TypeOK
  <1>7. mutations' \in 0..MaxMutations
    BY <1>5, NeonBoundsType DEF Start, TypeOK
  <1>8. Moves(q)
    BY <1>3, <1>4, <1>5, <1>6, <1>7 DEF Moves, Start, TypeOK, Places
  <1>9. Tells(q, {}, 0, acked)
    BY <1>5 DEF Tells, Start, TypeOK
  <1>10. TxnSound'
    <2>1. txn.client # q
      BY NobodyIsNoRequest DEF NeonInv, TxnSound, Start, At
    <2> QED
      BY <1>1, <1>5, <1>8, <2>1, TxnKept DEF NeonInv, Start
  <1>11. RequestSound(q)'
    <2>1. o \in {"read", "list"} => e = 0
      BY DEF Start
    <2> QED
      BY <1>2, <1>6, <2>1 DEF RequestSound
  <1> QED
    BY <1>1, <1>8, <1>9, <1>10, <1>11, Step

LEMMA SelectRowSafe ==
    ASSUME NeonInv, NEW q \in Requests, SelectRow(q)
    PROVE  NeonInv'
  <1>1. DocsGrow /\ DocsSound' /\ InsertsSound' /\ Tells(q, {}, reply[q], floor[q])
    BY Unbuilt, NothingTold DEF SelectRow
  <1>2. TypeOK /\ RequestSound(q)
    BY DEF NeonInv
  <1>3. PICK k, f : k = req[q] /\ f = floor[q]
    OBVIOUS
  <1>4. k.new = 0 /\ k.op \in Ops /\ k.expect \in Nat /\ (k.op \in {"read", "list"} => k.expect = 0)
    BY <1>2, <1>3 DEF RequestSound, SelectRow, At, TypeOK, Request
  <1>5. floor' = floor /\ row' = row /\ txn' = txn /\ docs' = docs
    BY DEF SelectRow, history
  <1>6. TxnSound' /\ Moves(q) /\ RequestSound(q)'
    <2>1. txn.client # q
      BY NobodyIsNoRequest DEF NeonInv, TxnSound, SelectRow, At
    <2>2. CASE row = 0
      <3>1. pc'[q] = "insert" /\ req'[q] = k /\ req' = [req EXCEPT ![q] = k]
        BY <1>2, <1>3, <2>2 DEF SelectRow, Goto, TypeOK
      <3>2. Moves(q)
        BY <1>2, <1>3, <2>2, <3>1 DEF SelectRow, Goto, Moves, bounds, TypeOK, Places
      <3>3. TxnSound'
        BY <1>1, <1>2, <1>5, <2>1, <3>2, TxnKept DEF NeonInv
      <3>4. f = {}
        BY <1>3, <2>2, RowRead
      <3>5. RequestSound(q)'
        BY <1>3, <1>4, <1>5, <3>1, <3>4 DEF RequestSound
      <3> QED
        BY <3>2, <3>3, <3>5
    <2>3. CASE row # 0
      <3>1. PICK l : l = [k EXCEPT !.local = row]
        OBVIOUS
      <3>2. k \in Request(Len(docs))
        BY <1>2, <1>3 DEF TypeOK
      <3>3. l = [op |-> k.op, expect |-> k.expect, local |-> row, new |-> 0] /\ l \in Request(Len(docs))
        BY <1>2, <1>4, <3>1, <3>2 DEF Request, TypeOK
      <3>4. pc'[q] = "answered" /\ req'[q] = l /\ req' = [req EXCEPT ![q] = l]
        BY <1>2, <1>3, <2>3, <3>1 DEF SelectRow, Goto, TypeOK
      <3>5. Moves(q)
        BY <1>2, <1>3, <2>3, <3>3, <3>4 DEF SelectRow, Goto, Moves, bounds, TypeOK, Places
      <3>6. TxnSound'
        BY <1>1, <1>2, <1>5, <2>1, <3>5, TxnKept DEF NeonInv
      <3>7. InAudit(row, row) /\ \A a \in f : InAudit(a[1], row)
        BY <1>3, <2>3, RowRead
      <3>8. PICK x : x = row
        OBVIOUS
      <3>9. InAudit(x, row)' /\ (\A a \in f : InAudit(a[1], x)') /\ l.local = x /\ x # 0
        BY <1>5, <2>3, <3>3, <3>7, <3>8 DEF InAudit, Rev, AuditOf
      <3>10. Result(q)' = x
        BY <3>3, <3>4, <3>8 DEF Result
      <3>11. RequestSound(q)'
        BY <1>3, <1>4, <1>5, <3>3, <3>4, <3>9, <3>10 DEF RequestSound, InAudit, Rev, AuditOf
      <3> QED
        BY <3>5, <3>6, <3>11
    <2> QED
      BY <2>2, <2>3
  <1> QED
    BY <1>1, <1>6, Step

LEMMA Building ==
    ASSUME NeonInv, NEW q \in Requests, NEW kind \in Kinds, NEW gen \in Nat, NEW prev \in Nat,
           NEW d \in 0..Len(docs), BuildDocument(q, kind, gen, prev, d),
           d # 0 => docs[d].gen <= gen,
           kind \in {"ROTATED", "ROLLED_BACK"} => d # 0 /\ gen = req[q].expect + 1 /\ req[q].expect = docs[d].gen,
           NEW n, n = Len(docs) + 1
    PROVE  /\ DocsGrow /\ DocsSound' /\ Len(docs') = n /\ n \in 1..Len(docs') /\ n # 0
           /\ AuditOf(n)' = Append(AuditOf(d), n) /\ docs'[n].gen = gen
  <1>1. TypeOK /\ DocsSound /\ Len(docs) \in Nat
    BY DEF NeonInv, TypeOK
  <1>2. AuditOf(d) \in Seq(Nat) /\ req[q].expect \in Nat
    BY <1>1, AuditType, RequestType
  <1>3. PICK doc : doc = [kind |-> kind, gen |-> gen, prev |-> prev,
                          audit |-> Append(AuditOf(d), Len(docs) + 1), expect |-> req[q].expect]
    OBVIOUS
  <1>4. Append(AuditOf(d), Len(docs) + 1) \in Seq(Nat)
    BY <1>1, <1>2
  <1>5. doc \in Doc
    BY <1>2, <1>3, <1>4 DEF Doc
  <1>6. docs' = Append(docs, doc)
    BY <1>3 DEF BuildDocument
  <1>7. /\ doc.audit = Append(AuditOf(d), Len(docs) + 1) /\ doc.gen = gen /\ doc.kind = kind
        /\ doc.expect = req[q].expect
    BY <1>3
  <1>8. DocsSound'
    BY <1>1, <1>5, <1>6, <1>7, DocumentBuilt
  <1>9. Len(docs') = n /\ docs'[n] = doc /\ n \in 1..Len(docs') /\ n # 0
    <2>1. docs \in Seq(Doc)
      BY <1>1 DEF TypeOK
    <2> QED
      BY <1>1, <1>6, <2>1
  <1>10. AuditOf(n)' = Append(AuditOf(d), n)
    BY <1>7, <1>9 DEF AuditOf
  <1> QED
    BY <1>5, <1>6, <1>7, <1>8, <1>9, <1>10 DEF DocsGrow

LEMMA Bootstrapping ==
    ASSUME NeonInv, NEW q \in Requests, BuildDocument(q, "BOOTSTRAPPED", 1, 0, 0), NEW n, n = Len(docs) + 1
    PROVE  /\ DocsGrow /\ DocsSound' /\ Len(docs') = n /\ n \in 1..Len(docs') /\ n # 0
           /\ AuditOf(n)' = Append(AuditOf(0), n)
  <1>1. PICK kind, d : kind = "BOOTSTRAPPED" /\ d = 0
    OBVIOUS
  <1>2. /\ kind \in Kinds /\ kind \notin {"ROTATED", "ROLLED_BACK"} /\ d \in 0..Len(docs)
        /\ 1 \in Nat /\ 0 \in Nat
    BY <1>1, NoDocument DEF Kinds, NeonInv
  <1>3. BuildDocument(q, kind, 1, 0, d)
    BY <1>1
  <1>4. /\ DocsGrow /\ DocsSound' /\ Len(docs') = n /\ n \in 1..Len(docs') /\ n # 0
        /\ AuditOf(n)' = Append(AuditOf(d), n)
    BY <1>1, <1>2, <1>3, Building
  <1> QED
    BY <1>1, <1>4 DEF AuditOf

LEMMA SendInsertSafe ==
    ASSUME NeonInv, NEW q \in Requests, SendInsert(q)
    PROVE  NeonInv'
  <1>1. TypeOK /\ RequestSound(q) /\ Len(docs) \in Nat /\ Tells(q, {}, reply[q], floor[q])
    BY NothingTold DEF NeonInv, SendInsert, TypeOK
  <1>2. PICK n : n = Len(docs) + 1
    OBVIOUS
  <1>3. BuildDocument(q, "BOOTSTRAPPED", 1, 0, 0)
    BY DEF SendInsert
  <1>4. /\ DocsGrow /\ DocsSound' /\ Len(docs') = n /\ n \in 1..Len(docs') /\ n # 0
        /\ AuditOf(n)' = Append(AuditOf(0), n)
    BY <1>1, <1>2, <1>3, Bootstrapping
  <1>5. AuditOf(n)' = <<n>>
    BY <1>4 DEF AuditOf
  <1>6. InsertsSound'
    <2>1. inserting' = inserting \cup {n}
      BY <1>2 DEF SendInsert
    <2>2. ASSUME NEW c \in inserting PROVE AuditOf(c)' = <<c>>
      <3>1. c \in 0..Len(docs)
        BY <1>1 DEF TypeOK
      <3> QED
        BY <1>1, <1>4, <3>1, Growing DEF NeonInv, InsertsSound
    <2> QED
      BY <1>5, <2>1, <2>2 DEF InsertsSound
  <1>7. PICK k : k = Asks(req[q], req[q].local, n)
    OBVIOUS
  <1>8. req' = [req EXCEPT ![q] = k] /\ pc' = [pc EXCEPT ![q] = "inserted"]
    BY <1>1, <1>2, <1>7, Remembers DEF SendInsert, Goto
  <1>9. pc'[q] = "inserted" /\ req'[q] = k /\ floor' = floor /\ row' = row /\ txn' = txn
    BY <1>1, <1>8 DEF TypeOK, SendInsert, history
  <1>10. k \in Request(Len(docs'))
    <2>1. req[q].local \in 0..Len(docs') /\ n \in 0..Len(docs')
      BY <1>1, <1>4, RequestType, Growing
    <2> QED
      BY <1>1, <1>7, <2>1, AsksType
  <1>11. Moves(q)
    <2>1. inserting' \subseteq 1..Len(docs') /\ gauge' \in 0..Len(docs') /\ txn' \in Txn(Len(docs'))
      BY <1>1, <1>2, <1>4, TypesGrow DEF SendInsert
    <2>2. mutations' \in 0..MaxMutations /\ faults' \in 0..MaxFaults
      BY <1>1 DEF SendInsert, bounds, TypeOK
    <2> QED
      BY <1>8, <1>9, <1>10, <2>1, <2>2 DEF Moves, Places
  <1>12. TxnSound'
    <2>1. txn.client # q
      BY NobodyIsNoRequest DEF NeonInv, TxnSound, SendInsert, At
    <2> QED
      BY <1>1, <1>4, <1>9, <1>11, <2>1, TxnKept DEF NeonInv
  <1>13. RequestSound(q)'
    <2>1. floor[q] = {} /\ (k.op \in {"read", "list"} => k.expect = 0) /\ k.new = n
      BY <1>1, <1>7 DEF RequestSound, SendInsert, At, Asks
    <2>2. AuditOf(k.new)' = <<k.new>>
      BY <1>5, <2>1
    <2> QED
      BY <1>4, <1>9, <2>1, <2>2 DEF RequestSound, AuditOf
  <1> QED
    BY <1>1, <1>4, <1>6, <1>11, <1>12, <1>13, Step

LEMMA InsertReturnedSafe ==
    ASSUME NeonInv, NEW q \in Requests, InsertReturned(q)
    PROVE  NeonInv'
  <1>1. /\ DocsGrow /\ DocsSound' /\ InsertsSound' /\ Tells(q, {}, reply[q], floor[q])
        /\ TypeOK /\ RequestSound(q)
    BY Unbuilt, NothingTold DEF InsertReturned, NeonInv
  <1>2. PICK x : x = req[q].new
    OBVIOUS
  <1>3. pc[q] = "inserted" /\ floor[q] = {} /\ x # 0 /\ x \in 0..Len(docs)
    BY <1>1, <1>2, RequestType DEF RequestSound, InsertReturned, At
  <1>4. /\ floor' = floor /\ row' = row /\ txn' = txn /\ docs' = docs /\ gauge' = gauge
        /\ inserting' = inserting /\ mutations' = mutations /\ faults' = faults
    BY DEF InsertReturned, history, bounds
  <1>5. PICK p, k : /\ pc' = [pc EXCEPT ![q] = p] /\ req' = [req EXCEPT ![q] = k]
                    /\ \/ p = "answered" /\ InAudit(x, row) /\ k = Asks(req[q], x, 0)
                       \/ p = "select" /\ k = Asks(req[q], req[q].local, 0)
    <2>1. /\ [req EXCEPT ![q].local = x, ![q].new = 0] = [req EXCEPT ![q] = Asks(req[q], x, 0)]
          /\ [req EXCEPT ![q].new = 0] = [req EXCEPT ![q] = Asks(req[q], req[q].local, 0)]
      <3>1. PICK y : y = 0
        OBVIOUS
      <3>2. [req EXCEPT ![q].local = x, ![q].new = y] = [req EXCEPT ![q] = Asks(req[q], x, y)]
        <4>1. [[req EXCEPT ![q].local = x] EXCEPT ![q].new = y] = [req EXCEPT ![q] = Asks(req[q], x, y)]
          <5>1. [req EXCEPT ![q].local = x] = [req EXCEPT ![q] = Asks(req[q], x, req[q].new)]
            BY <1>1, Remembers
          <5>2. [req EXCEPT ![q] = Asks(req[q], x, req[q].new)][q] = Asks(req[q], x, req[q].new)
            BY <1>1 DEF TypeOK
          <5>3. [Asks(req[q], x, req[q].new) EXCEPT !.new = y] = Asks(req[q], x, y)
            BY DEF Asks
          <5>4. [[req EXCEPT ![q] = Asks(req[q], x, req[q].new)] EXCEPT ![q].new = y] =
                  [req EXCEPT ![q] = Asks(req[q], x, y)]
            BY <1>1, <5>2, <5>3 DEF TypeOK
          <5> QED
            BY <5>1, <5>4, Zenon
        <4>2. [req EXCEPT ![q].local = x, ![q].new = y] = [[req EXCEPT ![q].local = x] EXCEPT ![q].new = y]
          OBVIOUS
        <4> QED
          BY <4>1, <4>2, Zenon
      <3>3. [req EXCEPT ![q].new = y] = [req EXCEPT ![q] = Asks(req[q], req[q].local, y)]
        BY <1>1, Remembers
      <3> QED
        BY <3>1, <3>2, <3>3
    <2>2. CASE InAudit(x, row)
      <3>1. pc' = [pc EXCEPT ![q] = "answered"] /\ req' = [req EXCEPT ![q] = Asks(req[q], x, 0)]
        BY <1>2, <2>1, <2>2 DEF InsertReturned, Goto
      <3> QED
        BY <2>2, <3>1
    <2>3. CASE ~InAudit(x, row)
      <3>1. pc' = [pc EXCEPT ![q] = "select"] /\ req' = [req EXCEPT ![q] = Asks(req[q], req[q].local, 0)]
        BY <1>2, <2>1, <2>3 DEF InsertReturned, Goto
      <3> QED
        BY <3>1
    <2> QED
      BY <2>2, <2>3
  <1>6. pc'[q] = p /\ req'[q] = k /\ p \in Places
    BY <1>1, <1>5 DEF TypeOK, Places
  <1>7. k \in Request(Len(docs'))
    <2>1. req[q].local \in 0..Len(docs') /\ x \in 0..Len(docs') /\ 0 \in 0..Len(docs')
      BY <1>1, <1>3, <1>4, RequestType, NoDocument
    <2> QED
      BY <1>1, <1>5, <2>1, AsksType
  <1>8. Moves(q)
    BY <1>1, <1>4, <1>5, <1>6, <1>7 DEF Moves, TypeOK
  <1>9. TxnSound'
    <2>1. txn.client # q
      BY <1>3, NobodyIsNoRequest DEF NeonInv, TxnSound
    <2> QED
      BY <1>1, <1>4, <1>8, <2>1, TxnKept DEF NeonInv
  <1>10. k.new = 0 /\ (k.op \in {"read", "list"} => k.expect = 0)
    BY <1>1, <1>5 DEF RequestSound, Asks
  <1>11. p = "answered" => InAudit(k.local, row)' /\ k.local # 0
    BY <1>3, <1>4, <1>5 DEF Asks, InAudit, AuditOf, Rev
  <1>12. RequestSound(q)'
    BY <1>3, <1>4, <1>5, <1>6, <1>10, <1>11 DEF RequestSound, Result, InAudit, AuditOf, Rev
  <1> QED
    BY <1>1, <1>8, <1>9, <1>12, Step

LEMMA AnsweredSafe ==
    ASSUME NeonInv, NEW q \in Requests, Answered(q)
    PROVE  NeonInv'
  <1>1. /\ DocsGrow /\ DocsSound' /\ InsertsSound' /\ TypeOK /\ RequestSound(q)
    BY Unbuilt DEF Answered, NeonInv
  <1>2. PICK x : x = req[q].local
    OBVIOUS
  <1>3. /\ x \in 0..Len(docs) /\ x # 0 /\ InAudit(x, row) /\ floor[q] \subseteq acked
        /\ \A a \in floor[q] : InAudit(a[1], x)
    <2>1. pc[q] = "answered" /\ req[q].new = 0
      BY <1>1 DEF RequestSound, Answered, At
    <2>2. Result(q) = x
      BY <1>2, <2>1 DEF Result
    <2> QED
      BY <1>1, <1>2, <2>1, <2>2, RequestType DEF RequestSound
  <1>4. /\ row' = row /\ txn' = txn /\ docs' = docs /\ floor' = floor /\ acked' = acked
        /\ inserting' = inserting /\ mutations' = mutations /\ faults' = faults /\ gauge' = x
    BY <1>2 DEF Answered, bounds
  <1>5. txn.client # q
    BY NobodyIsNoRequest DEF NeonInv, TxnSound, Answered, At
  <1>6. CASE reply' = [reply EXCEPT ![q] = req[q].local] /\ EndRequest(q)
    <2>1. Tells(q, {}, x, floor[q])
      BY <1>1, <1>2, <1>3, <1>4, <1>6 DEF Tells, TypeOK
    <2>2. pc'[q] = "idle" /\ req'[q] = NoRequest
      BY <1>1, <1>6 DEF TypeOK, EndRequest, Goto
    <2>3. Moves(q)
      BY <1>1, <1>3, <1>4, <1>6, <2>2, NoDocument DEF TypeOK, Moves, EndRequest, Goto, Places
    <2>4. TxnSound'
      BY <1>1, <1>4, <1>5, <2>3, TxnKept DEF NeonInv
    <2> QED
      BY <1>1, <2>1, <2>2, <2>3, <2>4, Over, Step
  <1>7. CASE Goto(q, "lockRow") /\ UNCHANGED <<req, reply>>
    <2>1. Tells(q, {}, reply[q], floor[q])
      BY <1>4, <1>7, NothingTold DEF history
    <2>2. pc'[q] = "lockRow" /\ req'[q] = req[q]
      BY <1>1, <1>7 DEF TypeOK, Goto
    <2>3. Moves(q)
      BY <1>1, <1>3, <1>4, <1>7, <2>2 DEF TypeOK, Moves, Goto, Places
    <2>4. TxnSound'
      BY <1>1, <1>4, <1>5, <2>3, TxnKept DEF NeonInv
    <2>5. row # 0
      BY <1>1, <1>3, InAuditDoc DEF TypeOK, NeonInv
    <2>6. RequestSound(q)'
      BY <1>1, <1>4, <2>2, <2>5 DEF RequestSound, Answered, At
    <2> QED
      BY <1>1, <2>1, <2>3, <2>4, <2>6, Step
  <1> QED
    BY <1>6, <1>7 DEF Answered

LEMMA LockRowSafe ==
    ASSUME NeonInv, NEW q \in Requests, LockRow(q)
    PROVE  NeonInv'
  <1>1. /\ DocsGrow /\ DocsSound' /\ InsertsSound' /\ Tells(q, {}, reply[q], floor[q])
        /\ TypeOK /\ RequestSound(q) /\ TxnSound
    BY Unbuilt, NothingTold DEF LockRow, NeonInv
  <1>2. PICK x : x = row
    OBVIOUS
  <1>3. x \in 0..Len(docs) /\ x # 0 /\ floor[q] \subseteq acked /\ \A a \in floor[q] : InAudit(a[1], x)
    BY <1>1, <1>2, RowRead DEF RequestSound, LockRow, At
  <1>4. /\ row' = x /\ docs' = docs /\ floor' = floor /\ gauge' = gauge
        /\ inserting' = inserting /\ mutations' = mutations /\ faults' = faults
        /\ txn' = [client |-> q, new |-> 0, state |-> "open"] /\ txn.client = Nobody
    BY <1>1, <1>2 DEF LockRow, bounds, history, TxnSound
  <1>5. PICK k : k = Asks(req[q], x, req[q].new)
    OBVIOUS
  <1>6. pc' = [pc EXCEPT ![q] = "locked"] /\ req' = [req EXCEPT ![q] = k]
    <2>1. [req EXCEPT ![q].local = x] = [req EXCEPT ![q] = k]
      BY <1>1, <1>5, Remembers
    <2> QED
      BY <1>2, <2>1 DEF LockRow, Goto
  <1>7. pc'[q] = "locked" /\ req'[q] = k
    BY <1>1, <1>6 DEF TypeOK
  <1>8. k \in Request(Len(docs)) /\ k.new = 0 /\ k.local = x /\ (k.op \in {"read", "list"} => k.expect = 0)
    <2>1. req[q].new = 0
      BY <1>1 DEF RequestSound, LockRow, At
    <2>2. 0 \in 0..Len(docs)
      BY <1>1, NoDocument
    <2> QED
      BY <1>1, <1>3, <1>5, <2>1, <2>2, AsksType DEF RequestSound, Asks
  <1>9. Moves(q)
    <2>1. txn' \in Txn(Len(docs'))
      BY <1>1, <1>4, NoDocument DEF Txn
    <2> QED
      BY <1>1, <1>2, <1>4, <1>6, <1>7, <1>8, <2>1 DEF TypeOK, Moves, Places
  <1>10. TxnSound'
    BY <1>3, <1>4, <1>7 DEF TxnSound
  <1>11. RequestSound(q)'
    <2>1. Holds(q, "open")'
      BY <1>4 DEF Holds
    <2>2. Result(q)' = x
      BY <1>7, <1>8 DEF Result
    <2>3. \A a \in floor[q] : InAudit(a[1], x)'
      BY <1>3, <1>4 DEF InAudit, AuditOf, Rev
    <2> QED
      BY <1>3, <1>4, <1>7, <1>8, <2>1, <2>2, <2>3 DEF RequestSound, InAudit, AuditOf, Rev
  <1> QED
    BY <1>1, <1>9, <1>10, <1>11, Step

LEMMA StageSafe ==
    ASSUME NeonInv, NEW q \in Requests, At(q, "locked"), NEW kind \in Kinds, NEW gen \in Nat, NEW prev \in Nat,
           docs[req[q].local].gen <= gen,
           kind \in {"ROTATED", "ROLLED_BACK"} =>
             gen = req[q].expect + 1 /\ req[q].expect = docs[req[q].local].gen,
           req[q].expect # 0 => gen = req[q].expect + 1,
           Stage(q, kind, gen, prev)
    PROVE  NeonInv'
  <1>1. /\ TypeOK /\ TxnSound /\ RequestSound(q) /\ Len(docs) \in Nat
        /\ Tells(q, {}, reply[q], floor[q])
    BY SMTT(30), NothingTold DEF NeonInv, Stage, TypeOK
  <1>2. PICK n, d : n = Len(docs) + 1 /\ d = req[q].local
    OBVIOUS
  <1>3. /\ d = row /\ d # 0 /\ d \in 0..Len(docs) /\ txn.client = q /\ txn.state = "open"
        /\ \A a \in floor[q] : InAudit(a[1], d)
    <2>1. Holds(q, "open") /\ req[q].local = row /\ req[q].new = 0 /\ Result(q) # 0
          /\ \A a \in floor[q] : InAudit(a[1], Result(q))
      BY <1>1 DEF RequestSound, At
    <2>2. Result(q) = d
      BY <1>2, <2>1 DEF Result
    <2> QED
      BY <1>1, <1>2, <2>1, <2>2, RequestType DEF Holds
  <1>4. BuildDocument(q, kind, gen, prev, d)
    BY <1>2 DEF Stage
  <1>5. /\ DocsGrow /\ DocsSound' /\ Len(docs') = n /\ n \in 1..Len(docs') /\ n # 0
        /\ AuditOf(n)' = Append(AuditOf(d), n) /\ docs'[n].gen = gen
    BY <1>2, <1>3, <1>4, Building
  <1>6. AuditOf(d)' = AuditOf(d) /\ AuditOf(d) \in Seq(Nat)
    BY <1>1, <1>3, <1>5, Growing, AuditType
  <1>7. PICK k : k = Asks(req[q], d, n)
    OBVIOUS
  <1>8. req' = [req EXCEPT ![q] = k] /\ pc' = [pc EXCEPT ![q] = "staged"]
    <2>1. [req EXCEPT ![q].new = n] = [req EXCEPT ![q] = k]
      BY <1>1, <1>2, <1>7, Remembers
    <2> QED
      BY <1>2, <2>1 DEF Stage, Goto
  <1>9. /\ pc'[q] = "staged" /\ req'[q] = k
        /\ row' = row /\ floor' = floor /\ inserting' = inserting /\ gauge' = gauge
        /\ mutations' = mutations /\ faults' = faults
    BY <1>1, <1>8 DEF Stage, TypeOK, history, bounds
  <1>10. txn' = [client |-> q, new |-> n, state |-> "staged"]
    <2>1. txn = [client |-> q, new |-> txn.new, state |-> "open"]
      BY <1>1, <1>3 DEF TypeOK, Txn
    <2>2. [txn EXCEPT !.new = n] = [client |-> q, new |-> n, state |-> "open"]
      BY <2>1
    <2>3. [[client |-> q, new |-> n, state |-> "open"] EXCEPT !.state = "staged"] =
            [client |-> q, new |-> n, state |-> "staged"]
      OBVIOUS
    <2>4. [txn EXCEPT !.new = n, !.state = "staged"] = [[txn EXCEPT !.new = n] EXCEPT !.state = "staged"]
      OBVIOUS
    <2>5. txn' = [txn EXCEPT !.new = n, !.state = "staged"]
      BY <1>2 DEF Stage
    <2> QED
      BY <2>2, <2>3, <2>4, <2>5, Zenon
  <1>11. k \in Request(Len(docs'))
    <2>1. d \in 0..Len(docs') /\ n \in 0..Len(docs')
      BY <1>1, <1>3, <1>5, Growing
    <2> QED
      BY <1>1, <1>7, <2>1, AsksType
  <1>12. Moves(q)
    <2>1. txn' \in Txn(Len(docs'))
      BY <1>1, <1>5, <1>10 DEF Txn
    <2>2. gauge' \in 0..Len(docs') /\ inserting' \subseteq 1..Len(docs')
      BY <1>1, <1>5, <1>9, TypesGrow
    <2>3. {txn.client, txn'.client} \subseteq {q, Nobody}
      BY <1>3, <1>10
    <2>4. mutations' \in 0..MaxMutations /\ faults' \in 0..MaxFaults
      BY <1>1, <1>9 DEF TypeOK
    <2> QED
      BY <1>8, <1>9, <1>11, <2>1, <2>2, <2>3, <2>4 DEF Moves, Places
  <1>13. InsertsSound'
    BY <1>1, <1>5, <1>9, InsertsKept DEF NeonInv
  <1>14. TxnSound'
    <2>1. docs'[n].audit = Append(docs'[d].audit, n)
      BY <1>3, <1>5, <1>6 DEF AuditOf
    <2>2. /\ txn'.new = n /\ txn'.state = "staged" /\ txn'.client = q /\ row' = d
          /\ pc'[txn'.client] = "staged"
      BY <1>3, <1>9, <1>10
    <2> QED
      BY <1>3, <1>5, <2>1, <2>2 DEF TxnSound, AuditOf
  <1>15. ASSUME NEW c, InAudit(c, d) PROVE InAudit(c, n)'
    <2>1. PICK i \in 1..Rev(d) : AuditOf(d)[i] = c
      BY <1>15 DEF InAudit
    <2>2. AuditOf(n)'[i] = c /\ i \in 1..Len(AuditOf(n)')
      BY <1>5, <1>6, <2>1 DEF Rev
    <2> QED
      BY <2>2 DEF InAudit, Rev
  <1>16. RequestSound(q)'
    <2>1. Holds(q, "staged")' /\ k.new = txn'.new
      BY <1>7, <1>10 DEF Holds, Asks
    <2>2. k.expect = req[q].expect /\ k.op = req[q].op /\ k.new = n
      BY <1>7 DEF Asks
    <2>3. Result(q)' = n
      BY <1>5, <1>9, <2>2 DEF Result
    <2>4. \A a \in floor[q] : InAudit(a[1], n)'
      BY <1>3, <1>15
    <2>5. k.op \in {"read", "list"} => k.expect = 0
      BY <1>1, <2>2 DEF RequestSound
    <2>6. k.expect # 0 => docs'[n].gen = k.expect + 1
      BY <1>5, <2>2
    <2> QED
      BY <1>5, <1>9, <2>1, <2>2, <2>3, <2>4, <2>5, <2>6 DEF RequestSound, InAudit, AuditOf, Rev
  <1> QED
    BY <1>1, <1>5, <1>12, <1>13, <1>14, <1>16, Step

LEMMA MutationSafe ==
    ASSUME NeonInv, NEW q \in Requests, Rotate(q) \/ Rollback(q) \/ PersistThresholds(q)
    PROVE  NeonInv'
  <1>1. TypeOK /\ RequestSound(q) /\ pc[q] = "locked"
    BY DEF NeonInv, Rotate, Rollback, PersistThresholds, Mutating, At
  <1>2. PICK d : d = req[q].local
    OBVIOUS
  <1>3. docs[d].gen \in Nat /\ docs[d].prev \in Nat /\ req[q].expect \in Nat
    <2>1. d # 0 /\ d \in 0..Len(docs) /\ Len(docs) \in Nat
      BY <1>1, <1>2, RequestType, NoDocument DEF RequestSound, Result
    <2>2. d \in 1..Len(docs)
      BY <2>1
    <2> QED
      BY <1>1, <2>2, DocType, RequestType
  <1>4. CASE Rotate(q)
    <2>1. At(q, "locked") /\ docs[d].gen = req[q].expect /\ Stage(q, "ROTATED", docs[d].gen + 1, docs[d].gen)
      BY <1>2, <1>4 DEF Rotate, GenerationMatches, Mutating
    <2>2. "ROTATED" \in Kinds /\ docs[d].gen + 1 \in Nat /\ docs[d].gen <= docs[d].gen + 1 /\ 0 \in Nat
      BY <1>3 DEF Kinds
    <2> QED
      BY <1>2, <1>3, <2>1, <2>2, StageSafe
  <1>5. CASE Rollback(q)
    <2>1. At(q, "locked") /\ docs[d].gen = req[q].expect /\ Stage(q, "ROLLED_BACK", docs[d].gen + 1, 0)
      BY <1>2, <1>5 DEF Rollback, GenerationMatches, Mutating
    <2>2. "ROLLED_BACK" \in Kinds /\ docs[d].gen + 1 \in Nat /\ docs[d].gen <= docs[d].gen + 1 /\ 0 \in Nat
      BY <1>3 DEF Kinds
    <2> QED
      BY <1>2, <1>3, <2>1, <2>2, StageSafe
  <1>6. CASE PersistThresholds(q)
    <2>1. At(q, "locked") /\ req[q].op = "list" /\ Stage(q, "THRESHOLD", docs[d].gen, docs[d].prev)
      BY <1>2, <1>6 DEF PersistThresholds, Mutating
    <2>2. req[q].expect = 0
      BY <1>1, <2>1 DEF RequestSound
    <2>3. "THRESHOLD" \in Kinds /\ docs[d].gen <= docs[d].gen
      BY <1>3 DEF Kinds
    <2> QED
      BY <1>2, <1>3, <2>1, <2>2, <2>3, StageSafe
  <1> QED
    BY <1>4, <1>5, <1>6

LEMMA RefuseSafe ==
    ASSUME NeonInv, NEW q \in Requests, Refuse(q)
    PROVE  NeonInv'
  <1>1. /\ DocsGrow /\ DocsSound' /\ InsertsSound' /\ Tells(q, {}, reply[q], floor[q])
        /\ TypeOK /\ RequestSound(q) /\ pc[q] = "locked"
    BY Unbuilt, NothingTold DEF Refuse, NeonInv, Mutating, At
  <1>2. /\ pc' = [pc EXCEPT ![q] = "rollback"] /\ req' = req /\ txn' = txn /\ floor' = floor /\ row' = row
        /\ docs' = docs /\ inserting' = inserting /\ gauge' = gauge
        /\ mutations' = mutations /\ faults' = faults
    BY DEF Refuse, Goto, history, bounds
  <1>3. pc'[q] = "rollback" /\ req' = [req EXCEPT ![q] = req'[q]] /\ req'[q] \in Request(Len(docs'))
    BY <1>1, <1>2 DEF TypeOK
  <1>4. Moves(q)
    BY <1>1, <1>2, <1>3 DEF TypeOK, Moves, Places
  <1>5. TxnSound'
    BY <1>1, <1>2, <1>3, <1>4, TxnKept DEF NeonInv, HoldsLock
  <1>6. RequestSound(q)'
    BY <1>1, <1>2, <1>3 DEF RequestSound, Holds
  <1> QED
    BY <1>1, <1>4, <1>5, <1>6, Step

(* A request that ends, and with it the transaction it may have.                 *)
LEMMA EndSafe ==
    ASSUME NeonInv, NEW q \in Requests, EndRequest(q), docs' = docs, row' = row, inserting' = inserting,
           gauge' \in 0..Len(docs), mutations' = mutations, faults' \in 0..MaxFaults,
           NEW s, NEW x, NEW f, Tells(q, s, x, f),
           \/ txn.client # q /\ txn' = txn
           \/ txn.client = q /\ txn' \in {NoTxn, [txn EXCEPT !.client = Nobody]}
    PROVE  NeonInv'
  <1>1. DocsGrow /\ DocsSound' /\ InsertsSound' /\ TypeOK /\ TxnSound
    BY Unbuilt DEF NeonInv
  <1>2. pc'[q] = "idle" /\ req'[q] = NoRequest
    BY <1>1 DEF TypeOK, EndRequest, Goto
  <1>3. Moves(q)
    <2>1. txn' \in Txn(Len(docs')) /\ (txn' = txn \/ {txn.client, txn'.client} \subseteq {q, Nobody})
      <3>1. txn \in Txn(Len(docs')) /\ NoTxn \in Txn(Len(docs')) /\ NoTxn.client = Nobody
        BY <1>1, NoDocument DEF TypeOK, NoTxn
      <3>2. /\ [txn EXCEPT !.client = Nobody] \in Txn(Len(docs'))
            /\ [txn EXCEPT !.client = Nobody].client = Nobody
        BY <3>1 DEF Txn
      <3> QED
        BY <3>1, <3>2
    <2> QED
      BY <1>1, <1>2, <2>1, NoDocument DEF TypeOK, Moves, EndRequest, Goto, Places
  <1>4. TxnSound'
    <2>1. CASE txn.client # q /\ txn' = txn
      BY <1>1, <1>3, <2>1, TxnKept
    <2>2. CASE txn' = NoTxn
      BY <2>2 DEF TxnSound, NoTxn
    <2>3. CASE txn' = [txn EXCEPT !.client = Nobody]
      <3>1. txn'.new = txn.new /\ txn'.state = txn.state /\ txn'.client = Nobody
        BY <1>1, <2>3 DEF TypeOK, Txn
      <3> QED
        BY <1>1, <3>1 DEF TxnSound, AuditOf
    <2> QED
      BY <2>1, <2>2, <2>3
  <1> QED
    BY <1>1, <1>2, <1>3, <1>4, Over, Step

LEMMA RollbackTxnSafe ==
    ASSUME NeonInv, NEW q \in Requests, RollbackTxn(q)
    PROVE  NeonInv'
  <1>1. Tells(q, {}, reply[q], floor[q]) /\ RequestSound(q) /\ TypeOK
    BY NothingTold DEF RollbackTxn, NeonInv
  <1>2. txn.client = q
    BY <1>1 DEF RequestSound, Holds, RollbackTxn, At
  <1> QED
    BY <1>1, <1>2, EndSafe DEF RollbackTxn, bounds, TypeOK

LEMMA ConnectionLostSafe ==
    ASSUME NeonInv, NEW q \in Requests, ConnectionLost(q)
    PROVE  NeonInv'
  <1>1. Tells(q, {}, reply[q], floor[q]) /\ TypeOK
    BY NothingTold DEF ConnectionLost, NeonInv
  <1>2. faults' \in 0..MaxFaults
    BY <1>1, NeonBoundsType DEF ConnectionLost, Fault, TypeOK
  <1>3. gauge' \in 0..Len(docs)
    BY <1>1, NoDocument DEF ConnectionLost, TypeOK
  <1>4. \/ txn.client # q /\ txn' = txn
        \/ txn.client = q /\ txn' = [txn EXCEPT !.client = Nobody]
    BY DEF ConnectionLost, Abandoned
  <1> QED
    BY <1>1, <1>2, <1>3, <1>4, EndSafe DEF ConnectionLost

LEMMA CommitReturnedSafe ==
    ASSUME NeonInv, NEW q \in Requests, CommitReturned(q)
    PROVE  NeonInv'
  <1>1. TypeOK /\ RequestSound(q) /\ pc[q] = "commitSent" /\ txn.client # q
    BY DEF NeonInv, CommitReturned, At
  <1>2. PICK x, k : x = Result(q) /\ k = req[q]
    OBVIOUS
  <1>3. /\ InAudit(x, row) /\ x # 0 /\ x \in 0..Len(docs) /\ \A a \in floor[q] : InAudit(a[1], x)
        /\ k.new # 0 /\ k.expect # 0 => docs[k.new].gen = k.expect + 1
    BY <1>1, <1>2, RequestType DEF RequestSound, Holds, Result
  <1>4. k.expect \in Nat /\ k.new \in 0..Len(docs) /\ (k.new # 0 => k.new = x) /\ floor[q] \subseteq acked
    BY <1>1, <1>2, RequestType DEF Result
  <1>5. PICK s : /\ acked' = acked \cup s
                 /\ \/ s = {}
                    \/ k.new # 0 /\ s = {<<k.new, k.expect>>}
    BY <1>2 DEF CommitReturned
  <1>6. reply' = [reply EXCEPT ![q] = x] /\ floor' = floor
    BY <1>2 DEF CommitReturned, Result
  <1>7. Tells(q, s, x, floor[q])
    <2>1. \A a \in s : a \in (1..Len(docs)) \X Nat /\ a[1] = x /\ (a[2] # 0 => docs[a[1]].gen = a[2] + 1)
      BY <1>1, <1>3, <1>4, <1>5, NoDocument
    <2>2. floor' = [floor EXCEPT ![q] = floor[q]]
      BY <1>1, <1>6 DEF TypeOK
    <2> QED
      BY <1>3, <1>4, <1>5, <1>6, <2>1, <2>2 DEF Tells
  <1>8. gauge' \in 0..Len(docs)
    BY <1>1, <1>2, <1>3 DEF CommitReturned, Result, TypeOK
  <1> QED
    BY <1>1, <1>7, <1>8, EndSafe DEF CommitReturned, bounds, TypeOK

(* The COMMIT is sent, of a document or of none.                               *)
LEMMA CommitSentSafe ==
    ASSUME NeonInv, NEW q \in Requests, SendCommit(q) \/ NoThresholdLeft(q)
    PROVE  NeonInv'
  <1>1. /\ DocsGrow /\ DocsSound' /\ InsertsSound' /\ Tells(q, {}, reply[q], floor[q])
        /\ TypeOK /\ RequestSound(q) /\ TxnSound
    BY Unbuilt, NothingTold DEF SendCommit, NoThresholdLeft, NeonInv
  <1>2. PICK k : k = req[q]
    OBVIOUS
  <1>3. /\ txn.client = q /\ txn.state \in {"open", "staged"} /\ k.new = txn.new
        /\ k.new = 0 => k.local = row
        /\ pc[q] \in {"locked", "staged"}
    BY <1>1, <1>2 DEF SendCommit, NoThresholdLeft, Mutating, At, RequestSound, Holds, TxnSound
  <1>4. /\ pc' = [pc EXCEPT ![q] = "commitSent"] /\ req' = req /\ floor' = floor /\ row' = row
        /\ docs' = docs /\ inserting' = inserting /\ mutations' = mutations /\ faults' = faults
        /\ txn' = [txn EXCEPT !.state = "committing"]
    BY DEF SendCommit, NoThresholdLeft, Goto, history, bounds
  <1>5. gauge' \in 0..Len(docs')
    BY <1>1, <1>4, RequestType DEF SendCommit, NoThresholdLeft, TypeOK
  <1>6. txn' \in Txn(Len(docs')) /\ txn'.client = q /\ txn'.state = "committing" /\ txn'.new = k.new
    BY <1>1, <1>3, <1>4 DEF TypeOK, Txn
  <1>7. pc'[q] = "commitSent" /\ req'[q] = k /\ req' = [req EXCEPT ![q] = req'[q]] /\ k \in Request(Len(docs'))
    BY <1>1, <1>2, <1>4 DEF TypeOK
  <1>8. Moves(q)
    BY <1>1, <1>3, <1>4, <1>5, <1>6, <1>7 DEF TypeOK, Moves, Places
  <1>9. TxnSound'
    BY <1>1, <1>3, <1>4, <1>6, <1>7 DEF TxnSound, AuditOf
  <1>10. RequestSound(q)'
    <2>1. Holds(q, "committing")'
      BY <1>6 DEF Holds
    <2>2. /\ k.op \in {"read", "list"} => k.expect = 0
          /\ k.new # 0 /\ k.expect # 0 => docs[k.new].gen = k.expect + 1
          /\ Result(q) # 0 /\ \A a \in floor[q] : InAudit(a[1], Result(q))
      BY <1>1, <1>2, <1>3 DEF RequestSound
    <2>3. PICK x : x = Result(q)
      OBVIOUS
    <2>4. Result(q)' = x /\ x # 0 /\ \A a \in floor[q] : InAudit(a[1], x)'
      BY <1>2, <1>4, <1>7, <2>2, <2>3 DEF Result, InAudit, Rev, AuditOf
    <2> QED
      BY <1>3, <1>4, <1>6, <1>7, <2>1, <2>2, <2>4 DEF RequestSound, InAudit, Rev, AuditOf
  <1> QED
    BY <1>1, <1>8, <1>9, <1>10, Step

---------------------------------------------------------------------------
(* The server's steps and the crash of the process.                            *)
LEMMA ServerMoves ==
    ASSUME NeonInv, docs' = docs, inserting' \subseteq inserting, pc' \in [Requests -> Places],
           req' \in [Requests -> Request(Len(docs))], gauge' \in 0..Len(docs),
           UNCHANGED history, mutations' = mutations, faults' \in 0..MaxFaults,
           RowGrows, txn' \in Txn(Len(docs)), TxnSound', \A r \in Requests : RequestSound(r)'
    PROVE  NeonInv'
  <1>1. TypeOK /\ DocsGrow /\ DocsSound' /\ InsertsSound'
    BY Unbuilt DEF NeonInv
  <1>2. TypeOK'
    BY <1>1 DEF TypeOK, RowGrows, history
  <1>3. AckedDurable'
    <2>1. \A a \in acked : a[1] \in 1..Len(docs)
      BY <1>1 DEF TypeOK
    <2> QED
      BY <1>1, <2>1 DEF NeonInv, AckedDurable, RowGrows, history
  <1>4. ReadsCommitted'
    <2> SUFFICES ASSUME NEW r \in Requests, NEW y, y = reply[r], y # 0
                 PROVE  InAudit(y, row)' /\ \A a \in floor[r] : InAudit(a[1], y)'
      <3>1. reply' = reply /\ floor' = floor
        BY DEF history
      <3> QED
        BY SMTT(30), <3>1 DEF ReadsCommitted, InAudit, AuditOf, Rev
    <2>1. y \in 1..Len(docs) /\ InAudit(y, row) /\ \A a \in floor[r] : InAudit(a[1], y)
      BY <1>1, NoDocument DEF NeonInv, ReadsCommitted, TypeOK
    <2>2. InAudit(y, row)'
      BY <2>1 DEF RowGrows
    <2>3. y \in 0..Len(docs)
      BY <2>1
    <2> QED
      BY <1>1, <2>1, <2>2, <2>3, Growing
  <1> QED
    BY <1>1, <1>2, <1>3, <1>4 DEF NeonInv

LEMMA ServerInsertSafe ==
    ASSUME NeonInv, NEW c \in inserting, ServerInsert(c)
    PROVE  NeonInv'
  <1>1. TypeOK /\ DocsSound /\ DocsGrow /\ TxnSound
    BY Unbuilt DEF NeonInv, ServerInsert
  <1>2. /\ docs' = docs /\ txn' = txn /\ pc' = pc /\ req' = req /\ floor' = floor
        /\ row # 0 => row' = row
        /\ row = 0 => row' = c
        /\ row' \in 0..Len(docs) /\ row \in 0..Len(docs)
    BY <1>1 DEF ServerInsert, TypeOK, history
  <1>3. RowGrows
    <2>1. \A d \in 1..Len(docs) : InAudit(d, row) => row # 0
      BY <1>1, <1>2, InAuditDoc
    <2> QED
      BY <1>2, <2>1 DEF RowGrows, InAudit, AuditOf, Rev
  <1>4. TxnSound'
    BY <1>1, <1>2 DEF TxnSound, AuditOf, TypeOK, Txn
  <1>5. ASSUME NEW r \in Requests PROVE RequestSound(r)'
    BY <1>1, <1>2, <1>3, RequestKept DEF NeonInv, Same, TxnSound
  <1> QED
    BY <1>1, <1>2, <1>3, <1>4, <1>5, ServerMoves DEF ServerInsert, bounds, TypeOK

LEMMA ServerCommitSafe ==
    ASSUME NeonInv, ServerCommit
    PROVE  NeonInv' /\ RowGrows
  <1>1. TypeOK /\ DocsSound /\ DocsGrow /\ TxnSound /\ NoTxn \in Txn(Len(docs))
    BY Unbuilt, NoDocument DEF NeonInv, ServerCommit
  <1>2. /\ docs' = docs /\ txn' = NoTxn /\ pc' = pc /\ req' = req /\ floor' = floor
        /\ txn.state = "committing" /\ row # 0 /\ row \in 0..Len(docs) /\ Len(docs) \in Nat
    BY <1>1 DEF ServerCommit, TypeOK, TxnSound, history
  <1>3. PICK n : n = txn.new
    OBVIOUS
  <1>4. /\ n \in 0..Len(docs)
        /\ n = 0 => row' = row
        /\ n # 0 => row' = n /\ AuditOf(n) = Append(AuditOf(row), n)
    BY <1>1, <1>3 DEF ServerCommit, TxnSound, TypeOK, Txn
  <1>5. RowGrows
    <2>1. CASE n = 0
      BY <1>2, <1>4, <2>1 DEF RowGrows, InAudit, AuditOf, Rev
    <2>2. CASE n # 0
      <3>1. AuditOf(row) \in Seq(Nat) /\ Rev(row) = Len(AuditOf(row))
        BY <1>1, <1>2, AuditType DEF Rev
      <3>2. ASSUME NEW d, InAudit(d, row) PROVE InAudit(d, n)
        <4>1. PICK i \in 1..Rev(row) : AuditOf(row)[i] = d
          BY <3>2 DEF InAudit
        <4>2. Len(Append(AuditOf(row), n)) = Rev(row) + 1 /\ Rev(row) \in Nat
              /\ Append(AuditOf(row), n)[i] = d
          BY <3>1, <4>1
        <4>3. AuditOf(n)[i] = d /\ i \in 1..Rev(n)
          BY <1>4, <2>2, <4>2 DEF Rev
        <4> QED
          BY <4>3 DEF InAudit
      <3>3. \A d : InAudit(d, n) => InAudit(d, row)'
        BY <1>2, <1>4, <2>2 DEF InAudit, AuditOf, Rev
      <3> QED
        BY <1>2, <1>4, <2>2, <3>2, <3>3 DEF RowGrows
    <2> QED
      BY <2>1, <2>2
  <1>6. TxnSound'
    BY <1>2 DEF TxnSound, NoTxn
  <1>7. ASSUME NEW r \in Requests PROVE RequestSound(r)'
    <2>1. RequestSound(r) /\ Same(r) /\ txn'.client # r
      BY <1>2, NobodyIsNoRequest DEF NeonInv, Same, NoTxn
    <2>2. CASE txn.client # r
      BY <1>1, <1>5, <2>1, <2>2, RequestKept
    <2>3. CASE txn.client = r
      <3>1. PICK k, x : k = req[r] /\ x = Result(r)
        OBVIOUS
      <3>2. pc[r] \in HoldsLock
        BY <1>1, <2>3, NobodyIsNoRequest DEF TxnSound, HoldsLock
      <3>3. pc[r] = "commitSent" /\ k.new = n /\ (n = 0 => k.local = row) /\ x # 0
        BY <1>2, <1>3, <2>1, <2>3, <3>1, <3>2 DEF RequestSound, Holds, HoldsLock
      <3>4. x = row' /\ row' \in 1..Len(docs)
        BY <1>2, <1>4, <3>1, <3>3 DEF Result
      <3>5. InAudit(x, x)
        BY <1>1, <3>4, InAuditOfItself
      <3>6. InAudit(x, row)'
        BY <1>2, <3>4, <3>5 DEF InAudit, AuditOf, Rev
      <3>7. /\ k.op \in {"read", "list"} => k.expect = 0
            /\ k.new # 0 /\ k.expect # 0 => docs[k.new].gen = k.expect + 1
            /\ \A a \in floor[r] : InAudit(a[1], x)
        BY <2>1, <3>1, <3>3 DEF RequestSound
      <3>8. Result(r)' = x /\ \A a \in floor[r] : InAudit(a[1], x)'
        BY <1>2, <3>1, <3>7 DEF Result, InAudit, AuditOf, Rev
      <3> QED
        BY <1>2, <2>1, <3>1, <3>3, <3>6, <3>7, <3>8 DEF RequestSound, InAudit, AuditOf, Rev
    <2> QED
      BY <2>2, <2>3
  <1>8. NeonInv'
    BY <1>1, <1>2, <1>5, <1>6, <1>7, ServerMoves DEF ServerCommit, bounds, TypeOK
  <1> QED
    BY <1>5, <1>8

LEMMA SessionEndsSafe ==
    ASSUME NeonInv, ServerEndsSession
    PROVE  NeonInv'
  <1>1. TypeOK /\ DocsSound /\ DocsGrow /\ NoTxn \in Txn(Len(docs))
    BY Unbuilt, NoDocument DEF NeonInv, ServerEndsSession
  <1>2. /\ docs' = docs /\ txn' = NoTxn /\ pc' = pc /\ req' = req /\ floor' = floor /\ row' = row
        /\ txn.client = Nobody
    BY DEF ServerEndsSession, history
  <1>3. RowGrows
    BY <1>1, <1>2 DEF RowGrows, InAudit, AuditOf, Rev, TypeOK
  <1>4. TxnSound'
    BY <1>2 DEF TxnSound, NoTxn
  <1>5. ASSUME NEW r \in Requests PROVE RequestSound(r)'
    BY <1>1, <1>2, <1>3, RequestKept, NobodyIsNoRequest DEF NeonInv, Same, NoTxn
  <1> QED
    BY <1>1, <1>2, <1>3, <1>4, <1>5, ServerMoves DEF ServerEndsSession, bounds, TypeOK

LEMMA CrashSafe ==
    ASSUME NeonInv, ProcessCrash
    PROVE  NeonInv'
  <1>1. TypeOK /\ TxnSound /\ DocsSound /\ NoRequest \in Request(Len(docs)) /\ Len(docs) \in Nat
    BY NoDocument DEF NeonInv
  <1>2. /\ docs' = docs /\ row' = row /\ inserting' = inserting /\ gauge' = 0 /\ mutations' = mutations
        /\ txn' = [txn EXCEPT !.client = Nobody] /\ faults' \in 0..MaxFaults
    BY <1>1, NeonBoundsType DEF ProcessCrash, Fault, TypeOK
  <1>3. RowGrows
    BY <1>1, <1>2 DEF RowGrows, InAudit, AuditOf, Rev, TypeOK
  <1>4. txn' \in Txn(Len(docs)) /\ txn'.client = Nobody /\ txn'.new = txn.new /\ txn'.state = txn.state
    BY <1>1, <1>2 DEF TypeOK, Txn
  <1>5. TxnSound'
    BY <1>1, <1>2, <1>4 DEF TxnSound, AuditOf
  <1>6. ASSUME NEW r \in Requests PROVE RequestSound(r)'
    BY Over DEF ProcessCrash
  <1>7. pc' \in [Requests -> Places] /\ req' \in [Requests -> Request(Len(docs))]
    BY <1>1 DEF ProcessCrash, Places
  <1> QED
    BY <1>1, <1>2, <1>3, <1>4, <1>5, <1>6, <1>7, ServerMoves DEF ProcessCrash

---------------------------------------------------------------------------
LEMMA NeonInit ==
    ASSUME Init
    PROVE  NeonInv
  <1>1. Len(docs) = 0 /\ docs \in Seq(Doc)
    BY DEF Init
  <1>2. TypeOK
    BY <1>1, NeonBoundsType, NoDocument DEF Init, TypeOK, Places, NoTxn, NoRequest, Txn, Request, Ops
  <1>3. DocsSound /\ InsertsSound /\ TxnSound
    BY <1>1 DEF Init, DocsSound, InsertsSound, TxnSound, NoTxn
  <1>4. \A r \in Requests : RequestSound(r)
    BY DEF Init, RequestSound, NoRequest
  <1> QED
    BY <1>2, <1>3, <1>4 DEF Init, NeonInv, AckedDurable, ReadsCommitted

LEMMA NeonNext ==
    ASSUME NeonInv, [Next]_vars
    PROVE  NeonInv'
  <1>1. ASSUME NEW q \in Requests, NewRequest(q) PROVE NeonInv'
    BY <1>1, StartSafe DEF NewRequest
  <1>2. ASSUME NEW q \in Requests, RequestStep(q) PROVE NeonInv'
    BY <1>2, SelectRowSafe, SendInsertSafe, InsertReturnedSafe, AnsweredSafe, LockRowSafe, MutationSafe,
       RefuseSafe, RollbackTxnSafe, CommitSentSafe, CommitReturnedSafe DEF RequestStep
  <1>3. ASSUME NEW q \in Requests, ConnectionLost(q) PROVE NeonInv'
    BY <1>3, ConnectionLostSafe
  <1>4. ASSUME ServerStep PROVE NeonInv'
    BY <1>4, ServerInsertSafe, ServerCommitSafe, SessionEndsSafe DEF ServerStep
  <1>5. ASSUME ProcessCrash PROVE NeonInv'
    BY <1>5, CrashSafe
  <1>6. CASE UNCHANGED vars
    <2>1. TypeOK' /\ DocsSound' /\ InsertsSound'
      BY <1>6, DocsKept, Unbuilt DEF vars, history, bounds, NeonInv, TypeOK
    <2>2. TxnSound'
      BY <1>6 DEF vars, NeonInv, TxnSound, AuditOf
    <2>3. AckedDurable' /\ ReadsCommitted'
      BY <1>6 DEF vars, history, NeonInv, AckedDurable, ReadsCommitted, InAudit, AuditOf, Rev
    <2>4. \A r \in Requests : RequestSound(r)'
      BY <1>6 DEF vars, history, NeonInv, RequestSound, Holds, Result, InAudit, AuditOf, Rev
    <2> QED
      BY <2>1, <2>2, <2>3, <2>4 DEF NeonInv
  <1> QED
    BY <1>1, <1>2, <1>3, <1>4, <1>5, <1>6 DEF Next

LEMMA NeonAlways == Spec => []NeonInv
  <1>1. Init => NeonInv
    BY NeonInit
  <1>2. NeonInv /\ [Next]_vars => NeonInv'
    BY NeonNext
  <1> QED
    BY <1>1, <1>2, PTL DEF Spec

(* Theorem: every variable keeps its type (TypeOK).                             *)
THEOREM NeonTypeOK == Spec => []TypeOK
  <1>1. NeonInv => TypeOK
    BY DEF NeonInv
  <1> QED
    BY <1>1, NeonAlways, PTL

(* Theorem: of the rotations and rollbacks that expected one generation at most *)
(* one was ever committed, whatever connections were lost and however often the  *)
(* operator retried (OneCommitPerGeneration).                                *)
THEOREM NeonCommitsOnce == Spec => []OneCommitPerGeneration
  <1>1. ASSUME NeonInv PROVE OneCommitPerGeneration
    <2>1. TypeOK /\ DocsSound /\ row \in 0..Len(docs) /\ Len(docs) \in Nat
      BY <1>1 DEF NeonInv, TypeOK
    <2>2. CASE row = 0
      BY <2>1, <2>2, AuditType DEF OneCommitPerGeneration
    <2>3. CASE row # 0
      <3>1. row \in 1..Len(docs)
        BY <2>1, <2>3
      <3> QED
        BY <2>1, <3>1, ExpectationsGrow DEF OneCommitPerGeneration
    <2> QED
      BY <2>2, <2>3
  <1> QED
    BY <1>1, NeonAlways, PTL

(* Theorem: what a mutation was acknowledged for is in the row for ever, and is   *)
(* the generation after the one it expected (AckedDurable).                    *)
THEOREM NeonAckedDurable == Spec => []AckedDurable
  <1>1. NeonInv => AckedDurable
    BY DEF NeonInv
  <1> QED
    BY <1>1, NeonAlways, PTL

(* Theorem: a request is answered from a committed document that has all that was *)
(* acknowledged before the request began (ReadsCommitted).                     *)
THEOREM NeonReadsCommitted == Spec => []ReadsCommitted
  <1>1. NeonInv => ReadsCommitted
    BY DEF NeonInv
  <1> QED
    BY <1>1, NeonAlways, PTL

---------------------------------------------------------------------------
(* The commit log.  A document is pending while its INSERT or the transaction    *)
(* that staged it is at the server, and never both.                           *)
LEMMA PendingOnce ==
    ASSUME NeonInv, txn.new # 0
    PROVE  row # 0 /\ txn.new \notin inserting
  <1>1. /\ TypeOK /\ row \in 0..Len(docs) /\ txn.new \in 0..Len(docs) /\ Len(docs) \in Nat
        /\ AuditOf(txn.new) = Append(AuditOf(row), txn.new) /\ row # 0
    BY NoDocument DEF NeonInv, TypeOK, Txn, TxnSound
  <1>2. AuditOf(row) \in Seq(Nat) /\ Len(AuditOf(row)) >= 1
    BY <1>1, AuditType DEF NeonInv, DocsSound, DocSound, Rev
  <1>3. Len(AuditOf(txn.new)) >= 2
    BY <1>1, <1>2
  <1>4. Len(<<txn.new>>) = 1
    OBVIOUS
  <1> QED
    BY <1>1, <1>3, <1>4 DEF NeonInv, InsertsSound

LEMMA LogStutters ==
    ASSUME docs' = docs, row' = row, inserting' = inserting, txn'.new = txn.new, acked' = acked
    PROVE  UNCHANGED CommitLog!logVars
  BY DEF CommitLog!logVars, Pending, AuditOf

LEMMA LogRequestStep ==
    ASSUME NeonInv, NEW q \in Requests, RequestStep(q)
    PROVE  [CommitLog!LogNext]_(CommitLog!logVars)
  <1>1. TypeOK /\ TxnSound /\ RequestSound(q) /\ Len(docs) \in Nat
    BY NoDocument DEF NeonInv
  <1>2. txn = [client |-> txn.client, new |-> txn.new, state |-> txn.state]
    BY <1>1 DEF TypeOK, Txn
  <1>3. CASE SelectRow(q) \/ InsertReturned(q) \/ Answered(q) \/ Refuse(q)
    BY <1>3, LogStutters DEF SelectRow, InsertReturned, Answered, Refuse, history
  <1>4. CASE LockRow(q)
    <2>1. txn'.new = txn.new
      BY <1>1, <1>4 DEF LockRow, TxnSound
    <2> QED
      BY <1>4, <2>1, LogStutters DEF LockRow, history
  <1>5. CASE SendCommit(q) \/ NoThresholdLeft(q)
    <2>1. txn'.new = txn.new
      BY <1>2, <1>5 DEF SendCommit, NoThresholdLeft
    <2> QED
      BY <1>5, <2>1, LogStutters DEF SendCommit, NoThresholdLeft, history
  <1>6. CASE RollbackTxn(q)
    <2>1. txn.new = 0 /\ txn'.new = 0
      BY <1>1, <1>6 DEF RollbackTxn, TxnSound, RequestSound, Holds, At, NoTxn
    <2> QED
      BY <1>6, <2>1, LogStutters DEF RollbackTxn, history
  <1>7. CASE SendInsert(q)
    <2>1. PICK n : n = Len(docs) + 1
      OBVIOUS
    <2>2. BuildDocument(q, "BOOTSTRAPPED", 1, 0, 0)
      BY <1>7 DEF SendInsert
    <2>3. DocsGrow /\ Len(docs') = n
      BY <1>1, <2>1, <2>2, Bootstrapping
    <2>4. AuditOf(row)' = AuditOf(row)
      <3>1. row \in 0..Len(docs) /\ row' = row
        BY <1>1, <1>7 DEF TypeOK, SendInsert
      <3> QED
        BY <1>1, <2>3, <3>1, Growing DEF AuditOf
    <2>5. Pending' = Pending \cup {n} /\ acked' = acked
      BY <1>7, <2>1 DEF Pending, SendInsert, history
    <2> QED
      BY <2>1, <2>3, <2>4, <2>5 DEF CommitLog!LogNext, CommitLog!Begin
  <1>8. CASE Rotate(q) \/ Rollback(q) \/ PersistThresholds(q)
    <2>1. pc[q] = "locked"
      BY <1>8 DEF Rotate, Rollback, PersistThresholds, Mutating, At
    <2>2. txn.new = 0
      BY <1>1, <2>1 DEF RequestSound, Holds, TxnSound
    <2>3. PICK kind, gen, prev : Stage(q, kind, gen, prev)
      BY <1>8 DEF Rotate, Rollback, PersistThresholds
    <2>4. PICK n, doc : n = Len(docs) + 1 /\ docs' = Append(docs, doc)
      BY <2>3 DEF Stage, BuildDocument
    <2>5. docs \in Seq(Doc) /\ row \in 0..Len(docs) /\ row' = row /\ acked' = acked /\ inserting' = inserting
      BY <1>1, <2>3 DEF TypeOK, Stage, history
    <2>6. Len(docs') = n /\ \A c \in 1..Len(docs) : docs'[c] = docs[c]
      BY <2>4, <2>5
    <2>7. AuditOf(row)' = AuditOf(row)
      BY <1>1, <2>5, <2>6 DEF AuditOf
    <2>8. txn'.new = n
      <3>1. txn' = [txn EXCEPT !.new = n, !.state = "staged"]
        BY <2>3, <2>4 DEF Stage
      <3>2. [txn EXCEPT !.new = n, !.state = "staged"] = [[txn EXCEPT !.new = n] EXCEPT !.state = "staged"]
        OBVIOUS
      <3>3. [txn EXCEPT !.new = n] = [client |-> txn.client, new |-> n, state |-> txn.state]
        BY <1>2
      <3>4. [[client |-> txn.client, new |-> n, state |-> txn.state] EXCEPT !.state = "staged"].new = n
        OBVIOUS
      <3> QED
        BY <3>1, <3>2, <3>3, <3>4, Zenon
    <2>9. Pending' = Pending \cup {n}
      BY <1>1, <2>2, <2>4, <2>5, <2>8 DEF Pending
    <2> QED
      BY <2>4, <2>5, <2>6, <2>7, <2>9 DEF CommitLog!LogNext, CommitLog!Begin
  <1>9. CASE CommitReturned(q)
    <2>1. PICK k : k = req[q]
      OBVIOUS
    <2>2. /\ docs' = docs /\ row' = row /\ inserting' = inserting /\ txn' = txn
          /\ k.new = 0 => acked' = acked
          /\ k.new # 0 => acked' = acked \cup {<<k.new, k.expect>>}
      BY <1>9, <2>1 DEF CommitReturned
    <2>3. CASE k.new = 0
      BY <2>2, <2>3, LogStutters
    <2>4. CASE k.new # 0
      <3>1. InAudit(k.new, row)
        BY <1>1, <1>9, <2>1, <2>4 DEF CommitReturned, At, RequestSound, Holds, Result
      <3>2. k.new \in CommitLog!Committed
        BY <3>1 DEF CommitLog!Committed, InAudit, Rev
      <3>3. {a[1] : a \in acked'} = {a[1] : a \in acked} \cup {k.new}
        <4>1. PICK e : e = <<k.new, k.expect>>
          OBVIOUS
        <4>2. e[1] = k.new /\ acked' = acked \cup {e}
          BY <2>2, <2>4, <4>1
        <4> QED
          BY <4>2
      <3>4. Pending' = Pending /\ AuditOf(row)' = AuditOf(row)
        BY <2>2 DEF Pending, AuditOf
      <3>5. CommitLog!Acknowledge(k.new)
        BY <2>2, <3>2, <3>3, <3>4 DEF CommitLog!Acknowledge
      <3> QED
        BY <3>2, <3>5 DEF CommitLog!LogNext
    <2> QED
      BY <2>3, <2>4
  <1> QED
    BY <1>3, <1>4, <1>5, <1>6, <1>7, <1>8, <1>9 DEF RequestStep

LEMMA LogServerStep ==
    ASSUME NeonInv, ServerStep
    PROVE  [CommitLog!LogNext]_(CommitLog!logVars)
  <1>1. TypeOK /\ TxnSound /\ InsertsSound
    BY DEF NeonInv
  <1>2. ASSUME NEW c \in inserting, ServerInsert(c) PROVE CommitLog!Commit(c) \/ CommitLog!Abort(c)
    <2>1. /\ docs' = docs /\ txn' = txn /\ acked' = acked /\ inserting' = inserting \ {c}
          /\ row # 0 => row' = row
          /\ row = 0 => row' = c
          /\ c \in Pending /\ c # 0
      BY <1>1, <1>2 DEF ServerInsert, history, Pending, TypeOK
    <2>2. txn.new # 0 => row # 0 /\ txn.new # c
      BY PendingOnce
    <2>3. Pending' = Pending \ {c}
      BY <2>1, <2>2 DEF Pending
    <2>4. CASE row = 0
      <3>1. AuditOf(row)' = <<c>> /\ AuditOf(row) = <<>>
        BY <1>1, <2>1, <2>4 DEF InsertsSound, AuditOf
      <3>2. AuditOf(row)' = Append(AuditOf(row), c)
        BY <3>1
      <3> QED
        BY <2>1, <2>3, <3>2 DEF CommitLog!Commit
    <2>5. CASE row # 0
      <3>1. AuditOf(row)' = AuditOf(row)
        BY <2>1, <2>5 DEF AuditOf
      <3> QED
        BY <2>1, <2>3, <3>1 DEF CommitLog!Abort
    <2> QED
      BY <2>4, <2>5
  <1>3. CASE ServerCommit \/ ServerEndsSession
    <2>1. PICK n : n = txn.new
      OBVIOUS
    <2>2. docs' = docs /\ acked' = acked /\ inserting' = inserting /\ txn'.new = 0
      BY <1>3 DEF ServerCommit, ServerEndsSession, history, NoTxn
    <2>3. CASE n = 0
      BY <1>3, <2>1, <2>2, <2>3, LogStutters DEF ServerCommit, ServerEndsSession
    <2>4. CASE n # 0
      <3>1. n \in Pending /\ Pending' = Pending \ {n}
        BY <2>1, <2>2, <2>4, PendingOnce DEF Pending
      <3>2. CASE ServerCommit
        <4>1. AuditOf(row)' = Append(AuditOf(row), n)
          BY <1>1, <2>1, <2>2, <2>4, <3>2 DEF ServerCommit, TxnSound, AuditOf
        <4>2. CommitLog!Commit(n)
          BY <2>2, <3>1, <4>1 DEF CommitLog!Commit
        <4> QED
          BY <3>1, <4>2 DEF CommitLog!LogNext
      <3>3. CASE ServerEndsSession
        <4>1. AuditOf(row)' = AuditOf(row)
          BY <3>3 DEF ServerEndsSession, AuditOf
        <4>2. CommitLog!Abort(n)
          BY <2>2, <3>1, <4>1 DEF CommitLog!Abort
        <4> QED
          BY <3>1, <4>2 DEF CommitLog!LogNext
      <3> QED
        BY <1>3, <3>2, <3>3
    <2> QED
      BY <2>3, <2>4
  <1>4. CASE \E c \in inserting : ServerInsert(c)
    <2>1. \A c \in inserting : c \in Pending
      BY DEF Pending
    <2> QED
      BY <1>2, <1>4, <2>1 DEF CommitLog!LogNext
  <1> QED
    BY <1>3, <1>4 DEF ServerStep

LEMMA LogStep ==
    ASSUME NeonInv, [Next]_vars
    PROVE  [CommitLog!LogNext]_(CommitLog!logVars)
  <1>1. txn = [client |-> txn.client, new |-> txn.new, state |-> txn.state]
    BY DEF NeonInv, TypeOK, Txn
  <1>2. ASSUME NEW q \in Requests, NewRequest(q) PROVE UNCHANGED CommitLog!logVars
    BY <1>2, LogStutters DEF NewRequest, Start
  <1>3. ASSUME NEW q \in Requests, ConnectionLost(q) PROVE UNCHANGED CommitLog!logVars
    <2>1. txn'.new = txn.new
      BY <1>1, <1>3 DEF ConnectionLost, Abandoned
    <2> QED
      BY <1>3, <2>1, LogStutters DEF ConnectionLost, history
  <1>4. ASSUME ProcessCrash PROVE UNCHANGED CommitLog!logVars
    <2>1. txn'.new = txn.new
      BY <1>1, <1>4 DEF ProcessCrash
    <2> QED
      BY <1>4, <2>1, LogStutters DEF ProcessCrash, history
  <1>5. CASE UNCHANGED vars
    BY <1>5, LogStutters DEF vars, history
  <1> QED
    BY <1>2, <1>3, <1>4, <1>5, LogRequestStep, LogServerStep DEF Next

(* Theorem: the Neon backend implements the commit log: transactions are          *)
(* committed one at a time and in one order, an aborted one never comes back,     *)
(* and only a committed one is acknowledged (ImplementsCommitLog).              *)
THEOREM NeonImplementsCommitLog == Spec => ImplementsCommitLog
  <1>1. Init => CommitLog!LogInit
    BY DEF Init, CommitLog!LogInit, Pending, NoTxn, AuditOf
  <1>2. NeonInv /\ [Next]_vars => [CommitLog!LogNext]_(CommitLog!logVars)
    BY LogStep
  <1> QED
    BY <1>1, <1>2, NeonAlways, PTL DEF Spec, ImplementsCommitLog, CommitLog!LogSpec
=============================================================================
