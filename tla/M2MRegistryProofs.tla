------------------------- MODULE M2MRegistryProofs -------------------------
(* Proofs about M2MRegistry, for any number of processes, mutations and      *)
(* faults.                                                                   *)
EXTENDS M2MRegistry, SequenceTheorems, TLAPS

(***************************************************************************)
(* The inductive invariant.  OneWriter and MarkerComplete do not say enough *)
(* of a transaction under way: what its writer has put on disk by the time  *)
(* it is at each step.                                                      *)
(***************************************************************************)

Unmarked == {"journal", "markerTmp", "mark"}

\* The candidate follows the registry file, and an older marker is there only
\* for what is already promoted.
Prepared(p) ==
  pc[p] \in Unmarked =>
    /\ req[p].new # 0 /\ marker # req[p].new
    /\ docs[req[p].new].pred = active
    /\ <<req[p].new, "candidate">> \in files
    /\ marker # 0 => marker = active

Journalled(p) ==
  pc[p] \in {"markerTmp", "mark", "promote", "unmark"} => <<req[p].new, "journal">> \in files

Marked(p) ==
  /\ pc[p] = "promote" => /\ req[p].new # 0 /\ marker = req[p].new
                          /\ docs[marker].pred = active
                          /\ <<marker, "candidate">> \in files
  /\ pc[p] = "unmark"  => req[p].new # 0 /\ marker = req[p].new /\ active = marker

Finished(p) ==
  /\ pc[p] \in {"unjournal", "retire", "dropArtifacts", "cleanOrphans"} => marker = 0
  /\ pc[p] \in {"unjournal", "retire"} => req[p].new # 0 /\ active = req[p].new

Recovering(p) == pc[p] = "promoted" => marker # 0 /\ active = marker

Phases == \A p \in Procs : Prepared(p) /\ Journalled(p) /\ Marked(p) /\ Finished(p) /\ Recovering(p)

(***************************************************************************)
(* The trail: what the audits of the documents say, and what processes may  *)
(* rely on of it.  A document that is only marked is acknowledged nowhere.  *)
(***************************************************************************)

(* What a rotation or rollback that was asked for with a precondition makes.  *)
Changes == {"ROTATED", "ROLLED_BACK"}

\* Every document names the commits it was built on, oldest first, each of them
\* with what it was built on itself; the generations go up along them, and a
\* rotation or rollback is above all before it.
DocSound(c) ==
  /\ docs[c].audit = Append(AuditOf(docs[c].pred), c)
  /\ \A i \in 1..Rev(c) :
       LET k == AuditOf(c)[i]
       IN  /\ Rev(k) = i
           /\ \A j \in 1..i : AuditOf(k)[j] = AuditOf(c)[j]
           /\ docs[k].gen <= docs[c].gen
  /\ docs[c].kind \in Changes =>
       \A i \in 1..(Rev(c) - 1) : docs[AuditOf(c)[i]].gen < docs[c].gen

DocsSound == \A c \in 1..Len(docs) : DocSound(c)

\* Commit c does what a request with precondition e asks for.
Fulfils(c, e) == e # 0 => docs[c].kind \in Changes /\ docs[c].gen = e + 1

\* An acknowledged commit is in the registry file, and not only marked.
AckedSound == \A a \in acked : InAudit(a[1], active) /\ Fulfils(a[1], a[2])

\* Document d is committed and has what was acknowledged before the request.
Current(p, d) == InAudit(d, active) /\ \A a \in floor[p] : InAudit(a[1], d)

RepliesSound == \A p \in Procs : reply[p] # 0 => Current(p, reply[p])

Writing == {"journal", "markerTmp", "mark", "promote", "unmark", "unjournal", "retire"}

\* What a process may rely on of the request it serves.
RequestSound(p) ==
  /\ req[p].expect # 0 => req[p].op \in {"rotate", "rollback"}
  /\ req[p].why = "mutate" =>
       /\ active # 0
       /\ pc[p] \in {"acquire", "holding", "promoted", "dropArtifacts", "cleanOrphans"} =>
            req[p].new = 0
       /\ pc[p] \in Writing =>
            docs[req[p].new].kind = "RECOVERED" \/ Fulfils(req[p].new, req[p].expect)
  /\ pc[p] = "checkOrphans" => Current(p, req[p].local)
  /\ pc[p] = "release" /\ req[p].ok =>
       /\ Current(p, req[p].local)
       /\ req[p].why = "mutate" /\ req[p].new # 0 =>
            req[p].new = req[p].local /\ Fulfils(req[p].new, req[p].expect)

RequestsSound == \A p \in Procs : RequestSound(p)

\* A recovery under way is one of a document that may be recovered.
Qualified(p) ==
  pc[p] \in Unmarked \cup {"promoted"} /\ marker # 0 => ValidRecoveryDocument(marker)

RecoveriesSound == \A p \in Procs : Qualified(p)

Trail == DocsSound /\ AckedSound /\ RepliesSound /\ RequestsSound /\ RecoveriesSound

IInv == TypeOK /\ OneWriter /\ MarkerComplete /\ Phases /\ Trail

(***************************************************************************)
(* Requests: what a process may remember of the one it serves.              *)
(***************************************************************************)

LEMMA RequestEdits ==
  ASSUME NEW n \in Nat, NEW r \in Request(n)
  PROVE  /\ NoRequest \in Request(n)
         /\ \A w \in Reasons : [r EXCEPT !.why = w] \in Request(n)
         /\ \A d \in 0..n : /\ [r EXCEPT !.local = d] \in Request(n)
                            /\ [r EXCEPT !.stale = d] \in Request(n)
         /\ \A d \in 0..n : [r EXCEPT !.ok = TRUE, !.local = d] \in Request(n)
         /\ [r EXCEPT !.ok = FALSE] \in Request(n)
         /\ \A d \in 0..n : [r EXCEPT !.why = "mutate", !.local = d,
                                      !.new = 0, !.stale = 0] \in Request(n)
         /\ [r EXCEPT !.new = 0, !.stale = 0] \in Request(n)
         /\ [r EXCEPT !.stale = 0] \in Request(n)
  <1>1. 0 \in 0..n /\ {"recover", "orphans", "init", "mutate"} \subseteq Reasons
    BY DEF Reasons
  <1>2. NoRequest \in Request(n)
    BY <1>1 DEF NoRequest, Request, Ops, Reasons
  <1>3. \A w \in Reasons : [r EXCEPT !.why = w] \in Request(n)
    BY DEF Request
  <1>4. \A d \in 0..n : /\ [r EXCEPT !.local = d] \in Request(n)
                        /\ [r EXCEPT !.stale = d] \in Request(n)
    BY DEF Request
  <1>5. \A d \in 0..n : [r EXCEPT !.ok = TRUE, !.local = d] \in Request(n)
    BY DEF Request
  <1>6. [r EXCEPT !.ok = FALSE] \in Request(n)
    BY DEF Request
  <1>7. \A d \in 0..n : [r EXCEPT !.why = "mutate", !.local = d, !.new = 0, !.stale = 0]
                          \in Request(n)
    BY <1>1 DEF Request
  <1>8. [r EXCEPT !.new = 0, !.stale = 0] \in Request(n) /\ [r EXCEPT !.stale = 0] \in Request(n)
    BY <1>1 DEF Request
  <1> QED
    BY <1>2, <1>3, <1>4, <1>5, <1>6, <1>7, <1>8

LEMMA RememberType ==
  ASSUME NEW n \in Nat, req \in [Procs -> Request(n)],
         NEW p \in Procs, NEW r \in Request(n), Remember(p, r)
  PROVE  req' \in [Procs -> Request(n)]
  BY DEF Remember

(***************************************************************************)
(* The steps, by what they do to the directory.                             *)
(***************************************************************************)

\* Steps that write no document and touch no file.
Quiet(p) ==
  \/ NewRequest(p) \/ ReadStep(p) \/ LockStep(p) \/ FinishCommit(p) \/ FailRecovery(p)
  \/ FoundReady(p) \/ StartCleaning(p) \/ CleanDone(p) \/ Refuse(p) \/ NoThresholdLeft(p)
  \/ FailBeforeLock(p) \/ FailHolding(p) \/ FailAfterMarker(p) \/ FailRelease(p)
  \/ Crash(p) \/ OperatorRestart(p)

\* The document follows the active one, and does what was asked for.
Follows(p, kind, gen) ==
  /\ active # 0 => docs[active].gen <= gen
  /\ kind \in Changes => active # 0 /\ docs[active].gen < gen
  /\ req[p].why = "mutate" /\ kind # "RECOVERED" /\ req[p].expect # 0 =>
       kind \in Changes /\ gen = req[p].expect + 1

\* Steps that begin a transaction.
Begins(p) ==
  /\ pc[p] \in {"holding", "promoted", "cleanOrphans"}
  /\ marker # 0 => marker = active /\ ValidRecoveryDocument(marker)
  /\ \E kind \in Kinds, gen \in Nat, prev \in Nat, recovered \in 0..Len(docs) :
       Follows(p, kind, gen) /\ BeginCommit(p, kind, gen, prev, recovered)
  /\ UNCHANGED <<lock, latched, history, bounds>>

\* Steps of one file operation.
Writes(p) ==
  \/ WriteJournal(p) \/ WriteMarkerTmp(p) \/ CommitMarker(p) \/ Promote(p)
  \/ RemoveMarker(p) \/ RemoveJournal(p) \/ RetireStale(p) \/ PromoteMarked(p)
  \/ DropMarker(p) \/ DropArtifacts(p) \/ RemoveOrphan(p) \/ FailBeforeMarker(p)

LEMMA BeginsTransaction ==
  ASSUME IInv, NEW p \in Procs,
         \/ RecoverPromoted(p) \/ RecoverActive(p) \/ Bootstrap(p)
         \/ Rotate(p) \/ Rollback(p) \/ PersistThresholds(p)
  PROVE  Begins(p)
  <1>1. /\ docs \in Seq(Doc) /\ Len(docs) \in Nat
        /\ active \in 0..Len(docs) /\ marker \in 0..Len(docs)
    BY DEF IInv, TypeOK, DirectoryOK
  <1>2. active # 0 => docs[active].gen \in Nat /\ docs[active].prev \in Nat
    <2>1. active # 0 => docs[active] \in Doc
      BY <1>1, ElementOfSeq
    <2> QED
      BY <2>1 DEF Doc
  <1>3. 0 \in 0..Len(docs) /\ {0, 1} \subseteq Nat
    BY <1>1
  <1>4. RequestSound(p)
    BY DEF IInv, Trail, RequestsSound
  <1>5. CASE RecoverPromoted(p)
    <2>1. /\ At(p, "promoted") /\ marker # 0 /\ active = marker
          /\ ValidRecoveryDocument(marker)
      BY <1>5 DEF RecoverPromoted, IInv, Phases, Recovering, Trail, RecoveriesSound, Qualified,
                  At
    <2>2. Follows(p, "RECOVERED", docs[active].gen)
      BY <1>2 DEF Follows, Changes
    <2> QED
      BY <1>1, <1>2, <1>5, <2>1, <2>2 DEF RecoverPromoted, CommitRecovery, Begins, At, Kinds
  <1>6. CASE RecoverActive(p)
    <2>1. Follows(p, "RECOVERED", docs[active].gen)
      BY <1>2 DEF Follows, Changes
    <2> QED
      BY <1>1, <1>2, <1>6, <2>1 DEF RecoverActive, MarkerQualified, CommitRecovery, Begins, At,
                                    Kinds
  <1>7. CASE Bootstrap(p)
    <2>1. At(p, "cleanOrphans") /\ marker = 0 /\ active = 0
      BY <1>7 DEF Bootstrap, IInv, Phases, Finished, At
    <2>2. (IF p \in Configured THEN 1 ELSE 0) \in Nat
      OBVIOUS
    <2>3. Follows(p, "BOOTSTRAPPED", IF p \in Configured THEN 1 ELSE 0)
      BY <1>4, <2>1 DEF Follows, Changes, RequestSound
    <2> QED
      BY <1>3, <1>7, <2>1, <2>2, <2>3 DEF Bootstrap, Begins, At, Kinds
  <1>8. CASE Rotate(p)
    <2>1. Follows(p, "ROTATED", docs[active].gen + 1)
      BY <1>2, <1>8 DEF Rotate, Mutating, GenerationMatches, Follows, Changes
    <2> QED
      BY <1>2, <1>3, <1>8, <2>1 DEF Rotate, Mutating, Begins, At, Kinds
  <1>9. CASE Rollback(p)
    <2>1. Follows(p, "ROLLED_BACK", docs[active].gen + 1)
      BY <1>2, <1>9 DEF Rollback, Mutating, GenerationMatches, Follows, Changes
    <2> QED
      BY <1>2, <1>3, <1>9, <2>1 DEF Rollback, Mutating, Begins, At, Kinds
  <1>10. CASE PersistThresholds(p)
    <2>1. Follows(p, "THRESHOLD", docs[active].gen)
      BY <1>2, <1>4, <1>10 DEF PersistThresholds, Mutating, Follows, Changes, RequestSound
    <2> QED
      BY <1>2, <1>3, <1>10, <2>1 DEF PersistThresholds, Mutating, Begins, At, Kinds
  <1> QED
    BY <1>5, <1>6, <1>7, <1>8, <1>9, <1>10

LEMMA StepKinds ==
  ASSUME IInv, [Next]_vars
  PROVE  \/ \E p \in Procs : Quiet(p) \/ Begins(p) \/ Writes(p)
         \/ OperatorClearsLock
         \/ UNCHANGED vars
  <1>1. ASSUME NEW p \in Procs, Step(p) PROVE Quiet(p) \/ Begins(p) \/ Writes(p)
    BY <1>1, BeginsTransaction
       DEF Step, ReadStep, LockStep, CommitStep, RecoveryStep, LockedStep, Quiet, Writes
  <1>2. ASSUME NEW p \in Procs, FaultStep(p) PROVE Quiet(p) \/ Writes(p)
    BY SMTT(30), <1>2 DEF FaultStep, Quiet, Writes
  <1> QED
    BY <1>1, <1>2 DEF Next, Quiet

(***************************************************************************)
(* What each kind of step leaves alone.                                     *)
(***************************************************************************)

LEMMA QuietDirectory ==
  ASSUME NEW p \in Procs, Quiet(p)
  PROVE  UNCHANGED <<docs, active, marker, files>>
  BY DEF Quiet, NewRequest, Start, ReadStep, CheckMarker, ReadActive, CheckOrphans, LockStep,
         AcquireLock, LockBusy, Release, FinishCommit, FailRecovery, FoundReady,
         StartCleaning, CleanDone, Refuse, NoThresholdLeft, FailBeforeLock, FailHolding,
         FailAfterMarker, FailRelease, Crash, OperatorRestart, Stop, disk

\* A step that is not quiet is made under the lock and ends under it.
LEMMA BusyUnderLock ==
  ASSUME IInv, NEW p \in Procs, Begins(p) \/ Writes(p)
  PROVE  /\ pc[p] \in UnderLock /\ lock = p
         /\ lock' = lock
         /\ pc' \in [Procs -> Places] /\ pc'[p] \in UnderLock
         /\ \A q \in Procs \ {p} : pc'[q] = pc[q]
  <1>1. pc \in [Procs -> Places]
    BY DEF IInv, TypeOK, ProcessesOK
  <1>2. pc[p] \in UnderLock /\ lock' = lock
    BY DEF Begins, Writes, WriteJournal, WriteMarkerTmp, CommitMarker, Promote, RemoveMarker,
           RemoveJournal, RetireStale, PromoteMarked, DropMarker, DropArtifacts, RemoveOrphan,
           FailBeforeMarker, At, UnderLock
  <1>3. pc' = pc \/ \E place \in Places \cap UnderLock : Goto(p, place)
    BY DEF Begins, BeginCommit, Writes, WriteJournal, WriteMarkerTmp, CommitMarker, Promote,
           RemoveMarker, RemoveJournal, RetireStale, PromoteMarked, DropMarker, DropArtifacts,
           RemoveOrphan, FailBeforeMarker, Throw, Places, UnderLock
  <1>4. lock = p
    BY <1>2 DEF IInv, OneWriter
  <1> QED
    BY <1>1, <1>2, <1>3, <1>4 DEF Goto

(***************************************************************************)
(* Type correctness.                                                        *)
(***************************************************************************)

\* What the audit of a document names is documents.
LEMMA AuditType ==
  ASSUME DirectoryOK, NEW d \in 0..Len(docs)
  PROVE  AuditOf(d) \in Seq(1..Len(docs))
  <1>1. docs \in Seq(Doc) /\ Len(docs) \in Nat
    BY DEF DirectoryOK
  <1>2. CASE d = 0
    BY <1>2, EmptySeq DEF AuditOf
  <1>3. CASE d # 0
    <2>1. AuditOf(d) \in Seq(1..d)
      BY <1>1, <1>3 DEF AuditOf, DirectoryOK
    <2>2. 1..d \subseteq 1..Len(docs)
      BY <1>1
    <2> QED
      BY <2>1, <2>2, SeqMonotonic
  <1> QED
    BY <1>2, <1>3

LEMMA DocumentOfAudit ==
  ASSUME DirectoryOK, NEW d \in 0..Len(docs), NEW k \in 1..Len(AuditOf(d))
  PROVE  AuditOf(d)[k] \in 1..Len(docs) /\ docs[AuditOf(d)[k]] \in Doc
  <1>1. docs \in Seq(Doc) /\ AuditOf(d)[k] \in 1..Len(docs)
    BY AuditType, ElementOfSeq DEF DirectoryOK
  <1> QED
    BY <1>1, ElementOfSeq

\* The document a transaction begins with is the next one.
LEMMA BeginMeaning ==
  ASSUME IInv, NEW p \in Procs, Begins(p)
  PROVE  /\ docs' \in Seq(Doc) /\ Len(docs') = Len(docs) + 1
         /\ \A c \in 1..Len(docs) : docs'[c] = docs[c]
         /\ docs'[Len(docs')].pred = active
         /\ docs'[Len(docs')].audit = Append(AuditOf(active), Len(docs'))
         /\ files' = files \cup {<<Len(docs'), "candidate">>}
         /\ req'[p].new = Len(docs') /\ req' \in [Procs -> Request(Len(docs'))]
         /\ pc[p] \in UnderLock /\ pc'[p] = "journal"
         /\ UNCHANGED <<active, marker, lock, latched, acked, reply, floor, mutations, faults>>
  <1> DEFINE n == Len(docs)
  <1>1. /\ docs \in Seq(Doc) /\ n \in Nat /\ active \in 0..n
        /\ req \in [Procs -> Request(n)] /\ pc \in [Procs -> Places]
    BY DEF IInv, TypeOK, DirectoryOK, ProcessesOK
  <1>2. PICK kind \in Kinds, gen \in Nat, prev \in Nat, recovered \in 0..n :
          BeginCommit(p, kind, gen, prev, recovered)
    BY DEF Begins
  <1> DEFINE d == [pred |-> active, kind |-> kind, recovers |-> recovered, gen |-> gen,
                   prev |-> prev, audit |-> Append(AuditOf(active), n + 1)]
             r == [req[p] EXCEPT !.new = n + 1, !.stale = recovered]
  <1>3. /\ docs' = Append(docs, d) /\ files' = files \cup {<<n + 1, "candidate">>}
        /\ Remember(p, r) /\ Goto(p, "journal") /\ UNCHANGED <<active, marker>>
    BY <1>2 DEF BeginCommit
  <1>4. AuditOf(active) \in Seq(Nat)
    <2>1. active # 0 => docs[active] \in Doc
      BY <1>1, ElementOfSeq
    <2> QED
      BY <2>1 DEF AuditOf, Doc
  <1>5. Append(AuditOf(active), n + 1) \in Seq(Nat)
    BY <1>1, <1>4, AppendProperties
  <1>6. d \in Doc
    BY <1>1, <1>5 DEF Doc
  <1>7. /\ docs' \in Seq(Doc) /\ Len(docs') = n + 1
        /\ \A c \in 1..n : docs'[c] = docs[c]
        /\ docs'[n + 1] = d
    BY <1>1, <1>3, <1>6, AppendProperties
  <1>8. r \in Request(n + 1) /\ req \in [Procs -> Request(n + 1)]
    <2>1. \A q \in Request(n) : q \in Request(n + 1)
      BY <1>1 DEF Request
    <2>2. req[p] \in Request(n + 1)
      BY <1>1, <2>1
    <2>3. n + 1 \in 0..(n + 1) /\ recovered \in 0..(n + 1)
      BY <1>1
    <2> QED
      BY <1>1, <2>1, <2>2, <2>3 DEF Request
  <1>9. req' \in [Procs -> Request(n + 1)] /\ req'[p].new = n + 1
    <2>1. req' \in [Procs -> Request(n + 1)]
      BY <1>1, <1>3, <1>8 DEF Remember
    <2>2. r.new = n + 1
      BY <1>8 DEF Request
    <2> QED
      BY <1>1, <1>3, <2>1, <2>2 DEF Remember
  <1>10. pc[p] \in UnderLock /\ pc'[p] = "journal"
    BY <1>1, <1>3 DEF Begins, UnderLock, Goto
  <1> QED
    BY <1>3, <1>7, <1>9, <1>10 DEF Begins, history, bounds

LEMMA StepDirectory ==
  ASSUME IInv, [Next]_vars
  PROVE  DirectoryOK'
  <1>1. /\ docs \in Seq(Doc) /\ Len(docs) \in Nat
        /\ \A c \in 1..Len(docs) : docs[c].pred < c /\ docs[c].audit \in Seq(1..c)
        /\ active \in 0..Len(docs) /\ marker \in 0..Len(docs)
        /\ files \subseteq (1..Len(docs)) \X Suffixes
        /\ req \in [Procs -> Request(Len(docs))]
    BY DEF IInv, TypeOK, DirectoryOK, ProcessesOK
  <1>2. ASSUME NEW p \in Procs, Begins(p) PROVE DirectoryOK'
    <2>1. "candidate" \in Suffixes /\ Len(docs') \in 1..Len(docs')
      BY <1>1, <1>2, BeginMeaning DEF Suffixes
    <2>2. AuditOf(active) \in Seq(1..Len(docs'))
      <3>1. AuditOf(active) \in Seq(1..Len(docs))
        BY <1>1, AuditType DEF IInv, TypeOK
      <3>2. 1..Len(docs) \subseteq 1..Len(docs')
        BY <1>1, <1>2, BeginMeaning
      <3> QED
        BY <3>1, <3>2, SeqMonotonic
    <2>3. ASSUME NEW c \in 1..Len(docs')
          PROVE  docs'[c].pred < c /\ docs'[c].audit \in Seq(1..c)
      <3>1. CASE c \in 1..Len(docs)
        BY <1>1, <1>2, <3>1, BeginMeaning
      <3>2. CASE c = Len(docs')
        <4>1. Append(AuditOf(active), c) \in Seq(1..c)
          BY <1>1, <2>2, <3>2, AppendProperties
        <4>2. docs'[c].pred = active /\ docs'[c].audit = Append(AuditOf(active), c)
          BY <1>2, <3>2, BeginMeaning
        <4>3. active < c
          BY <1>1, <1>2, <3>2, BeginMeaning
        <4> QED
          BY <4>1, <4>2, <4>3
      <3> QED
        BY <1>1, <1>2, <3>1, <3>2, BeginMeaning
    <2> QED
      BY <1>1, <1>2, <2>1, <2>3, BeginMeaning DEF DirectoryOK
  <1>3. ASSUME NEW p \in Procs, Writes(p) PROVE DirectoryOK'
    <2>1. req[p].new \in 0..Len(docs)
      BY <1>1 DEF Request
    <2>2. pc[p] \in {"journal", "markerTmp"} => req[p].new \in 1..Len(docs)
      BY <1>1, <2>1 DEF IInv, Phases, Prepared, Unmarked
    <2>3. docs' = docs /\ active' \in 0..Len(docs) /\ marker' \in 0..Len(docs)
      BY <1>1, <1>3, <2>1
         DEF Writes, WriteJournal, WriteMarkerTmp, CommitMarker, Promote, RemoveMarker,
             RemoveJournal, RetireStale, PromoteMarked, DropMarker, DropArtifacts, RemoveOrphan,
             FailBeforeMarker
    <2>4. CASE WriteJournal(p) \/ WriteMarkerTmp(p)
      BY <1>1, <2>2, <2>3, <2>4 DEF WriteJournal, WriteMarkerTmp, At, Suffixes, DirectoryOK
    <2>5. CASE ~(WriteJournal(p) \/ WriteMarkerTmp(p))
      <3>1. files' \subseteq files
        BY <1>3, <2>5
           DEF Writes, CommitMarker, Promote, RemoveMarker, RemoveJournal, RetireStale,
               PromoteMarked, DropMarker, DropArtifacts, RemoveOrphan, FailBeforeMarker
      <3> QED
        BY <1>1, <2>3, <3>1 DEF DirectoryOK
    <2> QED
      BY <2>4, <2>5
  <1>4. ASSUME UNCHANGED <<docs, active, marker, files>> PROVE DirectoryOK'
    BY <1>4 DEF IInv, TypeOK, DirectoryOK
  <1> QED
    BY <1>2, <1>3, <1>4, StepKinds, QuietDirectory DEF OperatorClearsLock, vars, disk

LEMMA QuietRequests ==
  ASSUME IInv, NEW p \in Procs, Quiet(p)
  PROVE  req' \in [Procs -> Request(Len(docs))]
  <1> DEFINE n == Len(docs)
             Typed == req' \in [Procs -> Request(n)]
  <1>1. /\ n \in Nat /\ active \in 0..n /\ marker \in 0..n
        /\ req \in [Procs -> Request(n)]
    BY DEF IInv, TypeOK, DirectoryOK, ProcessesOK
  <1>2. req[p] \in Request(n)
    BY <1>1
  <1>3. req[p].local \in 0..n /\ req[p].new \in 0..n
    BY SMTT(30), <1>2 DEF Request
  <1>4. /\ NoRequest \in Request(n)
        /\ \A w \in Reasons : [req[p] EXCEPT !.why = w] \in Request(n)
        /\ \A d \in 0..n : [req[p] EXCEPT !.local = d] \in Request(n)
        /\ \A d \in 0..n : [req[p] EXCEPT !.ok = TRUE, !.local = d] \in Request(n)
        /\ [req[p] EXCEPT !.ok = FALSE] \in Request(n)
        /\ \A d \in 0..n : [req[p] EXCEPT !.why = "mutate", !.local = d,
                                          !.new = 0, !.stale = 0] \in Request(n)
        /\ [req[p] EXCEPT !.new = 0, !.stale = 0] \in Request(n)
        /\ [req[p] EXCEPT !.stale = 0] \in Request(n)
    BY <1>1, <1>2, RequestEdits
  <1>5. \A r \in Request(n) : Remember(p, r) => Typed
    BY <1>1, RememberType
  <1>6. (UNCHANGED req) => Typed
    BY <1>1
  <1>7. {"recover", "orphans", "init"} \subseteq Reasons
    BY DEF Reasons
  <1>8. ASSUME NEW o \in Ops, NEW e \in {0} \cup KnownGenerations, Start(p, o, e) PROVE Typed
    <2>1. e \in Nat
      <3>1. Durable \in 0..n
        BY <1>1 DEF Durable
      <3>2. ASSUME NEW k \in 1..Rev(Durable) PROVE docs[AuditOf(Durable)[k]].gen \in Nat
        BY <3>1, <3>2, DocumentOfAudit DEF IInv, TypeOK, Rev, Doc
      <3> QED
        BY <3>2 DEF KnownGenerations
    <2>2. [NoRequest EXCEPT !.op = o, !.expect = e] \in Request(n)
      BY <1>4, <2>1 DEF Request
    <2> QED
      BY <1>5, <1>8, <2>2 DEF Start
  <1> HIDE DEF n, Typed
  <1>9. ASSUME ReadStep(p)
       PROVE  Typed
    BY <1>1, <1>3, <1>4, <1>5, <1>6, <1>7, <1>9
       DEF ReadStep, CheckMarker, ReadActive, CheckOrphans, Proceed
  <1>10. ASSUME LockStep(p)
        PROVE  Typed
    BY <1>3, <1>4, <1>5, <1>6, <1>10 DEF LockStep, AcquireLock, LockBusy, Release, Proceed
  <1>11. ASSUME FinishCommit(p) \/ FoundReady(p) \/ CleanDone(p) \/ NoThresholdLeft(p)
        PROVE  Typed
    BY <1>1, <1>3, <1>4, <1>5, <1>11
       DEF FinishCommit, FoundReady, CleanDone, NoThresholdLeft, Return
  <1>12. ASSUME FailRecovery(p) \/ Refuse(p) \/ FailHolding(p) \/ FailAfterMarker(p)
        PROVE  Typed
    BY <1>4, <1>5, <1>12 DEF FailRecovery, Refuse, FailHolding, FailAfterMarker, Throw
  <1>13. ASSUME StartCleaning(p)
        PROVE  Typed
    BY <1>6, <1>13 DEF StartCleaning
  <1>14. ASSUME FailBeforeLock(p) \/ FailRelease(p) \/ Crash(p) \/ OperatorRestart(p)
        PROVE  Typed
    BY <1>4, <1>5, <1>14 DEF FailBeforeLock, FailRelease, Crash, OperatorRestart, Stop
  <1> QED
    BY <1>8, <1>9, <1>10, <1>11, <1>12, <1>13, <1>14 DEF Quiet, NewRequest, Typed, n

LEMMA StepProcesses ==
  ASSUME IInv, [Next]_vars
  PROVE  ProcessesOK'
  <1>1. /\ lock \in Procs \cup {Free, Dead} /\ pc \in [Procs -> Places]
        /\ req \in [Procs -> Request(Len(docs))] /\ latched \in [Procs -> BOOLEAN]
    BY DEF IInv, TypeOK, ProcessesOK
  <1>2. ASSUME NEW p \in Procs, Begins(p) PROVE ProcessesOK'
    BY <1>1, <1>2, BeginMeaning, BusyUnderLock DEF ProcessesOK
  <1>3. ASSUME NEW p \in Procs, Writes(p) PROVE ProcessesOK'
    <2> DEFINE n == Len(docs)
    <2>1. n \in Nat /\ marker \in 0..n /\ req[p] \in Request(n)
      BY SMTT(30), <1>1 DEF IInv, TypeOK, DirectoryOK
    <2>2. /\ [req[p] EXCEPT !.stale = marker] \in Request(n)
          /\ [req[p] EXCEPT !.ok = FALSE] \in Request(n)
      BY <2>1, RequestEdits
    <2>3. req' \in [Procs -> Request(n)]
      <3>1. \/ UNCHANGED req
            \/ Remember(p, [req[p] EXCEPT !.stale = marker])
            \/ Remember(p, [req[p] EXCEPT !.ok = FALSE])
        BY <1>3 DEF Writes, WriteJournal, WriteMarkerTmp, CommitMarker, Promote, RemoveMarker,
                    RemoveJournal, RetireStale, PromoteMarked, DropMarker, DropArtifacts,
                    RemoveOrphan, FailBeforeMarker, Throw
      <3> QED
        BY <1>1, <2>1, <2>2, <3>1, RememberType
    <2>4. UNCHANGED <<docs, latched>>
      BY <1>3 DEF Writes, WriteJournal, WriteMarkerTmp, CommitMarker, Promote, RemoveMarker,
                  RemoveJournal, RetireStale, PromoteMarked, DropMarker, DropArtifacts,
                  RemoveOrphan, FailBeforeMarker
    <2> QED
      BY <1>1, <1>3, <2>3, <2>4, BusyUnderLock DEF ProcessesOK
  <1>4. ASSUME NEW p \in Procs, Quiet(p) PROVE ProcessesOK'
    <2>1. docs' = docs /\ req' \in [Procs -> Request(Len(docs))]
      BY <1>4, QuietDirectory, QuietRequests
    <2>2. pc' \in [Procs -> Places]
      <3>1. \/ UNCHANGED pc
            \/ \E place \in {"idle", "checkMarker", "readActive", "checkOrphans", "acquire",
                             "holding", "release", "cleanOrphans"} : Goto(p, place)
        BY <1>4 DEF Quiet, NewRequest, Start, ReadStep, CheckMarker, ReadActive, CheckOrphans,
                    Proceed, LockStep, AcquireLock, LockBusy, Release, FinishCommit,
                    FailRecovery, FoundReady, StartCleaning, CleanDone, Refuse,
                    NoThresholdLeft, FailBeforeLock, FailHolding, FailAfterMarker,
                    FailRelease, Crash, OperatorRestart, Stop, Return, Throw
      <3> QED
        BY SMTT(30), <1>1, <3>1 DEF Goto, Places
    <2>3. lock' \in {lock, p, Free, Dead}
      BY <1>4 DEF Quiet, NewRequest, Start, ReadStep, CheckMarker, ReadActive, CheckOrphans,
                  LockStep, AcquireLock, LockBusy, Release, FinishCommit, FailRecovery,
                  FoundReady, StartCleaning, CleanDone, Refuse, NoThresholdLeft,
                  FailBeforeLock, FailHolding, FailAfterMarker, FailRelease, Crash,
                  OperatorRestart, Stop
    <2>4. latched' = latched \/ \E b \in BOOLEAN : latched' = [latched EXCEPT ![p] = b]
      BY <1>4 DEF Quiet, NewRequest, Start, ReadStep, CheckMarker, ReadActive, CheckOrphans,
                  LockStep, AcquireLock, LockBusy, Release, FinishCommit, FailRecovery,
                  FoundReady, StartCleaning, CleanDone, Refuse, NoThresholdLeft,
                  FailBeforeLock, FailHolding, FailAfterMarker, FailRelease, Crash,
                  OperatorRestart, Stop
    <2>5. latched' \in [Procs -> BOOLEAN]
      BY <1>1, <2>4
    <2> QED
      BY <1>1, <2>1, <2>2, <2>3, <2>5 DEF ProcessesOK
  <1>5. ASSUME OperatorClearsLock \/ UNCHANGED vars PROVE ProcessesOK'
    BY <1>1, <1>5 DEF OperatorClearsLock, ProcessesOK, vars, disk
  <1> QED
    BY <1>2, <1>3, <1>4, <1>5, StepKinds

LEMMA StepHistory ==
  ASSUME IInv, [Next]_vars
  PROVE  HistoryOK'
  <1>1. /\ Len(docs) \in Nat /\ active \in 0..Len(docs)
        /\ req \in [Procs -> Request(Len(docs))]
        /\ acked \subseteq (1..Len(docs)) \X Nat
        /\ reply \in [Procs -> 0..Len(docs)]
        /\ floor \in [Procs -> SUBSET acked]
        /\ mutations \in 0..MaxMutations /\ faults \in 0..MaxFaults
    BY DEF IInv, TypeOK, DirectoryOK, ProcessesOK, HistoryOK
  <1>2. ASSUME NEW p \in Procs, Begins(p) PROVE HistoryOK'
    BY <1>1, <1>2, BeginMeaning DEF HistoryOK
  <1>3. ASSUME NEW p \in Procs, Writes(p) PROVE HistoryOK'
    <2>1. docs' = docs /\ acked' = acked /\ reply' = reply /\ floor' = floor
      BY <1>3 DEF Writes, WriteJournal, WriteMarkerTmp, CommitMarker, Promote, RemoveMarker,
                  RemoveJournal, RetireStale, PromoteMarked, DropMarker, DropArtifacts,
                  RemoveOrphan, FailBeforeMarker, history
    <2>2. \/ faults' = faults
          \/ faults < MaxFaults /\ faults' = faults + 1
      BY <1>3 DEF Writes, WriteJournal, WriteMarkerTmp, CommitMarker, Promote, RemoveMarker,
                  RemoveJournal, RetireStale, PromoteMarked, DropMarker, DropArtifacts,
                  RemoveOrphan, FailBeforeMarker, Fault, bounds
    <2>3. mutations' = mutations
      BY <1>3 DEF Writes, WriteJournal, WriteMarkerTmp, CommitMarker, Promote, RemoveMarker,
                  RemoveJournal, RetireStale, PromoteMarked, DropMarker, DropArtifacts,
                  RemoveOrphan, FailBeforeMarker, bounds
    <2> QED
      BY <1>1, <2>1, <2>2, <2>3, BoundsType DEF HistoryOK
  <1>4. ASSUME NEW p \in Procs, Quiet(p) PROVE HistoryOK'
    <2>1. docs' = docs /\ req[p] \in Request(Len(docs))
      BY <1>1, <1>4, QuietDirectory
    <2>2. req[p].local \in 0..Len(docs) /\ req[p].new \in 0..Len(docs) /\ req[p].expect \in Nat
      BY SMTT(30), <2>1 DEF Request
    <2>3. \/ faults' = faults
          \/ faults < MaxFaults /\ faults' = faults + 1
      BY <1>4 DEF Quiet, NewRequest, Start, ReadStep, CheckMarker, ReadActive, CheckOrphans,
                  LockStep, AcquireLock, LockBusy, Release, FinishCommit, FailRecovery,
                  FoundReady, StartCleaning, CleanDone, Refuse, NoThresholdLeft,
                  FailBeforeLock, FailHolding, FailAfterMarker, FailRelease, Crash,
                  OperatorRestart, Stop, Fault, bounds
    <2>4. \/ mutations' = mutations
          \/ mutations < MaxMutations /\ mutations' = mutations + 1
      BY <1>4 DEF Quiet, NewRequest, Start, ReadStep, CheckMarker, ReadActive, CheckOrphans,
                  LockStep, AcquireLock, LockBusy, Release, FinishCommit, FailRecovery,
                  FoundReady, StartCleaning, CleanDone, Refuse, NoThresholdLeft,
                  FailBeforeLock, FailHolding, FailAfterMarker, FailRelease, Crash,
                  OperatorRestart, Stop, bounds
    <2>5. \/ acked' = acked
          \/ req[p].new # 0 /\ acked' = acked \cup {<<req[p].new, req[p].expect>>}
      BY ZenonT(40), <1>4 DEF Quiet, NewRequest, Start, ReadStep, CheckMarker, ReadActive, CheckOrphans,
                  LockStep, AcquireLock, LockBusy, Release, FinishCommit, FailRecovery,
                  FoundReady, StartCleaning, CleanDone, Refuse, NoThresholdLeft,
                  FailBeforeLock, FailHolding, FailAfterMarker, FailRelease, Crash,
                  OperatorRestart, Stop, history
    <2>6. \/ reply' = reply
          \/ \E d \in {0, req[p].local} : reply' = [reply EXCEPT ![p] = d]
      BY <1>4 DEF Quiet, NewRequest, Start, ReadStep, CheckMarker, ReadActive, CheckOrphans,
                  Proceed, LockStep, AcquireLock, LockBusy, Release, FinishCommit,
                  FailRecovery, FoundReady, StartCleaning, CleanDone, Refuse, NoThresholdLeft,
                  FailBeforeLock, FailHolding, FailAfterMarker, FailRelease, Crash,
                  OperatorRestart, Stop, history
    <2>7. floor' = floor \/ floor' = [floor EXCEPT ![p] = acked]
      BY <1>4 DEF Quiet, NewRequest, Start, ReadStep, CheckMarker, ReadActive, CheckOrphans,
                  LockStep, AcquireLock, LockBusy, Release, FinishCommit, FailRecovery,
                  FoundReady, StartCleaning, CleanDone, Refuse, NoThresholdLeft,
                  FailBeforeLock, FailHolding, FailAfterMarker, FailRelease, Crash,
                  OperatorRestart, Stop, history
    <2>8. mutations' \in 0..MaxMutations /\ faults' \in 0..MaxFaults
      BY <1>1, <2>3, <2>4, BoundsType
    <2>9. acked' \subseteq (1..Len(docs)) \X Nat /\ acked \subseteq acked'
      BY <1>1, <2>2, <2>5
    <2>10. reply' \in [Procs -> 0..Len(docs)]
      BY <1>1, <2>2, <2>6
    <2>11. floor' \in [Procs -> SUBSET acked']
      BY <1>1, <2>7, <2>9
    <2> QED
      BY <2>1, <2>8, <2>9, <2>10, <2>11 DEF HistoryOK
  <1>5. ASSUME OperatorClearsLock \/ UNCHANGED vars PROVE HistoryOK'
    BY <1>1, <1>5 DEF OperatorClearsLock, HistoryOK, vars, disk, history, bounds
  <1> QED
    BY <1>2, <1>3, <1>4, <1>5, StepKinds

(***************************************************************************)
(* Mutual exclusion.                                                        *)
(***************************************************************************)

LEMMA StepOneWriter ==
  ASSUME IInv, [Next]_vars
  PROVE  OneWriter'
  <1>1. /\ pc \in [Procs -> Places] /\ lock \in Procs \cup {Free, Dead}
        /\ \A q \in Procs : pc[q] \in UnderLock => lock = q
    BY DEF IInv, TypeOK, ProcessesOK, OneWriter
  <1>2. ASSUME NEW p \in Procs, Begins(p) \/ Writes(p) PROVE OneWriter'
    BY <1>1, <1>2, BusyUnderLock DEF OneWriter
  <1>3. ASSUME NEW p \in Procs, Quiet(p) PROVE OneWriter'
    <2>1. ASSUME pc[p] \in UnderLock, lock' = lock,
                 pc' = pc \/ \E place \in Places : Goto(p, place)
          PROVE  OneWriter'
      BY <1>1, <2>1 DEF OneWriter, Goto
    <2>2. ASSUME pc' = pc \/ \E place \in Places \ UnderLock : Goto(p, place),
                 pc[p] \notin UnderLock \/ pc'[p] \notin UnderLock,
                 \/ lock' = lock
                 \/ lock \in {p, Free} /\ lock' \in {Free, Dead}
          PROVE  OneWriter'
      BY <1>1, <2>2, LockOwners DEF OneWriter, Goto
    <2>3. CASE NewRequest(p) \/ ReadStep(p)
      BY <1>1, <2>2, <2>3 DEF NewRequest, Start, ReadStep, CheckMarker, ReadActive,
         CheckOrphans, Proceed, At, Goto, Places, UnderLock
    <2>4. CASE AcquireLock(p)
      BY <1>1, <2>4, LockOwners DEF AcquireLock, OneWriter, At, Goto, Places, UnderLock
    <2>5. CASE LockBusy(p) \/ FailRelease(p)
      BY <1>1, <2>2, <2>5 DEF LockBusy, FailRelease, At, Goto, Places, UnderLock
    <2>6. CASE Release(p)
      BY <1>1, <2>2, <2>6 DEF Release, Proceed, At, Goto, Places, UnderLock
    <2>7. CASE FinishCommit(p) \/ FailRecovery(p) \/ FoundReady(p) \/ StartCleaning(p)
               \/ CleanDone(p) \/ Refuse(p) \/ NoThresholdLeft(p) \/ FailHolding(p)
               \/ FailAfterMarker(p)
      BY <1>1, <2>1, <2>7 DEF FinishCommit, FailRecovery, FoundReady, StartCleaning, CleanDone,
         Refuse, NoThresholdLeft, FailHolding, FailAfterMarker, Mutating, Return, Throw, At,
         Places, UnderLock
    <2>8. CASE Crash(p) \/ OperatorRestart(p)
      BY <1>1, <2>2, <2>8 DEF Crash, OperatorRestart, Stop, At, Goto, Places, UnderLock
    <2>9. CASE FailBeforeLock(p)
      BY <1>1, <2>9, LockOwners DEF FailBeforeLock, OneWriter, At, Goto, Places, UnderLock
    <2> QED
      BY <1>3, <2>3, <2>4, <2>5, <2>6, <2>7, <2>8, <2>9 DEF Quiet, LockStep
  <1>4. ASSUME OperatorClearsLock PROVE OneWriter'
    BY <1>1, <1>4, LockOwners DEF OperatorClearsLock, OneWriter
  <1>5. ASSUME UNCHANGED vars PROVE OneWriter'
    BY <1>1, <1>5 DEF OneWriter, vars
  <1> QED
    BY <1>2, <1>3, <1>4, <1>5, StepKinds

(***************************************************************************)
(* Recoverability: the phases of a transaction and the marker.              *)
(***************************************************************************)

\* The document a marker or a pending transaction names is not rewritten.
LEMMA OldDocuments ==
  ASSUME IInv, NEW p \in Procs, Begins(p), NEW c \in 1..Len(docs)
  PROVE  docs'[c].pred = docs[c].pred
  BY BeginMeaning

LEMMA StepMarkerComplete ==
  ASSUME IInv, [Next]_vars
  PROVE  MarkerComplete'
  <1>1. /\ Len(docs) \in Nat /\ marker \in 0..Len(docs)
        /\ marker # 0 => /\ <<marker, "journal">> \in files
                         /\ \/ active = marker
                            \/ active = docs[marker].pred /\ <<marker, "candidate">> \in files
    BY DEF IInv, TypeOK, DirectoryOK, MarkerComplete
  <1>2. ASSUME NEW p \in Procs, Begins(p) PROVE MarkerComplete'
    <2>1. marker' = marker /\ active' = active /\ files \subseteq files'
      BY <1>2, BeginMeaning
    <2>2. marker # 0 => docs'[marker].pred = docs[marker].pred
      BY <1>1, <1>2, OldDocuments
    <2> QED
      BY <1>1, <2>1, <2>2 DEF MarkerComplete
  <1>3. ASSUME NEW p \in Procs, Writes(p) PROVE MarkerComplete'
    <2>1. Prepared(p) /\ Journalled(p) /\ Marked(p) /\ Finished(p)
      BY DEF IInv, Phases
    <2>2. CASE WriteJournal(p) \/ WriteMarkerTmp(p)
      BY <1>1, <2>2 DEF WriteJournal, WriteMarkerTmp, MarkerComplete
    <2>3. CASE CommitMarker(p)
      BY <2>1, <2>3 DEF CommitMarker, MarkerComplete, Prepared, Journalled, Unmarked, At
    <2>4. CASE Promote(p)
      BY <1>1, <2>1, <2>4 DEF Promote, MarkerComplete, Marked, Journalled, At
    <2>5. CASE RemoveMarker(p) \/ DropMarker(p)
      BY <2>5 DEF RemoveMarker, DropMarker, MarkerComplete
    <2>6. CASE RemoveJournal(p) \/ RetireStale(p) \/ DropArtifacts(p) \/ RemoveOrphan(p)
      BY <2>1, <2>6 DEF RemoveJournal, RetireStale, DropArtifacts, RemoveOrphan,
                        MarkerComplete, Finished, At
    <2>7. CASE PromoteMarked(p)
      BY <1>1, <2>7 DEF PromoteMarked, MarkerComplete
    <2>8. CASE FailBeforeMarker(p)
      <3>1. marker # req[p].new
        BY <2>1, <2>8 DEF FailBeforeMarker, Prepared, Unmarked
      <3>2. \A f \in files : f[1] = marker => f \in files'
        BY <2>8, <3>1 DEF FailBeforeMarker, Artifacts
      <3> QED
        BY <1>1, <2>8, <3>2 DEF FailBeforeMarker, MarkerComplete
    <2> QED
      BY <1>3, <2>2, <2>3, <2>4, <2>5, <2>6, <2>7, <2>8 DEF Writes
  <1>4. ASSUME UNCHANGED <<docs, active, marker, files>> PROVE MarkerComplete'
    BY <1>1, <1>4 DEF MarkerComplete
  <1> QED
    BY <1>2, <1>3, <1>4, StepKinds, QuietDirectory DEF OperatorClearsLock, vars, disk

\* The phases of a process: what IInv says of it.
Phase(p) == Prepared(p) /\ Journalled(p) /\ Marked(p) /\ Finished(p) /\ Recovering(p)

LEMMA OutsideLock ==
  ASSUME NEW q \in Procs, pc'[q] \notin UnderLock
  PROVE  Phase(q)'
  BY DEF Phase, Prepared, Journalled, Marked, Finished, Recovering, Unmarked, UnderLock

\* Only the writer has something to keep.
LEMMA OthersIdle ==
  ASSUME IInv, NEW p \in Procs, Begins(p) \/ Writes(p), NEW q \in Procs \ {p}
  PROVE  Phase(q)'
  <1>1. pc'[q] \notin UnderLock
    BY BusyUnderLock DEF IInv, OneWriter
  <1> QED
    BY <1>1, OutsideLock

LEMMA BeginPhase ==
  ASSUME IInv, NEW p \in Procs, Begins(p)
  PROVE  Phase(p)'
  <1>1. marker \in 0..Len(docs) /\ Len(docs) \in Nat /\ (marker # 0 => marker = active)
    BY DEF IInv, TypeOK, DirectoryOK, Begins
  <1>2. /\ pc'[p] = "journal" /\ req'[p].new = Len(docs') /\ Len(docs') = Len(docs) + 1
        /\ docs'[Len(docs')].pred = active /\ active' = active /\ marker' = marker
        /\ <<Len(docs'), "candidate">> \in files'
    BY BeginMeaning
  <1> QED
    BY <1>1, <1>2 DEF Phase, Prepared, Journalled, Marked, Finished, Recovering, Unmarked

LEMMA WritePhase ==
  ASSUME IInv, NEW p \in Procs, Writes(p)
  PROVE  Phase(p)'
  <1>1. /\ Len(docs) \in Nat /\ pc \in [Procs -> Places]
        /\ req \in [Procs -> Request(Len(docs))] /\ req[p].new \in 0..Len(docs)
    BY DEF IInv, TypeOK, DirectoryOK, ProcessesOK, Request
  <1>2. Prepared(p) /\ Journalled(p) /\ Marked(p) /\ Finished(p) /\ Recovering(p)
    BY DEF IInv, Phases
  <1> USE DEF Phase, Prepared, Journalled, Marked, Finished, Recovering, Unmarked, At, Goto
  <1>3. CASE WriteJournal(p)
    BY <1>1, <1>2, <1>3 DEF WriteJournal
  <1>4. CASE WriteMarkerTmp(p)
    BY <1>1, <1>2, <1>4 DEF WriteMarkerTmp
  <1>5. CASE CommitMarker(p)
    BY <1>1, <1>2, <1>5 DEF CommitMarker
  <1>6. CASE Promote(p)
    BY <1>1, <1>2, <1>6 DEF Promote
  <1>7. CASE RemoveMarker(p)
    BY <1>1, <1>2, <1>7 DEF RemoveMarker
  <1>8. CASE RemoveJournal(p) \/ RetireStale(p)
    BY <1>1, <1>2, <1>8 DEF RemoveJournal, RetireStale
  <1>9. CASE PromoteMarked(p)
    BY <1>1, <1>2, <1>9 DEF PromoteMarked
  <1>10. CASE DropMarker(p) \/ DropArtifacts(p) \/ RemoveOrphan(p)
    BY <1>1, <1>2, <1>10 DEF DropMarker, DropArtifacts, RemoveOrphan
  <1>11. CASE FailBeforeMarker(p)
    BY <1>1, <1>2, <1>11 DEF FailBeforeMarker, Throw
  <1> QED
    BY <1>3, <1>4, <1>5, <1>6, <1>7, <1>8, <1>9, <1>10, <1>11 DEF Writes

\* A quiet step keeps its place, or goes to one with nothing to keep.
LEMMA QuietPhases ==
  ASSUME IInv, NEW p \in Procs, Quiet(p), NEW q \in Procs
  PROVE  Phase(q)'
  <1>1. pc \in [Procs -> Places] /\ req \in [Procs -> Request(Len(docs))]
    BY DEF IInv, TypeOK, ProcessesOK
  <1>2. UNCHANGED <<docs, active, marker, files>>
    BY SMTT(30), QuietDirectory
  <1>3. \/ \E place \in {"idle", "checkMarker", "readActive", "checkOrphans", "acquire",
                        "holding", "release"} : Goto(p, place)
        \/ marker = 0 /\ Goto(p, "cleanOrphans")
    BY DEF Quiet, NewRequest, Start, ReadStep, CheckMarker, ReadActive, CheckOrphans, Proceed,
           LockStep, AcquireLock, LockBusy, Release, FinishCommit, FailRecovery, FoundReady,
           StartCleaning, CleanDone, Refuse, NoThresholdLeft, FailBeforeLock, FailHolding,
           FailAfterMarker, FailRelease, Crash, OperatorRestart, Stop, Return, Throw
  <1>4. CASE q = p
    BY <1>1, <1>2, <1>3, <1>4
       DEF Goto, Phase, Prepared, Journalled, Marked, Finished, Recovering, Unmarked
  <1>5. CASE q # p
    <2>1. req'[q] = req[q]
      <3>1. UNCHANGED req \/ \E r : Remember(p, r)
        BY DEF Quiet, NewRequest, Start, ReadStep, CheckMarker, ReadActive, CheckOrphans,
               Proceed, LockStep, AcquireLock, LockBusy, Release, FinishCommit, FailRecovery,
               FoundReady, StartCleaning, CleanDone, Refuse, NoThresholdLeft, FailBeforeLock,
               FailHolding, FailAfterMarker, FailRelease, Crash, OperatorRestart, Stop,
               Return, Throw
      <3> QED
        BY SMTT(30), <1>1, <1>5, <3>1 DEF Remember
    <2>2. pc'[q] = pc[q]
      BY <1>1, <1>3, <1>5 DEF Goto
    <2>3. Phase(q)
      BY DEF IInv, Phases, Phase
    <2> QED
      BY <1>2, <2>1, <2>2, <2>3
         DEF Phase, Prepared, Journalled, Marked, Finished, Recovering, Unmarked
  <1> QED
    BY <1>4, <1>5

LEMMA StepPhases ==
  ASSUME IInv, [Next]_vars
  PROVE  Phases'
  <1>1. ASSUME NEW p \in Procs, Begins(p) \/ Writes(p) PROVE \A q \in Procs : Phase(q)'
    BY <1>1, OthersIdle, BeginPhase, WritePhase
  <1>2. ASSUME NEW p \in Procs, Quiet(p) PROVE \A q \in Procs : Phase(q)'
    BY <1>2, QuietPhases
  <1>3. ASSUME OperatorClearsLock \/ UNCHANGED vars PROVE \A q \in Procs : Phase(q)'
    BY <1>3 DEF OperatorClearsLock, vars, disk, IInv, Phases,
                Phase, Prepared, Journalled, Marked, Finished, Recovering
  <1>4. \A q \in Procs : Phase(q)'
    BY <1>1, <1>2, <1>3, StepKinds
  <1> QED
    BY <1>4 DEF Phases, Phase

(***************************************************************************)
(* The trail of the documents.                                              *)
(***************************************************************************)

DocsGrow ==
  /\ Len(docs') \in Nat /\ Len(docs) <= Len(docs')
  /\ \A c \in 1..Len(docs) : docs'[c] = docs[c]

\* What is in the registry file stays in it.
ActiveGrows ==
  /\ active # 0 => active' # 0
  /\ \A c : InAudit(c, active) => InAudit(c, active)'

LEMMA DocumentType ==
  ASSUME DirectoryOK, NEW c \in 1..Len(docs)
  PROVE  /\ docs[c].gen \in Nat /\ docs[c].pred \in 0..Len(docs) /\ docs[c].pred < c
         /\ Len(docs) \in Nat
  <1>1. docs \in Seq(Doc) /\ Len(docs) \in Nat /\ docs[c].pred < c
    BY DEF DirectoryOK
  <1>2. docs[c] \in Doc
    BY <1>1, ElementOfSeq
  <1>3. docs[c].gen \in Nat /\ docs[c].pred \in Nat
    BY <1>2 DEF Doc
  <1> QED
    BY <1>1, <1>3

LEMMA AuditNumbers ==
  ASSUME DirectoryOK, NEW d \in 0..Len(docs)
  PROVE  /\ AuditOf(d) \in Seq(Nat) /\ Rev(d) \in Nat /\ (d = 0 => Rev(d) = 0)
         /\ \A i \in 1..Rev(d) : AuditOf(d)[i] \in 1..Len(docs)
  <1>1. AuditOf(d) \in Seq(1..Len(docs))
    BY AuditType
  <1>2. 1..Len(docs) \subseteq Nat
    OBVIOUS
  <1>3. AuditOf(d) \in Seq(Nat) /\ Rev(d) \in Nat
    BY <1>1, <1>2, SeqMonotonic DEF Rev
  <1>4. d = 0 => Rev(d) = 0
    BY DEF AuditOf, Rev
  <1>5. \A i \in 1..Rev(d) : AuditOf(d)[i] \in 1..Len(docs)
    BY <1>1, ElementOfSeq DEF Rev
  <1> QED
    BY <1>3, <1>4, <1>5

LEMMA AuditKept ==
  ASSUME DirectoryOK, DocsGrow
  PROVE  \A d \in 0..Len(docs) : /\ AuditOf(d)' = AuditOf(d) /\ Rev(d)' = Rev(d)
                                 /\ \A c : InAudit(c, d)' <=> InAudit(c, d)
  <1>1. Len(docs) \in Nat
    BY DEF DirectoryOK
  <1>2. \A d \in 0..Len(docs) : AuditOf(d)' = AuditOf(d)
    BY <1>1 DEF AuditOf, DocsGrow
  <1>3. \A d \in 0..Len(docs) : Rev(d)' = Rev(d)
    BY <1>2 DEF Rev
  <1> QED
    BY <1>2, <1>3 DEF InAudit

\* A document has what it follows, and itself.
LEMMA Following ==
  ASSUME DirectoryOK, DocsSound, NEW c \in 1..Len(docs)
  PROVE  /\ AuditOf(c) = Append(AuditOf(docs[c].pred), c)
         /\ InAudit(c, c)
         /\ \A x : InAudit(x, docs[c].pred) => InAudit(x, c)
  <1>1. PICK d : d = docs[c].pred
    OBVIOUS
  <1>2. AuditOf(c) = Append(AuditOf(d), c)
    BY <1>1 DEF DocsSound, DocSound, AuditOf
  <1>3. AuditOf(d) \in Seq(Nat) /\ Rev(d) \in Nat
    BY <1>1, DocumentType, AuditNumbers
  <1>4. /\ Rev(c) = Rev(d) + 1 /\ AuditOf(c)[Rev(d) + 1] = c
        /\ \A i \in 1..Rev(d) : AuditOf(c)[i] = AuditOf(d)[i]
    BY <1>2, <1>3 DEF Rev
  <1>5. InAudit(c, c)
    BY <1>3, <1>4 DEF InAudit
  <1>6. \A i \in 1..Rev(d) : i \in 1..Rev(c)
    BY <1>3, <1>4
  <1> QED
    BY <1>1, <1>2, <1>4, <1>5, <1>6 DEF InAudit

\* Of what the registry file follows nothing is behind: the last committed
\* document is it or what follows it.
LEMMA CommittedHasActive ==
  ASSUME IInv
  PROVE  \A c : InAudit(c, active) => InAudit(c, Durable)
  <1>1. DirectoryOK /\ DocsSound /\ marker \in 0..Len(docs) /\ Len(docs) \in Nat
    BY DEF IInv, TypeOK, DirectoryOK, Trail
  <1>2. CASE Durable = active
    BY <1>2 DEF InAudit, Rev, AuditOf
  <1>3. CASE Durable # active
    <2>1. Durable = marker /\ marker \in 1..Len(docs) /\ active = docs[marker].pred
      BY <1>1, <1>3 DEF Durable, IInv, MarkerComplete
    <2> QED
      BY <1>1, <2>1, Following
  <1> QED
    BY <1>2, <1>3

LEMMA StepGrows ==
  ASSUME IInv, [Next]_vars
  PROVE  DocsGrow /\ ActiveGrows
  <1>1. /\ DirectoryOK /\ DocsSound /\ Len(docs) \in Nat
        /\ active \in 0..Len(docs) /\ marker \in 0..Len(docs)
    BY DEF IInv, TypeOK, DirectoryOK, Trail
  <1>2. ASSUME DocsGrow, active' = active PROVE ActiveGrows
    BY <1>1, <1>2, AuditKept DEF ActiveGrows, InAudit, Rev, AuditOf
  <1>3. ASSUME NEW p \in Procs, Begins(p) PROVE DocsGrow /\ ActiveGrows
    BY <1>1, <1>2, <1>3, BeginMeaning DEF DocsGrow
  <1>4. ASSUME docs' = docs PROVE DocsGrow
    BY <1>1, <1>4 DEF DocsGrow
  <1>5. ASSUME NEW p \in Procs, Writes(p) PROVE DocsGrow /\ ActiveGrows
    <2>1. docs' = docs
      BY <1>5 DEF Writes, WriteJournal, WriteMarkerTmp, CommitMarker, Promote, RemoveMarker,
                  RemoveJournal, RetireStale, PromoteMarked, DropMarker, DropArtifacts,
                  RemoveOrphan, FailBeforeMarker
    <2>2. CASE Promote(p) \/ PromoteMarked(p)
      <3>1. marker # 0 /\ docs[marker].pred = active /\ active' = marker
        BY <2>2 DEF Promote, PromoteMarked, MarkerQualified, IInv, Phases, Marked, At
      <3>2. marker \in 1..Len(docs)
        BY <1>1, <3>1
      <3>3. \A x : InAudit(x, active) => InAudit(x, marker)
        BY <1>1, <3>1, <3>2, Following
      <3> QED
        BY <1>4, <2>1, <3>1, <3>3 DEF ActiveGrows, InAudit, Rev, AuditOf
    <2>3. CASE ~(Promote(p) \/ PromoteMarked(p))
      <3>1. active' = active
        BY <1>5, <2>3 DEF Writes, WriteJournal, WriteMarkerTmp, CommitMarker, RemoveMarker,
           RemoveJournal, RetireStale, DropMarker, DropArtifacts, RemoveOrphan, FailBeforeMarker
      <3> QED
        BY <1>2, <1>4, <2>1, <3>1
    <2> QED
      BY <2>2, <2>3
  <1>6. ASSUME UNCHANGED <<docs, active>> PROVE DocsGrow /\ ActiveGrows
    BY <1>2, <1>4, <1>6
  <1> QED
    BY <1>3, <1>5, <1>6, StepKinds, QuietDirectory DEF OperatorClearsLock, vars, disk

\* A document more.
LEMMA DocumentAdded ==
  ASSUME DirectoryOK, DocsSound, DocsGrow, NEW d \in 0..Len(docs), Len(docs') = Len(docs) + 1,
         NEW doc, doc = docs'[Len(docs')], doc.pred = d, doc.gen \in Nat,
         doc.audit = Append(AuditOf(d), Len(docs')),
         d # 0 => docs[d].gen <= doc.gen,
         doc.kind \in Changes => d # 0 /\ docs[d].gen < doc.gen
  PROVE  DocsSound'
  <1>0. PICK n \in Nat \ {0} : n = Len(docs')
    BY DEF DirectoryOK
  <1>1. /\ n = Len(docs) + 1 /\ doc = docs'[n] /\ Len(docs) \in Nat
        /\ \A c \in 1..Len(docs) : docs'[c] = docs[c]
    BY <1>0 DEF DocsGrow, DirectoryOK
  <1>2. \A c \in 0..Len(docs) : AuditOf(c)' = AuditOf(c) /\ Rev(c)' = Rev(c)
    BY AuditKept
  <1>3. ASSUME NEW c \in 1..Len(docs) PROVE DocSound(c)'
    <2>1. DocSound(c)
      BY DEF DocsSound
    <2>2. Rev(c) \in Nat /\ \A i \in 1..Rev(c) : AuditOf(c)[i] \in 1..Len(docs)
      BY <1>1, AuditNumbers
    <2>3. \A i \in 1..(Rev(c) - 1) : i \in 1..Rev(c)
      BY <2>2
    <2>4. PICK e : e = docs[c].pred
      OBVIOUS
    <2>5. e \in 0..Len(docs)
      BY <2>4, DocumentType
    <2>6. (docs[c].audit = Append(AuditOf(docs[c].pred), c))'
      <3>1. docs[c].audit = Append(AuditOf(e), c)
        BY <2>1, <2>4 DEF DocSound
      <3>2. docs'[c] = docs[c] /\ AuditOf(e)' = AuditOf(e)
        BY <1>1, <1>2, <2>5
      <3> QED
        BY <2>4, <3>1, <3>2 DEF AuditOf
    <2>7. c \in 0..Len(docs) /\ \A k \in 1..Len(docs) : k \in 0..Len(docs)
      BY <1>1
    <2>8. ASSUME NEW i \in 1..Rev(c), NEW k, k = AuditOf(c)[i]
          PROVE  /\ Rev(k)' = i /\ docs'[k].gen <= docs'[c].gen
                 /\ \A j \in 1..i : AuditOf(k)'[j] = AuditOf(c)'[j]
      BY <1>1, <1>2, <2>1, <2>2, <2>7, <2>8 DEF DocSound
    <2>9. docs'[c].kind \in Changes =>
            \A i \in 1..(Rev(c) - 1) : docs'[AuditOf(c)[i]].gen < docs'[c].gen
      BY <1>1, <2>1, <2>2, <2>3 DEF DocSound
    <2>10. AuditOf(c)' = AuditOf(c) /\ Rev(c)' = Rev(c)
      BY <1>2, <2>7
    <2> QED
      BY <2>6, <2>8, <2>9, <2>10 DEF DocSound
  <1>4. DocSound(n)'
    <2>1. /\ AuditOf(d) \in Seq(Nat) /\ Rev(d) \in Nat
          /\ \A i \in 1..Rev(d) : AuditOf(d)[i] \in 1..Len(docs)
      BY AuditNumbers
    <2>2. AuditOf(n)' = Append(AuditOf(d), n) /\ Rev(n)' = Rev(d) + 1
      BY <1>0, <1>1, <2>1 DEF AuditOf, Rev
    <2>3. AuditOf(n)'[Rev(d) + 1] = n /\ \A i \in 1..Rev(d) : AuditOf(n)'[i] = AuditOf(d)[i]
      BY <2>1, <2>2 DEF Rev
    <2>4. ASSUME NEW i \in 1..Rev(d), NEW k, k = AuditOf(d)[i]
          PROVE  /\ k \in 1..Len(docs) /\ Rev(k)' = i
                 /\ \A j \in 1..i : AuditOf(k)'[j] = AuditOf(n)'[j]
                 /\ docs'[k] = docs[k] /\ d # 0 /\ docs[k].gen <= docs[d].gen
      <3>1. d # 0 /\ d \in 1..Len(docs)
        BY AuditNumbers
      <3>2. DocSound(d)
        BY <3>1 DEF DocsSound
      <3>3. /\ k \in 1..Len(docs) /\ Rev(k) = i /\ docs[k].gen <= docs[d].gen
            /\ \A j \in 1..i : AuditOf(k)[j] = AuditOf(d)[j]
        BY <2>1, <2>4, <3>2 DEF DocSound
      <3>4. AuditOf(k)' = AuditOf(k) /\ Rev(k)' = Rev(k) /\ docs'[k] = docs[k]
        BY <1>1, <1>2, <3>3
      <3>5. \A j \in 1..i : j \in 1..Rev(d)
        BY <2>1
      <3> QED
        BY <2>3, <3>1, <3>3, <3>4, <3>5
    <2>5. \A k \in 1..Len(docs) : docs[k].gen \in Nat
      BY DocumentType
    <2>6. ASSUME NEW i \in 1..(Rev(d) + 1), NEW k, k = AuditOf(n)'[i]
          PROVE  /\ Rev(k)' = i /\ docs'[k].gen <= docs'[n].gen
                 /\ \A j \in 1..i : AuditOf(k)'[j] = AuditOf(n)'[j]
      <3>1. CASE i \in 1..Rev(d)
        <4>1. k = AuditOf(d)[i]
          BY <2>3, <2>6, <3>1
        <4>2. /\ k \in 1..Len(docs) /\ Rev(k)' = i
              /\ \A j \in 1..i : AuditOf(k)'[j] = AuditOf(n)'[j]
              /\ docs'[k] = docs[k] /\ d # 0 /\ docs[k].gen <= docs[d].gen
          BY <2>4, <3>1, <4>1
        <4>3. d \in 1..Len(docs)
          BY <4>2
        <4>4. docs[k].gen <= doc.gen
          BY <2>5, <4>2, <4>3
        <4> QED
          BY <1>1, <4>2, <4>4
      <3>2. CASE i = Rev(d) + 1
        <4>1. k = n
          BY <2>3, <2>6, <3>2
        <4>2. docs'[k].gen <= docs'[n].gen
          BY <1>1, <4>1
        <4>3. Rev(k)' = i
          BY <2>2, <3>2, <4>1 DEF Rev, AuditOf
        <4>4. AuditOf(k)' = AuditOf(n)'
          BY <4>1 DEF AuditOf
        <4> QED
          BY <4>2, <4>3, <4>4
      <3> QED
        BY <2>1, <3>1, <3>2
    <2>7. ASSUME doc.kind \in Changes
          PROVE  \A i \in 1..Rev(d) : docs'[AuditOf(n)'[i]].gen < docs'[n].gen
      <3>1. d \in 1..Len(docs) /\ docs[d].gen < doc.gen
        BY <2>7
      <3>2. ASSUME NEW i \in 1..Rev(d) PROVE docs'[AuditOf(n)'[i]].gen < docs'[n].gen
        <4>1. PICK k : k = AuditOf(d)[i]
          OBVIOUS
        <4>2. k \in 1..Len(docs) /\ docs'[k] = docs[k] /\ docs[k].gen <= docs[d].gen
          BY <2>4, <4>1
        <4>3. docs[k].gen < doc.gen
          BY <2>5, <3>1, <4>2
        <4> QED
          BY <1>1, <2>3, <4>1, <4>2, <4>3
      <3> QED
        BY <3>2
    <2>8. (docs[n].audit = Append(AuditOf(docs[n].pred), n))'
      <3>1. docs'[n].audit = Append(AuditOf(d), n) /\ docs'[n].pred = d
        BY <1>0, <1>1
      <3>2. AuditOf(d)' = AuditOf(d)
        BY <1>2
      <3> QED
        BY <3>1, <3>2 DEF AuditOf
    <2>9. (Rev(d) + 1) - 1 = Rev(d) /\ docs'[n] = doc
      BY <1>1, <2>1
    <2> QED
      BY ZenonT(40), <2>2, <2>6, <2>7, <2>8, <2>9 DEF DocSound
  <1>5. \A c \in 1..Len(docs') : c \in 1..Len(docs) \/ c = n
    BY <1>0, <1>1
  <1> QED
    BY <1>3, <1>4, <1>5 DEF DocsSound

LEMMA BeginDocument ==
  ASSUME IInv, NEW p \in Procs, Begins(p), NEW n, n = Len(docs')
  PROVE  /\ docs'[n].gen \in Nat
         /\ active # 0 => docs[active].gen <= docs'[n].gen
         /\ docs'[n].kind \in Changes => active # 0 /\ docs[active].gen < docs'[n].gen
         /\ req[p].why = "mutate" =>
              docs'[n].kind = "RECOVERED" \/ Fulfils(n, req[p].expect)'
         /\ req'[p].op = req[p].op /\ req'[p].expect = req[p].expect /\ req'[p].why = req[p].why
         /\ \A q \in Procs \ {p} : req'[q] = req[q]
  <1>1. /\ docs \in Seq(Doc) /\ Len(docs) \in Nat /\ active \in 0..Len(docs)
        /\ req \in [Procs -> Request(Len(docs))]
    BY DEF IInv, TypeOK, DirectoryOK, ProcessesOK
  <1>2. PICK kind \in Kinds, gen \in Nat, prev \in Nat, recovered \in 0..Len(docs) :
          Follows(p, kind, gen) /\ BeginCommit(p, kind, gen, prev, recovered)
    BY DEF Begins
  <1>3. PICK d : /\ d.kind = kind /\ d.gen = gen
                 /\ docs' = Append(docs, d)
    BY <1>2 DEF BeginCommit
  <1>4. n = Len(docs) + 1 /\ docs'[n] = d
    BY <1>1, <1>3
  <1>5. PICK k : k = req[p]
    OBVIOUS
  <1>6. k \in Request(Len(docs))
    BY <1>1, <1>5
  <1>7. req' = [req EXCEPT ![p] = [k EXCEPT !.new = Len(docs) + 1, !.stale = recovered]]
    BY <1>2, <1>5 DEF BeginCommit, Remember
  <1>8. LET r == [k EXCEPT !.new = Len(docs) + 1, !.stale = recovered]
        IN  r.op = k.op /\ r.expect = k.expect /\ r.why = k.why
    BY <1>6 DEF Request
  <1>9. req'[p].op = k.op /\ req'[p].expect = k.expect /\ req'[p].why = k.why
    BY <1>1, <1>7, <1>8
  <1>10. \A q \in Procs \ {p} : req'[q] = req[q]
    BY <1>1, <1>7
  <1>11. /\ active # 0 => docs[active].gen <= gen
         /\ kind \in Changes => active # 0 /\ docs[active].gen < gen
         /\ k.why = "mutate" /\ kind # "RECOVERED" /\ k.expect # 0 =>
              kind \in Changes /\ gen = k.expect + 1
    BY <1>2, <1>5 DEF Follows
  <1> QED
    BY <1>3, <1>4, <1>5, <1>9, <1>10, <1>11 DEF Fulfils

LEMMA StepDocs ==
  ASSUME IInv, [Next]_vars
  PROVE  DocsSound'
  <1>1. DirectoryOK /\ DocsSound /\ DocsGrow /\ active \in 0..Len(docs) /\ Len(docs) \in Nat
    BY StepGrows DEF IInv, TypeOK, DirectoryOK, Trail
  <1>2. ASSUME NEW p \in Procs, Begins(p) PROVE DocsSound'
    <2>1. PICK a, n, doc : a = active /\ n = Len(docs') /\ doc = docs'[n]
      OBVIOUS
    <2>2. /\ n = Len(docs) + 1 /\ doc.pred = a /\ doc.audit = Append(AuditOf(a), n)
      BY <1>2, <2>1, BeginMeaning DEF AuditOf
    <2>3. /\ doc.gen \in Nat
          /\ a # 0 => docs[a].gen <= doc.gen
          /\ doc.kind \in Changes => a # 0 /\ docs[a].gen < doc.gen
      BY <1>2, <2>1, BeginDocument
    <2> QED
      BY <1>1, <2>1, <2>2, <2>3, DocumentAdded
  <1>3. ASSUME docs' = docs PROVE DocsSound'
    <2>1. \A c : AuditOf(c)' = AuditOf(c)
      BY <1>3 DEF AuditOf
    <2>2. \A c : Rev(c)' = Rev(c)
      BY <2>1 DEF Rev
    <2>3. ASSUME NEW c \in 1..Len(docs) PROVE DocSound(c)'
      <3>1. DocSound(c)
        BY <1>1 DEF DocsSound
      <3>2. (docs[c].audit = Append(AuditOf(docs[c].pred), c))'
        BY <1>3, <3>1 DEF DocSound, AuditOf
      <3> QED
        BY SMTT(30), <1>3, <2>1, <2>2, <3>1, <3>2 DEF DocSound
    <2> QED
      BY <1>3, <2>3 DEF DocsSound
  <1>4. ASSUME NEW p \in Procs, Writes(p) PROVE docs' = docs
    BY <1>4 DEF Writes, WriteJournal, WriteMarkerTmp, CommitMarker, Promote, RemoveMarker,
                RemoveJournal, RetireStale, PromoteMarked, DropMarker, DropArtifacts,
                RemoveOrphan, FailBeforeMarker
  <1> QED
    BY <1>2, <1>3, <1>4, StepKinds, QuietDirectory DEF OperatorClearsLock, vars

(***************************************************************************)
(* What callers were told.                                                  *)
(***************************************************************************)

LEMMA CurrentKept ==
  ASSUME IInv, DocsGrow, ActiveGrows, NEW p \in Procs, NEW d \in 0..Len(docs), Current(p, d),
         floor'[p] = floor[p]
  PROVE  Current(p, d)'
  <1>1. DirectoryOK
    BY DEF IInv, TypeOK
  <1> QED
    BY <1>1, AuditKept DEF Current, ActiveGrows

LEMMA FulfilsKept ==
  ASSUME DocsGrow, NEW c \in 1..Len(docs), NEW e, Fulfils(c, e)
  PROVE  Fulfils(c, e)'
  BY DEF DocsGrow, Fulfils

\* What is in the registry file now is what a request may be answered from.
LEMMA ActiveCurrent ==
  ASSUME IInv, NEW p \in Procs, active # 0
  PROVE  Current(p, active)
  <1>1. /\ DirectoryOK /\ DocsSound /\ AckedSound /\ active \in 1..Len(docs)
        /\ floor[p] \subseteq acked
    BY DEF IInv, TypeOK, DirectoryOK, HistoryOK, Trail
  <1>2. InAudit(active, active)
    BY <1>1, Following
  <1> QED
    BY <1>1, <1>2 DEF Current, AckedSound

LEMMA CurrentExists ==
  ASSUME IInv, NEW p \in Procs, NEW d, Current(p, d)
  PROVE  active # 0 /\ d \in 1..Len(docs)
  <1>1. DirectoryOK /\ active \in 0..Len(docs)
    BY DEF IInv, TypeOK, DirectoryOK
  <1>2. PICK i \in 1..Rev(active) : AuditOf(active)[i] = d
    BY DEF Current, InAudit
  <1> QED
    BY <1>1, <1>2, AuditNumbers

Begun(p) ==
  /\ reply' = [reply EXCEPT ![p] = 0] /\ floor' = [floor EXCEPT ![p] = acked]
  /\ acked' = acked

Answered(p) ==
  /\ pc[p] = "checkOrphans" \/ (pc[p] = "release" /\ req[p].ok)
  /\ reply' = [reply EXCEPT ![p] = req[p].local] /\ floor' = floor
  /\ \/ acked' = acked
     \/ /\ pc[p] = "release" /\ req[p].why = "mutate" /\ req[p].new # 0
        /\ acked' = acked \cup {<<req[p].new, req[p].expect>>}

LEMMA Told ==
  ASSUME IInv, [Next]_vars
  PROVE  \/ UNCHANGED history
         \/ \E p \in Procs : Begun(p) \/ Answered(p)
  <1>1. ASSUME NEW p \in Procs, Quiet(p)
        PROVE  UNCHANGED history \/ Begun(p) \/ Answered(p)
    <2>1. CASE NewRequest(p)
      BY <2>1 DEF NewRequest, Start, Begun
    <2>2. CASE ReadStep(p)
      BY <2>2 DEF ReadStep, CheckMarker, ReadActive, CheckOrphans, Proceed, Answered, history, At
    <2>3. CASE LockStep(p)
      BY <2>3 DEF LockStep, AcquireLock, LockBusy, Release, Proceed, Answered, history, At
    <2>4. CASE FinishCommit(p) \/ FailRecovery(p) \/ FoundReady(p) \/ StartCleaning(p)
               \/ CleanDone(p) \/ Refuse(p) \/ NoThresholdLeft(p)
      BY <2>4 DEF FinishCommit, FailRecovery, FoundReady, StartCleaning, CleanDone, Refuse,
         NoThresholdLeft
    <2>5. CASE FailBeforeLock(p) \/ FailHolding(p) \/ FailAfterMarker(p) \/ FailRelease(p)
               \/ Crash(p) \/ OperatorRestart(p)
      BY <2>5 DEF FailBeforeLock, FailHolding, FailAfterMarker, FailRelease, Crash,
         OperatorRestart, Stop
    <2> QED
      BY <1>1, <2>1, <2>2, <2>3, <2>4, <2>5 DEF Quiet
  <1>2. ASSUME NEW p \in Procs, Begins(p) \/ Writes(p) PROVE UNCHANGED history
    BY <1>2 DEF Begins, Writes, WriteJournal, WriteMarkerTmp, CommitMarker, Promote,
       RemoveMarker, RemoveJournal, RetireStale, PromoteMarked, DropMarker, DropArtifacts,
       RemoveOrphan, FailBeforeMarker
  <1> QED
    BY <1>1, <1>2, StepKinds DEF OperatorClearsLock, vars

LEMMA StepAcked ==
  ASSUME IInv, [Next]_vars
  PROVE  AckedSound'
  <1>1. /\ DocsGrow /\ ActiveGrows /\ AckedSound /\ DirectoryOK
        /\ acked \subseteq (1..Len(docs)) \X Nat
    BY StepGrows DEF IInv, TypeOK, HistoryOK, Trail
  <1>2. ASSUME NEW c \in 1..Len(docs), NEW e, InAudit(c, active), Fulfils(c, e)
        PROVE  InAudit(c, active)' /\ Fulfils(c, e)'
    BY <1>1, <1>2, FulfilsKept DEF ActiveGrows
  <1>3. \A a \in acked : InAudit(a[1], active)' /\ Fulfils(a[1], a[2])'
    BY <1>1, <1>2 DEF AckedSound
  <1>4. ASSUME NEW p \in Procs, Answered(p) PROVE AckedSound'
    <2>1. CASE acked' = acked
      BY <1>3, <2>1 DEF AckedSound
    <2>2. CASE /\ pc[p] = "release" /\ req[p].why = "mutate" /\ req[p].new # 0
               /\ acked' = acked \cup {<<req[p].new, req[p].expect>>}
      <3>1. PICK c, e : c = req[p].new /\ e = req[p].expect
        OBVIOUS
      <3>2. Current(p, c) /\ Fulfils(c, e)
        BY <1>4, <2>2, <3>1 DEF Answered, IInv, Trail, RequestsSound, RequestSound
      <3>3. c \in 1..Len(docs) /\ InAudit(c, active)
        BY <3>2, CurrentExists DEF Current
      <3>4. InAudit(c, active)' /\ Fulfils(c, e)'
        BY <1>2, <3>2, <3>3
      <3>5. \A a \in acked' : a \in acked \/ (a[1] = c /\ a[2] = e)
        BY <2>2, <3>1
      <3> QED
        BY <1>3, <3>4, <3>5 DEF AckedSound
    <2> QED
      BY <1>4, <2>1, <2>2 DEF Answered
  <1>5. ASSUME acked' = acked PROVE AckedSound'
    BY <1>3, <1>5 DEF AckedSound
  <1> QED
    BY <1>4, <1>5, Told DEF history, Begun

LEMMA StepReplies ==
  ASSUME IInv, [Next]_vars
  PROVE  RepliesSound'
  <1>1. /\ DocsGrow /\ ActiveGrows /\ RepliesSound
        /\ reply \in [Procs -> 0..Len(docs)] /\ floor \in [Procs -> SUBSET acked]
    BY StepGrows DEF IInv, TypeOK, HistoryOK, Trail
  <1>2. ASSUME NEW q \in Procs, reply'[q] = reply[q], floor'[q] = floor[q], reply[q] # 0
        PROVE  Current(q, reply[q])'
    <2>1. PICK d : d = reply[q]
      OBVIOUS
    <2>2. Current(q, d)'
      BY <1>1, <1>2, <2>1, CurrentKept DEF RepliesSound
    <2> QED
      BY <1>2, <2>1, <2>2 DEF Current, InAudit, Rev, AuditOf
  <1>3. ASSUME UNCHANGED history PROVE RepliesSound'
    BY <1>2, <1>3 DEF RepliesSound, history
  <1>4. ASSUME NEW p \in Procs, Begun(p) PROVE RepliesSound'
    <2>1. reply'[p] = 0 /\ \A q \in Procs \ {p} : reply'[q] = reply[q] /\ floor'[q] = floor[q]
      BY <1>1, <1>4 DEF Begun
    <2> QED
      BY <1>2, <2>1 DEF RepliesSound
  <1>5. ASSUME NEW p \in Procs, Answered(p) PROVE RepliesSound'
    <2>1. PICK d : d = req[p].local
      OBVIOUS
    <2>2. Current(p, d)
      BY <1>5, <2>1 DEF Answered, IInv, Trail, RequestsSound, RequestSound
    <2>3. d \in 0..Len(docs)
      BY <2>2, CurrentExists
    <2>4. /\ floor' = floor /\ reply'[p] = d
          /\ \A q \in Procs \ {p} : reply'[q] = reply[q]
      BY <1>1, <1>5, <2>1 DEF Answered
    <2>5. Current(p, d)'
      BY <1>1, <2>2, <2>3, <2>4, CurrentKept
    <2>6. Current(p, reply[p])'
      BY <2>4, <2>5 DEF Current, InAudit, Rev, AuditOf
    <2> QED
      BY <1>2, <2>4, <2>6 DEF RepliesSound
  <1> QED
    BY <1>3, <1>4, <1>5, Told

(***************************************************************************)
(* What a process may rely on of its request.                               *)
(***************************************************************************)

\* A step does not change what is asked for, and what is being written.
Keeps(p) ==
  /\ req'[p].op = req[p].op /\ req'[p].expect = req[p].expect
  /\ req'[p].why = req[p].why /\ req'[p].new = req[p].new
  /\ floor'[p] = floor[p]

LEMMA OtherRequest ==
  ASSUME IInv, [Next]_vars, NEW q \in Procs,
         pc'[q] = pc[q], req'[q] = req[q], floor'[q] = floor[q]
  PROVE  RequestSound(q)'
  <1>0. TypeOK /\ Phases /\ RequestsSound
    BY DEF IInv, Trail
  <1>1. /\ DocsGrow /\ ActiveGrows /\ RequestSound(q) /\ Phases
        /\ req[q] \in Request(Len(docs)) /\ Len(docs) \in Nat
    BY <1>0, StepGrows DEF TypeOK, DirectoryOK, ProcessesOK, RequestsSound
  <1>2. PICK k : k = req[q]
    OBVIOUS
  <1>3. k.local \in 0..Len(docs) /\ k.new \in 0..Len(docs)
    BY <1>1, <1>2 DEF Request
  <1>4. Current(q, k.local) => Current(q, k.local)'
    BY <1>1, <1>3, CurrentKept
  <1>5. k.new # 0 /\ Fulfils(k.new, k.expect) => Fulfils(k.new, k.expect)'
    BY <1>1, <1>3, FulfilsKept
  <1>6. pc[q] \in Writing => k.new # 0
    BY <1>1, <1>2 DEF Phases, Prepared, Marked, Finished, Unmarked, Writing
  <1>7. k.new # 0 => docs'[k.new] = docs[k.new]
    BY <1>1, <1>3 DEF DocsGrow
  <1> QED
    BY <1>1, <1>2, <1>4, <1>5, <1>6, <1>7 DEF RequestSound, ActiveGrows, Current, Fulfils,
       InAudit, Rev, AuditOf

LEMMA BeginRequest ==
  ASSUME IInv, NEW p \in Procs, Begins(p)
  PROVE  RequestSound(p)'
  <1>1. RequestSound(p)
    BY DEF IInv, Trail, RequestsSound
  <1>2. PICK n : n = Len(docs')
    OBVIOUS
  <1>3. /\ req'[p].new = n /\ pc'[p] = "journal" /\ active' = active
    BY <1>2, BeginMeaning
  <1>4. /\ req[p].why = "mutate" => docs'[n].kind = "RECOVERED" \/ Fulfils(n, req[p].expect)'
        /\ req'[p].op = req[p].op /\ req'[p].expect = req[p].expect /\ req'[p].why = req[p].why
    BY <1>2, BeginDocument
  <1> QED
    BY <1>1, <1>3, <1>4 DEF RequestSound, Writing, Fulfils

LEMMA WriteRequest ==
  ASSUME IInv, [Next]_vars, NEW p \in Procs, Writes(p)
  PROVE  RequestSound(p)'
  <1>1. /\ RequestSound(p) /\ pc \in [Procs -> Places]
        /\ req \in [Procs -> Request(Len(docs))]
        /\ active # 0 => active' # 0
    BY StepGrows DEF IInv, TypeOK, ProcessesOK, Trail, RequestsSound, ActiveGrows
  <1>2. UNCHANGED <<docs, floor>>
    BY DEF Writes, WriteJournal, WriteMarkerTmp, CommitMarker, Promote, RemoveMarker,
           RemoveJournal, RetireStale, PromoteMarked, DropMarker, DropArtifacts,
           RemoveOrphan, FailBeforeMarker, history
  <1>3. PICK k : k = req[p]
    OBVIOUS
  <1>4. k \in Request(Len(docs))
    BY <1>1, <1>3
  <1>5. \/ req' = req
        \/ req' = [req EXCEPT ![p] = [k EXCEPT !.stale = marker]]
        \/ req' = [req EXCEPT ![p] = [k EXCEPT !.ok = FALSE]]
    BY <1>3 DEF Writes, WriteJournal, WriteMarkerTmp, CommitMarker, Promote, RemoveMarker,
           RemoveJournal, RetireStale, PromoteMarked, DropMarker, DropArtifacts,
           RemoveOrphan, FailBeforeMarker, Throw, Remember
  <1>6. Keeps(p)
    BY <1>1, <1>2, <1>3, <1>4, <1>5 DEF Keeps, Request
  <1>7. \/ pc[p] \in Writing /\ pc'[p] \in Writing
        \/ /\ pc[p] \in {"holding", "dropArtifacts", "cleanOrphans"}
           /\ pc'[p] \in {"promoted", "dropArtifacts", "cleanOrphans"}
        \/ pc'[p] = "release" /\ ~req'[p].ok
    <2>1. CASE FailBeforeMarker(p)
      <3>1. pc'[p] = "release" /\ req' = [req EXCEPT ![p] = [k EXCEPT !.ok = FALSE]]
        BY <1>1, <1>3, <2>1 DEF FailBeforeMarker, Throw, Goto, Remember
      <3> QED
        BY <1>1, <1>4, <3>1 DEF Request
    <2>2. CASE ~FailBeforeMarker(p)
      BY <1>1, <2>2 DEF Writes, WriteJournal, WriteMarkerTmp, CommitMarker, Promote,
         RemoveMarker, RemoveJournal, RetireStale, PromoteMarked, DropMarker, DropArtifacts,
         RemoveOrphan, Goto, At, Writing
    <2> QED
      BY <2>1, <2>2
  <1> QED
    BY <1>1, <1>2, <1>6, <1>7 DEF RequestSound, Keeps, Writing, Fulfils

\* A quiet step returns document d, which is in the registry file.
LEMMA ReturnRequest ==
  ASSUME IInv, NEW p \in Procs, Return(p, active), active # 0,
         UNCHANGED <<docs, active, floor>>,
         req[p].why = "mutate" /\ req[p].new # 0 =>
           req[p].new = active /\ Fulfils(req[p].new, req[p].expect)
  PROVE  RequestSound(p)'
  <1>1. /\ RequestSound(p) /\ pc \in [Procs -> Places]
        /\ req \in [Procs -> Request(Len(docs))]
    BY DEF IInv, TypeOK, ProcessesOK, Trail, RequestsSound
  <1>2. PICK k, a : k = req[p] /\ a = active
    OBVIOUS
  <1>3. k \in Request(Len(docs))
    BY <1>1, <1>2
  <1>4. pc'[p] = "release" /\ req' = [req EXCEPT ![p] = [k EXCEPT !.ok = TRUE, !.local = a]]
    BY <1>1, <1>2 DEF Return, Goto, Remember
  <1>5. LET r == [k EXCEPT !.ok = TRUE, !.local = a]
        IN  /\ r.op = k.op /\ r.expect = k.expect /\ r.why = k.why /\ r.new = k.new
            /\ r.local = a
    BY <1>3 DEF Request
  <1>6. /\ req'[p].op = k.op /\ req'[p].expect = k.expect /\ req'[p].why = k.why
        /\ req'[p].new = k.new /\ req'[p].local = a
    BY <1>1, <1>4, <1>5
  <1>7. Current(p, a)
    BY <1>2, ActiveCurrent
  <1>8. Current(p, a)'
    BY <1>7 DEF Current, InAudit, Rev, AuditOf
  <1>9. Current(p, req[p].local)'
    BY <1>6, <1>8 DEF Current, InAudit, Rev, AuditOf
  <1> QED
    BY <1>1, <1>2, <1>4, <1>6, <1>9 DEF RequestSound, Fulfils, Writing

LEMMA ThrowRequest ==
  ASSUME IInv, NEW p \in Procs, Throw(p), UNCHANGED active
  PROVE  RequestSound(p)'
  <1>1. /\ RequestSound(p) /\ pc \in [Procs -> Places]
        /\ req \in [Procs -> Request(Len(docs))]
    BY DEF IInv, TypeOK, ProcessesOK, Trail, RequestsSound
  <1>2. PICK k : k = req[p]
    OBVIOUS
  <1>3. k \in Request(Len(docs))
    BY <1>1, <1>2
  <1>4. pc'[p] = "release" /\ req' = [req EXCEPT ![p] = [k EXCEPT !.ok = FALSE]]
    BY <1>1, <1>2 DEF Throw, Goto, Remember
  <1>5. /\ req'[p].op = k.op /\ req'[p].expect = k.expect /\ req'[p].why = k.why
        /\ ~req'[p].ok
    BY <1>1, <1>3, <1>4 DEF Request
  <1> QED
    BY <1>1, <1>2, <1>4, <1>5 DEF RequestSound, Writing

LEMMA EndedRequest ==
  ASSUME IInv, NEW p \in Procs, Goto(p, "idle"), Remember(p, NoRequest)
  PROVE  RequestSound(p)'
  <1>1. pc \in [Procs -> Places] /\ req \in [Procs -> Request(Len(docs))]
    BY DEF IInv, TypeOK, ProcessesOK
  <1>2. pc'[p] = "idle" /\ req'[p] = NoRequest
    BY <1>1 DEF Goto, Remember
  <1> QED
    BY <1>2 DEF RequestSound, NoRequest, Writing

\* A request goes on with the document that ensureReady returned.
LEMMA ProceedRequest ==
  ASSUME IInv, NEW p \in Procs, Proceed(p, req[p].local), Current(p, req[p].local),
         UNCHANGED active
  PROVE  RequestSound(p)'
  <1>1. /\ RequestSound(p) /\ pc \in [Procs -> Places]
        /\ req \in [Procs -> Request(Len(docs))] /\ active # 0
    BY CurrentExists DEF IInv, TypeOK, ProcessesOK, Trail, RequestsSound
  <1>2. PICK k : k = req[p]
    OBVIOUS
  <1>3. k \in Request(Len(docs))
    BY <1>1, <1>2
  <1>4. CASE Goto(p, "idle") /\ Remember(p, NoRequest)
    BY <1>4, EndedRequest
  <1>5. CASE /\ Goto(p, "acquire")
             /\ Remember(p, [req[p] EXCEPT !.why = "mutate", !.local = req[p].local,
                                           !.new = 0, !.stale = 0])
    <2>1. /\ pc'[p] = "acquire"
          /\ req' = [req EXCEPT ![p] = [k EXCEPT !.why = "mutate", !.local = k.local,
                                                 !.new = 0, !.stale = 0]]
      BY <1>1, <1>2, <1>5 DEF Goto, Remember
    <2>2. LET r == [k EXCEPT !.why = "mutate", !.local = k.local, !.new = 0, !.stale = 0]
          IN  r.op = k.op /\ r.expect = k.expect /\ r.new = 0
      BY <1>3 DEF Request
    <2>3. req'[p].op = k.op /\ req'[p].expect = k.expect /\ req'[p].new = 0
      BY <1>1, <2>1, <2>2
    <2> QED
      BY <1>1, <1>2, <2>1, <2>3 DEF RequestSound, Writing
  <1> QED
    BY <1>4, <1>5 DEF Proceed

LEMMA QuietRequest ==
  ASSUME IInv, NEW p \in Procs, Quiet(p)
  PROVE  RequestSound(p)'
  <1>1. /\ RequestSound(p) /\ pc \in [Procs -> Places]
        /\ req \in [Procs -> Request(Len(docs))]
        /\ Finished(p)
    BY DEF IInv, TypeOK, ProcessesOK, Trail, RequestsSound, Phases
  <1>2. UNCHANGED <<docs, active, marker, files>>
    BY QuietDirectory
  <1>3. PICK k, f : k = req[p] /\ f = floor[p]
    OBVIOUS
  <1>4. k \in Request(Len(docs))
    BY <1>1, <1>3
  <1>5. CASE NewRequest(p)
    <2>1. PICK o \in Ops, e \in {0} \cup KnownGenerations : Start(p, o, e)
      BY <1>5 DEF NewRequest
    <2>2. /\ pc'[p] = "checkMarker" /\ req'[p] = [NoRequest EXCEPT !.op = o, !.expect = e]
          /\ o \in {"rotate", "rollback"} \/ e = 0
      BY <1>1, <2>1 DEF Start, Goto, Remember
    <2>3. req'[p].op = o /\ req'[p].expect = e /\ req'[p].why = "init"
      BY <2>2 DEF NoRequest
    <2> QED
      BY <2>2, <2>3 DEF RequestSound, Writing
  <1>6. CASE CheckMarker(p)
    <2>1. \/ req'[p] = k /\ pc'[p] = "readActive"
          \/ req'[p] = [k EXCEPT !.why = "recover"] /\ pc'[p] = "acquire"
      BY <1>1, <1>3, <1>6 DEF CheckMarker, Goto, Remember
    <2>2. [k EXCEPT !.why = "recover"].op = k.op /\ [k EXCEPT !.why = "recover"].expect = k.expect
          /\ [k EXCEPT !.why = "recover"].why = "recover"
      BY <1>4 DEF Request
    <2> QED
      BY <1>1, <1>2, <1>3, <2>1, <2>2 DEF RequestSound, Writing
  <1>7. CASE ReadActive(p)
    <2>1. CASE active = 0
      <3>1. req'[p] = [k EXCEPT !.why = "init"] /\ pc'[p] = "acquire"
        BY <1>1, <1>3, <1>7, <2>1 DEF ReadActive, Goto, Remember
      <3>2. [k EXCEPT !.why = "init"].op = k.op /\ [k EXCEPT !.why = "init"].expect = k.expect
            /\ [k EXCEPT !.why = "init"].why = "init"
        BY <1>4 DEF Request
      <3> QED
        BY <1>1, <1>2, <1>3, <3>1, <3>2 DEF RequestSound, Writing
    <2>2. CASE active # 0
      <3>1. PICK a : a = active
        OBVIOUS
      <3>2. req'[p] = [k EXCEPT !.local = a] /\ pc'[p] = "checkOrphans" /\ floor' = floor
        BY <1>1, <1>3, <1>7, <2>2, <3>1 DEF ReadActive, Goto, Remember, history
      <3>3. LET r == [k EXCEPT !.local = a]
            IN  r.op = k.op /\ r.expect = k.expect /\ r.why = k.why /\ r.local = a
        BY <1>4 DEF Request
      <3>4. /\ req'[p].op = k.op /\ req'[p].expect = k.expect /\ req'[p].why = k.why
            /\ req'[p].local = a
        BY <3>2, <3>3
      <3>5. Current(p, a)
        BY <2>2, <3>1, ActiveCurrent
      <3>6. Current(p, req[p].local)'
        BY <1>2, <3>2, <3>4, <3>5 DEF Current, InAudit, Rev, AuditOf
      <3> QED
        BY <1>1, <1>2, <1>3, <3>2, <3>4, <3>6 DEF RequestSound, Writing
    <2> QED
      BY <2>1, <2>2
  <1>8. CASE CheckOrphans(p)
    <2>1. CASE files # {}
      <3>1. req'[p] = [k EXCEPT !.why = "orphans"] /\ pc'[p] = "acquire"
        BY <1>1, <1>3, <1>8, <2>1 DEF CheckOrphans, Goto, Remember
      <3>2. [k EXCEPT !.why = "orphans"].op = k.op /\ [k EXCEPT !.why = "orphans"].expect = k.expect
            /\ [k EXCEPT !.why = "orphans"].why = "orphans"
        BY <1>4 DEF Request
      <3> QED
        BY <1>1, <1>2, <1>3, <3>1, <3>2 DEF RequestSound, Writing
    <2>2. CASE files = {}
      <3>1. Proceed(p, req[p].local) /\ Current(p, req[p].local)
        BY <1>1, <1>8, <2>2 DEF CheckOrphans, RequestSound, At
      <3> QED
        BY <1>2, <3>1, ProceedRequest
    <2> QED
      BY <2>1, <2>2
  <1>9. CASE AcquireLock(p)
    <2>1. req' = req /\ pc[p] = "acquire" /\ pc'[p] = "holding"
      BY <1>1, <1>9 DEF AcquireLock, At, Goto
    <2> QED
      BY <1>1, <1>2, <2>1 DEF RequestSound, Writing
  <1>10. CASE LockBusy(p) \/ FailBeforeLock(p) \/ FailRelease(p) \/ Crash(p) \/ OperatorRestart(p)
    BY <1>10, EndedRequest DEF LockBusy, FailBeforeLock, FailRelease, Crash, OperatorRestart, Stop
  <1>11. CASE Release(p)
    <2>1. CASE ~req[p].ok \/ req[p].why = "mutate"
      BY <1>11, <2>1, EndedRequest DEF Release
    <2>2. CASE req[p].ok /\ req[p].why # "mutate"
      <3>1. Proceed(p, req[p].local) /\ Current(p, req[p].local)
        BY <1>1, <1>11, <2>2 DEF Release, RequestSound, At
      <3> QED
        BY <1>2, <3>1, ProceedRequest
    <2> QED
      BY <2>1, <2>2
  <1>12. CASE FinishCommit(p)
    <2>1. pc[p] = "retire" /\ req[p].new # 0 /\ active = req[p].new /\ floor' = floor
      BY <1>1, <1>12 DEF FinishCommit, Finished, At, history
    <2>2. CASE docs[req[p].new].kind = "RECOVERED" /\ req[p].why = "mutate"
      <3>1. pc'[p] = "holding" /\ req'[p] = [k EXCEPT !.new = 0, !.stale = 0]
        BY <1>1, <1>3, <1>12, <2>2 DEF FinishCommit, Goto, Remember
      <3>2. LET r == [k EXCEPT !.new = 0, !.stale = 0]
            IN  r.op = k.op /\ r.expect = k.expect /\ r.new = 0
        BY <1>4 DEF Request
      <3>3. req'[p].op = k.op /\ req'[p].expect = k.expect /\ req'[p].new = 0
        BY <3>1, <3>2
      <3> QED
        BY <1>1, <1>2, <1>3, <2>1, <3>1, <3>3 DEF RequestSound, Writing
    <2>3. CASE ~(docs[req[p].new].kind = "RECOVERED" /\ req[p].why = "mutate")
      <3>1. Return(p, active)
        BY <1>12, <2>1, <2>3 DEF FinishCommit
      <3>2. req[p].why = "mutate" => Fulfils(req[p].new, req[p].expect)
        BY <1>1, <2>1, <2>3 DEF RequestSound, Writing
      <3> QED
        BY <1>2, <2>1, <3>1, <3>2, ReturnRequest
    <2> QED
      BY <2>2, <2>3
  <1>13. CASE FailRecovery(p) \/ Refuse(p) \/ FailHolding(p) \/ FailAfterMarker(p)
    BY <1>2, <1>13, ThrowRequest DEF FailRecovery, Refuse, FailHolding, FailAfterMarker
  <1>14. CASE FoundReady(p)
    BY <1>2, <1>14, ReturnRequest DEF FoundReady, history
  <1>15. CASE StartCleaning(p)
    <2>1. req' = req /\ pc[p] = "holding" /\ pc'[p] = "cleanOrphans"
      BY <1>1, <1>15 DEF StartCleaning, At, Goto
    <2> QED
      BY <1>1, <1>2, <2>1 DEF RequestSound, Writing
  <1>16. CASE CleanDone(p)
    <2>1. pc[p] = "cleanOrphans" /\ active # 0 /\ floor' = floor
      BY <1>16 DEF CleanDone, At, history
    <2>2. CASE req[p].why = "mutate"
      <3>1. pc'[p] = "holding" /\ req'[p] = [k EXCEPT !.stale = 0]
        BY <1>1, <1>3, <1>16, <2>2 DEF CleanDone, Goto, Remember
      <3>2. LET r == [k EXCEPT !.stale = 0]
            IN  r.op = k.op /\ r.expect = k.expect /\ r.new = k.new /\ r.why = k.why
        BY <1>4 DEF Request
      <3>3. req'[p].op = k.op /\ req'[p].expect = k.expect /\ req'[p].new = k.new
        BY <3>1, <3>2
      <3> QED
        BY <1>1, <1>2, <1>3, <2>1, <2>2, <3>1, <3>3 DEF RequestSound, Writing
    <2>3. CASE req[p].why # "mutate"
      BY <1>2, <1>16, <2>1, <2>3, ReturnRequest DEF CleanDone
    <2> QED
      BY <2>2, <2>3
  <1>17. CASE NoThresholdLeft(p)
    <2>1. /\ pc[p] = "holding" /\ active # 0 /\ req[p].why = "mutate" /\ floor' = floor
          /\ Return(p, active)
      BY <1>17 DEF NoThresholdLeft, Mutating, At, history
    <2>2. req[p].new = 0
      BY <1>1, <2>1 DEF RequestSound
    <2> QED
      BY <1>2, <2>1, <2>2, ReturnRequest
  <1> QED
    BY <1>5, <1>6, <1>7, <1>8, <1>9, <1>10, <1>11, <1>12, <1>13, <1>14, <1>15, <1>16, <1>17
       DEF Quiet, ReadStep, LockStep

LEMMA StepRequests ==
  ASSUME IInv, [Next]_vars
  PROVE  RequestsSound'
  <1>1. /\ pc \in [Procs -> Places] /\ req \in [Procs -> Request(Len(docs))]
        /\ floor \in [Procs -> SUBSET acked]
    BY DEF IInv, TypeOK, ProcessesOK, HistoryOK
  <1>2. ASSUME NEW p \in Procs, Begins(p) \/ Writes(p), NEW q \in Procs \ {p}
        PROVE  RequestSound(q)'
    <2>1. pc'[q] = pc[q]
      BY <1>2, BusyUnderLock
    <2>2. req'[q] = req[q]
      <3>1. CASE Begins(p)
        <4>1. PICK n : n = Len(docs')
          OBVIOUS
        <4> QED
          BY <3>1, <4>1, BeginDocument
      <3>2. CASE Writes(p)
        <4>1. req' = req \/ \E r : Remember(p, r)
          BY <3>2 DEF Writes, WriteJournal, WriteMarkerTmp, CommitMarker, Promote,
             RemoveMarker, RemoveJournal, RetireStale, PromoteMarked, DropMarker,
             DropArtifacts, RemoveOrphan, FailBeforeMarker, Throw
        <4> QED
          BY <1>1, <4>1 DEF Remember
      <3> QED
        BY <1>2, <3>1, <3>2
    <2>3. floor' = floor
      BY <1>2 DEF Begins, Writes, WriteJournal, WriteMarkerTmp, CommitMarker, Promote,
         RemoveMarker, RemoveJournal, RetireStale, PromoteMarked, DropMarker,
         DropArtifacts, RemoveOrphan, FailBeforeMarker, history
    <2> QED
      BY <2>1, <2>2, <2>3, OtherRequest
  <1>3. ASSUME NEW p \in Procs, Quiet(p), NEW q \in Procs \ {p}
        PROVE  RequestSound(q)'
    <2>1. pc' = pc \/ \E place : Goto(p, place)
      BY ZenonT(40), <1>3 DEF Quiet, NewRequest, Start, ReadStep, CheckMarker, ReadActive, CheckOrphans,
         Proceed, LockStep, AcquireLock, LockBusy, Release, FinishCommit, FailRecovery,
         FoundReady, StartCleaning, CleanDone, Refuse, NoThresholdLeft, FailBeforeLock,
         FailHolding, FailAfterMarker, FailRelease, Crash, OperatorRestart, Stop, Return, Throw
    <2>2. req' = req \/ \E r : Remember(p, r)
      BY <1>3 DEF Quiet, NewRequest, Start, ReadStep, CheckMarker, ReadActive, CheckOrphans,
         Proceed, LockStep, AcquireLock, LockBusy, Release, FinishCommit, FailRecovery,
         FoundReady, StartCleaning, CleanDone, Refuse, NoThresholdLeft, FailBeforeLock,
         FailHolding, FailAfterMarker, FailRelease, Crash, OperatorRestart, Stop, Return, Throw
    <2>3. floor' = floor \/ floor' = [floor EXCEPT ![p] = acked]
      BY <1>3 DEF Quiet, NewRequest, Start, ReadStep, CheckMarker, ReadActive, CheckOrphans,
         LockStep, AcquireLock, LockBusy, Release, FinishCommit, FailRecovery,
         FoundReady, StartCleaning, CleanDone, Refuse, NoThresholdLeft,
         FailBeforeLock, FailHolding, FailAfterMarker, FailRelease, Crash,
         OperatorRestart, Stop, history
    <2>4. pc'[q] = pc[q] /\ req'[q] = req[q] /\ floor'[q] = floor[q]
      BY <1>1, <2>1, <2>2, <2>3 DEF Goto, Remember
    <2> QED
      BY SMTT(30), <2>4, OtherRequest
  <1>4. ASSUME OperatorClearsLock \/ UNCHANGED vars, NEW q \in Procs
        PROVE  RequestSound(q)'
    BY <1>4, OtherRequest DEF OperatorClearsLock, vars, history
  <1>5. \A q \in Procs : RequestSound(q)'
    BY <1>2, <1>3, <1>4, StepKinds, BeginRequest, WriteRequest, QuietRequest
  <1> QED
    BY <1>5 DEF RequestsSound

(***************************************************************************)
(* What a recovery acts on.                                                 *)
(***************************************************************************)

LEMMA ValidKept ==
  ASSUME DirectoryOK, DocsGrow, NEW d \in 1..Len(docs), ValidRecoveryDocument(d)
  PROVE  ValidRecoveryDocument(d)'
  <1>1. Len(docs) \in Nat /\ docs'[d] = docs[d] /\ d \in 0..Len(docs)
    BY DEF DirectoryOK, DocsGrow
  <1>2. ASSUME NEW c, HasMatchingMutation(d, c) PROVE HasMatchingMutation(d, c)'
    <2>1. InAudit(c, d)
      BY <1>2 DEF HasMatchingMutation
    <2>2. c \in 1..Len(docs)
      BY <1>1, <2>1, AuditNumbers DEF InAudit
    <2>3. c \in 0..Len(docs) /\ docs'[c] = docs[c]
      BY <1>1, <2>2 DEF DocsGrow
    <2>4. InAudit(c, d)' /\ Rev(d)' = Rev(d) /\ Rev(c)' = Rev(c)
      BY <1>1, <2>1, <2>3, AuditKept
    <2> QED
      BY <1>1, <1>2, <2>3, <2>4 DEF HasMatchingMutation
  <1>3. PICK r : r = docs[d].recovers
    OBVIOUS
  <1>4. CASE HasMatchingMutation(d, d)
    BY <1>2, <1>4 DEF ValidRecoveryDocument
  <1>5. CASE docs[d].kind = "RECOVERED" /\ HasMatchingMutation(d, r)
    <2>1. HasMatchingMutation(d, r)'
      BY <1>2, <1>5
    <2>2. HasMatchingMutation(d, docs[d].recovers)'
      BY <1>1, <1>3, <2>1 DEF HasMatchingMutation, InAudit, Rev, AuditOf
    <2> QED
      BY <1>1, <1>5, <2>2 DEF ValidRecoveryDocument
  <1> QED
    BY <1>3, <1>4, <1>5 DEF ValidRecoveryDocument

LEMMA StepRecoveries ==
  ASSUME IInv, [Next]_vars
  PROVE  RecoveriesSound'
  <1>1. /\ DirectoryOK /\ DocsGrow /\ marker \in 0..Len(docs) /\ Len(docs) \in Nat
        /\ pc \in [Procs -> Places] /\ RecoveriesSound
    BY StepGrows DEF IInv, TypeOK, DirectoryOK, ProcessesOK, Trail
  <1>2. ASSUME marker' = marker, marker # 0, ValidRecoveryDocument(marker)
        PROVE  ValidRecoveryDocument(marker)'
    <2>1. PICK m : m = marker
      OBVIOUS
    <2>2. ValidRecoveryDocument(m)'
      BY <1>1, <1>2, <2>1, ValidKept
    <2> QED
      BY <1>2, <2>1, <2>2 DEF ValidRecoveryDocument, HasMatchingMutation, InAudit, Rev, AuditOf
  <1>3. ASSUME marker' = marker, NEW q \in Procs,
               \/ pc'[q] = pc[q]
               \/ pc'[q] \notin Unmarked \cup {"promoted"}
        PROVE  Qualified(q)'
    BY <1>1, <1>2, <1>3 DEF RecoveriesSound, Qualified
  <1>4. ASSUME NEW p \in Procs, Begins(p) \/ Writes(p), NEW q \in Procs \ {p} PROVE Qualified(q)'
    <2>1. pc'[q] \notin UnderLock
      BY <1>4, BusyUnderLock DEF IInv, OneWriter
    <2> QED
      BY <2>1 DEF Qualified, Unmarked, UnderLock
  <1>5. ASSUME NEW p \in Procs, Begins(p) PROVE Qualified(p)'
    <2>1. marker' = marker /\ (marker # 0 => ValidRecoveryDocument(marker))
      BY <1>5, BeginMeaning DEF Begins
    <2> QED
      BY <1>2, <2>1 DEF Qualified
  <1>6. ASSUME NEW p \in Procs, Writes(p) PROVE Qualified(p)'
    <2>1. CASE WriteJournal(p) \/ WriteMarkerTmp(p)
      <3>1. pc[p] \in Unmarked /\ marker' = marker
        BY <2>1 DEF WriteJournal, WriteMarkerTmp, At, Unmarked
      <3>2. marker # 0 => ValidRecoveryDocument(marker)
        BY <1>1, <3>1 DEF RecoveriesSound, Qualified
      <3> QED
        BY <1>2, <3>1, <3>2 DEF Qualified
    <2>2. CASE PromoteMarked(p)
      <3>1. marker' = marker /\ marker # 0 /\ ValidRecoveryDocument(marker)
        BY <2>2 DEF PromoteMarked, MarkerQualified
      <3> QED
        BY <1>2, <3>1 DEF Qualified
    <2>3. CASE ~(WriteJournal(p) \/ WriteMarkerTmp(p) \/ PromoteMarked(p))
      <3>1. pc'[p] \notin Unmarked \cup {"promoted"}
        BY <1>1, <1>6, <2>3 DEF Writes, CommitMarker, Promote, RemoveMarker, RemoveJournal,
           RetireStale, DropMarker, DropArtifacts, RemoveOrphan, FailBeforeMarker, Throw,
           Goto, At, Unmarked
      <3> QED
        BY <3>1 DEF Qualified
    <2> QED
      BY <2>1, <2>2, <2>3
  <1>7. ASSUME NEW p \in Procs, Quiet(p), NEW q \in Procs PROVE Qualified(q)'
    <2>1. marker' = marker
      BY SMTT(30), <1>7, QuietDirectory
    <2>2. \/ UNCHANGED pc
          \/ \E place \in {"idle", "checkMarker", "readActive", "checkOrphans", "acquire",
                           "holding", "release", "cleanOrphans"} : Goto(p, place)
      BY <1>7 DEF Quiet, NewRequest, Start, ReadStep, CheckMarker, ReadActive, CheckOrphans,
         Proceed, LockStep, AcquireLock, LockBusy, Release, FinishCommit, FailRecovery,
         FoundReady, StartCleaning, CleanDone, Refuse, NoThresholdLeft, FailBeforeLock,
         FailHolding, FailAfterMarker, FailRelease, Crash, OperatorRestart, Stop, Return, Throw
    <2>3. pc'[q] = pc[q] \/ pc'[q] \notin Unmarked \cup {"promoted"}
      BY <1>1, <2>2 DEF Goto, Unmarked
    <2> QED
      BY <1>3, <2>1, <2>3
  <1>8. ASSUME OperatorClearsLock \/ UNCHANGED vars, NEW q \in Procs PROVE Qualified(q)'
    BY <1>3, <1>8 DEF OperatorClearsLock, vars, disk
  <1>9. \A q \in Procs : Qualified(q)'
    BY <1>4, <1>5, <1>6, <1>7, <1>8, StepKinds
  <1> QED
    BY <1>9 DEF RecoveriesSound

(***************************************************************************)
(* The invariant and its consequences.                                      *)
(***************************************************************************)

LEMMA InitIInv == Init => IInv
  <1> SUFFICES ASSUME Init PROVE IInv
    OBVIOUS
  <1>1. docs \in Seq(Doc) /\ Len(docs) = 0
    BY EmptySeq DEF Init
  <1>2. DirectoryOK
    BY <1>1 DEF Init, DirectoryOK
  <1>3. NoRequest \in Request(0)
    BY DEF NoRequest, Request, Ops, Reasons
  <1>4. ProcessesOK
    BY <1>1, <1>3 DEF Init, ProcessesOK, Places
  <1>5. HistoryOK
    BY <1>1, BoundsType DEF Init, HistoryOK
  <1>6. OneWriter /\ MarkerComplete /\ Phases
    BY DEF Init, OneWriter, MarkerComplete, Phases, Prepared, Journalled, Marked, Finished,
           Recovering, UnderLock, Unmarked
  <1>7. Trail
    BY <1>1 DEF Init, Trail, DocsSound, AckedSound, RepliesSound, RequestsSound, RequestSound,
                NoRequest, Writing, RecoveriesSound, Qualified
  <1> QED
    BY <1>2, <1>4, <1>5, <1>6, <1>7 DEF IInv, TypeOK

LEMMA NextIInv == IInv /\ [Next]_vars => IInv'
  BY StepDirectory, StepProcesses, StepHistory, StepOneWriter, StepMarkerComplete, StepPhases,
     StepDocs, StepAcked, StepReplies, StepRequests, StepRecoveries
     DEF IInv, TypeOK, Trail

LEMMA Invariance == Spec => []IInv
  BY InitIInv, NextIInv, PTL DEF Spec

\* Every commit that a file, a request or a reply names was serialised, and the
\* audit of a document names only documents up to itself.
THEOREM TypeCorrect == Spec => []TypeOK
  <1>1. IInv => TypeOK
    BY DEF IInv
  <1> QED
    BY <1>1, Invariance, PTL

\* withWriterLock excludes: with any number of processes, crashes and operator
\* interventions, only the process the lock file names is between openSync and
\* the unlink of the finally clause.
THEOREM MutualExclusion == Spec => []OneWriter
  <1>1. IInv => OneWriter
    BY DEF IInv
  <1> QED
    BY <1>1, Invariance, PTL

\* The order of commitDocumentUnderLock's writes and unlinks is right: whatever
\* crashes wherever, a marker on disk always has its journal, and its document
\* in the registry file or as a candidate beside its predecessor.
THEOREM MarkersComplete == Spec => []MarkerComplete
  <1>1. IInv => MarkerComplete
    BY DEF IInv
  <1> QED
    BY <1>1, Invariance, PTL

\* Of the rotations and rollbacks that expected the same generation at most one
\* was ever reported successful (the generation precondition under the lock),
\* with any number of processes, retries, crashes and recoveries.
THEOREM OneSuccess == Spec => []OneSuccessPerGeneration
  <1>1. ASSUME IInv, NEW a \in acked, NEW b \in acked, a[2] = b[2], a[2] # 0
        PROVE  a[1] = b[1]
    <2>1. /\ DirectoryOK /\ DocsSound /\ active \in 0..Len(docs)
          /\ acked \subseteq (1..Len(docs)) \X Nat
      BY <1>1 DEF IInv, TypeOK, DirectoryOK, HistoryOK, Trail
    <2>2. PICK c, d, e : c = a[1] /\ d = b[1] /\ e = a[2]
      OBVIOUS
    <2>3. /\ InAudit(c, active) /\ InAudit(d, active)
          /\ docs[c].kind \in Changes /\ docs[d].kind \in Changes
          /\ docs[c].gen = e + 1 /\ docs[d].gen = e + 1
      BY <1>1, <2>2 DEF IInv, Trail, AckedSound, Fulfils
    <2>4. c \in 1..Len(docs) /\ d \in 1..Len(docs) /\ e \in Nat
      BY <1>1, <2>1, <2>2
    <2>5. PICK i \in 1..Rev(active), j \in 1..Rev(active) :
            AuditOf(active)[i] = c /\ AuditOf(active)[j] = d
      BY <2>3 DEF InAudit
    <2>6. active \in 1..Len(docs) /\ Rev(active) \in Nat
      BY <2>1, <2>5, AuditNumbers
    <2>7. DocSound(active) /\ DocSound(c) /\ DocSound(d)
      BY <2>1, <2>4, <2>6 DEF DocsSound
    <2>8. /\ Rev(c) = i /\ \A k \in 1..i : AuditOf(c)[k] = AuditOf(active)[k]
          /\ Rev(d) = j /\ \A k \in 1..j : AuditOf(d)[k] = AuditOf(active)[k]
      BY <2>5, <2>7 DEF DocSound
    <2>9. CASE i < j
      <3>1. i \in 1..(Rev(d) - 1) /\ AuditOf(d)[i] = c
        BY <2>5, <2>6, <2>8, <2>9
      <3>2. docs[c].gen < docs[d].gen
        BY <2>3, <2>7, <3>1 DEF DocSound
      <3> QED
        BY <2>3, <2>4, <3>2
    <2>10. CASE j < i
      <3>1. j \in 1..(Rev(c) - 1) /\ AuditOf(c)[j] = d
        BY <2>5, <2>6, <2>8, <2>10
      <3>2. docs[d].gen < docs[c].gen
        BY <2>3, <2>7, <3>1 DEF DocSound
      <3> QED
        BY <2>3, <2>4, <3>2
    <2>11. CASE i = j
      BY <2>2, <2>5, <2>11
    <2> QED
      BY <2>6, <2>9, <2>10, <2>11
  <1>2. ASSUME IInv PROVE OneSuccessPerGeneration
    <2>1. acked \subseteq (1..Len(docs)) \X Nat
      BY <1>2 DEF IInv, TypeOK, HistoryOK
    <2>2. \A a, b \in acked : a[1] = b[1] /\ a[2] = b[2] => a = b
      BY <2>1
    <2> QED
      BY <1>1, <1>2, <2>2 DEF OneSuccessPerGeneration
  <1> QED
    BY <1>2, Invariance, PTL

\* What a mutation was acknowledged for is in the durable registry for ever, and
\* is the generation after the one it expected: no crash, no recovery and no
\* later commit takes it away.
THEOREM AcknowledgedStays == Spec => []AckedDurable
  <1>1. ASSUME IInv PROVE AckedDurable
    <2>1. AckedSound
      BY <1>1 DEF IInv, Trail
    <2> QED
      BY <1>1, <2>1, CommittedHasActive DEF AckedSound, Fulfils, AckedDurable
  <1> QED
    BY <1>1, Invariance, PTL

\* The lock-free fast path of ensureReady answers from committed documents that
\* have all that was acknowledged before the request began.
THEOREM CommittedReads == Spec => []ReadsCommitted
  <1>1. ASSUME IInv PROVE ReadsCommitted
    <2>1. RepliesSound
      BY <1>1 DEF IInv, Trail
    <2> QED
      BY <1>1, <2>1, CommittedHasActive DEF RepliesSound, Current, ReadsCommitted
  <1> QED
    BY <1>1, Invariance, PTL

\* Recovery fails closed: a marker that recovery refuses stays where it is with
\* everything beside it, whichever process takes the lock and whatever it saw
\* before (recoverMarkerUnderLock, ensureReady under the lock).
THEOREM RecoveryFailsClosed == Spec => FailsClosed
  <1> DEFINE Refused == /\ marker # 0 /\ ~MarkerQualified
                        /\ \A p \in Procs : pc[p] \notin {"promote", "unmark"}
  <1>1. ASSUME IInv, Next, Refused PROVE UNCHANGED disk
    <2>1. /\ marker # 0 => <<marker, "journal">> \in files
          /\ RecoveriesSound /\ Phases
      BY <1>1 DEF IInv, MarkerComplete, Trail
    <2>2. ASSUME marker = active PROVE ~ValidRecoveryDocument(marker)
      BY <1>1, <2>1, <2>2 DEF MarkerQualified
    <2>3. \A p \in Procs : pc[p] \notin Unmarked \cup {"promoted"}
      <3>1. ASSUME NEW p \in Procs, pc[p] \in Unmarked \cup {"promoted"}
            PROVE  marker = active
        BY <1>1, <2>1, <3>1 DEF Phases, Prepared, Recovering, Unmarked
      <3> QED
        BY <1>1, <2>1, <2>2, <3>1 DEF RecoveriesSound, Qualified
    <2>4. \A p \in Procs : pc[p] \notin {"unjournal", "retire", "dropArtifacts", "cleanOrphans"}
      BY <1>1, <2>1 DEF Phases, Finished
    <2>5. ASSUME NEW p \in Procs, Begins(p) PROVE FALSE
      BY <1>1, <2>2, <2>5 DEF Begins
    <2>6. ASSUME NEW p \in Procs, Writes(p) PROVE FALSE
      BY <1>1, <2>3, <2>4, <2>6 DEF Writes, WriteJournal, WriteMarkerTmp, CommitMarker, Promote,
         RemoveMarker, RemoveJournal, RetireStale, PromoteMarked, DropMarker, DropArtifacts,
         RemoveOrphan, FailBeforeMarker, At, Unmarked
    <2>7. ASSUME NEW p \in Procs, Quiet(p) PROVE UNCHANGED disk
      BY <2>7, QuietDirectory DEF disk
    <2>8. (OperatorClearsLock \/ UNCHANGED vars) => UNCHANGED disk
      BY DEF OperatorClearsLock, vars
    <2> QED
      BY <1>1, <2>5, <2>6, <2>7, <2>8, StepKinds
  <1>2. IInv /\ [Next]_vars => [Refused => UNCHANGED disk]_vars
    BY <1>1
  <1> QED
    BY <1>2, Invariance, PTL DEF Spec, FailsClosed

(***************************************************************************)
(* The commit log.                                                          *)
(***************************************************************************)

\* Only the writer has a transaction under way.
LEMMA OnePending ==
  ASSUME IInv, NEW p \in Procs, pc[p] \in UnderLock
  PROVE  Pending = IF pc[p] \in Unmarked THEN {req[p].new} ELSE {}
  <1>1. \A q \in Procs : pc[q] \in UnderLock => q = p
    BY DEF IInv, OneWriter
  <1>2. \A q \in Procs : pc[q] \in Unmarked => pc[q] \in UnderLock
    BY DEF Unmarked, UnderLock
  <1> QED
    BY <1>1, <1>2 DEF Pending, Unmarked

LEMMA SameTransactions ==
  ASSUME \A q \in Procs : /\ pc'[q] \in Unmarked <=> pc[q] \in Unmarked
                          /\ pc[q] \in Unmarked => req'[q].new = req[q].new
  PROVE  Pending' = Pending
  <1>1. \A q \in Procs : pc[q] \in Unmarked => req'[q].new = req[q].new
    OBVIOUS
  <1>2. {q \in Procs : pc'[q] \in Unmarked} = {q \in Procs : pc[q] \in Unmarked}
    OBVIOUS
  <1>3. PICK S : S = {q \in Procs : pc[q] \in Unmarked}
    OBVIOUS
  <1>4. {req'[q].new : q \in S} = {req[q].new : q \in S}
    BY <1>1, <1>3
  <1>5. Pending = {req[q].new : q \in S} /\ Pending' = {req'[q].new : q \in S}
    BY <1>2, <1>3 DEF Pending, Unmarked
  <1> QED
    BY <1>4, <1>5

LEMMA SameLog ==
  ASSUME IInv, DocsGrow, UNCHANGED <<active, marker>>
  PROVE  AuditOf(Durable)' = AuditOf(Durable)
  <1>1. DirectoryOK /\ Durable \in 0..Len(docs)
    BY DEF IInv, TypeOK, DirectoryOK, Durable
  <1>2. PICK d : d = Durable
    OBVIOUS
  <1>3. Durable' = d /\ AuditOf(d)' = AuditOf(d)
    BY <1>1, <1>2, AuditKept DEF Durable
  <1> QED
    BY <1>2, <1>3 DEF AuditOf

LEMMA BeginLogged ==
  ASSUME IInv, [Next]_vars, NEW p \in Procs, Begins(p)
  PROVE  CommitLog!Begin
  <1>1. PICK n : n = Len(docs')
    OBVIOUS
  <1>2. /\ n = Len(docs) + 1 /\ req'[p].new = n /\ pc'[p] = "journal"
        /\ UNCHANGED <<active, marker, acked>>
    BY <1>1, BeginMeaning
  <1>3. \A q \in Procs \ {p} : pc'[q] = pc[q] /\ req'[q] = req[q]
    BY <1>1, BusyUnderLock, BeginDocument
  <1>4. pc[p] \notin Unmarked /\ pc[p] \in UnderLock
    BY DEF Begins, Unmarked, UnderLock
  <1>5. Pending = {}
    BY <1>4, OnePending
  <1>6. \A q \in Procs : pc[q] \notin Unmarked
    BY <1>5 DEF Pending, Unmarked
  <1>7. \A q \in Procs : pc'[q] \in Unmarked <=> q = p
    BY <1>2, <1>3, <1>6 DEF Unmarked
  <1>8. Pending' = {n}
    BY <1>2, <1>7 DEF Pending, Unmarked
  <1>9. AuditOf(Durable)' = AuditOf(Durable)
    BY <1>2, StepGrows, SameLog
  <1> QED
    BY <1>1, <1>2, <1>5, <1>8, <1>9 DEF CommitLog!Begin

\* A file operation commits, aborts, or is not seen.
LEMMA WriteLogged ==
  ASSUME IInv, [Next]_vars, NEW p \in Procs, Writes(p)
  PROVE  [CommitLog!LogNext]_(CommitLog!logVars)
  <1>1. /\ DirectoryOK /\ DocsSound /\ pc \in [Procs -> Places] /\ pc[p] \in UnderLock
        /\ Prepared(p) /\ Marked(p) /\ Len(docs) \in Nat
        /\ req \in [Procs -> Request(Len(docs))] /\ marker \in 0..Len(docs)
        /\ active \in 0..Len(docs)
    BY BusyUnderLock DEF IInv, TypeOK, DirectoryOK, ProcessesOK, Phases, Trail
  <1>2. docs' = docs /\ acked' = acked
    BY DEF Writes, WriteJournal, WriteMarkerTmp, CommitMarker, Promote, RemoveMarker,
           RemoveJournal, RetireStale, PromoteMarked, DropMarker, DropArtifacts,
           RemoveOrphan, FailBeforeMarker, history
  <1>3. \A q \in Procs \ {p} : pc'[q] = pc[q] /\ pc[q] \notin Unmarked
    BY BusyUnderLock DEF IInv, OneWriter, Unmarked, UnderLock
  <1>4. PICK n : n = req[p].new
    OBVIOUS
  <1>5. pc[p] \in Unmarked /\ pc'[p] \notin Unmarked => Pending = {n} /\ Pending' = {}
    BY <1>1, <1>3, <1>4, OnePending DEF Pending, Unmarked
  <1>6. CASE CommitMarker(p)
    <2>1. /\ pc[p] = "mark" /\ pc'[p] = "promote" /\ marker' = n /\ active' = active
      BY <1>1, <1>4, <1>6 DEF CommitMarker, At, Goto
    <2>2. n \in 1..Len(docs) /\ docs[n].pred = active /\ Durable = active /\ n # 0
      <3>1. n # 0 /\ docs[n].pred = active /\ (marker # 0 => marker = active)
        BY <1>1, <1>4, <2>1 DEF Prepared, Unmarked
      <3>2. n \in 0..Len(docs)
        BY <1>1, <1>4 DEF Request
      <3> QED
        BY <1>1, <3>1, <3>2 DEF Durable
    <2>3. AuditOf(n) = Append(AuditOf(active), n)
      BY <1>1, <2>2, Following
    <2>4. AuditOf(Durable)' = Append(AuditOf(Durable), n)
      BY <1>2, <2>1, <2>2, <2>3 DEF Durable, AuditOf
    <2>5. Pending = {n} /\ Pending' = {}
      BY <1>5, <2>1 DEF Unmarked
    <2>6. CommitLog!Commit(n)
      BY <1>2, <2>4, <2>5 DEF CommitLog!Commit
    <2> QED
      BY <2>5, <2>6 DEF CommitLog!LogNext
  <1>7. CASE FailBeforeMarker(p)
    <2>1. pc[p] \in Unmarked /\ pc'[p] = "release" /\ active' = active /\ marker' = marker
      BY <1>1, <1>7 DEF FailBeforeMarker, Throw, Goto, Unmarked
    <2>2. Pending = {n} /\ Pending' = {}
      BY <1>5, <2>1 DEF Unmarked
    <2>3. AuditOf(Durable)' = AuditOf(Durable)
      BY <2>1, StepGrows, SameLog
    <2>4. CommitLog!Abort(n)
      BY <1>2, <2>2, <2>3 DEF CommitLog!Abort
    <2> QED
      BY <2>2, <2>4 DEF CommitLog!LogNext
  <1>8. CASE ~(CommitMarker(p) \/ FailBeforeMarker(p))
    <2>1. pc'[p] \in Unmarked <=> pc[p] \in Unmarked
      BY <1>1, <1>8 DEF Writes, WriteJournal, WriteMarkerTmp, Promote, RemoveMarker,
         RemoveJournal, RetireStale, PromoteMarked, DropMarker, DropArtifacts, RemoveOrphan,
         Goto, At, Unmarked
    <2>2. pc[p] \in Unmarked => req' = req
      BY <1>8 DEF Writes, WriteJournal, WriteMarkerTmp, Promote, RemoveMarker,
         RemoveJournal, RetireStale, PromoteMarked, DropMarker, DropArtifacts, RemoveOrphan,
         At, Unmarked
    <2>3. Pending' = Pending
      BY <1>3, <2>1, <2>2, SameTransactions
    <2>4. Durable' = Durable
      BY <1>1, <1>8 DEF Writes, WriteJournal, WriteMarkerTmp, Promote, RemoveMarker,
         RemoveJournal, RetireStale, PromoteMarked, DropMarker, DropArtifacts, RemoveOrphan,
         Durable, Marked, At
    <2>5. AuditOf(Durable)' = AuditOf(Durable)
      BY <1>2, <2>4 DEF AuditOf
    <2> QED
      BY <1>2, <2>3, <2>5 DEF CommitLog!logVars
  <1> QED
    BY <1>6, <1>7, <1>8

\* A step without a file operation acknowledges, gives up, or is not seen.
LEMMA QuietLogged ==
  ASSUME IInv, [Next]_vars, NEW p \in Procs, Quiet(p)
  PROVE  [CommitLog!LogNext]_(CommitLog!logVars)
  <1>1. /\ pc \in [Procs -> Places] /\ req \in [Procs -> Request(Len(docs))]
        /\ RequestSound(p)
    BY DEF IInv, TypeOK, ProcessesOK, Trail, RequestsSound
  <1>2. UNCHANGED <<docs, active, marker, files>>
    BY QuietDirectory
  <1>3. AuditOf(Durable)' = AuditOf(Durable)
    BY <1>2 DEF AuditOf, Durable
  <1>4. \A q \in Procs \ {p} : pc'[q] = pc[q] /\ req'[q] = req[q]
    <2>1. pc' = pc \/ \E place : Goto(p, place)
      BY DEF Quiet, NewRequest, Start, ReadStep, CheckMarker, ReadActive, CheckOrphans,
         Proceed, LockStep, AcquireLock, LockBusy, Release, FinishCommit, FailRecovery,
         FoundReady, StartCleaning, CleanDone, Refuse, NoThresholdLeft, FailBeforeLock,
         FailHolding, FailAfterMarker, FailRelease, Crash, OperatorRestart, Stop, Return, Throw
    <2>2. req' = req \/ \E r : Remember(p, r)
      BY DEF Quiet, NewRequest, Start, ReadStep, CheckMarker, ReadActive, CheckOrphans,
         Proceed, LockStep, AcquireLock, LockBusy, Release, FinishCommit, FailRecovery,
         FoundReady, StartCleaning, CleanDone, Refuse, NoThresholdLeft, FailBeforeLock,
         FailHolding, FailAfterMarker, FailRelease, Crash, OperatorRestart, Stop, Return, Throw
    <2> QED
      BY SMTT(30), <1>1, <2>1, <2>2 DEF Goto, Remember
  <1>5. PICK n : n = req[p].new
    OBVIOUS
  <1>6. CASE pc[p] \in Unmarked
    <2>1. Crash(p) \/ OperatorRestart(p)
      BY <1>1, <1>6 DEF Quiet, NewRequest, Start, ReadStep, CheckMarker, ReadActive,
         CheckOrphans, LockStep, AcquireLock, LockBusy, Release, FinishCommit, FailRecovery,
         FoundReady, StartCleaning, CleanDone, Refuse, Mutating, NoThresholdLeft,
         FailBeforeLock, FailHolding, FailAfterMarker, FailRelease, At, Unmarked
    <2>2. pc'[p] = "idle" /\ acked' = acked
      BY <1>1, <2>1 DEF Crash, OperatorRestart, Stop, Goto, history
    <2>3. Pending = {n}
      BY <1>5, <1>6, OnePending DEF Unmarked, UnderLock
    <2>4. \A q \in Procs \ {p} : pc[q] \notin Unmarked
      BY <1>6 DEF IInv, OneWriter, Unmarked, UnderLock
    <2>5. Pending' = {}
      BY <1>4, <2>2, <2>4 DEF Pending, Unmarked
    <2>6. CommitLog!Abort(n)
      BY <1>2, <1>3, <2>2, <2>3, <2>5 DEF CommitLog!Abort
    <2> QED
      BY <2>3, <2>6 DEF CommitLog!LogNext
  <1>7. CASE pc[p] \notin Unmarked
    <2>1. pc'[p] \notin Unmarked
      <3>1. \/ UNCHANGED pc
            \/ \E place \in {"idle", "checkMarker", "readActive", "checkOrphans", "acquire",
                             "holding", "release", "cleanOrphans"} : Goto(p, place)
        BY DEF Quiet, NewRequest, Start, ReadStep, CheckMarker, ReadActive, CheckOrphans,
           Proceed, LockStep, AcquireLock, LockBusy, Release, FinishCommit, FailRecovery,
           FoundReady, StartCleaning, CleanDone, Refuse, NoThresholdLeft, FailBeforeLock,
           FailHolding, FailAfterMarker, FailRelease, Crash, OperatorRestart, Stop, Return,
           Throw
      <3> QED
        BY SMTT(30), <1>1, <1>7, <3>1 DEF Goto, Unmarked
    <2>2. Pending' = Pending
      BY <1>4, <1>7, <2>1, SameTransactions
    <2>3. CASE acked' = acked
      BY <1>2, <1>3, <2>2, <2>3 DEF CommitLog!logVars
    <2>4. CASE acked' # acked
      <3>1. /\ pc[p] = "release" /\ req[p].ok /\ req[p].why = "mutate" /\ n # 0
            /\ acked' = acked \cup {<<n, req[p].expect>>}
        BY <1>5, <2>4 DEF Quiet, NewRequest, Start, ReadStep, CheckMarker, ReadActive,
           CheckOrphans, LockStep, AcquireLock, LockBusy, Release, FinishCommit,
           FailRecovery, FoundReady, StartCleaning, CleanDone, Refuse, NoThresholdLeft,
           FailBeforeLock, FailHolding, FailAfterMarker, FailRelease, Crash, OperatorRestart,
           Stop, At, history
      <3>2. InAudit(n, Durable)
        <4>1. Current(p, n)
          BY <1>1, <1>5, <3>1 DEF RequestSound
        <4> QED
          BY <4>1, CommittedHasActive DEF Current
      <3>3. n \in CommitLog!Committed
        BY <3>2 DEF CommitLog!Committed, InAudit, Rev
      <3>4. {a[1] : a \in acked'} = {a[1] : a \in acked} \cup {n}
        <4>1. PICK e : e = <<n, req[p].expect>>
          OBVIOUS
        <4>2. e[1] = n /\ acked' = acked \cup {e}
          BY <3>1, <4>1
        <4> QED
          BY <4>2
      <3>5. CommitLog!Acknowledge(n)
        BY <1>2, <1>3, <2>2, <3>3, <3>4 DEF CommitLog!Acknowledge
      <3> QED
        BY SMTT(30), <3>3, <3>5 DEF CommitLog!LogNext
    <2> QED
      BY <2>3, <2>4
  <1> QED
    BY <1>6, <1>7

\* The file backend implements the commit log: the rename of the marker is the
\* commit, on top of the last committed document; what failed or died before it
\* never appears, and nothing that a crash leaves behind is lost or done twice.
THEOREM RegistryImplementsCommitLog == Spec => ImplementsCommitLog
  <1>1. Init => CommitLog!LogInit
    BY EmptySeq DEF Init, CommitLog!LogInit, Pending, Durable, AuditOf
  <1>2. ASSUME IInv, [Next]_vars PROVE [CommitLog!LogNext]_(CommitLog!logVars)
    <2>1. ASSUME NEW p \in Procs, Begins(p) PROVE [CommitLog!LogNext]_(CommitLog!logVars)
      BY <1>2, <2>1, BeginLogged DEF CommitLog!LogNext
    <2>2. ASSUME OperatorClearsLock \/ UNCHANGED vars PROVE UNCHANGED CommitLog!logVars
      BY <2>2 DEF OperatorClearsLock, vars, disk, history, CommitLog!logVars, Pending,
                  Durable, AuditOf
    <2> QED
      BY <1>2, <2>1, <2>2, StepKinds, WriteLogged, QuietLogged
  <1> QED
    BY <1>1, <1>2, Invariance, PTL DEF Spec, ImplementsCommitLog, CommitLog!LogSpec
=============================================================================
