----------------------------- MODULE M2MRegistry -----------------------------
(***************************************************************************)
(* The file backend of the M2M service-key registry (FileM2MKeyStore): the  *)
(* writer lock, the candidate / journal / marker commit protocol, recovery  *)
(* from a marker, the cleaning of orphan artifacts, and the requests that   *)
(* use them, run by several processes over one directory.                   *)
(*                                                                         *)
(* Every method of the store is synchronous (fs.*Sync, Atomics.wait), so    *)
(* requests of one process never interleave: the actors are processes, and  *)
(* a step is one call that another process can see or one that a crash can  *)
(* separate from the next.                                                  *)
(*                                                                         *)
(* A document is known by the identifier of the transaction that wrote it   *)
(* (lastCommitId): its content is docs[c], written once.  Keys, hashes and  *)
(* deadlines are the matter of M2MKeyLifecycle; here a document carries its *)
(* audited transactions and the generations of one service.                 *)
(***************************************************************************)
EXTENDS Naturals, Sequences

CONSTANTS
  Procs,         \* dashboard processes that share the registry directory
  Free, Dead,    \* no lock file; a lock file whose recorded PID is not alive
  Configured,    \* the processes with a service key in their environment
  MaxMutations,  \* bound: mutating requests that are started
  MaxFaults      \* bound: crashes and I/O errors

ASSUME LockOwners == Free \notin Procs /\ Dead \notin Procs /\ Free # Dead
ASSUME ConfiguredType == Configured \subseteq Procs
ASSUME BoundsType == MaxMutations \in Nat /\ MaxFaults \in Nat

VARIABLES
  docs,      \* every document ever serialised, by the number of its commit
  active,    \* the document in the registry file, 0 when there is none
  marker,    \* the commit the marker file names, 0 when there is none
  files,     \* the other artifacts in the directory: <<commit, suffix>>
  lock,      \* whose PID is in the lock file
  pc,        \* what each process is about to do
  req,       \* the request it serves and what it remembers of it
  latched,   \* recoveryRequired, in the memory of each process
  acked,     \* history: <<commit, expectedGeneration>> of successful mutations
  reply,     \* history: the document the last read returned, 0 when none
  floor,     \* history: what had been acknowledged when the request began
  mutations, \* mutating requests started so far
  faults     \* crashes and I/O errors so far

disk    == <<active, marker, files>>
history == <<acked, reply, floor>>
bounds  == <<mutations, faults>>
vars    == <<docs, disk, lock, pc, req, latched, history, bounds>>

Kinds    == {"BOOTSTRAPPED", "ROTATED", "ROLLED_BACK", "THRESHOLD", "RECOVERED"}
Suffixes == {"candidate", "journal", "tmp"}
Ops      == {"read", "list", "rotate", "rollback"}
Reasons  == {"recover", "orphans", "init", "mutate"}
Places   == {"idle", "checkMarker", "readActive", "checkOrphans", "acquire",
             "holding", "journal", "markerTmp", "mark", "promote", "unmark",
             "unjournal", "retire", "promoted", "dropArtifacts",
             "cleanOrphans", "release"}

\* Between the creation of the lock file and its unlink.
UnderLock == {"holding", "promoted", "journal", "markerTmp", "mark", "promote",
              "unmark", "unjournal", "retire", "dropArtifacts", "cleanOrphans",
              "release"}

Doc == [pred: Nat, kind: Kinds, recovers: Nat, gen: Nat, prev: Nat,
        audit: Seq(Nat)]

(***************************************************************************)
(* A request: what it asks and with which expectedGeneration; what it takes *)
(* the lock for; the document it read; the commit it is writing and the one *)
(* whose marker it recovers (0 when none); whether its operation under the  *)
(* lock succeeded.  The documents it names are among the n there are.       *)
(***************************************************************************)
Request(n) == [op: Ops, expect: Nat, why: Reasons, local: 0..n, new: 0..n,
               stale: 0..n, ok: BOOLEAN]

NoRequest == [op |-> "read", expect |-> 0, why |-> "init", local |-> 0,
              new |-> 0, stale |-> 0, ok |-> FALSE]

----------------------------------------------------------------------------
(* Documents *)

AuditOf(d) == IF d = 0 THEN <<>> ELSE docs[d].audit
Rev(d)     == Len(AuditOf(d))
InAudit(c, d) == \E i \in 1..Rev(d) : AuditOf(d)[i] = c

Artifacts(c) == {c} \X Suffixes

\* An audit event of commit c that still describes the state in document d:
\* an event that no service carries only does so in the revision it wrote.
HasMatchingMutation(d, c) ==
  /\ InAudit(c, d)
  /\ docs[c].kind # "RECOVERED"
  /\ docs[c].gen = 0 => Rev(d) = Rev(c)
  /\ docs[c].gen = docs[d].gen /\ docs[c].prev = docs[d].prev

\* Mutant: the record of a recovery is not a document to recover.
ValidRecoveryDocumentNoRecovered(d) == HasMatchingMutation(d, d)

\* A document that a marker may promote: it is the result of a mutation, or
\* it records the recovery of a mutation.
ValidRecoveryDocument(d) ==
  \/ HasMatchingMutation(d, d)
  \/ /\ docs[d].kind = "RECOVERED"
     /\ HasMatchingMutation(d, docs[d].recovers)

\* What must be on disk for the marker to be recovered from.
MarkerQualified ==
  /\ <<marker, "journal">> \in files
  /\ ValidRecoveryDocument(marker)
  /\ \/ active = marker
     \/ active = docs[marker].pred /\ <<marker, "candidate">> \in files

\* The last committed document: the marker's as soon as there is a marker.
Durable == IF marker # 0 THEN marker ELSE active

----------------------------------------------------------------------------
(* Steps of a request *)

Init ==
  /\ docs = <<>>
  /\ active = 0 /\ marker = 0 /\ files = {} /\ lock = Free
  /\ pc = [p \in Procs |-> "idle"]
  /\ req = [p \in Procs |-> NoRequest]
  /\ latched = [p \in Procs |-> FALSE]
  /\ acked = {}
  /\ reply = [p \in Procs |-> 0]
  /\ floor = [p \in Procs |-> {}]
  /\ mutations = 0 /\ faults = 0

At(p, place)   == pc[p] = place
Goto(p, place) == pc' = [pc EXCEPT ![p] = place]
Remember(p, r) == req' = [req EXCEPT ![p] = r]

\* The generations an operator may have read and sends as a precondition.
KnownGenerations == {docs[c].gen : c \in {AuditOf(Durable)[i] : i \in 1..Rev(Durable)}}

\* ensureReady: a latched process refuses every request.
Start(p, o, e) ==
  /\ At(p, "idle") /\ ~latched[p]
  /\ IF o = "read" THEN UNCHANGED mutations
                   ELSE mutations < MaxMutations /\ mutations' = mutations + 1
  /\ IF o \in {"rotate", "rollback"} THEN e \in KnownGenerations \ {0} ELSE e = 0
  /\ Remember(p, [NoRequest EXCEPT !.op = o, !.expect = e])
  /\ reply' = [reply EXCEPT ![p] = 0]
  /\ floor' = [floor EXCEPT ![p] = acked]
  /\ Goto(p, "checkMarker")
  /\ UNCHANGED <<docs, disk, lock, latched, acked, faults>>

\* The fast path of ensureReady reads the directory without the lock.
CheckMarker(p) ==
  /\ At(p, "checkMarker")
  /\ IF marker # 0
     THEN /\ Goto(p, "acquire")
          /\ Remember(p, [req[p] EXCEPT !.why = "recover"])
     ELSE Goto(p, "readActive") /\ UNCHANGED req
  /\ UNCHANGED <<docs, disk, lock, latched, history, bounds>>

ReadActive(p) ==
  /\ At(p, "readActive")
  /\ IF active = 0
     THEN /\ Goto(p, "acquire")
          /\ Remember(p, [req[p] EXCEPT !.why = "init"])
     ELSE /\ Goto(p, "checkOrphans")
          /\ Remember(p, [req[p] EXCEPT !.local = active])
  /\ UNCHANGED <<docs, disk, lock, latched, history, bounds>>

\* What a request does with the document ensureReady returned: a read answers
\* with it, a mutation takes the lock, and listMetadata does one or the other,
\* as the document has expiry thresholds to record or not (a bootstrap key has
\* no deadline).
Proceed(p, d) ==
  \/ /\ req[p].op \in {"read", "list"}
     /\ reply' = [reply EXCEPT ![p] = d]
     /\ Goto(p, "idle")
     /\ Remember(p, NoRequest)
  \/ /\ \/ req[p].op \in {"rotate", "rollback"}
        \/ req[p].op = "list" /\ docs[d].gen > 1
     /\ Goto(p, "acquire")
     /\ Remember(p, [req[p] EXCEPT !.why = "mutate", !.local = d,
                                   !.new = 0, !.stale = 0])
     /\ UNCHANGED reply

CheckOrphans(p) ==
  /\ At(p, "checkOrphans")
  /\ IF files # {}
     THEN /\ Goto(p, "acquire")
          /\ Remember(p, [req[p] EXCEPT !.why = "orphans"])
          /\ UNCHANGED reply
     ELSE Proceed(p, req[p].local)
  /\ UNCHANGED <<docs, disk, lock, latched, acked, floor, bounds>>

----------------------------------------------------------------------------
(* The writer lock *)

\* Mutant: the lock file is opened without O_EXCL.
AcquireLockShared(p) ==
  /\ At(p, "acquire")
  /\ lock' = p
  /\ Goto(p, "holding")
  /\ UNCHANGED <<docs, disk, req, latched, history, bounds>>

\* O_EXCL creation of the lock file.
AcquireLock(p) ==
  /\ At(p, "acquire") /\ lock = Free
  /\ lock' = p
  /\ Goto(p, "holding")
  /\ UNCHANGED <<docs, disk, req, latched, history, bounds>>

\* Mutant: the lock is polled without a deadline.
LockBusyForever(p) ==
  /\ At(p, "acquire") /\ lock # Free
  /\ UNCHANGED vars

\* Every attempt within lockWaitMs found the file: m2m_registry_busy.
LockBusy(p) ==
  /\ At(p, "acquire") /\ lock # Free
  /\ Goto(p, "idle")
  /\ Remember(p, NoRequest)
  /\ UNCHANGED <<docs, disk, lock, latched, history, bounds>>

\* The operation under the lock returned document d, or threw.
Return(p, d) ==
  /\ Goto(p, "release")
  /\ Remember(p, [req[p] EXCEPT !.ok = TRUE, !.local = d])

\* Mutant: an error in a mutation is swallowed.
ThrowSwallowed(p) ==
  /\ Goto(p, "release")
  /\ Remember(p, [req[p] EXCEPT !.ok = req[p].why = "mutate"])

Throw(p) ==
  /\ Goto(p, "release")
  /\ Remember(p, [req[p] EXCEPT !.ok = FALSE])

\* The finally clause unlinks the lock file and the request goes on: an error
\* ends it, a ready document is used, a mutation is reported to its caller.
Release(p) ==
  /\ At(p, "release")
  /\ lock' = Free
  /\ IF ~req[p].ok
     THEN /\ Goto(p, "idle")
          /\ Remember(p, NoRequest)
          /\ UNCHANGED <<acked, reply>>
     ELSE IF req[p].why = "mutate"
     THEN /\ Goto(p, "idle")
          /\ Remember(p, NoRequest)
          /\ reply' = [reply EXCEPT ![p] = req[p].local]
          /\ acked' = IF req[p].new = 0 THEN acked
                      ELSE acked \cup {<<req[p].new, req[p].expect>>}
     ELSE Proceed(p, req[p].local) /\ UNCHANGED acked
  /\ UNCHANGED <<docs, disk, latched, floor, bounds>>

----------------------------------------------------------------------------
(* The commit protocol: commitDocumentUnderLock *)

\* Mutant: the document is named after a commit that was never serialised.
BeginCommitMisnamed(p, kind, gen, prev, recovered) ==
  LET c == Len(docs) + 2
  IN /\ docs' = Append(docs, [pred |-> active, kind |-> kind,
                               recovers |-> recovered, gen |-> gen, prev |-> prev,
                               audit |-> Append(AuditOf(active), c)])
     /\ files' = files \cup {<<c, "candidate">>}
     /\ Remember(p, [req[p] EXCEPT !.new = c, !.stale = recovered])
     /\ Goto(p, "journal")
     /\ UNCHANGED <<active, marker>>

\* Mutant: the document follows the one that was read before the lock.
BeginCommitStale(p, kind, gen, prev, recovered) ==
  LET c == Len(docs) + 1
  IN /\ docs' = Append(docs, [pred |-> active, kind |-> kind,
                               recovers |-> recovered, gen |-> gen, prev |-> prev,
                               audit |-> Append(AuditOf(req[p].local), c)])
     /\ files' = files \cup {<<c, "candidate">>}
     /\ Remember(p, [req[p] EXCEPT !.new = c, !.stale = recovered])
     /\ Goto(p, "journal")
     /\ UNCHANGED <<active, marker>>

\* The candidate of a new document that follows the active one.
BeginCommit(p, kind, gen, prev, recovered) ==
  LET c == Len(docs) + 1
  IN /\ docs' = Append(docs, [pred |-> active, kind |-> kind,
                               recovers |-> recovered, gen |-> gen, prev |-> prev,
                               audit |-> Append(AuditOf(active), c)])
     /\ files' = files \cup {<<c, "candidate">>}
     /\ Remember(p, [req[p] EXCEPT !.new = c, !.stale = recovered])
     /\ Goto(p, "journal")
     /\ UNCHANGED <<active, marker>>

WriteJournal(p) ==
  /\ At(p, "journal")
  /\ files' = files \cup {<<req[p].new, "journal">>}
  /\ Goto(p, "markerTmp")
  /\ UNCHANGED <<docs, active, marker, lock, req, latched, history, bounds>>

WriteMarkerTmp(p) ==
  /\ At(p, "markerTmp")
  /\ files' = files \cup {<<req[p].new, "tmp">>}
  /\ Goto(p, "mark")
  /\ UNCHANGED <<docs, active, marker, lock, req, latched, history, bounds>>

\* The commit point: the marker is renamed into place, over an older one when
\* a recovery is being committed.
CommitMarker(p) ==
  /\ At(p, "mark")
  /\ marker' = req[p].new
  /\ files' = files \ {<<req[p].new, "tmp">>}
  /\ Goto(p, "promote")
  /\ UNCHANGED <<docs, active, lock, req, latched, history, bounds>>

Promote(p) ==
  /\ At(p, "promote")
  /\ active' = req[p].new
  /\ files' = files \ {<<req[p].new, "candidate">>}
  /\ Goto(p, "unmark")
  /\ UNCHANGED <<docs, marker, lock, req, latched, history, bounds>>

\* Mutant: the journal is unlinked before the marker.
RemoveMarkerLast(p) ==
  /\ At(p, "unmark") /\ active = req[p].new
  /\ files' = files \ {<<req[p].new, "journal">>}
  /\ Goto(p, "unjournal")
  /\ UNCHANGED <<docs, active, marker, lock, req, latched, history, bounds>>

\* The registry is read back before the marker goes.
RemoveMarker(p) ==
  /\ At(p, "unmark") /\ active = req[p].new
  /\ marker' = 0
  /\ Goto(p, "unjournal")
  /\ UNCHANGED <<docs, active, files, lock, req, latched, history, bounds>>

RemoveJournal(p) ==
  /\ At(p, "unjournal")
  /\ files' = files \ {<<req[p].new, "journal">>}
  /\ Goto(p, "retire")
  /\ UNCHANGED <<docs, active, marker, lock, req, latched, history, bounds>>

StaleArtifacts(p) == {<<req[p].stale, "candidate">>, <<req[p].stale, "journal">>}

RetireStale(p) ==
  /\ At(p, "retire")
  /\ \E f \in StaleArtifacts(p) \cap files : files' = files \ {f}
  /\ UNCHANGED <<docs, active, marker, lock, pc, req, latched, history, bounds>>

\* The commit is complete.  A recovery made on behalf of a mutation leaves the
\* process under the lock, where the mutation follows.
FinishCommit(p) ==
  LET c == req[p].new
  IN /\ At(p, "retire") /\ StaleArtifacts(p) \cap files = {}
     /\ latched' = [latched EXCEPT ![p] = FALSE]
     /\ IF docs[c].kind = "RECOVERED" /\ req[p].why = "mutate"
        THEN Goto(p, "holding") /\ Remember(p, [req[p] EXCEPT !.new = 0, !.stale = 0])
        ELSE Return(p, c)
     /\ UNCHANGED <<docs, disk, lock, history, bounds>>

----------------------------------------------------------------------------
(* Recovery: recoverMarkerUnderLock *)

\* The marker, the journal, the candidate and the active document are
\* validated together, and anything that does not fit latches the process.
FailRecovery(p) ==
  /\ At(p, "holding") /\ marker # 0 /\ ~MarkerQualified
  /\ latched' = [latched EXCEPT ![p] = TRUE]
  /\ Throw(p)
  /\ UNCHANGED <<docs, disk, lock, history, bounds>>

\* Mutant: a marked transaction is rolled back instead of promoted.
PromoteMarkedBackwards(p) ==
  /\ At(p, "holding") /\ marker # 0 /\ MarkerQualified /\ active # marker
  /\ marker' = 0
  /\ Remember(p, [req[p] EXCEPT !.stale = marker])
  /\ Goto(p, "dropArtifacts")
  /\ UNCHANGED <<docs, active, files, lock, latched, history, bounds>>

\* The crash came before the rename: the candidate becomes the registry.
PromoteMarked(p) ==
  /\ At(p, "holding") /\ marker # 0 /\ MarkerQualified /\ active # marker
  /\ active' = marker
  /\ files' = files \ {<<marker, "candidate">>}
  /\ Remember(p, [req[p] EXCEPT !.stale = marker])
  /\ Goto(p, "promoted")
  /\ UNCHANGED <<docs, marker, lock, latched, history, bounds>>

CommitRecovery(p) ==
  BeginCommit(p, "RECOVERED", docs[active].gen, docs[active].prev, marker)

\* A recovery commits an event of its own after what it promoted, even when
\* that is itself the record of a recovery.
RecoverPromoted(p) ==
  /\ At(p, "promoted")
  /\ CommitRecovery(p)
  /\ UNCHANGED <<lock, latched, history, bounds>>

\* The crash came after the rename.
RecoverActive(p) ==
  /\ At(p, "holding") /\ marker # 0 /\ MarkerQualified /\ active = marker
  /\ docs[active].kind # "RECOVERED"
  /\ CommitRecovery(p)
  /\ UNCHANGED <<lock, latched, history, bounds>>

\* Mutant: what was recovered already is taken to need no cleaning.
DropMarkerNever(p) ==
  /\ At(p, "holding") /\ marker # 0 /\ MarkerQualified /\ active = marker
  /\ docs[active].kind = "RECOVERED"
  /\ Goto(p, "release")
  /\ UNCHANGED <<docs, disk, lock, req, latched, history, bounds>>

\* The crash came after a recovery had renamed its own document: only the
\* cleaning is left.
DropMarker(p) ==
  /\ At(p, "holding") /\ marker # 0 /\ MarkerQualified /\ active = marker
  /\ docs[active].kind = "RECOVERED"
  /\ marker' = 0
  /\ Remember(p, [req[p] EXCEPT !.stale = marker])
  /\ Goto(p, "dropArtifacts")
  /\ UNCHANGED <<docs, active, files, lock, latched, history, bounds>>

DropArtifacts(p) ==
  /\ At(p, "dropArtifacts")
  /\ IF StaleArtifacts(p) \cap files = {}
     THEN Goto(p, "cleanOrphans") /\ UNCHANGED files
     ELSE /\ \E f \in StaleArtifacts(p) \cap files : files' = files \ {f}
          /\ UNCHANGED pc
  /\ UNCHANGED <<docs, active, marker, lock, req, latched, history, bounds>>

----------------------------------------------------------------------------
(* Under the lock without a marker *)

\* Another process recovered or bootstrapped first.
FoundReady(p) ==
  /\ At(p, "holding") /\ marker = 0
  /\ req[p].why \in {"recover", "init"} /\ active # 0
  /\ Return(p, active)
  /\ UNCHANGED <<docs, disk, lock, latched, history, bounds>>

\* Mutant: whether there is a marker is not looked at again under the lock.
StartCleaningUnchecked(p) ==
  /\ At(p, "holding")
  /\ \/ req[p].why = "orphans"
     \/ req[p].why = "init" /\ active = 0
  /\ Goto(p, "cleanOrphans")
  /\ UNCHANGED <<docs, disk, lock, req, latched, history, bounds>>

StartCleaning(p) ==
  /\ At(p, "holding") /\ marker = 0
  /\ \/ req[p].why = "orphans"
     \/ req[p].why = "init" /\ active = 0
  /\ Goto(p, "cleanOrphans")
  /\ UNCHANGED <<docs, disk, lock, req, latched, history, bounds>>

RemoveOrphan(p) ==
  /\ At(p, "cleanOrphans")
  /\ \E f \in files : files' = files \ {f}
  /\ UNCHANGED <<docs, active, marker, lock, pc, req, latched, history, bounds>>

\* After a recovery that a mutation asked for, the mutation goes on.
CleanDone(p) ==
  /\ At(p, "cleanOrphans") /\ files = {} /\ active # 0
  /\ IF req[p].why = "mutate"
     THEN Goto(p, "holding") /\ Remember(p, [req[p] EXCEPT !.stale = 0])
     ELSE Return(p, active)
  /\ UNCHANGED <<docs, disk, lock, latched, history, bounds>>

\* buildInitialDocument: generation 1 of each service that is configured here.
Bootstrap(p) ==
  /\ At(p, "cleanOrphans") /\ files = {} /\ active = 0
  /\ BeginCommit(p, "BOOTSTRAPPED", IF p \in Configured THEN 1 ELSE 0, 0, 0)
  /\ UNCHANGED <<lock, latched, history, bounds>>

Mutating(p, o) ==
  /\ At(p, "holding") /\ marker = 0 /\ active # 0
  /\ req[p].why = "mutate" /\ req[p].op = o

\* Mutant: the precondition is checked against what was read before the lock.
GenerationMatchesStale(p) == docs[req[p].local].gen = req[p].expect

GenerationMatches(p) == docs[active].gen = req[p].expect

Rotate(p) ==
  /\ Mutating(p, "rotate") /\ GenerationMatches(p)
  /\ BeginCommit(p, "ROTATED", docs[active].gen + 1, docs[active].gen, 0)
  /\ UNCHANGED <<lock, latched, history, bounds>>

\* The target is the previous generation, inside its effective deadline.
Rollback(p) ==
  /\ Mutating(p, "rollback") /\ GenerationMatches(p) /\ docs[active].prev # 0
  /\ BeginCommit(p, "ROLLED_BACK", docs[active].gen + 1, 0, 0)
  /\ UNCHANGED <<lock, latched, history, bounds>>

\* generation_conflict, or for a rollback a target conflict or an expired window.
Refuse(p) ==
  /\ \/ Mutating(p, "rotate") /\ ~GenerationMatches(p)
     \/ Mutating(p, "rollback")
  /\ Throw(p)
  /\ UNCHANGED <<docs, disk, lock, latched, history, bounds>>

PersistThresholds(p) ==
  /\ Mutating(p, "list") /\ docs[active].gen > 1
  /\ BeginCommit(p, "THRESHOLD", docs[active].gen, docs[active].prev, 0)
  /\ UNCHANGED <<lock, latched, history, bounds>>

\* Another process recorded the thresholds between the two evaluations.
NoThresholdLeft(p) ==
  /\ Mutating(p, "list")
  /\ Return(p, active)
  /\ UNCHANGED <<docs, disk, lock, latched, history, bounds>>

----------------------------------------------------------------------------
(* I/O errors, crashes and the operator *)

Fault == faults < MaxFaults /\ faults' = faults + 1

\* A look at the directory fails, or the lock file cannot be written; what there
\* is of it is unlinked, if that succeeds.
FailBeforeLock(p) ==
  /\ Fault
  /\ pc[p] \in {"checkMarker", "readActive", "checkOrphans", "acquire"}
  /\ \/ UNCHANGED lock
     \/ At(p, "acquire") /\ lock = Free /\ lock' = p
  /\ Goto(p, "idle")
  /\ Remember(p, NoRequest)
  /\ UNCHANGED <<docs, disk, latched, history, mutations>>

\* Under the lock and before the candidate: a read, a write or an unlink of an
\* orphan fails.  A marker that cannot be read or acted on latches the process.
FailHolding(p) ==
  /\ Fault
  /\ pc[p] \in {"holding", "promoted", "cleanOrphans"}
  /\ IF At(p, "cleanOrphans") THEN UNCHANGED latched
     ELSE \/ latched' = [latched EXCEPT ![p] = TRUE]
          \/ UNCHANGED latched
  /\ Throw(p)
  /\ UNCHANGED <<docs, disk, lock, history, mutations>>

\* Before the marker is in place the transaction is abandoned, and its
\* artifacts are removed as far as that succeeds.
FailBeforeMarker(p) ==
  /\ Fault
  /\ pc[p] \in {"journal", "markerTmp", "mark"}
  /\ \E gone \in SUBSET (files \cap Artifacts(req[p].new)) : files' = files \ gone
  /\ Throw(p)
  /\ UNCHANGED <<docs, active, marker, lock, latched, history, mutations>>

\* Once it is in place, or while it is being cleaned away, an error leaves the
\* process latched.
FailAfterMarker(p) ==
  /\ Fault
  /\ pc[p] \in {"promote", "unmark", "unjournal", "retire", "dropArtifacts"}
  /\ latched' = [latched EXCEPT ![p] = TRUE]
  /\ Throw(p)
  /\ UNCHANGED <<docs, disk, lock, history, mutations>>

\* The lock file cannot be unlinked: the request fails whatever it did.
FailRelease(p) ==
  /\ Fault
  /\ At(p, "release")
  /\ Goto(p, "idle")
  /\ Remember(p, NoRequest)
  /\ UNCHANGED <<docs, disk, lock, latched, history, mutations>>

\* Stopping a process loses its memory; the lock file it held stays behind.
Stop(p) ==
  /\ Goto(p, "idle")
  /\ Remember(p, NoRequest)
  /\ latched' = [latched EXCEPT ![p] = FALSE]
  /\ lock' = IF lock = p THEN Dead ELSE lock
  /\ UNCHANGED <<docs, disk, history, mutations>>

Crash(p) == Fault /\ ~At(p, "idle") /\ Stop(p)

\* The runbook: restart the dashboard when recovery is required or when it left
\* its lock file behind, remove a lock file only when the recorded PID is not
\* alive.
OperatorRestart(p) ==
  /\ \/ At(p, "idle") /\ latched[p]
     \/ pc[p] \notin UnderLock /\ lock = p
  /\ Stop(p)
  /\ UNCHANGED faults

OperatorClearsLock ==
  /\ lock = Dead
  /\ lock' = Free
  /\ UNCHANGED <<docs, disk, pc, req, latched, history, bounds>>

----------------------------------------------------------------------------

ReadStep(p) == CheckMarker(p) \/ ReadActive(p) \/ CheckOrphans(p)
LockStep(p) == AcquireLock(p) \/ LockBusy(p) \/ Release(p)
CommitStep(p) ==
  \/ WriteJournal(p) \/ WriteMarkerTmp(p) \/ CommitMarker(p) \/ Promote(p)
  \/ RemoveMarker(p) \/ RemoveJournal(p) \/ RetireStale(p) \/ FinishCommit(p)
RecoveryStep(p) ==
  \/ FailRecovery(p) \/ PromoteMarked(p) \/ RecoverPromoted(p)
  \/ RecoverActive(p) \/ DropMarker(p) \/ DropArtifacts(p)
LockedStep(p) ==
  \/ FoundReady(p) \/ StartCleaning(p) \/ RemoveOrphan(p) \/ CleanDone(p)
  \/ Bootstrap(p) \/ Rotate(p) \/ Rollback(p) \/ Refuse(p)
  \/ PersistThresholds(p) \/ NoThresholdLeft(p)

Step(p) == ReadStep(p) \/ LockStep(p) \/ CommitStep(p) \/ RecoveryStep(p) \/ LockedStep(p)

FaultStep(p) ==
  \/ FailBeforeLock(p) \/ FailHolding(p) \/ FailBeforeMarker(p) \/ FailAfterMarker(p)
  \/ FailRelease(p) \/ Crash(p)

NewRequest(p) == \E o \in Ops, e \in {0} \cup KnownGenerations : Start(p, o, e)

Next ==
  \/ \E p \in Procs : NewRequest(p) \/ Step(p) \/ FaultStep(p) \/ OperatorRestart(p)
  \/ OperatorClearsLock

Spec == Init /\ [][Next]_vars

\* Processes run.  What they were asked and what the operator does is not theirs.
FairSpec == Spec /\ \A p \in Procs : WF_vars(Step(p))

\* Requests keep arriving, and the operator follows the runbook.
Attended ==
  /\ \A p \in Procs : WF_vars(Start(p, "read", 0)) /\ WF_vars(OperatorRestart(p))
  /\ WF_vars(OperatorClearsLock)

----------------------------------------------------------------------------
(* Properties *)

DirectoryOK ==
  /\ docs \in Seq(Doc)
  /\ \A c \in 1..Len(docs) : docs[c].pred < c /\ docs[c].audit \in Seq(1..c)
  /\ active \in 0..Len(docs) /\ marker \in 0..Len(docs)
  /\ files \subseteq (1..Len(docs)) \X Suffixes

ProcessesOK ==
  /\ lock \in Procs \cup {Free, Dead}
  /\ pc \in [Procs -> Places]
  /\ req \in [Procs -> Request(Len(docs))]
  /\ latched \in [Procs -> BOOLEAN]

HistoryOK ==
  /\ acked \subseteq (1..Len(docs)) \X Nat
  /\ reply \in [Procs -> 0..Len(docs)]
  /\ floor \in [Procs -> SUBSET acked]
  /\ mutations \in 0..MaxMutations /\ faults \in 0..MaxFaults

\* Every variable keeps its type, and every commit that is named exists.
TypeOK == DirectoryOK /\ ProcessesOK /\ HistoryOK

\* One writer at a time: a process between openSync(lock, "wx") and the unlink
\* of the finally clause is the one the lock file names, through crashes, failed
\* unlinks and the operator's removal of stale locks (withWriterLock).
OneWriter == \A p \in Procs : pc[p] \in UnderLock => lock = p

\* Whenever a marker is on disk, so is what recovery needs to finish its
\* transaction: the journal, and the new document in the registry file or its
\* predecessor there and the candidate beside it (commitDocumentUnderLock's
\* order of writes and unlinks, a recovery overwriting an older marker too).
MarkerComplete ==
  marker # 0 => /\ <<marker, "journal">> \in files
                /\ \/ active = marker
                   \/ active = docs[marker].pred /\ <<marker, "candidate">> \in files

\* Of the rotations and rollbacks that expected the same generation at most
\* one was ever reported successful, whoever sent them, whatever was retried
\* after a lost response (the generation precondition under the lock).
OneSuccessPerGeneration ==
  \A a, b \in acked : a[2] = b[2] /\ a[2] # 0 => a = b

\* What a mutation was acknowledged for is in the durable registry for ever:
\* its commit, and the generation that follows the one it expected.
AckedDurable ==
  \A a \in acked : /\ InAudit(a[1], Durable)
                   /\ a[2] # 0 => docs[a[1]].gen = a[2] + 1

\* A request is answered from a committed document that has every transaction
\* that was acknowledged before the request began: the lock-free
\* fast path of ensureReady neither sees an uncommitted document nor lets a
\* replaced key authenticate.
ReadsCommitted ==
  \A p \in Procs : reply[p] # 0 => /\ InAudit(reply[p], Durable)
                                   /\ \A a \in floor[p] : InAudit(a[1], reply[p])

\* Recovery can always be tried again: a marker that no live writer is about to
\* finish is one that recovery accepts (validateRecoveryDocument).
AbandonedMarkerRecoverable == marker # 0 /\ lock \notin Procs => MarkerQualified

\* Recovery fails closed: what it refuses stays on disk as it is, whatever any
\* process read before it took the lock; nothing is cleaned, promoted or
\* bootstrapped over (recoverMarkerUnderLock, ensureReady under the lock).
FailsClosed ==
  [][marker # 0 /\ ~MarkerQualified /\ (\A p \in Procs : pc[p] \notin {"promote", "unmark"})
     => UNCHANGED disk]_vars

\* The registry is an append-only log of transactions.
Pending == {req[p].new : p \in {q \in Procs : pc[q] \in {"journal", "markerTmp", "mark"}}}

CommitLog == INSTANCE M2MCommitLog WITH
  issued <- Len(docs),
  pending <- Pending,
  log <- AuditOf(Durable),
  acknowledged <- {a[1] : a \in acked}

\* The file backend implements the abstract log: a transaction commits when its
\* marker is renamed into place, once, on top of the last committed one; one
\* that failed before that never appears; nothing durable is lost by a crash.
ImplementsCommitLog == CommitLog!LogSpec

\* A committed transaction whose writer died is finished by a later request:
\* as long as no marker is left that recovery refuses, the marker does not stay.
RecoveryCompletes ==
  Attended /\ []AbandonedMarkerRecoverable => (marker # 0 ~> marker = 0)

\* Every request ends, with an answer or with an error, also when the lock file
\* of a dead process is there and nobody removes it.
RequestsReturn == \A p \in Procs : pc[p] # "idle" ~> pc[p] = "idle"
=============================================================================
