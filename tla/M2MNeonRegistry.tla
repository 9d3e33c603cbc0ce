--------------------------- MODULE M2MNeonRegistry ---------------------------
(***************************************************************************)
(* The Neon (Postgres) backend of the M2M service-key registry             *)
(* (NeonM2MKeyStore): one row holds the document, writers serialise on its  *)
(* row lock, and the database is behind a connection that can be lost.      *)
(*                                                                         *)
(* The methods are asynchronous, so the requests of one dashboard process   *)
(* interleave at every await: the actors are requests.  A statement is run  *)
(* by the server in one step and answered to the request in a later one;    *)
(* when the connection is lost in between, the request fails and the server *)
(* is left with the statement.                                              *)
(*                                                                         *)
(* Documents are those of M2MRegistry, without the file artifacts.          *)
(***************************************************************************)
EXTENDS Naturals, Sequences

CONSTANTS
  Requests,      \* requests the process can serve at once
  Nobody,        \* the client of a transaction whose connection is lost
  MaxMutations,  \* bound: mutating requests that are started
  MaxFaults      \* bound: lost connections and process crashes

ASSUME NobodyIsNoRequest == Nobody \notin Requests
ASSUME NeonBoundsType == MaxMutations \in Nat /\ MaxFaults \in Nat

VARIABLES
  docs,      \* every document ever built, by the number of its commit
  row,       \* the document in the row, 0 when there is no row
  inserting, \* documents of INSERT statements the server has not run yet
  txn,       \* the transaction that holds the row lock
  pc,        \* what each request is about to do
  req,       \* what each request asks and remembers
  gauge,     \* the document whose revision the metrics export, 0 when none
  acked,     \* history: <<commit, expectedGeneration>> of successful mutations
  reply,     \* history: the document the last read returned, 0 when none
  floor,     \* history: what had been acknowledged when the request began
  mutations, \* mutating requests started so far
  faults     \* lost connections and crashes so far

history == <<acked, reply, floor>>
bounds  == <<mutations, faults>>
vars    == <<docs, row, inserting, txn, pc, req, gauge, history, bounds>>

Kinds  == {"BOOTSTRAPPED", "ROTATED", "ROLLED_BACK", "THRESHOLD"}
Ops    == {"read", "list", "rotate", "rollback"}
Places == {"idle", "select", "insert", "inserted", "answered", "lockRow",
           "locked", "staged", "commitSent", "rollback"}

\* A document, and the generation that the request it was built for expected;
\* requests and transactions name documents among the n there are.
Doc        == [kind: Kinds, gen: Nat, prev: Nat, audit: Seq(Nat), expect: Nat]
Request(n) == [op: Ops, expect: Nat, local: 0..n, new: 0..n]
Txn(n)     == [client: Requests \cup {Nobody}, new: 0..n,
               state: {"none", "open", "staged", "committing"}]

NoRequest == [op |-> "read", expect |-> 0, local |-> 0, new |-> 0]
NoTxn     == [client |-> Nobody, new |-> 0, state |-> "none"]

AuditOf(d) == IF d = 0 THEN <<>> ELSE docs[d].audit
Rev(d)     == Len(AuditOf(d))
InAudit(c, d) == \E i \in 1..Rev(d) : AuditOf(d)[i] = c

----------------------------------------------------------------------------

Init ==
  /\ docs = <<>>
  /\ row = 0 /\ inserting = {} /\ txn = NoTxn
  /\ pc = [r \in Requests |-> "idle"]
  /\ req = [r \in Requests |-> NoRequest]
  /\ gauge = 0
  /\ acked = {}
  /\ reply = [r \in Requests |-> 0]
  /\ floor = [r \in Requests |-> {}]
  /\ mutations = 0 /\ faults = 0

At(r, place)   == pc[r] = place
Goto(r, place) == pc' = [pc EXCEPT ![r] = place]
EndRequest(r)  == Goto(r, "idle") /\ req' = [req EXCEPT ![r] = NoRequest]

\* The generations an operator may have read and sends as a precondition.
KnownGenerations == {docs[AuditOf(row)[i]].gen : i \in 1..Rev(row)}

Start(r, o, e) ==
  /\ At(r, "idle")
  /\ IF o = "read" THEN UNCHANGED mutations
                   ELSE mutations < MaxMutations /\ mutations' = mutations + 1
  /\ IF o \in {"rotate", "rollback"} THEN e \in KnownGenerations ELSE e = 0
  /\ req' = [req EXCEPT ![r] = [NoRequest EXCEPT !.op = o, !.expect = e]]
  /\ reply' = [reply EXCEPT ![r] = 0]
  /\ floor' = [floor EXCEPT ![r] = acked]
  /\ Goto(r, "select")
  /\ UNCHANGED <<docs, row, inserting, txn, gauge, acked, faults>>

----------------------------------------------------------------------------
(* ensureReady *)

\* The server runs the SELECT; the request hears of it at "answered".
SelectRow(r) ==
  /\ At(r, "select")
  /\ IF row = 0 THEN Goto(r, "insert") /\ UNCHANGED req
     ELSE Goto(r, "answered") /\ req' = [req EXCEPT ![r].local = row]
  /\ UNCHANGED <<docs, row, inserting, txn, gauge, history, bounds>>

BuildDocument(r, kind, gen, prev, d) ==
  docs' = Append(docs, [kind |-> kind, gen |-> gen, prev |-> prev,
                        audit |-> Append(AuditOf(d), Len(docs) + 1),
                        expect |-> req[r].expect])

\* Mutant: the row is inserted under a commit that has no document.
SendInsertUnbuilt(r) ==
  /\ At(r, "insert")
  /\ inserting' = inserting \cup {Len(docs) + 1}
  /\ req' = [req EXCEPT ![r].new = Len(docs) + 1]
  /\ Goto(r, "inserted")
  /\ UNCHANGED <<docs, row, txn, gauge, history, bounds>>

\* buildInitialDocument, for a configured service, and its INSERT.
SendInsert(r) ==
  /\ At(r, "insert")
  /\ BuildDocument(r, "BOOTSTRAPPED", 1, 0, 0)
  /\ inserting' = inserting \cup {Len(docs) + 1}
  /\ req' = [req EXCEPT ![r].new = Len(docs) + 1]
  /\ Goto(r, "inserted")
  /\ UNCHANGED <<row, txn, gauge, history, bounds>>

\* Mutant: the last insert wins.
ServerInsertUpsert(c) ==
  /\ inserting' = inserting \ {c}
  /\ row' = c
  /\ UNCHANGED <<docs, txn, pc, req, gauge, history, bounds>>

\* ON CONFLICT DO NOTHING: the first insert wins.
ServerInsert(c) ==
  /\ inserting' = inserting \ {c}
  /\ row' = IF row = 0 THEN c ELSE row
  /\ UNCHANGED <<docs, txn, pc, req, gauge, history, bounds>>

\* A losing insert reads the row that won.
InsertReturned(r) ==
  /\ At(r, "inserted") /\ req[r].new \notin inserting
  /\ IF InAudit(req[r].new, row)
     THEN /\ Goto(r, "answered")
          /\ req' = [req EXCEPT ![r].local = req[r].new, ![r].new = 0]
     ELSE Goto(r, "select") /\ req' = [req EXCEPT ![r].new = 0]
  /\ UNCHANGED <<docs, row, inserting, txn, gauge, history, bounds>>

\* The state of the document is exported, and the request uses it: a read
\* answers, a mutation opens a transaction, listMetadata does one or the other,
\* as there are expiry thresholds to record or not (a bootstrap key has none).
Answered(r) ==
  /\ At(r, "answered")
  /\ gauge' = req[r].local
  /\ \/ /\ req[r].op \in {"read", "list"}
        /\ reply' = [reply EXCEPT ![r] = req[r].local]
        /\ EndRequest(r)
     \/ /\ \/ req[r].op \in {"rotate", "rollback"}
           \/ req[r].op = "list" /\ docs[req[r].local].gen > 1
        /\ Goto(r, "lockRow")
        /\ UNCHANGED <<req, reply>>
  /\ UNCHANGED <<docs, row, inserting, txn, acked, floor, bounds>>

----------------------------------------------------------------------------
(* withRowLock *)

\* Mutant: SELECT without FOR UPDATE; the UPDATE takes the lock.
LockRowStale(r) ==
  /\ At(r, "lockRow") /\ txn.state = "none"
  /\ txn' = [client |-> r, new |-> 0, state |-> "open"]
  /\ Goto(r, "locked")
  /\ UNCHANGED <<docs, row, inserting, req, gauge, history, bounds>>

\* BEGIN and SELECT ... FOR UPDATE: the document is read under the lock.
LockRow(r) ==
  /\ At(r, "lockRow") /\ txn.state = "none"
  /\ txn' = [client |-> r, new |-> 0, state |-> "open"]
  /\ req' = [req EXCEPT ![r].local = row]
  /\ Goto(r, "locked")
  /\ UNCHANGED <<docs, row, inserting, gauge, history, bounds>>

Mutating(r, o) == At(r, "locked") /\ req[r].op = o

\* Mutant: a precondition on an older generation passes.
GenerationReached(r) == docs[req[r].local].gen >= req[r].expect

GenerationMatches(r) == docs[req[r].local].gen = req[r].expect

\* commitDocumentUnderLock: the UPDATE, not committed yet.
Stage(r, kind, gen, prev) ==
  /\ BuildDocument(r, kind, gen, prev, req[r].local)
  /\ txn' = [txn EXCEPT !.new = Len(docs) + 1, !.state = "staged"]
  /\ req' = [req EXCEPT ![r].new = Len(docs) + 1]
  /\ Goto(r, "staged")
  /\ UNCHANGED <<row, inserting, gauge, history, bounds>>

Rotate(r) ==
  /\ Mutating(r, "rotate") /\ GenerationMatches(r)
  /\ Stage(r, "ROTATED", docs[req[r].local].gen + 1, docs[req[r].local].gen)

Rollback(r) ==
  /\ Mutating(r, "rollback") /\ GenerationMatches(r) /\ docs[req[r].local].prev # 0
  /\ Stage(r, "ROLLED_BACK", docs[req[r].local].gen + 1, 0)

PersistThresholds(r) ==
  /\ Mutating(r, "list") /\ docs[req[r].local].gen > 1
  /\ Stage(r, "THRESHOLD", docs[req[r].local].gen, docs[req[r].local].prev)

\* generation_conflict, or for a rollback a target conflict or an expired window.
Refuse(r) ==
  /\ \/ Mutating(r, "rotate") /\ ~GenerationMatches(r)
     \/ Mutating(r, "rollback")
  /\ Goto(r, "rollback")
  /\ UNCHANGED <<docs, row, inserting, txn, req, gauge, history, bounds>>

\* Mutant: an error releases the client without a ROLLBACK.
RollbackTxnForgotten(r) ==
  /\ At(r, "rollback")
  /\ EndRequest(r)
  /\ UNCHANGED <<docs, row, inserting, txn, gauge, history, bounds>>

RollbackTxn(r) ==
  /\ At(r, "rollback")
  /\ txn' = NoTxn
  /\ EndRequest(r)
  /\ UNCHANGED <<docs, row, inserting, gauge, history, bounds>>

\* The UPDATE returned: the new state is exported, and COMMIT is sent.
SendCommit(r) ==
  /\ At(r, "staged")
  /\ gauge' = req[r].new
  /\ txn' = [txn EXCEPT !.state = "committing"]
  /\ Goto(r, "commitSent")
  /\ UNCHANGED <<docs, row, inserting, req, history, bounds>>

\* Another request recorded the thresholds between the two evaluations.
NoThresholdLeft(r) ==
  /\ Mutating(r, "list")
  /\ txn' = [txn EXCEPT !.state = "committing"]
  /\ Goto(r, "commitSent")
  /\ UNCHANGED <<docs, row, inserting, req, gauge, history, bounds>>

\* Mutant: the operation returns without waiting for the COMMIT.
CommitReturnedEarly(r) ==
  LET result == IF req[r].new = 0 THEN req[r].local ELSE req[r].new
  IN /\ At(r, "commitSent")
     /\ acked' = IF req[r].new = 0 THEN acked ELSE acked \cup {<<req[r].new, req[r].expect>>}
     /\ reply' = [reply EXCEPT ![r] = result]
     /\ gauge' = IF req[r].op = "list" THEN result ELSE gauge
     /\ EndRequest(r)
     /\ UNCHANGED <<docs, row, inserting, txn, floor, bounds>>

\* The server commits, whether or not the client is still there.
ServerCommit ==
  /\ txn.state = "committing"
  /\ row' = IF txn.new = 0 THEN row ELSE txn.new
  /\ txn' = NoTxn
  /\ UNCHANGED <<docs, inserting, pc, req, gauge, history, bounds>>

CommitReturned(r) ==
  LET result == IF req[r].new = 0 THEN req[r].local ELSE req[r].new
  IN /\ At(r, "commitSent") /\ txn.client # r
     /\ acked' = IF req[r].new = 0 THEN acked ELSE acked \cup {<<req[r].new, req[r].expect>>}
     /\ reply' = [reply EXCEPT ![r] = result]
     /\ gauge' = IF req[r].op = "list" THEN result ELSE gauge
     /\ EndRequest(r)
     /\ UNCHANGED <<docs, row, inserting, txn, floor, bounds>>

----------------------------------------------------------------------------
(* Lost connections and crashes *)

Fault == faults < MaxFaults /\ faults' = faults + 1

Abandoned(r) == IF txn.client = r THEN [txn EXCEPT !.client = Nobody] ELSE txn

\* A statement fails: the request ends with an error, the ROLLBACK that follows
\* does not arrive either.  Reads export the unavailability; a mutation does so
\* only for an error the store itself raised.
ConnectionLost(r) ==
  /\ Fault
  /\ pc[r] \notin {"idle", "insert", "answered"}
  /\ txn' = Abandoned(r)
  /\ gauge' = IF req[r].op \in {"read", "list"} THEN 0 ELSE gauge
  /\ EndRequest(r)
  /\ UNCHANGED <<docs, row, inserting, history, mutations>>

\* The process and its metrics are gone with all its requests.
ProcessCrash ==
  /\ Fault
  /\ \E r \in Requests : ~At(r, "idle")
  /\ pc' = [r \in Requests |-> "idle"]
  /\ req' = [r \in Requests |-> NoRequest]
  /\ txn' = [txn EXCEPT !.client = Nobody]
  /\ gauge' = 0
  /\ UNCHANGED <<docs, row, inserting, history, mutations>>

\* The server ends a session without a client and rolls its transaction back; a
\* COMMIT that was sent may or may not have reached it before.
ServerEndsSession ==
  /\ txn.state # "none" /\ txn.client = Nobody
  /\ txn' = NoTxn
  /\ UNCHANGED <<docs, row, inserting, pc, req, gauge, history, bounds>>

----------------------------------------------------------------------------

RequestStep(r) ==
  \/ SelectRow(r) \/ SendInsert(r) \/ InsertReturned(r) \/ Answered(r)
  \/ LockRow(r) \/ Rotate(r) \/ Rollback(r) \/ PersistThresholds(r) \/ Refuse(r)
  \/ RollbackTxn(r) \/ SendCommit(r) \/ NoThresholdLeft(r) \/ CommitReturned(r)

ServerStep == (\E c \in inserting : ServerInsert(c)) \/ ServerCommit \/ ServerEndsSession

NewRequest(r) == \E o \in Ops, e \in {0} \cup KnownGenerations : Start(r, o, e)

Next ==
  \/ \E r \in Requests : NewRequest(r) \/ RequestStep(r) \/ ConnectionLost(r)
  \/ ServerStep
  \/ ProcessCrash

Spec == Init /\ [][Next]_vars

\* The event loop resumes every request, and the server runs what it was sent
\* and ends the sessions that lost their client.
FairSpec ==
  Spec /\ WF_vars(ServerStep) /\ \A r \in Requests : WF_vars(RequestStep(r))

----------------------------------------------------------------------------
(* Properties *)

\* Every variable keeps its type, and every commit that is named exists.
TypeOK ==
  /\ docs \in Seq(Doc)
  /\ row \in 0..Len(docs) /\ gauge \in 0..Len(docs)
  /\ inserting \subseteq 1..Len(docs)
  /\ txn \in Txn(Len(docs))
  /\ pc \in [Requests -> Places]
  /\ req \in [Requests -> Request(Len(docs))]
  /\ acked \subseteq (1..Len(docs)) \X Nat
  /\ reply \in [Requests -> 0..Len(docs)]
  /\ floor \in [Requests -> SUBSET acked]
  /\ mutations \in 0..MaxMutations /\ faults \in 0..MaxFaults

\* Of the rotations and rollbacks that expected one generation, at most one was
\* ever committed: also when the response to a COMMIT was lost, the operator
\* retried, and the server ran the first COMMIT only then.
OneCommitPerGeneration ==
  \A i, j \in 1..Rev(row) :
    LET a == docs[AuditOf(row)[i]]  b == docs[AuditOf(row)[j]]
    IN i < j /\ {a.kind, b.kind} \subseteq {"ROTATED", "ROLLED_BACK"} => a.expect # b.expect

\* What a mutation was acknowledged for is in the row for ever: its commit, and
\* the generation that follows the one it expected.
AckedDurable ==
  \A a \in acked : /\ InAudit(a[1], row)
                   /\ a[2] # 0 => docs[a[1]].gen = a[2] + 1

\* A request is answered from a committed document that has every transaction
\* that was acknowledged before the request began.
ReadsCommitted ==
  \A r \in Requests : reply[r] # 0 => /\ InAudit(reply[r], row)
                                      /\ \A a \in floor[r] : InAudit(a[1], reply[r])

Pending == inserting \cup (IF txn.new = 0 THEN {} ELSE {txn.new})

CommitLog == INSTANCE M2MCommitLog WITH
  issued <- Len(docs),
  pending <- Pending,
  log <- AuditOf(row),
  acknowledged <- {a[1] : a \in acked}

\* The Neon backend implements the same abstract log as the file backend.
ImplementsCommitLog == CommitLog!LogSpec

\* Every request ends, with an answer or with an error, although requests wait
\* for each other's row lock and a lost connection leaves it held for a while.
RequestsReturn == \A r \in Requests : pc[r] # "idle" ~> pc[r] = "idle"

\* When no request is being served and no transaction is open, the revision that
\* the metrics export as the current one is one that was committed: operators
\* are told to look there after a lost response.
ExportedRevisionCommitted ==
  (\A r \in Requests : At(r, "idle")) /\ txn = NoTxn /\ gauge # 0 => InAudit(gauge, row)
=============================================================================
