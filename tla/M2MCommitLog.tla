---------------------------- MODULE M2MCommitLog ----------------------------
(***************************************************************************)
(* What the M2M service-key registry promises its callers, whatever backend *)
(* stores it.  A transaction is begun, and then it is committed or aborted, *)
(* never both: the committed ones form one append-only sequence, whose      *)
(* length is the revision, an aborted one never comes back, and only a      *)
(* committed one is ever acknowledged.  M2MRegistry, the file backend, and  *)
(* M2MNeonRegistry, the Postgres one, are shown to implement this module.   *)
(***************************************************************************)
EXTENDS Naturals, Sequences

VARIABLES
  issued,       \* how many transactions were begun; they are 1..issued
  pending,      \* begun, neither committed nor aborted
  log,          \* the committed transactions, oldest first
  acknowledged  \* the transactions some caller was told had committed

logVars == <<issued, pending, log, acknowledged>>

Committed == {log[i] : i \in 1..Len(log)}

LogInit == issued = 0 /\ pending = {} /\ log = <<>> /\ acknowledged = {}

Begin ==
  /\ issued' = issued + 1
  /\ pending' = pending \cup {issued'}
  /\ UNCHANGED <<log, acknowledged>>

\* The revision grows by exactly one.
Commit(c) ==
  /\ c \in pending
  /\ pending' = pending \ {c}
  /\ log' = Append(log, c)
  /\ UNCHANGED <<issued, acknowledged>>

Abort(c) ==
  /\ c \in pending
  /\ pending' = pending \ {c}
  /\ UNCHANGED <<issued, log, acknowledged>>

Acknowledge(c) ==
  /\ c \in Committed
  /\ acknowledged' = acknowledged \cup {c}
  /\ UNCHANGED <<issued, pending, log>>

LogNext ==
  \/ Begin
  \/ \E c \in pending : Commit(c) \/ Abort(c)
  \/ \E c \in Committed : Acknowledge(c)

LogSpec == LogInit /\ [][LogNext]_logVars
=============================================================================
