------------------------------- MODULE SupportMail -------------------------------
(***************************************************************************)
(* The support mail workers: every request makes one, which takes the unread  *)
(* messages of the inbox, files an issue for each, answers its sender, and     *)
(* marks it read.  Each of these is a call to another server that may fail,     *)
(* and the process may stop between two of them.  A message whose text the      *)
(* server does not give is asked for again, then flagged and marked read        *)
(* without an issue.  The lock of the mailbox is one of the worker's own        *)
(* connection: it does not keep two workers apart.                           *)
(***************************************************************************)
EXTENDS Integers, FiniteSets

CONSTANTS
    Mails,          \* messages that may arrive
    MailWorkers,        \* requests under way at once
    MaxPolls        \* bound on the polls of one behaviour

ASSUME MailAssumption == MaxPolls \in Nat /\ IsFiniteSet(MailWorkers)

VARIABLES
    smBox,          \* the messages that arrived, and the flags of each
    smIssues,       \* issues filed, per message
    smAcks,         \* answers sent, per message
    smTodo,         \* per worker, the messages it has not come to
    smStep,         \* per worker, the message it is at and what comes next
    smPolls,        \* counts the polls
    smWithheld,     \* history: messages whose text was not given twice in one poll
    smFaults        \* history: a fault that may make an issue be filed again

smVars == <<smBox, smIssues, smAcks, smTodo, smStep, smPolls, smWithheld, smFaults>>

Unread(m) == "arrived" \in smBox[m] /\ "seen" \notin smBox[m]

Polling(w) == smStep[w] # <<>>

SmInit ==
    /\ smBox = [m \in Mails |-> {}]
    /\ smIssues = [m \in Mails |-> 0] /\ smAcks = [m \in Mails |-> 0]
    /\ smTodo = [w \in MailWorkers |-> {}] /\ smStep = [w \in MailWorkers |-> <<>>]
    /\ smPolls = 0 /\ smWithheld = {} /\ smFaults = FALSE

Arrive(m) ==
    /\ smBox[m] = {}
    /\ smBox' = [smBox EXCEPT ![m] = {"arrived"}]
    /\ UNCHANGED <<smIssues, smAcks, smTodo, smStep, smPolls, smWithheld, smFaults>>

BeginPoll(w) ==
    /\ ~Polling(w) /\ smPolls < MaxPolls
    /\ smTodo' = [smTodo EXCEPT ![w] = {m \in Mails : Unread(m)}]
    /\ smStep' = [smStep EXCEPT ![w] = <<"next">>]
    /\ smPolls' = smPolls + 1
    /\ smFaults' = (smFaults \/ \E o \in MailWorkers : Polling(o))
    /\ UNCHANGED <<smBox, smIssues, smAcks, smWithheld>>

Goes(w, m, at) == smStep' = [smStep EXCEPT ![w] = <<at, m>>]

MailAt(w, m, at) == smStep[w] = <<at, m>>

(* The text comes with the message, or not.                                  *)
TakeMail(w, m, given) ==
    /\ smStep[w] = <<"next">> /\ m \in smTodo[w]
    /\ smTodo' = [smTodo EXCEPT ![w] = @ \ {m}]
    /\ Goes(w, m, IF given THEN "file" ELSE "refetch")
    /\ UNCHANGED <<smBox, smIssues, smAcks, smPolls, smWithheld, smFaults>>

RefetchSource(w, m, given) ==
    /\ MailAt(w, m, "refetch")
    /\ Goes(w, m, IF given THEN "file" ELSE "flag")
    /\ smWithheld' = IF given THEN smWithheld ELSE smWithheld \cup {m}
    /\ UNCHANGED <<smBox, smIssues, smAcks, smTodo, smPolls, smFaults>>

(* A flag that cannot be set is passed over, and so is the mark.             *)
FlagMissing(w, m, done) ==
    /\ MailAt(w, m, "flag")
    /\ smBox' = IF done THEN [smBox EXCEPT ![m] = @ \cup {"flagged"}] ELSE smBox
    /\ Goes(w, m, "drop")
    /\ UNCHANGED <<smIssues, smAcks, smTodo, smPolls, smWithheld, smFaults>>

DropMissing(w, m, done) ==
    /\ MailAt(w, m, "drop")
    /\ smBox' = IF done THEN [smBox EXCEPT ![m] = @ \cup {"seen"}] ELSE smBox
    /\ smStep' = [smStep EXCEPT ![w] = <<"next">>]
    /\ UNCHANGED <<smIssues, smAcks, smTodo, smPolls, smWithheld, smFaults>>

\* Mutant: the answer of the tracker is not looked at.
AfterFilingAnyway(answered) == "ack"

AfterFiling(answered) == IF answered THEN "ack" ELSE "next"

(* The tracker files the issue or does not, and its answer arrives or does    *)
(* not; without the answer the message stays unread for another poll.         *)
FileIssue(w, m, filed, answered) ==
    /\ MailAt(w, m, "file") /\ (answered => filed)
    /\ smIssues' = [smIssues EXCEPT ![m] = IF filed THEN @ + 1 ELSE @]
    /\ smStep' = [smStep EXCEPT ![w] =
        IF AfterFiling(answered) = "next" THEN <<"next">> ELSE <<AfterFiling(answered), m>>]
    /\ smFaults' = (smFaults \/ (filed /\ ~answered))
    /\ UNCHANGED <<smBox, smAcks, smTodo, smPolls, smWithheld>>

(* An answer that cannot be sent is passed over.                             *)
SendAutoAck(w, m, sent) ==
    /\ MailAt(w, m, "ack")
    /\ smAcks' = [smAcks EXCEPT ![m] = IF sent THEN @ + 1 ELSE @]
    /\ Goes(w, m, "mark")
    /\ UNCHANGED <<smBox, smIssues, smTodo, smPolls, smWithheld, smFaults>>

(* A mark that fails, applied or not, ends the poll.                         *)
MarkSeen(w, m, applied, answered) ==
    /\ MailAt(w, m, "mark") /\ (answered => applied)
    /\ smBox' = IF applied THEN [smBox EXCEPT ![m] = @ \cup {"seen"}] ELSE smBox
    /\ smStep' = [smStep EXCEPT ![w] = IF answered THEN <<"next">> ELSE <<>>]
    /\ smTodo' = IF answered THEN smTodo ELSE [smTodo EXCEPT ![w] = {}]
    /\ smFaults' = (smFaults \/ ~applied)
    /\ UNCHANGED <<smIssues, smAcks, smPolls, smWithheld>>

EndPoll(w) ==
    /\ smStep[w] = <<"next">> /\ smTodo[w] = {}
    /\ smStep' = [smStep EXCEPT ![w] = <<>>]
    /\ UNCHANGED <<smBox, smIssues, smAcks, smTodo, smPolls, smWithheld, smFaults>>

(* The process, or the connection, goes in the middle of a poll.             *)
StopWorker(w) ==
    /\ Polling(w)
    /\ smStep' = [smStep EXCEPT ![w] = <<>>] /\ smTodo' = [smTodo EXCEPT ![w] = {}]
    /\ smFaults' = TRUE
    /\ UNCHANGED <<smBox, smIssues, smAcks, smPolls, smWithheld>>

SmNext ==
    \/ \E m \in Mails : Arrive(m)
    \/ \E w \in MailWorkers :
        \/ BeginPoll(w) \/ EndPoll(w) \/ StopWorker(w)
        \/ \E m \in Mails, done \in BOOLEAN :
            \/ TakeMail(w, m, done) \/ RefetchSource(w, m, done)
            \/ FlagMissing(w, m, done) \/ DropMissing(w, m, done) \/ SendAutoAck(w, m, done)
            \/ \E answered \in BOOLEAN : FileIssue(w, m, done, answered) \/ MarkSeen(w, m, done, answered)

---------------------------------------------------------------------------
SmTypeOK ==
    /\ \A m \in Mails : smBox[m] \subseteq {"arrived", "seen", "flagged"}
    /\ \A w \in MailWorkers : smTodo[w] \subseteq Mails
    /\ \A m \in Mails : smIssues[m] \in Nat /\ smAcks[m] \in Nat
    /\ smPolls \in 0 .. MaxPolls /\ smWithheld \subseteq Mails /\ smFaults \in BOOLEAN

(* No message is put aside as read without an issue unless its text was       *)
(* withheld twice; whoever was answered has an issue, one per answer; without a *)
(* fault or an overlap no message has two issues.                            *)
SmSound ==
    /\ \A m \in Mails :
        /\ "seen" \in smBox[m] => smIssues[m] > 0 \/ m \in smWithheld
        /\ smAcks[m] <= smIssues[m]
        /\ ~smFaults => smIssues[m] <= 1
    /\ \A w \in MailWorkers, m \in Mails : smStep[w] \in {<<"ack", m>>, <<"mark", m>>} => smIssues[m] > 0

(* A message is never unread again, and is marked read by the worker that      *)
(* filed its issue or was refused its text.                                 *)
SmFinal ==
    \A m \in Mails :
        /\ smBox[m] \subseteq smBox'[m]
        /\ "seen" \in smBox'[m] \ smBox[m] => \E w \in MailWorkers : MailAt(w, m, "mark") \/ MailAt(w, m, "drop")
=============================================================================
