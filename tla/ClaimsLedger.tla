------------------------------ MODULE ClaimsLedger ------------------------------
(***************************************************************************)
(* The governance claims ledger (lib/governance/claims.ts): contributors'   *)
(* claims, their review, the monthly cap on what is recognized, and the one  *)
(* snapshot that divides the payout pool.  One process owns the file and     *)
(* every operation is synchronous, so an operation is one step: load, change,*)
(* save.  The file is overwritten in place; a crash in a save tears it.       *)
(*                                                                           *)
(* An entry is named by its place in clEntries.  Of the ledger's events        *)
(* clTrail keeps, for each entry, its last own one and the global event of   *)
(* the snapshot when that came after it; CAP_DEFERRED only repeats the entry.*)
(***************************************************************************)
EXTENDS Integers, Sequences, FiniteSetsExt, SequencesExt

CONSTANTS
    Contributors,   \* identities of the form ubi:btc:{id}
    ClaimRequests,  \* [who, artifact, base, impact, quality, number, evidenced]
    MonthlyCap,     \* recognized per contributor and month: 4000 CU hundredths in the code
    Environments,   \* sets of activation gates a process may be started with
    Pools,          \* sizes of the payout pool
    MaxEntries, MaxMonth

(* The routes take multipliers and pool as any Number() they can make of what  *)
(* they are sent: below zero, a fraction, or none.  The division by 100 is     *)
(* left out: amounts are counted in a unit in which they all are whole, such   *)
(* as ten-thousandths of a CU for whole multipliers.  A pool that is no number *)
(* is saved as null and stands for 0.                                        *)
ASSUME ClaimsAssumption ==
    /\ MonthlyCap \in Nat /\ MaxEntries \in Nat /\ MaxMonth \in Nat
    /\ Pools \subseteq Int
    /\ \A q \in ClaimRequests :
        /\ q.base \in Nat /\ q.impact \in Int /\ q.quality \in Int
        /\ q.number \in {"finite", "infinite", "none"} /\ q.evidenced \in BOOLEAN

VARIABLES
    clFile,        \* "absent", "whole" or "torn"
    clEntries,     \* the entries, in the order they were proposed
    clTrail,       \* their last events
    clActivation,  \* [pool, total] of the snapshot, or NotActivated
    clMonth        \* the UTC month of the wall clock

clVars == <<clFile, clEntries, clTrail, clActivation, clMonth>>

Gates == {"mainnetStability60Days", "auditedPayoutPathActive", "treasuryRunway6Months",
          "governanceRatified"}

NotActivated == [pool |-> 0, total |-> 0]

ClaimIds == DOMAIN clEntries

ClInit ==
    /\ clFile = "absent" /\ clEntries = <<>> /\ clTrail = <<>>
    /\ clActivation = NotActivated /\ clMonth = 0

---------------------------------------------------------------------------
(* Every operation loads the file first, and throws when it is no JSON.       *)
Usable == clFile # "torn"

(* The GET route; the first load of a missing file saves an empty ledger.    *)
LoadLedger ==
    /\ clFile = "absent"
    /\ clFile' = "whole"
    /\ UNCHANGED <<clEntries, clTrail, clActivation, clMonth>>

ValidClaim(q) == q.who \in Contributors /\ q.evidenced

Live(e) == clEntries[e].status # "revoked"

Duplicate(q) ==
    \E e \in ClaimIds : Live(e) /\ clEntries[e].who = q.who /\ clEntries[e].artifact = q.artifact

(* What is awarded when both multipliers are finite.                         *)
Awarded(q) == q.base * q.impact * q.quality

CountsInMonth(who, month) ==
    {e \in ClaimIds : Live(e) /\ clEntries[e].who = who /\ clEntries[e].month = month}

Recognized(e) == clEntries[e].recognized

MonthToDate(who, month) == MapThenSumSet(Recognized, CountsInMonth(who, month))

Smaller(a, b) == IF a < b THEN a ELSE b

RemainingCap(who) ==
    LET left == MonthlyCap - MonthToDate(who, clMonth) IN IF left > 0 THEN left ELSE 0

(* An award above what the month leaves is recognized in part.  JSON has no    *)
(* NaN and no infinity: what would be one is saved as null and counts nothing. *)
RecognizedFor(q) ==
    CASE q.number = "finite" -> Smaller(Awarded(q), RemainingCap(q.who))
      [] q.number = "infinite" -> RemainingCap(q.who)
      [] OTHER -> 0

DeferredFor(q) == IF q.number = "finite" THEN Awarded(q) - RecognizedFor(q) ELSE 0

Propose(q) ==
    /\ Usable /\ Len(clEntries) < MaxEntries
    /\ ValidClaim(q) /\ ~Duplicate(q)
    /\ clEntries' = Append(clEntries,
          [who |-> q.who, artifact |-> q.artifact, month |-> clMonth,
           recognized |-> RecognizedFor(q), deferred |-> DeferredFor(q),
           status |-> "proposed", marks |-> {}, amount |-> 0])
    /\ clTrail' = Append(clTrail, <<"proposed">>)
    /\ clFile' = "whole"
    /\ UNCHANGED <<clActivation, clMonth>>

---------------------------------------------------------------------------
Statuses == {"proposed", "verified", "approved", "recognized", "convertible", "converted",
             "settled", "disputed", "revoked"}

AllowedTransitions ==
    [s \in Statuses |->
        CASE s = "proposed" -> {"verified", "disputed", "revoked"}
          [] s = "verified" -> {"approved", "disputed", "revoked"}
          [] s = "approved" -> {"recognized", "disputed", "revoked"}
          [] s = "recognized" -> {"convertible", "disputed", "revoked"}
          [] s = "convertible" -> {"converted", "disputed", "revoked"}
          [] s = "converted" -> {"settled", "revoked"}
          [] s = "disputed" -> {"approved", "revoked"}
          [] OTHER -> {}]

(* The steps that leave a reviewer or a time stamp on the entry.             *)
Marked == {"verified", "approved", "recognized", "revoked"}

(* Status, stamp and event of one entry change together.                     *)
Change(e, to, marks) ==
    /\ Usable
    /\ clEntries' = [clEntries EXCEPT ![e].status = to, ![e].marks = @ \cup marks]
    /\ clTrail' = [clTrail EXCEPT ![e] = <<to>>]
    /\ UNCHANGED <<clFile, clActivation, clMonth>>

Transition(e, to) ==
    /\ to \in AllowedTransitions[clEntries[e].status]
    /\ Change(e, to, {to} \cap Marked)

Dispute(e) ==
    /\ clEntries[e].status \in {"approved", "recognized", "convertible"}
    /\ Change(e, "disputed", {})

---------------------------------------------------------------------------
\* Mutant: an approved claim takes part as well.
EligibleApproved == {e \in ClaimIds : clEntries[e].status \in {"approved", "recognized"}}

Eligible == {e \in ClaimIds : clEntries[e].status = "recognized"}

(* The gates are read from the environment the process was started with.     *)
SnapshotAllowed(gates) == gates = Gates /\ clActivation = NotActivated

(* The rate is pool / total: an amount is kept as its numerator, recognized  *)
(* times pool.  One event stands for the conversion of all entries.  Only a    *)
(* total of exactly zero is refused.                                         *)
Snapshot(pool, gates) ==
    LET total == MapThenSumSet(Recognized, Eligible) IN
    /\ Usable /\ SnapshotAllowed(gates) /\ total # 0
    /\ clEntries' = [e \in ClaimIds |->
          IF e \in Eligible
          THEN [clEntries[e] EXCEPT !.status = "convertible", !.amount = Recognized(e) * pool]
          ELSE clEntries[e]]
    /\ clTrail' = [e \in ClaimIds |-> Append(clTrail[e], "GLOBAL_SNAPSHOT_CONVERSION")]
    /\ clActivation' = [pool |-> pool, total |-> total]
    /\ UNCHANGED <<clFile, clMonth>>

---------------------------------------------------------------------------
(* The process dies in writeFileSync: what is left is no JSON, every later    *)
(* load throws, and nothing in the code repairs it.                          *)
TearFile ==
    /\ Usable
    /\ clFile' = "torn" /\ clEntries' = <<>> /\ clTrail' = <<>>
    /\ clActivation' = NotActivated
    /\ UNCHANGED clMonth

NextMonth ==
    /\ clMonth < MaxMonth /\ clMonth' = clMonth + 1
    /\ UNCHANGED <<clFile, clEntries, clTrail, clActivation>>

ClNext ==
    \/ LoadLedger
    \/ \E q \in ClaimRequests : Propose(q)
    \/ \E e \in ClaimIds : Dispute(e) \/ \E to \in Statuses : Transition(e, to)
    \/ \E pool \in Pools, gates \in Environments : Snapshot(pool, gates)
    \/ TearFile
    \/ NextMonth

---------------------------------------------------------------------------
EventTypes == Statuses \cup {"GLOBAL_SNAPSHOT_CONVERSION"}

(* Every variable of the ledger has its type. *)
ClTypeOK ==
    /\ clFile \in {"absent", "whole", "torn"}
    /\ \A e \in ClaimIds :
        /\ clEntries[e].month \in 0 .. MaxMonth
        /\ clEntries[e].recognized \in Int /\ clEntries[e].deferred \in Nat
        /\ clEntries[e].status \in Statuses /\ clEntries[e].marks \subseteq Marked
        /\ clEntries[e].amount \in Int
    /\ DOMAIN clTrail = ClaimIds /\ \A e \in ClaimIds : clTrail[e] \in Seq(EventTypes)
    /\ clActivation.pool \in Int /\ clActivation.total \in Int
    /\ clMonth \in 0 .. MaxMonth

(* "should cap recognized Claim Units at 40.00 CU per contributor per month"    *)
(* (claims.test.ts, line 126).  A claim with a negative multiplier makes room    *)
(* for others, and when it is revoked what it made room for stays.            *)
MonthlyCapKept ==
    \A who \in Contributors, month \in 0 .. MaxMonth : MonthToDate(who, month) <= MonthlyCap

(* What a contributor has recognized in a month exceeds the cap by no more than  *)
(* what revoked claims of less than nothing had taken off it, whatever is        *)
(* disputed, revoked and claimed again; where no claim is negative, it never     *)
(* exceeds it (proposeClaim, lines 266-272).                                 *)
HeldToCap(who, month) ==
    {e \in ClaimIds :
        clEntries[e].who = who /\ clEntries[e].month = month /\ (Live(e) \/ Recognized(e) < 0)}

CapHeld ==
    \A who \in Contributors, month \in 0 .. MaxMonth :
        MapThenSumSet(Recognized, HeldToCap(who, month)) <= MonthlyCap

(* One artifact is counted once for a contributor: the guard looks at live   *)
(* claims, so a claim may never come back to life (lines 245-257).           *)
CountedOnce ==
    \A d, e \in ClaimIds :
        Live(d) /\ Live(e) /\ clEntries[d].who = clEntries[e].who
        /\ clEntries[d].artifact = clEntries[e].artifact => d = e

(* The amounts handed out are the pool exactly, before and after every later *)
(* dispute, revocation and manual conversion (lines 500-545).                *)
Amount(e) == clEntries[e].amount

PoolDivided ==
    MapThenSumSet(Amount, ClaimIds) = clActivation.pool * clActivation.total

(* Whatever is on its way to a payout was approved and recognized by someone.*)
Reviewed ==
    \A e \in ClaimIds :
        clEntries[e].status \in {"convertible", "converted", "settled"} \/ Amount(e) # 0
            => {"approved", "recognized"} \subseteq clEntries[e].marks

ClSound == CapHeld /\ CountedOnce /\ PoolDivided /\ Reviewed

(* Replaying the events from the first gives every entry its status: also    *)
(* that of an entry the one event of the snapshot converted.                 *)
Replayed(status, event) ==
    CASE event \in Statuses -> event
      [] event = "GLOBAL_SNAPSHOT_CONVERSION" /\ status = "recognized" -> "convertible"
      [] OTHER -> status

ClTrailExplains ==
    \A e \in ClaimIds : clEntries[e].status = FoldLeft(Replayed, "none", clTrail[e])

(* A revoked claim and a settled one keep their status, what was recognized   *)
(* and promised is never changed, and the snapshot is taken once; only a torn*)
(* file takes anything away.                                                 *)
ClFinal ==
    Usable' =>
        /\ \A e \in ClaimIds :
            /\ clEntries[e].status \in {"revoked", "settled"}
                => clEntries'[e].status = clEntries[e].status
            /\ clEntries'[e].recognized = clEntries[e].recognized
            /\ clEntries[e].amount # 0 => clEntries'[e].amount = clEntries[e].amount
        /\ clActivation # NotActivated => clActivation' = clActivation
=============================================================================
