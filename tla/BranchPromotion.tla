------------------------------ MODULE BranchPromotion ------------------------------
(***************************************************************************)
(* The promotion of work from dev to staged to main.  The workflow turns the   *)
(* head of a branch into an immutable candidate: a ref named after the commit  *)
(* and a draft pull request that records source, target and window.  Its runs   *)
(* are queued per branch that was pushed; the hourly run for main has a queue   *)
(* of its own.  The policy checks a pull request whenever it is opened, edited  *)
(* or pushed to, main's with the dwell time of its head, but not when its      *)
(* target moves.  People fill in evidence, press Update branch, and merge.     *)
(*                                                                           *)
(* What a check is worth is set outside of the code: the rules of the          *)
(* repository say where a pull request needs it.  They are a choice here, and   *)
(* BpSound says what holds under which.                                      *)
(***************************************************************************)
EXTENDS Integers, Sequences, FiniteSets

CONSTANTS
    MaxCommits,         \* bound on the commits, the three of the beginning included
    MaxPromotionTime,   \* bound on the clock
    MaxDirectPrs,       \* bound on the pull requests made by hand that are open at once
    MaxActs,            \* for each set of rules, a bound on the runs of the workflow and
                        \* on what is done past the policy
    MinDwell            \* MIN_MAINNET_DWELL_HOURS

(* "main", "staged": the policy is a required check there, and the branch       *)
(* refuses forced pushes.  "refs": only the workflow and the Update button       *)
(* write the refs promotion/*.                                              *)
Guards == {"main", "staged", "refs"}

ASSUME PromotionAssumption ==
    /\ MaxCommits \in Nat \ 0 .. 2 /\ MaxPromotionTime \in Nat /\ MaxDirectPrs \in Nat
    /\ MaxActs \in [SUBSET Guards -> Nat] /\ MinDwell \in Nat \ {0}

VARIABLES
    bpRules,    \* the rules in force, of Guards
    bpCommits,  \* the commits: second parent, branch, recorded time, and what they
                \* contain; the time they were made, and what they brought and why,
                \* are history
    bpHeads,    \* the heads of dev, staged and main
    bpRefs,     \* the published candidate refs: records of target, name and head
    bpPrs,      \* the open pull requests into staged and main
    bpPending,  \* the push for which a queue of the workflow runs next, or NoCommit
    bpRuns,     \* the run of each queue that is under way
    bpActs,     \* how often the workflow ran and something was done past the policy
    bpNow

bpVars == <<bpRules, bpCommits, bpHeads, bpRefs, bpPrs, bpPending, bpRuns, bpActs, bpNow>>

NoCommit == 0

Queues == {"dev", "staged", "schedule"}

TargetOf(queue) == IF queue = "dev" THEN "staged" ELSE "main"

SourceOf(queue) == IF queue = "dev" THEN "dev" ELSE "staged"

Acts == bpActs < MaxActs[bpRules] /\ bpActs' = bpActs + 1

NoRun == [phase |-> "none", source |-> NoCommit, target |-> NoCommit]

Made(branch, of, from, via, past) ==
    [on |-> branch, of |-> of, from |-> from, via |-> via, at |-> bpNow, made |-> bpNow, past |-> past]

(* Work that has just come onto dev and been merged into staged.             *)
BpInit ==
    /\ bpRules \in SUBSET Guards
    /\ bpActs = 0 /\ bpNow = 0
    /\ bpCommits = <<Made("main", NoCommit, NoCommit, "work", {1}),
                     Made("dev", NoCommit, NoCommit, "work", {1, 2}),
                     Made("staged", 2, 2, "promotion", {1, 2, 3})>>
    /\ bpHeads = [b \in {"dev", "staged", "main"} |->
                    IF b = "dev" THEN 2 ELSE IF b = "staged" THEN 3 ELSE 1]
    /\ bpRefs = {} /\ bpPrs = {}
    /\ bpPending = [q \in Queues |-> IF q = "staged" THEN 3 ELSE NoCommit]
    /\ bpRuns = [q \in Queues |-> NoRun]

---------------------------------------------------------------------------
(* git: a commit of work has one parent, a merge a second one.              *)

NewCommit(branch, onto, of, from, via) ==
    LET past == bpCommits[onto].past \cup (IF of = NoCommit THEN {} ELSE bpCommits[of].past) IN
    Made(branch, of, from, via, past \cup {Len(bpCommits) + 1})

(* A head, or new work, comes onto a branch by a merge, or as a commit with one   *)
(* parent where it is squashed or rebased.                                  *)
Landings(branch, head, via) ==
    {NewCommit(branch, bpHeads[branch], of, head, via) : of \in {head, NoCommit}}

NewTo(branch, head) == head = NoCommit \/ head \notin bpCommits[bpHeads[branch]].past

(* What somebody has who works on none of the branches: work or a merge, of any *)
(* recorded time.                                                           *)
Elsewhere ==
    {[NewCommit("elsewhere", bpHeads["dev"], of, NoCommit, "work") EXCEPT !.at = at] :
        of \in {NoCommit, bpHeads["main"]}, at \in 0 .. bpNow}

IsMerge(commits, c) == commits[c].of # NoCommit

Unpromoted(source, target) ==
    {c \in bpCommits[source].past \ bpCommits[target].past : ~IsMerge(bpCommits, c)}

(* validate_staged_dwell.sh: the exact head is a merge, and its time is when    *)
(* it entered staged; anything else is refused.                             *)
Dwelt(commits, c) == IsMerge(commits, c) /\ bpNow >= commits[c].at + MinDwell

---------------------------------------------------------------------------
(* The policy, for pull requests within the repository.                     *)

GeneratedEvidence(pr, heads) == pr.head = pr.name /\ pr.base = heads[pr.target]

Routed(pr, commits, heads) ==
    /\ pr.name # NoCommit => GeneratedEvidence(pr, heads)
    /\ pr.complete
    /\ pr.target = "main" => Dwelt(commits, pr.head)

Checked(pr, commits, heads) == [pr EXCEPT !.passed = Routed(pr, commits, heads)]

(* Work comes into dev from branches of its own, with the checklist unless a   *)
(* bot wrote it; the automation's back-merges are exempt.  The template that    *)
(* is filled in for agents holds no checklist and changes nothing.          *)
RoutedIntoDev(form, checklist) ==
    form \in {"backmerge", "dependabot"} \/ (form \in {"ordinary", "agent"} /\ checklist)

PrsFor(target, name) == {pr \in bpPrs : pr.target = target /\ pr.name = name}

(* A branch comes to stand at a commit.  Its queue will run for it, in the place *)
(* of a push that was waiting, and a pull request from the branch has a new     *)
(* head and is checked again; one into the branch is not.                   *)
StandAt(branch, commits, head, closed) ==
    LET heads == [bpHeads EXCEPT ![branch] = head]
        follows(pr) ==
            /\ pr.name = NoCommit
            /\ pr.target = IF branch = "dev" THEN "staged" ELSE IF branch = "staged" THEN "main" ELSE "none"
    IN
    /\ bpCommits' = commits /\ bpHeads' = heads
    /\ bpPending' = IF branch = "main" THEN bpPending ELSE [bpPending EXCEPT ![branch] = head]
    /\ bpPrs' = {IF follows(pr) THEN Checked([pr EXCEPT !.head = head], commits, heads) ELSE pr :
                    pr \in bpPrs \ closed}
    /\ UNCHANGED <<bpRules, bpRefs, bpRuns, bpNow>>

MoveBranch(branch, commit, closed) ==
    /\ Len(bpCommits) < MaxCommits
    /\ StandAt(branch, Append(bpCommits, commit), Len(bpCommits) + 1, closed)

WorkLands(form, checklist) ==
    /\ UNCHANGED bpActs
    /\ RoutedIntoDev(form, checklist)
    /\ MoveBranch("dev", NewCommit("dev", bpHeads["dev"], NoCommit, NoCommit, "work"), {})

(* The policy takes any head whose name says it is a back-merge.              *)
BackMerge(branch, head) ==
    /\ Acts /\ NewTo(branch, head)
    /\ \E commit \in Landings(branch, head, "back-merge") : MoveBranch(branch, commit, {})

(* Where the check is not required anything lands, by pull request or push.   *)
LandUnchecked(branch, head, at) ==
    /\ Acts /\ branch \notin bpRules /\ NewTo(branch, head)
    /\ \E commit \in Landings(branch, head, "unchecked") :
        MoveBranch(branch, [commit EXCEPT !.at = at], {})

(* A push without rules puts staged anywhere.                                *)
ForceStaged(head) ==
    /\ Acts /\ "staged" \notin bpRules /\ head # bpHeads["staged"]
    /\ StandAt("staged", bpCommits, head, {})

---------------------------------------------------------------------------
(* A run of the workflow.                                                   *)

SetRun(queue, run) == bpRuns' = [bpRuns EXCEPT ![queue] = run]

(* A push is promoted as it was pushed, the hourly run takes what is there.  *)
StartRun(queue) ==
    /\ Acts /\ bpRuns[queue].phase = "none" /\ bpPending[queue] # NoCommit
    /\ SetRun(queue, [NoRun EXCEPT !.phase = "started",
            !.source = IF queue = "schedule" THEN bpHeads["staged"] ELSE bpPending[queue]])
    /\ bpPending' = [bpPending EXCEPT ![queue] = NoCommit]
    /\ UNCHANGED <<bpRules, bpCommits, bpHeads, bpRefs, bpPrs, bpNow>>

CaptureEvidence(queue) ==
    LET run == bpRuns[queue]  target == bpHeads[TargetOf(queue)] IN
    /\ run.phase = "started"
    /\ SetRun(queue,
        IF Unpromoted(run.source, target) = {} \/ (queue # "dev" /\ ~Dwelt(bpCommits, run.source))
        THEN NoRun ELSE [run EXCEPT !.phase = "detect", !.target = target])
    /\ UNCHANGED <<bpRules, bpCommits, bpHeads, bpRefs, bpPrs, bpPending, bpActs, bpNow>>

DetectCandidate(queue) ==
    /\ bpRuns[queue].phase = "detect"
    /\ SetRun(queue, [bpRuns[queue] EXCEPT !.phase =
        IF PrsFor(TargetOf(queue), bpRuns[queue].source) # {} THEN "review" ELSE "publish"])
    /\ UNCHANGED <<bpRules, bpCommits, bpHeads, bpRefs, bpPrs, bpPending, bpActs, bpNow>>

(* A ref of that name at another commit is deleted, which closes what was open *)
(* from it, and published anew.                                             *)
PublishRef(queue) ==
    LET run == bpRuns[queue]  target == TargetOf(queue)
        named == {ref \in bpRefs : ref.target = target /\ ref.name = run.source}
    IN
    /\ run.phase = "publish"
    /\ bpRefs' = (bpRefs \ named) \cup {[target |-> target, name |-> run.source, head |-> run.source]}
    /\ bpPrs' = {pr \in bpPrs : pr \in PrsFor(target, run.source) => pr.head = run.source}
    /\ SetRun(queue, [run EXCEPT !.phase = "open"])
    /\ UNCHANGED <<bpRules, bpCommits, bpHeads, bpPending, bpActs, bpNow>>

(* The body for staged meets the policy as it is written; the evidence pack    *)
(* for main is left for people.  Creation fails where one is open, or the      *)
(* service does; the ref then stays.                                        *)
OpenCandidatePr(queue) ==
    LET run == bpRuns[queue]  target == TargetOf(queue)
        pr == [target |-> target, name |-> run.source, head |-> run.source, base |-> run.target,
               complete |-> target = "staged", passed |-> FALSE]
    IN
    /\ run.phase = "open"
    /\ \/ /\ PrsFor(target, run.source) = {}
          /\ \E ref \in bpRefs : ref.target = target /\ ref.name = run.source
          /\ bpPrs' = bpPrs \cup {Checked(pr, bpCommits, bpHeads)}
          /\ SetRun(queue, [run EXCEPT !.phase = "review"])
       \/ SetRun(queue, NoRun) /\ UNCHANGED bpPrs
    /\ UNCHANGED <<bpRules, bpCommits, bpHeads, bpRefs, bpPending, bpActs, bpNow>>

(* A candidate whose source moved on is closed with its ref; one whose target   *)
(* did is left as it is.                                                    *)
ReviewCandidate(queue) ==
    LET run == bpRuns[queue]  target == TargetOf(queue)
        stale == PrsFor(target, run.source) # {} /\ bpHeads[SourceOf(queue)] # run.source
    IN
    /\ run.phase = "review"
    /\ bpPrs' = IF stale THEN bpPrs \ PrsFor(target, run.source) ELSE bpPrs
    /\ bpRefs' = IF stale THEN {ref \in bpRefs : ref.target # target \/ ref.name # run.source} ELSE bpRefs
    /\ SetRun(queue, NoRun)
    /\ UNCHANGED <<bpRules, bpCommits, bpHeads, bpPending, bpActs, bpNow>>

---------------------------------------------------------------------------
(* What people do with pull requests.                                       *)

OpenDirectPr(target) ==
    /\ PrsFor(target, NoCommit) = {} /\ Cardinality({pr \in bpPrs : pr.name = NoCommit}) < MaxDirectPrs
    /\ LET head == bpHeads[IF target = "staged" THEN "dev" ELSE "staged"]
           pr == [target |-> target, name |-> NoCommit, head |-> head, base |-> NoCommit,
                  complete |-> FALSE, passed |-> FALSE]
       IN /\ head \notin bpCommits[bpHeads[target]].past
          /\ bpPrs' = bpPrs \cup {Checked(pr, bpCommits, bpHeads)}
    /\ UNCHANGED <<bpRules, bpCommits, bpHeads, bpRefs, bpPending, bpRuns, bpActs, bpNow>>

(* Evidence is filled in, and the recorded base kept or brought up to date;    *)
(* every edit has the policy look at the pull request again.                *)
EditPr(pr) ==
    /\ \E base \in {pr.base, bpHeads[pr.target]} :
        bpPrs' = (bpPrs \ {pr}) \cup
            {Checked([pr EXCEPT !.complete = TRUE, !.base = IF pr.name = NoCommit THEN @ ELSE base],
                     bpCommits, bpHeads)}
    /\ bpPrs' # bpPrs
    /\ UNCHANGED <<bpRules, bpCommits, bpHeads, bpRefs, bpPending, bpRuns, bpActs, bpNow>>

(* A candidate for a commit of someone's choice.                             *)
OpenByHand(target, commits, name) ==
    /\ Acts /\ "refs" \notin bpRules
    /\ Len(commits) <= MaxCommits /\ PrsFor(target, name) = {}
    /\ bpCommits' = commits
    /\ bpRefs' = {ref \in bpRefs : ref.target # target \/ ref.name # name}
                    \cup {[target |-> target, name |-> name, head |-> name]}
    /\ bpPrs' = bpPrs \cup
            {Checked([target |-> target, name |-> name, head |-> name, base |-> bpHeads[target],
                      complete |-> FALSE, passed |-> FALSE], commits, bpHeads)}
    /\ UNCHANGED <<bpRules, bpHeads, bpPending, bpRuns, bpNow>>

MoveCandidate(pr, commits, head) ==
    /\ pr.name # NoCommit
    /\ bpCommits' = commits
    /\ bpRefs' = {IF ref.target = pr.target /\ ref.name = pr.name THEN [ref EXCEPT !.head = head] ELSE ref :
                    ref \in bpRefs}
    /\ bpPrs' = (bpPrs \ {pr}) \cup {Checked([pr EXCEPT !.head = head], commits, bpHeads)}
    /\ UNCHANGED <<bpRules, bpHeads, bpPending, bpRuns, bpNow>>

(* The button merges the target into the candidate's ref.                   *)
UpdateBranch(pr) ==
    LET made == NewCommit("candidate", pr.head, bpHeads[pr.target], NoCommit, "update") IN
    /\ Len(bpCommits) < MaxCommits /\ UNCHANGED bpActs
    /\ bpHeads[pr.target] \notin bpCommits[pr.head].past
    /\ MoveCandidate(pr, Append(bpCommits, made), Len(bpCommits) + 1)

PushCandidate(pr, head) ==
    /\ Acts /\ "refs" \notin bpRules /\ head # pr.head
    /\ MoveCandidate(pr, bpCommits, head)

MergePr(pr) ==
    /\ pr.target \in bpRules => pr.passed
    /\ UNCHANGED bpActs
    /\ NewTo(pr.target, pr.head)
    /\ \E commit \in Landings(pr.target, pr.head, "promotion") : MoveBranch(pr.target, commit, {pr})

(* An hour passes, after which the scheduled run is due.                    *)
BpTick ==
    /\ bpNow < MaxPromotionTime /\ bpNow' = bpNow + 1
    /\ bpPending' = [bpPending EXCEPT !["schedule"] = bpHeads["staged"]]
    /\ UNCHANGED <<bpRules, bpCommits, bpHeads, bpRefs, bpPrs, bpRuns, bpActs>>

BpNext ==
    \/ \E form \in {"ordinary", "agent", "dependabot", "promotion"}, checklist \in BOOLEAN :
        WorkLands(form, checklist)
    \/ \E head \in {NoCommit} \cup DOMAIN bpCommits :
        \/ \E branch \in {"dev", "staged"} : BackMerge(branch, head)
        \/ \E branch \in {"staged", "main"}, at \in 0 .. bpNow : LandUnchecked(branch, head, at)
    \/ \E head \in DOMAIN bpCommits :
        \/ ForceStaged(head)
        \/ \E target \in {"staged", "main"} : OpenByHand(target, bpCommits, head)
        \/ \E pr \in bpPrs : PushCandidate(pr, head)
    \/ \E commit \in Elsewhere, target \in {"staged", "main"} :
        OpenByHand(target, Append(bpCommits, commit), Len(bpCommits) + 1)
    \/ \E queue \in Queues :
        \/ StartRun(queue) \/ CaptureEvidence(queue) \/ DetectCandidate(queue)
        \/ PublishRef(queue) \/ OpenCandidatePr(queue) \/ ReviewCandidate(queue)
    \/ \E target \in {"staged", "main"} : OpenDirectPr(target)
    \/ \E pr \in bpPrs : EditPr(pr) \/ UpdateBranch(pr) \/ MergePr(pr)
    \/ BpTick

---------------------------------------------------------------------------
BpTypeOK ==
    /\ bpNow \in 0 .. MaxPromotionTime /\ Len(bpCommits) \in 1 .. MaxCommits
    /\ bpRules \subseteq Guards /\ bpActs \in 0 .. MaxActs[bpRules]
    /\ \A b \in DOMAIN bpHeads : bpHeads[b] \in DOMAIN bpCommits
    /\ \A pr \in bpPrs : pr.head \in DOMAIN bpCommits /\ pr.passed \in BOOLEAN
    /\ \A q \in Queues : bpRuns[q].phase \in {"none", "started", "detect", "publish", "open", "review"}

(* Where main requires the check, what came onto main brought a merge whose     *)
(* recorded time was past the dwell time.  Where staged does too and the refs     *)
(* are the workflow's, that merge was made on staged and really stayed there       *)
(* for the dwell time, whatever times others record; and what came onto staged     *)
(* was made on dev, unless it came as a back-merge, which may be anything.  Two     *)
(* runs never open one candidate twice.                                      *)
BpSound ==
    /\ \A c \in DOMAIN bpCommits :
        LET commit == bpCommits[c]  head == bpCommits[commit.from] IN
        /\ commit.on = "main" /\ commit.from # NoCommit /\ "main" \in bpRules =>
            /\ IsMerge(bpCommits, commit.from) /\ commit.made >= head.at + MinDwell
            /\ bpRules = Guards => head.on = "staged" /\ commit.made >= head.made + MinDwell
        /\ commit.on = "staged" /\ {"staged", "refs"} \subseteq bpRules =>
            commit.via = "back-merge" \/ (commit.via = "promotion" /\ head.on = "dev")
    /\ \A p, q \in bpPrs : p.target = q.target /\ p.name = q.name => p = q

(* No branch whose rules refuse it loses a commit, and a candidate of the       *)
(* workflow whose head was moved is not acceptable any more, however it is       *)
(* edited.                                                                  *)
BpFinal ==
    /\ \A b \in DOMAIN bpHeads : b # "staged" \/ "staged" \in bpRules =>
        bpCommits[bpHeads[b]].past \subseteq bpCommits'[bpHeads'[b]].past
    /\ "refs" \in bpRules => \A p \in bpPrs, q \in bpPrs' :
        p.target = q.target /\ p.name = q.name /\ p.name # NoCommit /\ p.head # p.name => ~q.passed
=============================================================================
