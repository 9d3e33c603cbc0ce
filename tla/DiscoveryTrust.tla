----------------------------- MODULE DiscoveryTrust -----------------------------
(***************************************************************************)
(* What the agents of a swarm may be given of the repository                  *)
(* (scripts/agent-discovery.ts and agent-coordination.ts).  A discovery        *)
(* attests what it found; the deployment trusts one of them as its anchor; an  *)
(* allowlist is derived from a discovery that agrees with the anchor, context  *)
(* is packaged under an allowlist, and every later use of the snapshot names   *)
(* an allowlist, a discovery and an anchor again.  The repository, and what    *)
(* the deployment trusts, change between any two of these steps.             *)
(*                                                                           *)
(* A digest stands for what it is taken of, and a text for the content of a    *)
(* file.  A discovery is one step here: AgentDiscovery takes it apart.        *)
(***************************************************************************)
EXTENDS Integers, FiniteSetsExt, Functions

CONSTANTS
    Declared,       \* text of the manifest -> the [required, optional] contexts
    Enlisted,       \* text of the registry -> the paths of its active skills
    HiddenPaths,    \* declared paths with a hidden segment no convention names
    FirstTexts,     \* the repository: a function from paths to texts
    Overwrites,     \* [path, text]: what others write
    InputKeys,      \* the keys of task inputs
    Placements,     \* what a caller has to give: source -> the key it gives it under
    MaxOverwrites, MaxDerivations, MaxPackaged

ASSUME DiscoveryTrustAssumption ==
    /\ MaxOverwrites \in Nat /\ MaxDerivations \in Nat /\ MaxPackaged \in Nat
    /\ {"manifest", "registry"} \subseteq DOMAIN FirstTexts
    /\ FirstTexts \in [DOMAIN FirstTexts -> Range(FirstTexts)]
    /\ \A w \in Overwrites : w.path \in DOMAIN FirstTexts

VARIABLES
    dtTexts,        \* the repository
    dtOverwrites,   \* how often it was changed
    dtAnchor,       \* the discovery that the deployment trusts
    dtAllowlists,   \* the allowlists derived, each with the discovery it came from
    dtSnapshots     \* [allowlist, entries, missing, given]: the entries are
                    \* [key, source]; given is history: all that went in

dtVars == <<dtTexts, dtOverwrites, dtAnchor, dtAllowlists, dtSnapshots>>

---------------------------------------------------------------------------
AttestedFiles(texts, paths) == {[path |-> p, text |-> texts[p]] : p \in paths}

DiscoveryOf(texts, optional, skills) ==
    LET context == Declared[texts["manifest"]] IN
    [manifest |-> texts["manifest"], registry |-> texts["registry"],
     required |-> AttestedFiles(texts, context.required),
     optional |-> AttestedFiles(texts, IF optional THEN context.optional ELSE {}),
     skills |-> AttestedFiles(texts, skills)]

Discoveries(texts) ==
    {DiscoveryOf(texts, optional, skills) :
        optional \in BOOLEAN, skills \in SUBSET Enlisted[texts["registry"]] \ {{}}}

PathsOf(attested) == {x.path : x \in attested}

(* Discovery takes any path inside the root, the projection only what is not   *)
(* hidden.                                                                   *)
Projectable(d) == PathsOf(d.required \cup d.optional \cup d.skills) \cap HiddenPaths = {}

(* Whether a path is required, for each path that is found.                   *)
Projection(d) ==
    LET must == {"manifest", "registry"} \cup PathsOf(d.required) \cup PathsOf(d.skills) IN
    [p \in must \cup PathsOf(d.optional) |-> p \in must]

(* What is optional and what was selected may be less than what is trusted.   *)
Agrees(d, anchor) ==
    /\ d.manifest = anchor.manifest /\ d.registry = anchor.registry
    /\ d.required = anchor.required
    /\ d.optional \subseteq anchor.optional
    /\ d.skills \subseteq anchor.skills

(* A caller names the paths it wants and says itself which of them it requires; *)
(* the manifest and the registry are added to what it names.                 *)
Derived(d, anchor, wanted, inputs, requiredInputs) ==
    [paths |-> [p \in DOMAIN wanted \cup {"manifest", "registry"} |->
                    IF p \in DOMAIN wanted THEN wanted[p] ELSE Projection(d)[p]],
     inputs |-> inputs, requiredInputs |-> requiredInputs,
     anchor |-> anchor, discovery |-> d]

Derivable(d, anchor, wanted, inputs, requiredInputs) ==
    /\ Projectable(d) /\ Agrees(d, anchor)
    /\ DOMAIN wanted \subseteq DOMAIN Projection(d)
    /\ requiredInputs \subseteq inputs

(* validateAllowlistAgainstDiscovery derives the allowlist once more.         *)
Provenance(allowlist, d, anchor) ==
    /\ Derivable(d, anchor, allowlist.paths, allowlist.inputs, allowlist.requiredInputs)
    /\ allowlist = Derived(d, anchor, allowlist.paths, allowlist.inputs, allowlist.requiredInputs)

RequiredSources(allowlist) ==
    {p \in DOMAIN allowlist.paths : allowlist.paths[p]} \cup allowlist.requiredInputs

AllowedSources(allowlist) == DOMAIN allowlist.paths \cup allowlist.inputs

(* One entry is kept for each key; which of them SwarmContext tells.          *)
Keys(entries) == {e.key : e \in entries}

HeldSources(entries) == {e.source : e \in entries}

Resolutions(given) ==
    {kept \in SUBSET given : Keys(kept) = Keys(given) /\ \A e, f \in kept : e.key = f.key => e = f}

SnapshotOf(allowlist, entries, given) ==
    [allowlist |-> allowlist, entries |-> entries,
     missing |-> RequiredSources(allowlist) \ HeldSources(entries), given |-> given]

(* Nothing is refused for being missing: it must be said to be.               *)
ValidSnapshot(s, allowlist, d, anchor) ==
    /\ Provenance(allowlist, d, anchor)
    /\ HeldSources(s.entries) \subseteq AllowedSources(allowlist)
    /\ s.allowlist = allowlist
    /\ s.missing = RequiredSources(allowlist) \ HeldSources(s.entries)

---------------------------------------------------------------------------
DtInit ==
    /\ dtTexts = FirstTexts /\ dtOverwrites = 0
    /\ dtAnchor \in Discoveries(FirstTexts)
    /\ dtAllowlists = {} /\ dtSnapshots = {}

Overwrite(w) ==
    /\ dtOverwrites < MaxOverwrites /\ dtTexts[w.path] # w.text
    /\ dtTexts' = [dtTexts EXCEPT ![w.path] = w.text]
    /\ dtOverwrites' = dtOverwrites + 1
    /\ UNCHANGED <<dtAnchor, dtAllowlists, dtSnapshots>>

(* The deployment trusts what it finds now.                                  *)
BuildDiscoveryTrustAnchor(d) ==
    /\ dtAnchor' = d
    /\ UNCHANGED <<dtTexts, dtOverwrites, dtAllowlists, dtSnapshots>>

DeriveContextAllowlist(d, wanted, inputs, requiredInputs) ==
    /\ Cardinality(dtAllowlists) < MaxDerivations
    /\ Derivable(d, dtAnchor, wanted, inputs, requiredInputs)
    /\ dtAllowlists' = dtAllowlists \cup {Derived(d, dtAnchor, wanted, inputs, requiredInputs)}
    /\ UNCHANGED <<dtTexts, dtOverwrites, dtAnchor, dtSnapshots>>

(* Whoever makes a snapshot may let go of others.                            *)
KeepSnapshot(s) ==
    /\ \E kept \in SUBSET dtSnapshots :
        Cardinality(kept) < MaxPackaged /\ dtSnapshots' = kept \cup {s}
    /\ UNCHANGED <<dtTexts, dtOverwrites, dtAnchor, dtAllowlists>>

(* What is not allowed may not be given, and what is required must be kept.   *)
PackageUnder(allowlist, d, given) ==
    /\ Provenance(allowlist, d, dtAnchor)
    /\ HeldSources(given) \subseteq AllowedSources(allowlist)
    /\ \E entries \in Resolutions(given) :
        /\ RequiredSources(allowlist) \subseteq HeldSources(entries)
        /\ KeepSnapshot(SnapshotOf(allowlist, entries, given))

(* All snapshots of a merge are validated with one allowlist.  Where two        *)
(* sources came under one key, a source goes; the merge only says so.         *)
MergeUnder(r, s, d) ==
    /\ ValidSnapshot(r, r.allowlist, d, dtAnchor) /\ ValidSnapshot(s, r.allowlist, d, dtAnchor)
    /\ \E entries \in Resolutions(r.entries \cup s.entries) :
        KeepSnapshot(SnapshotOf(r.allowlist, entries, r.given \cup s.given))

(* A discovery may be kept and used later than it was made.                   *)
KeptDiscoveries == {a.discovery : a \in dtAllowlists} \cup {dtAnchor}

DtNext ==
    \/ \E w \in Overwrites : Overwrite(w)
    \/ \E d \in Discoveries(dtTexts) : BuildDiscoveryTrustAnchor(d)
    \/ \E d \in Discoveries(dtTexts) \cup KeptDiscoveries :
        \E wanted \in {Projection(d), [p \in PathsOf(d.required) \cup {"manifest"} |-> FALSE]},
           requiredInputs \in SUBSET InputKeys :
            DeriveContextAllowlist(d, wanted, InputKeys, requiredInputs)
    \/ \E allowlist \in dtAllowlists, d \in Discoveries(dtTexts) \cup KeptDiscoveries :
        \E place \in Placements :
            PackageUnder(allowlist, d,
                {[key |-> place[p], source |-> p] : p \in DOMAIN place \cap AllowedSources(allowlist)})
    \/ \E r, s \in dtSnapshots, d \in Discoveries(dtTexts) \cup KeptDiscoveries : MergeUnder(r, s, d)

---------------------------------------------------------------------------
(* Every variable has its type. *)
DtTypeOK ==
    /\ dtTexts \in [DOMAIN FirstTexts -> Range(FirstTexts) \cup {w.text : w \in Overwrites}]
    /\ dtOverwrites \in 0 .. MaxOverwrites
    /\ Cardinality(dtAllowlists) <= MaxDerivations
    /\ \A s \in dtSnapshots : s.allowlist \in dtAllowlists

StillUsable(s, anchor) == \E d \in Discoveries(dtTexts) \cup KeptDiscoveries : ValidSnapshot(s, s.allowlist, d, anchor)

(* However a snapshot that can still be used was packaged and merged, it has    *)
(* an entry for each key that was ever given and says rightly what required      *)
(* sources it lacks; each of them was given once, and went only because the      *)
(* same key was given with another source, which is in its place.  (A merge      *)
(* resolves by key and refuses nothing that is missing.)  Each file in it is      *)
(* one that the anchor trusts, discovered with the very content that is          *)
(* trusted and not hidden; what the allowlist can ever give is no more than        *)
(* the anchor, and has the manifest and the registry.                        *)
DtSound ==
    \A s \in dtSnapshots : StillUsable(s, dtAnchor) =>
        LET found == s.allowlist.discovery
            trusted == dtAnchor.required \cup dtAnchor.optional \cup dtAnchor.skills
        IN
        /\ Keys(s.entries) = Keys(s.given)
        /\ s.missing = RequiredSources(s.allowlist) \ HeldSources(s.entries)
        /\ \A p \in s.missing : \E g \in s.given, h \in s.entries :
            g.source = p /\ g.key = h.key
        /\ \A p \in HeldSources(s.entries) \ (InputKeys \cup {"manifest", "registry"}) :
            /\ \E x \in trusted : x.path = p /\ x \in found.required \cup found.optional \cup found.skills
            /\ p \notin HiddenPaths
        /\ DOMAIN s.allowlist.paths \subseteq DOMAIN Projection(dtAnchor)
        /\ {"manifest", "registry"} \subseteq DOMAIN s.allowlist.paths

(* Trust moves as a whole: when the deployment trusts something else, no        *)
(* snapshot that could be used remains usable.                               *)
DtFinal ==
    dtAnchor' # dtAnchor =>
        \A s \in dtSnapshots : StillUsable(s, dtAnchor) => ~StillUsable(s, dtAnchor')
=============================================================================
