------------------------------ MODULE AgentDiscovery ------------------------------
(***************************************************************************)
(* Repository discovery for agents: one call finds the manifest, inspects     *)
(* every context file it declares, reads them, inspects and reads the skill   *)
(* registry, inspects every skill and reads the selected ones.  Each file is   *)
(* looked at by a call of its own, and the repository may change between two.  *)
(* The text of a file is a value; a manifest or registry is what it declares. *)
(***************************************************************************)
EXTENDS Integers, Sequences, FiniteSets

CONSTANTS
    FirstDisk,          \* the repository at the beginning: a function of paths
    DiskChanges,        \* the changes others make: pairs of a path and its new file
    SkillRequests,      \* what callers ask for: records of skills and includeOptional
    MaxDiskChanges      \* bound on the changes

Listed(list) == Len(list) \in Nat /\ DOMAIN list = 1 .. Len(list)

(* A file is [kind, is]: what stands at its path, and what its text says; a     *)
(* manifest lists entries, a registry skills.                               *)
Legible(file) ==
    /\ file.is.form = "manifest" => Listed(file.is.entries)
    /\ file.is.form = "registry" => Listed(file.is.skills)

ASSUME DiscoveryAssumption ==
    /\ MaxDiskChanges \in Nat
    /\ {"manifest", "registry"} \subseteq DOMAIN FirstDisk
    /\ \A path \in DOMAIN FirstDisk : Legible(FirstDisk[path])
    /\ \A change \in DiskChanges : change.path \in DOMAIN FirstDisk /\ Legible(change.file)
    /\ \A request \in SkillRequests : Listed(request.skills)

VARIABLES
    dsDisk,     \* the repository
    dsChanges,  \* how often it was changed
    dsCall,     \* the call under way and what it has gathered
    dsPast      \* the repositories it has met, for the properties

dsVars == <<dsDisk, dsChanges, dsCall, dsPast>>

Idle == [phase |-> "idle", request |-> [skills |-> <<>>, chosen |-> FALSE, optional |-> FALSE],
         manifest |-> <<>>, present |-> <<>>, contexts |-> {}, warnings |-> {},
         registry |-> <<>>, found |-> <<>>, skills |-> {}, done |-> 0]

DsInit == dsDisk = FirstDisk /\ dsChanges = 0 /\ dsCall = Idle /\ dsPast = {}

---------------------------------------------------------------------------
(* What the parsers ask of a manifest: of the supported major version,        *)
(* priorities that ascend through required and optional entries, no path       *)
(* twice, and the instructions among the required ones.                     *)
ParsedManifest(file) ==
    /\ file.is.form = "manifest" /\ file.is.supported
    /\ LET entries == file.is.entries IN
        /\ \A m, n \in DOMAIN entries : m < n =>
            /\ entries[m].path # entries[n].path
            /\ entries[m].priority < entries[n].priority
            /\ entries[n].required => entries[m].required
        /\ \E n \in DOMAIN entries : entries[n].required /\ entries[n].path = "instructions"

ParsedSkill(skill) == skill.default => skill.status = "active"

ParsedRegistry(file) ==
    /\ file.is.form = "registry"
    /\ LET skills == file.is.skills IN
        /\ \A n \in DOMAIN skills : ParsedSkill(skills[n])
        /\ \A m, n \in DOMAIN skills : skills[m].id = skills[n].id \/ skills[m].path = skills[n].path => m = n
        /\ \E n \in DOMAIN skills : skills[n].default

(* inspectDeclaredFile refuses a path that leaves the root, what is no file,   *)
(* and a missing file that is required.                                     *)
Inspectable(file, required) == file.kind = "file" \/ (file.kind = "missing" /\ ~required)

(* A read follows what stands at the path by then, wherever it leads.         *)
GivesText(file) == file.kind \in {"file", "outside"}

(* A skill file must name the skill that the registry says it is.            *)
ParsedFrontmatter(file, id) == file.is.form = "skill" /\ file.is.name = id

---------------------------------------------------------------------------
Advance(call) == dsCall' = call /\ UNCHANGED <<dsDisk, dsChanges, dsPast>>

FailDiscovery == Advance([dsCall EXCEPT !.phase = "failed"])

FindRepository(request) ==
    /\ dsCall.phase \in {"idle", "done", "failed"}
    /\ dsCall' = [Idle EXCEPT !.request = request,
                              !.phase = IF dsDisk["manifest"].kind = "file" THEN "manifest" ELSE "failed"]
    /\ dsPast' = {dsDisk}
    /\ UNCHANGED <<dsDisk, dsChanges>>

ReadManifest ==
    /\ dsCall.phase = "manifest"
    /\ IF GivesText(dsDisk["manifest"]) /\ ParsedManifest(dsDisk["manifest"])
       THEN Advance([dsCall EXCEPT !.phase = "inspect", !.manifest = dsDisk["manifest"].is.entries])
       ELSE FailDiscovery

InspectContext ==
    /\ dsCall.phase = "inspect"
    /\ LET n == Len(dsCall.present) + 1 IN
        IF n > Len(dsCall.manifest)
        THEN Advance([dsCall EXCEPT !.phase = "read", !.done = 0])
        ELSE LET entry == dsCall.manifest[n] IN
            IF Inspectable(dsDisk[entry.path], entry.required)
            THEN Advance([dsCall EXCEPT !.present = Append(@, dsDisk[entry.path].kind = "file")])
            ELSE FailDiscovery

(* The required files come first, as they do in the manifest.  A file that    *)
(* was there when it was inspected is read as what is there now.            *)
ReadContext ==
    /\ dsCall.phase = "read"
    /\ LET n == dsCall.done + 1 IN
        IF n > Len(dsCall.manifest)
        THEN Advance([dsCall EXCEPT !.phase = "registry", !.done = 0])
        ELSE LET entry == dsCall.manifest[n]
                 file == dsDisk[entry.path]
             IN
             CASE ~entry.required /\ ~dsCall.present[n] ->
                    Advance([dsCall EXCEPT !.done = n, !.warnings = @ \cup {entry.path}])
               [] ~entry.required /\ dsCall.present[n] /\ ~dsCall.request.optional ->
                    Advance([dsCall EXCEPT !.done = n])
               [] OTHER ->
                    IF GivesText(file)
                    THEN Advance([dsCall EXCEPT !.done = n,
                            !.contexts = @ \cup {[path |-> entry.path, text |-> file.is]}])
                    ELSE FailDiscovery

InspectRegistry ==
    /\ dsCall.phase = "registry"
    /\ IF Inspectable(dsDisk["registry"], TRUE)
       THEN Advance([dsCall EXCEPT !.phase = "parse"])
       ELSE FailDiscovery

ReadRegistry ==
    /\ dsCall.phase = "parse"
    /\ IF GivesText(dsDisk["registry"]) /\ ParsedRegistry(dsDisk["registry"])
       THEN Advance([dsCall EXCEPT !.phase = "skills", !.registry = dsDisk["registry"].is.skills])
       ELSE FailDiscovery

InspectSkill ==
    /\ dsCall.phase = "skills"
    /\ LET n == Len(dsCall.found) + 1 IN
        IF n > Len(dsCall.registry)
        THEN Advance([dsCall EXCEPT !.phase = "select"])
        ELSE LET file == dsDisk[dsCall.registry[n].path] IN
            IF Inspectable(file, FALSE)
            THEN Advance([dsCall EXCEPT !.found = Append(@, file.kind = "file")])
            ELSE FailDiscovery

(* The skills marked as default, in the order of the registry.                *)
DefaultSkills(registry) ==
    LET chosen == {k \in DOMAIN registry : registry[k].status = "active" /\ registry[k].default}
        Nth(m) == CHOOSE k \in chosen : Cardinality({j \in chosen : j <= k}) = m
    IN [m \in 1 .. Cardinality(chosen) |-> registry[Nth(m)].id]

SelectedIds(registry, request) == IF request.chosen THEN request.skills ELSE DefaultSkills(registry)

(* The selection is refused as a whole when it names a skill twice; then the   *)
(* selected skills are checked and read one after another.                  *)
ReadSkill ==
    /\ dsCall.phase = "select"
    /\ LET ids == SelectedIds(dsCall.registry, dsCall.request)
           n == dsCall.done + 1
       IN
       IF \/ \E k, m \in DOMAIN ids : k # m /\ ids[k] = ids[m]
          \/ ids = <<>>
       THEN FailDiscovery
       ELSE IF n > Len(ids) THEN Advance([dsCall EXCEPT !.phase = "done"])
       ELSE IF \E k \in DOMAIN dsCall.registry :
                 LET skill == dsCall.registry[k]  file == dsDisk[skill.path] IN
                 /\ skill.id = ids[n] /\ skill.status = "active" /\ dsCall.found[k]
                 /\ GivesText(file) /\ ParsedFrontmatter(file, ids[n])
            THEN Advance([dsCall EXCEPT !.done = n, !.skills = @ \cup {ids[n]}])
            ELSE FailDiscovery

ChangeDisk ==
    /\ dsChanges < MaxDiskChanges
    /\ \E change \in DiskChanges :
        /\ dsDisk[change.path] # change.file
        /\ dsDisk' = [dsDisk EXCEPT ![change.path] = change.file]
    /\ dsChanges' = dsChanges + 1
    /\ dsPast' = dsPast \cup {dsDisk'}
    /\ UNCHANGED dsCall

DsNext ==
    \/ \E request \in SkillRequests : FindRepository(request)
    \/ ReadManifest \/ InspectContext \/ ReadContext
    \/ InspectRegistry \/ ReadRegistry \/ InspectSkill \/ ReadSkill
    \/ ChangeDisk

---------------------------------------------------------------------------
(* What a repository that stays as it is must answer, without any steps.     *)

DeclaredEntries(disk) == disk["manifest"].is.entries

SkillsOf(disk) == disk["registry"].is.skills

Discoverable(disk, request) ==
    /\ disk["manifest"].kind = "file" /\ ParsedManifest(disk["manifest"])
    /\ disk["registry"].kind = "file" /\ ParsedRegistry(disk["registry"])
    /\ \A n \in DOMAIN DeclaredEntries(disk) : Inspectable(disk[DeclaredEntries(disk)[n].path], DeclaredEntries(disk)[n].required)
    /\ \A n \in DOMAIN SkillsOf(disk) : Inspectable(disk[SkillsOf(disk)[n].path], FALSE)
    /\ LET ids == SelectedIds(SkillsOf(disk), request) IN
        /\ ids # <<>> /\ \A k, m \in DOMAIN ids : ids[k] = ids[m] => k = m
        /\ \A n \in DOMAIN ids : \E k \in DOMAIN SkillsOf(disk) :
            LET skill == SkillsOf(disk)[k] IN
            /\ skill.id = ids[n] /\ skill.status = "active"
            /\ disk[skill.path].kind = "file" /\ ParsedFrontmatter(disk[skill.path], ids[n])

Described(disk, request) ==
    LET entries == DeclaredEntries(disk)
        there(n) == disk[entries[n].path].kind = "file"
        ids == SelectedIds(SkillsOf(disk), request)
    IN
    [contexts |-> {[path |-> entries[n].path, text |-> disk[entries[n].path].is] :
                    n \in {n \in DOMAIN entries : there(n) /\ (entries[n].required \/ request.optional)}},
     warnings |-> {entries[n].path : n \in {n \in DOMAIN entries : ~there(n)}},
     skills |-> {ids[n] : n \in DOMAIN ids}]

DsTypeOK ==
    /\ dsCall.phase \in {"idle", "manifest", "inspect", "read", "registry", "parse", "skills", "select",
                         "done", "failed"}
    /\ dsChanges \in 0 .. MaxDiskChanges
    /\ Cardinality(dsPast) <= MaxDiskChanges + 1

(* A repository that did not change answers what it describes, and only when    *)
(* it can; one that did has every required file of the manifest that was read,  *)
(* each as it stood at some moment of the call and as a file of the root at     *)
(* one, warns only of files it does not return, and returns skills that were    *)
(* active in the registry that was read.                                     *)
DsSound ==
    dsCall.phase = "done" =>
        /\ dsPast = {dsDisk} =>
            /\ Discoverable(dsDisk, dsCall.request)
            /\ Described(dsDisk, dsCall.request) =
                [contexts |-> dsCall.contexts, warnings |-> dsCall.warnings, skills |-> dsCall.skills]
        /\ \A n \in DOMAIN dsCall.manifest : dsCall.manifest[n].required =>
            \E c \in dsCall.contexts : c.path = dsCall.manifest[n].path
        /\ \A c \in dsCall.contexts :
            /\ \E disk \in dsPast : disk[c.path].is = c.text
            /\ \E disk \in dsPast : disk[c.path].kind = "file"
            /\ c.path \notin dsCall.warnings
        /\ \A id \in dsCall.skills : \E n \in DOMAIN dsCall.registry :
            dsCall.registry[n].id = id /\ dsCall.registry[n].status = "active"

(* A call fails on a repository that stays as it is only when it cannot be     *)
(* described, and what a call has gathered it does not lose.                *)
DsFinal ==
    /\ dsCall'.phase = "failed" /\ dsCall.phase # "failed" /\ dsPast' = {dsDisk'} =>
        ~Discoverable(dsDisk', dsCall'.request)
    /\ dsCall'.phase \notin {"manifest", "failed"} =>
        /\ dsCall.contexts \subseteq dsCall'.contexts /\ dsCall.warnings \subseteq dsCall'.warnings
        /\ dsCall.skills \subseteq dsCall'.skills
=============================================================================
