------------------------------ MODULE KnowledgeBase ------------------------------
(***************************************************************************)
(* The knowledge store of scripts/kb: a graph of entries and relations that a *)
(* script loads when it starts and saves in full after every change.  The      *)
(* workflow runs its scripts one after the other, but nothing keeps two that   *)
(* are started by hand from sharing the file, or one from ending while it       *)
(* writes.                                                                   *)
(***************************************************************************)
EXTENDS Integers, FiniteSets

CONSTANTS
    KnowledgeIds,       \* identifiers of entries, generated or fixed
    Confidences,        \* what tells two entries of an identifier apart
    KbScripts,          \* processes
    MaxKnowledge        \* bound on the changes

ASSUME KnowledgeAssumption == MaxKnowledge \in Nat

VARIABLES
    kbFile,         \* .knowledge-store.json: a graph, NoGraph or TornFile
    kbGraph,        \* per script, its copy, or NoGraph when it does not run
    kbChanges,      \* counts the changes
    kbShared        \* history: two scripts ran at once

kbVars == <<kbFile, kbGraph, kbChanges, kbShared>>

(* A graph carries the identifiers that were added while they were known,     *)
(* which the code does not record.                                          *)
CreateEmpty == [entries |-> <<>>, relations |-> <<>>, version |-> 1, rewritten |-> {}]

NoGraph == [version |-> 0]

TornFile == [version |-> -1]

IsGraph(g) == g.version > 0

KbInit ==
    /\ kbFile = NoGraph
    /\ kbGraph = [s \in KbScripts |-> NoGraph]
    /\ kbChanges = 0 /\ kbShared = FALSE

ScriptRuns(s) == IsGraph(kbGraph[s])

LoadGraph == IF IsGraph(kbFile) THEN kbFile ELSE CreateEmpty

StartScript(s) ==
    /\ ~ScriptRuns(s)
    /\ kbGraph' = [kbGraph EXCEPT ![s] = LoadGraph]
    /\ kbShared' = (kbShared \/ \E t \in KbScripts : ScriptRuns(t))
    /\ UNCHANGED <<kbFile, kbChanges>>

EndScript(s) ==
    /\ ScriptRuns(s)
    /\ kbGraph' = [kbGraph EXCEPT ![s] = NoGraph]
    /\ UNCHANGED <<kbFile, kbChanges, kbShared>>

---------------------------------------------------------------------------
Extended(f, x, v) == [y \in DOMAIN f \cup {x} |-> IF y = x THEN v ELSE f[y]]

Restrained(f, x) == [y \in DOMAIN f \ {x} |-> f[y]]

GraphWith(g, id, confidence) ==
    [entries |-> Extended(g.entries, id, confidence), relations |-> Extended(g.relations, id, {}),
     version |-> g.version + 1,
     rewritten |-> IF id \in DOMAIN g.relations THEN g.rewritten \cup {id} ELSE g.rewritten]

(* Related entries that are not known yet get relations all the same.         *)
Related(g, id, related) ==
    LET linked == Extended(g.relations, id, related) IN
    [g EXCEPT !.relations =
        [x \in DOMAIN linked \cup related |->
            (IF x \in DOMAIN linked THEN linked[x] ELSE {}) \cup (IF x \in related THEN {id} ELSE {})]]

GraphUpdated(g, id, confidence) == [g EXCEPT !.entries[id] = confidence, !.version = @ + 1]

GraphWithout(g, id) ==
    [entries |-> Restrained(g.entries, id),
     relations |-> [x \in DOMAIN g.relations \ {id} |-> g.relations[x] \ {id}],
     version |-> g.version + 1, rewritten |-> g.rewritten \ {id}]

(* A change saves the graphs it comes through, in this order.  The script may  *)
(* end while it writes one of them.                                         *)
SaveChange(s, first, last) ==
    /\ ScriptRuns(s) /\ kbChanges < MaxKnowledge
    /\ kbChanges' = kbChanges + 1
    /\ \/ kbFile' = last /\ kbGraph' = [kbGraph EXCEPT ![s] = last]
       \/ kbFile' \in {TornFile, first} /\ kbGraph' = [kbGraph EXCEPT ![s] = NoGraph]
    /\ UNCHANGED kbShared

AddEntry(s, id, confidence) ==
    LET g == GraphWith(kbGraph[s], id, confidence) IN ScriptRuns(s) /\ SaveChange(s, g, g)

AddWithRelation(s, id, confidence, related) ==
    LET g == GraphWith(kbGraph[s], id, confidence) IN ScriptRuns(s) /\ SaveChange(s, g, Related(g, id, related))

UpdateEntry(s, id, confidence) ==
    LET g == GraphUpdated(kbGraph[s], id, confidence) IN
    ScriptRuns(s) /\ id \in DOMAIN kbGraph[s].entries /\ SaveChange(s, g, g)

RemoveEntry(s, id) ==
    LET g == GraphWithout(kbGraph[s], id) IN ScriptRuns(s) /\ SaveChange(s, g, g)

(* The graph that another script has exported replaces the own.              *)
ImportGraph(s, t) == ScriptRuns(s) /\ ScriptRuns(t) /\ SaveChange(s, kbGraph[t], kbGraph[t])

KbNext ==
    \E s \in KbScripts :
        \/ StartScript(s) \/ EndScript(s)
        \/ \E id \in KnowledgeIds :
            \/ RemoveEntry(s, id)
            \/ \E c \in Confidences :
                \/ AddEntry(s, id, c) \/ UpdateEntry(s, id, c)
                \/ \E related \in SUBSET KnowledgeIds \ {{}} : AddWithRelation(s, id, c, related)
        \/ \E t \in KbScripts \ {s} : ImportGraph(s, t)

---------------------------------------------------------------------------
GetRelated(g, id) == IF id \in DOMAIN g.relations THEN g.relations[id] \cap DOMAIN g.entries ELSE {}

KbTypeOK ==
    /\ \A g \in {kbFile} \cup {kbGraph[s] : s \in KbScripts} : IsGraph(g) =>
        /\ g.entries \in [DOMAIN g.entries -> Confidences] /\ DOMAIN g.entries \subseteq KnowledgeIds
        /\ g.relations \in [DOMAIN g.relations -> SUBSET KnowledgeIds]
        /\ DOMAIN g.relations \subseteq KnowledgeIds /\ g.rewritten \subseteq KnowledgeIds
    /\ kbChanges \in 0 .. MaxKnowledge /\ kbShared \in BOOLEAN

(* Every entry has its relations, and a relation goes both ways, but for an     *)
(* entry that was added over itself and forgot its own.  While scripts ran one  *)
(* after the other, a script that has changed something holds what the file      *)
(* holds.                                                                    *)
KbSound ==
    /\ \A g \in {kbFile} \cup {kbGraph[s] : s \in KbScripts} : IsGraph(g) =>
        /\ DOMAIN g.entries \subseteq DOMAIN g.relations
        /\ \A a \in DOMAIN g.relations : \A b \in g.relations[a] :
            b \in DOMAIN g.relations /\ (b \in g.rewritten \/ a \in g.relations[b])
        /\ \A a, b \in DOMAIN g.entries \ g.rewritten : b \in GetRelated(g, a) <=> a \in GetRelated(g, b)
    /\ ~kbShared => \A s \in KbScripts : ScriptRuns(s) =>
        kbGraph[s] = IF IsGraph(kbFile) THEN kbFile ELSE CreateEmpty

(* While scripts ran one after the other, the version of the file goes back     *)
(* only when a script ended in the middle of a write, and an entry leaves a       *)
(* whole file only when a script removed it.                                 *)
KbFinal ==
    ~kbShared' /\ IsGraph(kbFile) /\ IsGraph(kbFile') =>
        /\ kbFile'.version >= kbFile.version
        /\ \A id \in DOMAIN kbFile.entries \ DOMAIN kbFile'.entries : kbFile' = GraphWithout(kbFile, id)
=============================================================================
