---------------------------- MODULE PropertyBags ----------------------------
(* The settings that decide which registry connection a project uses. A     *)
(* connection lives in a bag of the project (a local sidecar or the shared  *)
(* manifest), of the solution or of the user; the project's sidecar records *)
(* which one the user selected. Every operation of the selection opens the  *)
(* project's documents anew, changes them in memory and writes them back,   *)
(* with an await at each read and write; a host may also hold the bags of   *)
(* the manifest open. Secrets and names of connections are left out.        *)
EXTENDS Naturals, Sequences, SequencesExt

CONSTANTS
    Connections,       \* ids of connections
    Legacy,            \* the connections of the file that bags replaced, in order
    Override,          \* the connection an old solution names for this project
    ReadsFail,         \* a document may be unreadable for a moment
    LateEdits,         \* the host may edit the bags while it flushes them
    MaxBagSteps,       \* bound: operations, edits and restarts begun
    None

VARIABLES
    manifestDoc,       \* project.plexus: its bags, and how often its other fields changed
    localDoc,          \* project.local.json: its bags and the key of the selection
    solution,          \* the live bags of the solution, and its migration marker
    solutionDisk,      \* what solution.json holds of them
    located,           \* the solution has a place on disk
    globalBag,         \* the user's bags and marker, live
    globalDisk,        \*   and as last flushed
    legacy,            \* the old connections file is there
    held,              \* the bags of the manifest a host holds open, or None
    task,              \* the operation under way, or None
    picked,            \* history: the connection the user selected, or None
    fieldEdits,        \* history: completed changes of other manifest fields
    bagSteps

bagVars == <<manifestDoc, localDoc, solution, solutionDisk, located, globalBag,
             globalDisk, legacy, held, task, picked, fieldEdits, bagSteps>>

-----------------------------------------------------------------------------
(* Bags and addresses.                                                      *)

Has(bag, id) == \E i \in DOMAIN bag : bag[i].id = id
Put(bag, id, default) ==
    IF Has(bag, id)
    THEN [i \in DOMAIN bag |-> IF bag[i].id = id THEN [bag[i] EXCEPT !.default = default]
                                                 ELSE bag[i]]
    ELSE Append(bag, [id |-> id, default |-> default])
Drop(bag, id) == RemoveAt(bag, CHOOSE i \in DOMAIN bag : bag[i].id = id)

(* The key of an address: scope, project store, id.                         *)
Key(scope, store, id) == <<scope, store, id>>
Addressed(scope, store, bag) ==
    [i \in DOMAIN bag |-> [key |-> Key(scope, store, bag[i].id), id |-> bag[i].id,
                           default |-> bag[i].default]]

(* All connections visible from the project, nearest first.                 *)
Visible(local, shared, sol, glob) ==
    Addressed("project", "local", local) \o Addressed("project", "shared", shared)
        \o Addressed("solution", "none", sol) \o Addressed("global", "none", glob)

(* The connection in effect: the selected one if it is visible, else the    *)
(* nearest default. No two connections have one key.                        *)
EffectiveFor(key, conns) ==
    LET hits == {i \in DOMAIN conns : conns[i].key = key}
        defaults == {i \in DOMAIN conns : conns[i].default}
    IN IF hits # {} THEN conns[CHOOSE i \in hits : TRUE]
       ELSE IF defaults # {} THEN conns[Min(defaults)] ELSE None

(* The scope under which a selection is recorded. It names no project       *)
(* store, so no visible connection of the project has the key.              *)
ScopeOf(id, local, shared, sol) ==
    IF Has(local, id) \/ Has(shared, id) THEN "project"
    ELSE IF Has(sol, id) THEN "solution" ELSE "global"

HasMarker(owner) == owner.migrated

-----------------------------------------------------------------------------
Empty == [bags |-> <<>>, migrated |-> FALSE]
NoProject == [bags |-> <<>>, fields |-> 0]

BagsInit ==
    /\ manifestDoc = NoProject /\ localDoc = [bags |-> <<>>, key |-> None]
    /\ solution = Empty /\ solutionDisk = Empty /\ located \in BOOLEAN
    /\ globalBag = Empty /\ globalDisk = Empty /\ legacy \in BOOLEAN
    /\ held = None /\ task = None /\ picked = None /\ fieldEdits = 0 /\ bagSteps = 0

Begins == bagSteps < MaxBagSteps /\ bagSteps' = bagSteps + 1
Idle0 == task = None
Start(op, at, id) ==
    task' = [op |-> op, at |-> at, id |-> id, shared |-> <<>>, local |-> localDoc,
             read |-> manifestDoc]
At(at) == task # None /\ task.at = at
Wait(at) == task' = [task EXCEPT !.at = at]
End == task' = None

documents == <<manifestDoc, localDoc>>
owners == <<solution, solutionDisk, globalBag, globalDisk>>
placed == <<located, legacy>>

(* SetActiveConnectionFor and ClearActiveFor open the project's two         *)
(* documents; a host that adds a connection to the sidecar opens it alone.  *)
BeginSelection ==
    /\ Idle0 /\ Begins
    /\ \/ \E id \in Connections : Start("select", "openShared", id)
       \/ Start("clear", "openShared", None)
       \/ \E id \in Connections, on \in BOOLEAN :
             Start(IF on THEN "addDefault" ELSE "add", "openLocal", id)
    /\ UNCHANGED <<documents, owners, placed, held, picked, fieldEdits>>

OpenShared ==
    /\ At("openShared")
    /\ task' = [task EXCEPT !.at = "openLocal", !.shared = manifestDoc.bags]
    /\ UNCHANGED <<documents, owners, placed, held, picked, fieldEdits, bagSteps>>

(* The sidecar as the operation leaves it in memory.                        *)
Chosen(doc) ==
    CASE task.op = "select" ->
            [doc EXCEPT !.key = Key(ScopeOf(task.id, doc.bags, task.shared, solution.bags),
                                    "none", task.id)]
      [] task.op = "clear" -> IF doc.key = None THEN doc ELSE [doc EXCEPT !.key = "cleared"]
      [] task.op = "migrate" -> [doc EXCEPT !.key = Key("global", "none", Override)]
      [] OTHER -> [doc EXCEPT !.bags = Put(@, task.id, task.op = "addDefault")]

OpenLocal ==
    /\ At("openLocal")
    /\ IF task.op = "clear" /\ localDoc.key = None THEN End
       ELSE task' = [task EXCEPT !.at = "writeLocal", !.local = Chosen(localDoc)]
    /\ UNCHANGED <<documents, owners, placed, held, picked, fieldEdits, bagSteps>>

Stamp == solution' = [solution EXCEPT !.migrated = TRUE]

WriteLocal ==
    /\ At("writeLocal")
    /\ localDoc' = task.local
    /\ picked' = CASE task.op = "select" -> task.local.key
                   [] task.op = "clear" -> None
                   [] task.op = "migrate" /\ ~solutionDisk.migrated -> task.local.key
                   [] OTHER -> picked
    /\ IF task.op = "migrate" THEN Stamp /\ (IF located THEN Wait("save") ELSE End)
                              ELSE End /\ UNCHANGED solution
    /\ UNCHANGED <<manifestDoc, solutionDisk, globalBag, globalDisk, placed, held,
                   fieldEdits, bagSteps>>

(* SetSolutionDefault: one default in the solution, adopted from the user's  *)
(* connections when the solution does not have it.                          *)
OnlyDefault(bag, id) ==
    LET others == [i \in DOMAIN bag |-> [bag[i] EXCEPT !.default = bag[i].id = id]]
    IN Put(others, id, TRUE)

BeginDefault ==
    /\ Idle0 /\ Begins
    /\ \E id \in Connections :
          /\ solution' = [solution EXCEPT !.bags = OnlyDefault(@, id)]
          /\ IF located THEN Start("default", "save", id) ELSE UNCHANGED task
    /\ UNCHANGED <<documents, solutionDisk, globalBag, globalDisk, placed, held, picked,
                   fieldEdits>>

SaveSolution ==
    /\ At("save") /\ End
    /\ solutionDisk' = solution
    /\ UNCHANGED <<documents, solution, globalBag, globalDisk, placed, held, picked,
                   fieldEdits, bagSteps>>

(* MigrateSolution: the old choice of the project becomes a selection, then *)
(* the solution is marked.                                                  *)
BeginMigrate ==
    /\ Idle0 /\ Begins
    /\ ~HasMarker(solution)
    /\ Start("migrate", "openLocal", Override)
    /\ UNCHANGED <<documents, owners, placed, held, picked, fieldEdits>>

(* MigrateGlobal: the old connections file becomes bags of the user.         *)
BeginMigrateGlobal ==
    /\ Idle0 /\ Begins
    /\ ~HasMarker(globalBag) /\ legacy
    /\ Start("migrateGlobal", "readLegacy", None)
    /\ UNCHANGED <<documents, owners, placed, held, picked, fieldEdits>>

Lift(bag, conns) == FoldLeft(LAMBDA b, c : Put(b, c.id, c.default), bag, conns)

ReadLegacy ==
    /\ At("readLegacy") /\ Wait("flushGlobal")
    /\ \E ok \in {TRUE, ~ReadsFail} :
          globalBag' = [bags |-> IF ok THEN Lift(globalBag.bags, Legacy) ELSE globalBag.bags,
                        migrated |-> TRUE]
    /\ UNCHANGED <<documents, solution, solutionDisk, globalDisk, placed, held, picked,
                   fieldEdits, bagSteps>>

FlushGlobal ==
    /\ At("flushGlobal") /\ End
    /\ globalDisk' = globalBag
    /\ UNCHANGED <<documents, solution, solutionDisk, globalBag, placed, held, picked,
                   fieldEdits, bagSteps>>

(* References, version and name of a project are changed by reading the     *)
(* manifest and writing it back with one field replaced.                     *)
BeginField ==
    /\ Idle0 /\ Begins
    /\ held # None => held.at = "rest"
    /\ Start("field", "readManifest", None)
    /\ UNCHANGED <<documents, owners, placed, held, picked, fieldEdits>>

ReadManifest ==
    /\ At("readManifest")
    /\ task' = [task EXCEPT !.at = "writeManifest", !.read = manifestDoc]
    /\ UNCHANGED <<documents, owners, placed, held, picked, fieldEdits, bagSteps>>

WriteManifest ==
    /\ At("writeManifest") /\ End
    /\ manifestDoc' = [task.read EXCEPT !.fields = fieldEdits + 1]
    /\ fieldEdits' = fieldEdits + 1
    /\ UNCHANGED <<localDoc, owners, placed, held, picked, bagSteps>>

(* The host changes the bags of the solution or the user directly.           *)
EditOwner ==
    /\ Begins
    /\ \E id \in Connections :
          \/ /\ solution' = [solution EXCEPT !.bags =
                                IF Has(@, id) THEN Drop(@, id) ELSE Put(@, id, FALSE)]
             /\ UNCHANGED <<globalBag, globalDisk>>
          \/ /\ globalBag' = [globalBag EXCEPT !.bags =
                                IF Has(@, id) THEN Drop(@, id) ELSE Put(@, id, FALSE)]
             /\ globalDisk' = globalBag'
             /\ UNCHANGED solution
    /\ UNCHANGED <<documents, solutionDisk, placed, held, task, picked, fieldEdits>>

-----------------------------------------------------------------------------
(* A persister of the manifest's bags that a host holds.                     *)

OpenHeld ==
    /\ held = None /\ Begins
    /\ held' = [bags |-> manifestDoc.bags, dirty |-> FALSE, at |-> "rest",
                out |-> <<>>, read |-> manifestDoc]
    /\ UNCHANGED <<documents, owners, placed, task, picked, fieldEdits>>

EditHeld ==
    /\ held # None /\ Begins
    /\ LateEdits \/ held.at = "rest"
    /\ \E id \in Connections :
          held' = [held EXCEPT !.dirty = TRUE,
                      !.bags = IF Has(@, id) THEN Drop(@, id) ELSE Put(@, id, FALSE)]
    /\ UNCHANGED <<documents, owners, placed, task, picked, fieldEdits>>

(* Flush: the bags are serialized, the manifest is read again, and written  *)
(* with the bags replaced; then the persister is clean.                     *)
FlushHeld ==
    /\ held # None /\ held.at = "rest" /\ held.dirty
    /\ task # None => task.op # "field"
    /\ held' = [held EXCEPT !.at = "read", !.out = held.bags]
    /\ UNCHANGED <<documents, owners, placed, task, picked, fieldEdits, bagSteps>>

HeldReads ==
    /\ held # None /\ held.at = "read"
    /\ \E ok \in {TRUE, ~ReadsFail} :
          held' = [held EXCEPT !.at = "write", !.read = IF ok THEN manifestDoc ELSE NoProject]
    /\ UNCHANGED <<documents, owners, placed, task, picked, fieldEdits, bagSteps>>

(* A mutant: the manifest is written with the bags alone.                   *)
MergedAlone(read, out) == [bags |-> out, fields |-> 0]

Merged(read, out) == [read EXCEPT !.bags = out]

HeldWrites ==
    /\ held # None /\ held.at = "write"
    /\ manifestDoc' = Merged(held.read, held.out)
    /\ held' = [held EXCEPT !.at = "rest", !.dirty = FALSE]
    /\ UNCHANGED <<localDoc, owners, placed, task, picked, fieldEdits, bagSteps>>

(* The program stops; what was not written is gone.                         *)
StopAndStart ==
    /\ Begins
    /\ solution' = solutionDisk /\ globalBag' = globalDisk
    /\ task' = None /\ held' = None
    /\ UNCHANGED <<documents, solutionDisk, globalDisk, placed, picked, fieldEdits>>

BagsNext ==
    \/ BeginSelection \/ OpenShared \/ OpenLocal \/ WriteLocal
    \/ BeginDefault \/ SaveSolution
    \/ BeginMigrate \/ BeginMigrateGlobal \/ ReadLegacy \/ FlushGlobal
    \/ BeginField \/ ReadManifest \/ WriteManifest \/ EditOwner
    \/ OpenHeld \/ EditHeld \/ FlushHeld \/ HeldReads \/ HeldWrites
    \/ StopAndStart

-----------------------------------------------------------------------------
Bag == {s \in SeqOf([id : Connections, default : BOOLEAN], 2) :
            \A i, j \in DOMAIN s : s[i].id = s[j].id => i = j}

BagsTypeOK ==
    /\ manifestDoc.bags \in Bag /\ manifestDoc.fields \in Nat
    /\ localDoc.bags \in Bag
    /\ \A owner \in {solution, solutionDisk, globalBag, globalDisk} :
          owner.bags \in Bag /\ owner.migrated \in BOOLEAN
    /\ held # None => held.bags \in Bag /\ held.out \in Bag

Current == Visible(localDoc.bags, manifestDoc.bags, solution.bags, globalBag.bags)

(* The connection the user selected is the one in effect for as long as it  *)
(* is where it was, whatever was added, adopted, migrated or lost since.    *)
(* ScopeOf's keys of the project's own connections never match (README).    *)
ChosenIsUsed ==
    (picked # None /\ \E i \in DOMAIN Current : Current[i].key = picked)
        => EffectiveFor(localDoc.key, Current).key = picked

(* A persister at rest and clean has written what it holds.                 *)
CleanIsWritten ==
    (held # None /\ held.at = "rest" /\ ~held.dirty) => manifestDoc.bags = held.bags

(* A flush of the bags takes back no other change of the manifest.           *)
FieldsKept == manifestDoc.fields = fieldEdits

(* The solution has at most one default.                                    *)
OneDefault ==
    \A i, j \in DOMAIN solution.bags :
        solution.bags[i].default /\ solution.bags[j].default => i = j
=============================================================================
