----------------------------- MODULE MCWorkspace -----------------------------
(* A workspace, one part of it at a time: a behaviour opens, edits and saves *)
(* solutions, or watches the files of one project, or changes the files of   *)
(* one member, or keeps settings in its bags, or generates its files.         *)
EXTENDS SolutionManager, TLC

CONSTANTS
    Subjects, c1, c2,
    Segments, MaxDepth, Inodes, Sinks, Hidden, MaxChanges, MaxObserves, Overlaps,
    OpsInodes, Starts, Variants, Bad, MaxCalls, MaxSteps,
    Connections, Legacy, Override, ReadsFail, LateEdits, MaxBagSteps,
    MaxLifeSteps,
    n1, n2, k1, k2

VARIABLES
    subject,
    drive, tree, feed, loads, stats, disposed, changes, observes, identity,
    files, editors, calls, removed, steps,
    manifestDoc, localDoc, solution, solutionDisk, located, globalBag, globalDisk,
    legacy, held, task, picked, fieldEdits, bagSteps,
    references, texts, content, member, session, subscribers, life, ui, excused,
    late, lifeSteps

observing == <<drive, tree, feed, loads, stats, disposed, changes, observes, identity>>
operating == <<files, editors, calls, removed, steps>>
keeping == <<manifestDoc, localDoc, solution, solutionDisk, located, globalBag,
             globalDisk, legacy, held, task, picked, fieldEdits, bagSteps>>
living == <<references, texts, content, member, session, subscribers, life, ui,
            excused, late, lifeSteps>>

(* Two projects in one folder, of which one has a type nobody knows. *)
InFolder == {<<"f1", "a">>, <<"f1", "b">>}
OneType == [p \in InFolder |-> IF p[2] = "b" THEN "exotic" ELSE "architecture"]
(* A project beside the folder of the solution. *)
Elsewhere1 == {<<"f1", "a">>, <<"p", "b">>}
TypesElsewhere == [p \in Elsewhere1 |-> "architecture"]

(* On a solution without members: every call under two names, calls and     *)
(* restarts under one, and two calls at a time; and every call on members.  *)
Replacing == {"new", "untitled", "open", "close", "restore"}
SolutionMixes == {Replacing \cup {"name", "edit", "save", "saveAs", "rename"},
                  Replacing \cup {"edit", "save", "saveAs", "restart"},
                  {"overlap", "restart", "new", "open", "close", "restore", "save"},
                  {"new", "open", "restore", "openProject", "closeProject", "save"}}
AbsoluteMixes == {Replacing \cup {"save", "saveAs", "openProject"}}

File(i) == [ino |-> i, dir |-> FALSE]
Folder(i) == [ino |-> i, dir |-> TRUE]

(* A project with its manifest and a folder, and one of two files.           *)
ProjectDisks ==
    {(<<"h">> :> File(1)) @@ (<<"a">> :> Folder(2)) @@ (<<"a", "b">> :> File(3)),
     (<<"a">> :> File(2)) @@ (<<"b">> :> File(3))}
MemberDisks == {(<<"a">> :> Folder(1)) @@ (<<"a", "b">> :> File(2)) @@ (<<"b">> :> File(3))}
Copies == ("a" :> <<"a", "h">>) @@ ("b" :> <<"b", "h">>) @@ ("h" :> <<"h", "b">>)

(* The user's connections before there were bags.                            *)
OldConnections == <<[id |-> k1, default |-> TRUE], [id |-> k2, default |-> FALSE]>>

Store == INSTANCE ContentStore
            WITH Names <- Segments, Seeds <- ProjectDisks, disk <- drive
Ops == INSTANCE MemberContentOps
            WITH Names <- Segments, Inodes <- OpsInodes
Settings == INSTANCE PropertyBags
Life == INSTANCE ProjectLife

(* A disk holds the folders of whatever it holds, a name has a variant, and  *)
(* no value is none of the values it stands beside: a version, a moment of    *)
(* a generation of views, a lifecycle call.                                  *)
ASSUME DisksAssumption ==
    \A d \in Starts :
        /\ IsFiniteSet(DOMAIN d) /\ DOMAIN d \subseteq Seq(Segments) \ {<<>>}
        /\ \A p \in DOMAIN d : \A n \in 1 .. Len(p) : SubSeq(p, 1, n) \in DOMAIN d
ASSUME VariantsAssumption == Variants \in [Segments -> Seq(Segments) \ {<<>>}]
ASSUME NoneAssumption ==
    /\ None \notin Nat
    /\ None \notin {"checkViews", "writeViews", "checkApp", "checkMain", "checkMainOnly",
                    "writeApp", "writeMain"}
    /\ None \notin Life!LifeCalls

NoSolutions ==
    /\ disk = None /\ sols = None /\ active = None /\ recent = None /\ last = None
    /\ call = [c \in Calls |-> Idle] /\ features = {}
    /\ stored = None /\ edits = None /\ started = None
NoTree ==
    /\ drive = None /\ tree = None /\ feed = None /\ loads = None /\ stats = None
    /\ disposed = None /\ changes = None /\ observes = None /\ identity = None
NoCalls == files = <<>> /\ editors = None /\ calls = {} /\ removed = {} /\ steps = None
NoSettings ==
    /\ manifestDoc = None /\ localDoc = None /\ solution = None /\ solutionDisk = None
    /\ located = None /\ globalBag = None /\ globalDisk = None /\ legacy = None
    /\ held = None /\ task = None /\ picked = None /\ fieldEdits = None /\ bagSteps = None
NoLife ==
    /\ references = None /\ texts = None /\ content = None /\ member = None
    /\ session = None /\ subscribers = None /\ life = None /\ ui = None
    /\ excused = None /\ late = None /\ lifeSteps = None

WorkspaceInit ==
    /\ subject \in Subjects
    /\ IF subject = "solutions" THEN Init ELSE NoSolutions
    /\ IF subject = "tree" THEN Store!StoreInit ELSE NoTree
    /\ IF subject = "calls" THEN Ops!OpsInit ELSE NoCalls
    /\ IF subject = "settings" THEN Settings!BagsInit ELSE NoSettings
    /\ IF subject = "life" THEN Life!LifeInit ELSE NoLife

Manage ==
    subject = "solutions" /\ Next /\ UNCHANGED <<subject, observing, operating, keeping, living>>
Watch ==
    subject = "tree" /\ Store!StoreNext /\ UNCHANGED <<subject, vars, operating, keeping, living>>
Operate ==
    subject = "calls" /\ Ops!OpsNext /\ UNCHANGED <<subject, vars, observing, keeping, living>>
Keep ==
    subject = "settings" /\ Settings!BagsNext
        /\ UNCHANGED <<subject, vars, observing, operating, living>>
Live ==
    subject = "life" /\ Life!LifeNext
        /\ UNCHANGED <<subject, vars, observing, operating, keeping>>
WorkspaceNext == Manage \/ Watch \/ Operate \/ Keep \/ Live
WorkspaceSpec ==
    WorkspaceInit
    /\ [][WorkspaceNext]_<<subject, vars, observing, operating, keeping, living>>

Same == Permutations(Calls) \cup Permutations(Sinks)

(***************************************************************************)
(* The properties of the three parts.                                      *)
(***************************************************************************)

(* Each part's variables hold what its code can put there.                  *)
WorkspaceTypeOK ==
    /\ subject = "solutions" => TypeOK
    /\ subject = "tree" => Store!StoreTypeOK
    /\ subject = "calls" => Ops!OpsTypeOK
    /\ subject = "settings" => Settings!BagsTypeOK
    /\ subject = "life" => Life!LifeTypeOK

(* The manager's records agree: the remembered solution heads the recent    *)
(* list, a closed one is not reopened, a project is a member once, and a    *)
(* solution with unsaved content is dirty.                                  *)
SessionSound ==
    subject = "solutions" =>
        RecentAgrees /\ ClosedIsForgotten /\ MembersOnce /\ UnsavedIsDirty

(* No unsaved content goes unasked, a solution opens as its manifest has it, *)
(* and a project opens into the solution that is active.                    *)
SolutionsKept == NothingLostUnasked /\ OpenedAsSaved /\ OpenedIntoActive

(* Once the reports of the watchers have settled, an expanded folder shows   *)
(* what is on disk, and each of its observers was told just that; a rename    *)
(* in a folder that stays expanded keeps the node's id; and a disposed store  *)
(* holds no watcher and no timer.                                            *)
TreeMirrorsDisk ==
    subject = "tree" =>
        /\ Store!SettlesToDisk /\ Store!ObserversMirror
        /\ Store!IdentityKept /\ Store!DisposedIsInert

(* The connection the user selected stays the one in effect, a clean         *)
(* persister has written what it holds, no other field of the manifest is     *)
(* taken back, and a solution has one default; a project at rest has its      *)
(* model generated for the references it declares, and is in the session      *)
(* while it is open.                                                         *)
ProjectKept ==
    /\ subject = "settings" =>
          /\ Settings!ChosenIsUsed /\ Settings!CleanIsWritten
          /\ Settings!FieldsKept /\ Settings!OneDefault
    /\ subject = "life" => Life!GeneratedCurrent /\ Life!OpenIsTracked

(* An open editor holds the path of its file whenever no call is under way,  *)
(* also after a call that failed half way.                                  *)
EditorsFollow == subject = "calls" => Ops!EditorsFollow

(* No rename, move, creation or import writes over what is there, and no     *)
(* generator over what the user edited before it looked.                     *)
NothingOverwritten ==
    /\ Ops!NothingOverwritten
    /\ [][subject = "life" => Life!EditedKept]_<<content, life, ui, late>>
=============================================================================
