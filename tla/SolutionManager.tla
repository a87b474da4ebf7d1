---------------------------- MODULE SolutionManager ----------------------------
(***************************************************************************)
(* The solution manager (SolutionManagerService): the one active solution, *)
(* its members, its manifest on disk, the recent list, and the calls of    *)
(* the UI that interleave at their awaits.                                 *)
(*                                                                         *)
(* A member path is <<"in", stem>>, relative to the root of its solution,  *)
(* or <<"at", folder, stem>>, absolute.  A project is <<folder, stem>>.    *)
(* Settings and property bags are one number, the last edit they hold.     *)
(***************************************************************************)
EXTENDS Integers, Sequences, SequencesExt, FiniteSets

CONSTANTS
    Folders,        \* solution folders
    Projects,       \* the projects on disk: <<folder, stem>>
    TypeOf,         \* the type each project's own manifest names
    KnownTypes,     \* the types a factory is registered for
    Names,          \* solution names
    DefaultName,    \* the name of an untitled solution
    Calls,          \* call slots: how many calls may be in flight
    Mixes,          \* the sets of kinds of call and input one behaviour may combine
    MaxEdits,       \* bound on edits
    MaxMembers,     \* bound on members of a solution
    None

(* What a manifest holds, and a Solution object. *)
Types == {TypeOf[p] : p \in Projects}
Paths == {<<"in", p[2]>> : p \in Projects} \cup {<<"at", p[1], p[2]>> : p \in Projects}
Manifests == [members : Seq([path : Paths, type : Types]), settings : Nat]
Statuses == {"unopened", "resolved", "failed", "unknown"}
Solutions ==
    [name : Names, root : Folders \cup {None}, dirty : BOOLEAN, settings : Nat, saved : Manifests,
     members : Seq([path : Paths, type : Types, status : Statuses, id : Nat])]

ASSUME NamesAssumption == DefaultName \in Names /\ None \notin Folders \cup Nat \cup Solutions
ASSUME ProjectsAssumption == DOMAIN TypeOf = Projects /\ \A p \in Projects : Len(p) = 2
ASSUME BoundsAssumption == MaxEdits \in Nat /\ MaxMembers \in Nat /\ IsFiniteSet(Calls)

VARIABLES
    disk,       \* the manifests of each folder: name -> [members, settings]
    sols,       \* the Solution objects, by slot
    active,     \* the slot of ActiveSolution, or None
    call,       \* what each call slot is doing
    recent,     \* recentSolutions
    last,       \* lastSolution, None for ''
    stored,     \* <<recent, last>> as the session store last saved them
    edits,      \* how many edits were made
    started,    \* RestoreSession ran since the program started
    features    \* the kinds of call and input this behaviour combines

vars == <<disk, sols, active, call, recent, last, stored, edits, started, features>>

Slots == 1 .. Cardinality(Calls) + 2
Idle == [op |-> "idle"]
Solution(name, root) ==
    [name |-> name, root |-> root, members |-> << >>, settings |-> 0, dirty |-> FALSE,
     saved |-> [members |-> << >>, settings |-> 0]]

Refs(members) == [n \in DOMAIN members |-> [path |-> members[n].path, type |-> members[n].type]]
Content(s) == [members |-> Refs(s.members), settings |-> s.settings]
Untitled(s) == s.root = None

Init ==
    /\ disk = [f \in Folders |-> << >>]
    /\ sols = [i \in Slots |-> None]
    /\ active = None
    /\ call = [c \in Calls |-> Idle]
    /\ recent = << >> /\ last = None /\ stored = << << >>, None >>
    /\ edits = 0
    /\ started = FALSE
    /\ features \in Mixes

(***************************************************************************)
(* Solution objects.  A slot nobody refers to is free.                     *)
(***************************************************************************)

Holds(k, i) == "sol" \in DOMAIN k /\ k.sol = i
Free == {i \in Slots : active # i /\ \A c \in Calls : ~Holds(call[c], i)}
FreeSlot == CHOOSE i \in Free : TRUE

(* The step of call c that leaves the objects ss, the active one a, and c at k. *)
Step(c, ss, a, k) ==
    LET calls == [call EXCEPT ![c] = k]
    IN  /\ sols' = [i \in Slots |-> IF i = a \/ \E d \in Calls : Holds(calls[d], i) THEN ss[i] ELSE None]
        /\ active' = a
        /\ call' = calls

(* Mutant: the folder is not taken out of its old place. *)
PushRecentAgain(f) == recent' = <<f>> \o recent /\ last' = f

(* The recent folders without f. *)
Without(s, f) ==
    LET kept[i \in 0 .. Len(s)] ==
          IF i = 0 THEN << >>
          ELSE IF s[i] = f THEN kept[i - 1] ELSE Append(kept[i - 1], s[i])
    IN  kept[Len(s)]

PushRecent(f) ==
    /\ recent' = <<f>> \o Without(recent, f)
    /\ last' = f

SameSession == UNCHANGED <<recent, last>>
Elsewhere == UNCHANGED <<disk, stored, edits, started>>

(* Unless this behaviour overlaps them, a call or an edit waits for the calls *)
(* before it.                                                               *)
OneAtATime == "overlap" \notin features
MayInterfere == OneAtATime => \A d \in Calls : call[d] = Idle

(* A call may begin. *)
MayBegin(c, op) ==
    /\ op \in features /\ call[c] = Idle
    /\ MayInterfere

(***************************************************************************)
(* Replacing the active solution: New, NewUntitled, Open, Close, Restore.  *)
(***************************************************************************)

(* Mutant: nobody asks. *)
ReplaceAtOnce(c, k) == Step(c, sols, active, [k EXCEPT !.pc = "go"])

(* canReplace: a clean solution may be replaced, for a dirty one ask first;  *)
(* agreed is the solution the user agreed to discard.                        *)
CanReplace(c, k) ==
    LET at == IF active # None /\ sols[active].dirty THEN "ask" ELSE "go"
    IN  Step(c, sols, active, [k EXCEPT !.pc = at])

BeginReplace(c, k) ==
    /\ MayBegin(c, k.op)
    /\ k.op = "restore" => ~started
    /\ k.op # "restore" => started
    /\ CanReplace(c, k)
    /\ SameSession /\ UNCHANGED <<disk, stored, edits>>
    /\ started' = (started \/ k.op = "restore")

Begin(c) ==
    \/ \E f \in Folders, n \in Names :
         /\ n # DefaultName => "name" \in features
         /\ BeginReplace(c, [op |-> "new", pc |-> "", agreed |-> None, folder |-> f, name |-> n])
    \/ BeginReplace(c, [op |-> "untitled", pc |-> "", agreed |-> None])
    \/ \E f \in Folders : BeginReplace(c, [op |-> "open", pc |-> "", agreed |-> None, folder |-> f])
    \/ BeginReplace(c, [op |-> "close", pc |-> "", agreed |-> None])
    \/ BeginReplace(c, IF last = None THEN [op |-> "restore", pc |-> "", agreed |-> None, folder |-> None]
                                      ELSE [op |-> "restore", pc |-> "", agreed |-> None, folder |-> last])

At(c, pc) == call[c] # Idle /\ call[c].pc = pc

Answer(c, yes) ==
    /\ At(c, "ask")
    /\ Step(c, sols, active, IF yes THEN [call[c] EXCEPT !.pc = "go", !.agreed = active] ELSE Idle)
    /\ SameSession /\ Elsewhere

SetActiveNew(c) ==
    /\ At(c, "go") /\ call[c].op = "new"
    /\ LET i == FreeSlot IN
       Step(c, [sols EXCEPT ![i] = Solution(call[c].name, call[c].folder)], i, Idle)
    /\ SameSession /\ Elsewhere

SetActiveUntitled(c) ==
    /\ At(c, "go")
    /\ \/ call[c].op = "untitled"
       \/ call[c].op = "restore" /\ call[c].folder = None
    /\ LET i == FreeSlot IN
       Step(c, [sols EXCEPT ![i] = Solution(DefaultName, None)], i, Idle)
    /\ last' = None /\ recent' = recent
    /\ Elsewhere

CloseSolution(c) ==
    /\ At(c, "go") /\ call[c].op = "close"
    /\ Step(c, sols, None, Idle)
    /\ last' = None /\ recent' = recent
    /\ Elsewhere

Opening(c) == call[c] # Idle /\ call[c].op \in {"open", "restore"}

(* Opening fails: Open throws; Restore forgets the folder and goes untitled. *)
OpenFails(c) ==
    IF call[c].op = "open"
      THEN Step(c, sols, active, Idle) /\ SameSession
      ELSE /\ CanReplace(c, [op |-> "restore", pc |-> "", agreed |-> None, folder |-> None])
           /\ recent' = Without(recent, call[c].folder)
           /\ last' = None

(* findManifestFile: any of the manifests the folder lists. *)
FindManifest(c) ==
    /\ At(c, "go") /\ Opening(c) /\ call[c].folder # None
    /\ LET found == DOMAIN disk[call[c].folder] IN
       IF found = {} THEN OpenFails(c)
       ELSE /\ \E n \in found : Step(c, sols, active, [op |-> call[c].op, pc |-> "read", file |-> n,
                                  agreed |-> call[c].agreed, folder |-> call[c].folder])
            /\ SameSession
    /\ Elsewhere

Unopened(ref, id) == [path |-> ref.path, type |-> ref.type, status |-> "unopened", id |-> id]

ReadManifest(c) ==
    /\ At(c, "read")
    /\ LET f == call[c].folder
           n == call[c].file
           i == FreeSlot
       IN  IF n \notin DOMAIN disk[f] THEN OpenFails(c)
           ELSE LET m == disk[f][n] IN
                /\ Step(c, [sols EXCEPT ![i] =
                              [Solution(n, f) EXCEPT !.members = [j \in DOMAIN m.members |-> Unopened(m.members[j], j)],
                                                     !.settings = m.settings, !.saved = m]],
                        active, [op |-> call[c].op, pc |-> "members", sol |-> i,
                                 agreed |-> call[c].agreed, folder |-> f])
                /\ SameSession
    /\ Elsewhere

(* joinPosix: the path, relative or absolute, below the solution folder. *)
JoinPosix(f, path) == IF path[1] = "in" THEN <<f, path[2]>> ELSE <<f, path[2], path[3]>>

(* OpenOne, once the member's storage is known to be the place. *)
OpenedAt(m, place) ==
    [m EXCEPT !.status = IF m.type \notin KnownTypes THEN "unknown"
                         ELSE IF place \in Projects THEN "resolved" ELSE "failed"]

(* OpenMembers: one member per step, and after the last one the solution is active. *)
OpenMember(c) ==
    /\ At(c, "members")
    /\ LET i == call[c].sol
           s == sols[i]
           waiting == {j \in DOMAIN s.members : s.members[j].status = "unopened"}
           j == CHOOSE n \in waiting : \A x \in waiting : n <= x
           opened == IF waiting = {} THEN s
                     ELSE [s EXCEPT !.members[j] = OpenedAt(@, JoinPosix(s.root, s.members[j].path))]
       IN  IF Cardinality(waiting) > 1
             THEN Step(c, [sols EXCEPT ![i] = opened], active, call[c]) /\ SameSession
             ELSE Step(c, [sols EXCEPT ![i] = opened], i, Idle) /\ PushRecent(call[c].folder)
    /\ Elsewhere

(***************************************************************************)
(* Loose projects.                                                         *)
(***************************************************************************)

MemberPath(s, p) == IF p[1] = s.root THEN <<"in", p[2]>> ELSE <<"at", p[1], p[2]>>
MemberStorage(s, path) == IF path[1] = "in" THEN <<s.root, path[2]>> ELSE <<path[2], path[3]>>

(* OpenProject up to reading the project's manifest; the ambient solution is *)
(* created on demand, and a path that is already a member is returned.       *)
BeginOpenProject(c, p) ==
    /\ started /\ MayBegin(c, "openProject")
    /\ LET i == IF active = None THEN FreeSlot ELSE active
           s == IF active = None THEN Solution(DefaultName, None) ELSE sols[active]
           path == MemberPath(s, p)
           member == \E j \in DOMAIN s.members : s.members[j].path = path
       IN  /\ Len(s.members) < MaxMembers
           /\ Step(c, [sols EXCEPT ![i] = s], i,
                   IF member THEN Idle
                   ELSE [op |-> "openProject", pc |-> "manifest", sol |-> i, project |-> p, path |-> path])
    /\ SameSession /\ Elsewhere

(* Mutant: members are told apart by their number only. *)
MemberCount(s) == Len(s.members)

NewMemberId(s) == CHOOSE id \in 1 .. 2 * MaxMembers + 2 : \A j \in DOMAIN s.members : s.members[j].id # id

(* AddMember, and OpenOne up to the factory's openProject. *)
AddProject(c) ==
    /\ At(c, "manifest")
    /\ LET i == call[c].sol
           s == sols[i]
           id == NewMemberId(s)
           added == [s EXCEPT !.members = Append(@, Unopened([path |-> call[c].path,
                                                              type |-> TypeOf[call[c].project]], id)),
                              !.dirty = TRUE]
       IN  /\ Len(s.members) < MaxMembers
           /\ Step(c, [sols EXCEPT ![i] = added], active,
                   [op |-> "openProject", pc |-> "opening", sol |-> i, id |-> id, project |-> call[c].project])
    /\ SameSession /\ Elsewhere

ProjectOpened(c) ==
    /\ At(c, "opening")
    /\ LET i == call[c].sol
           s == sols[i]
           opened == [j \in DOMAIN s.members |->
                        IF s.members[j].id = call[c].id
                          THEN OpenedAt(s.members[j], MemberStorage(s, s.members[j].path))
                          ELSE s.members[j]]
       IN  Step(c, [sols EXCEPT ![i] = [s EXCEPT !.members = opened, !.dirty = @ /\ ~Untitled(s)]],
                active, Idle)
    /\ SameSession /\ Elsewhere

(* CloseProject runs without a pause. *)
CloseProject(j) ==
    /\ "closeProject" \in features /\ active # None
    /\ MayInterfere
    /\ LET s == sols[active] IN
       /\ j \in DOMAIN s.members
       /\ sols' = [sols EXCEPT ![active] = [s EXCEPT !.members = RemoveAt(@, j), !.dirty = ~Untitled(s)]]
    /\ UNCHANGED <<active, call>> /\ SameSession /\ Elsewhere

(***************************************************************************)
(* Saving and renaming.                                                    *)
(***************************************************************************)

BeginSave(c) ==
    /\ MayBegin(c, "save") /\ active # None
    /\ LET s == sols[active] IN
       Step(c, sols, active,
            IF Untitled(s) THEN [op |-> "save", pc |-> "pick"]
            ELSE [op |-> "save", pc |-> "write", sol |-> active, file |-> s.name, content |-> Content(s)])
    /\ SameSession /\ Elsewhere

(* The manifests of a folder once the one of name n holds m.                *)
Written(files, n, m) == [x \in DOMAIN files \cup {n} |-> IF x = n THEN m ELSE files[x]]

SaveWritten(c) ==
    /\ At(c, "write")
    /\ LET s == sols[call[c].sol] IN
       /\ disk' = [disk EXCEPT ![s.root] = Written(@, call[c].file, call[c].content)]
       /\ Step(c, [sols EXCEPT ![call[c].sol] = [s EXCEPT !.dirty = FALSE, !.saved = call[c].content]],
               active, Idle)
       /\ PushRecent(s.root)
    /\ UNCHANGED <<stored, edits, started>>

(* SaveAs of whatever is active when it begins. *)
SaveAsTo(c, f) ==
    Step(c, sols, active,
         IF active = None THEN Idle
         ELSE [op |-> "saveAs", pc |-> "writeAs", sol |-> active, folder |-> f,
               file |-> sols[active].name, content |-> Content(sols[active])])

BeginSaveAs(c, f) ==
    /\ MayBegin(c, "saveAs") /\ active # None
    /\ SaveAsTo(c, f)
    /\ SameSession /\ Elsewhere

(* The user picks a folder for an untitled solution, or cancels. *)
Pick(c) ==
    /\ At(c, "pick")
    /\ \/ \E f \in Folders : SaveAsTo(c, f)
       \/ Step(c, sols, active, Idle)
    /\ SameSession /\ Elsewhere

(* The solution at the new place is another object, with unopened members. *)
SaveAsWritten(c) ==
    /\ At(c, "writeAs")
    /\ LET s == sols[call[c].sol]
           f == call[c].folder
           i == FreeSlot
           unopened == [j \in DOMAIN s.members |-> Unopened(s.members[j], j)]
       IN  /\ disk' = [disk EXCEPT ![f] = Written(@, call[c].file, call[c].content)]
           /\ Step(c, [sols EXCEPT ![i] = [Solution(s.name, f) EXCEPT
                         !.members = unopened, !.settings = s.settings, !.saved = call[c].content]],
                   i, Idle)
           /\ PushRecent(f)
    /\ UNCHANGED <<stored, edits, started>>

Renamed(s, n) == [s EXCEPT !.name = n, !.dirty = TRUE]

(* Rename asks the storage whether the old manifest exists. *)
BeginRename(c, n) ==
    /\ MayBegin(c, "rename") /\ active # None
    /\ n # DefaultName => "name" \in features
    /\ LET s == sols[active] IN
       /\ n # s.name
       /\ IF Untitled(s) THEN Step(c, [sols EXCEPT ![active] = Renamed(s, n)], active, Idle)
          ELSE Step(c, sols, active, [op |-> "rename", pc |-> "exists", sol |-> active, from |-> s.name, to |-> n])
    /\ SameSession /\ Elsewhere

(* The answer: without an old manifest only the name changes. *)
OldManifestExists(c) ==
    /\ At(c, "exists")
    /\ LET k == call[c]
           s == sols[k.sol]
       IN  IF k.from \in DOMAIN disk[s.root] THEN Step(c, sols, active, [k EXCEPT !.pc = "move"])
           ELSE Step(c, [sols EXCEPT ![k.sol] = Renamed(s, k.to)], active, Idle)
    /\ SameSession /\ Elsewhere

(* The manifest moved, over any other of the new name; gone meanwhile, the *)
(* storage throws and nothing changes.                                     *)
ManifestMoved(c) ==
    /\ At(c, "move")
    /\ LET k == call[c]
           s == sols[k.sol]
           files == disk[s.root]
           moved == [n \in (DOMAIN files \ {k.from}) \cup {k.to} |->
                       IF n = k.to THEN files[k.from] ELSE files[n]]
       IN  IF k.from \notin DOMAIN files
             THEN Step(c, sols, active, Idle) /\ disk' = disk
             ELSE /\ Step(c, [sols EXCEPT ![k.sol] = Renamed(s, k.to)], active, Idle)
                  /\ disk' = [disk EXCEPT ![s.root] = moved]
    /\ SameSession /\ UNCHANGED <<stored, edits, started>>

(* A setting or a property bag of the active solution is edited. *)
Edit ==
    /\ "edit" \in features /\ active # None /\ edits < MaxEdits
    /\ MayInterfere
    /\ edits' = edits + 1
    /\ sols' = [sols EXCEPT ![active] = [@ EXCEPT !.settings = edits', !.dirty = TRUE]]
    /\ UNCHANGED <<disk, active, call, recent, last, stored, started>>

(***************************************************************************)
(* The session store saves the slice; the program ends and starts again.   *)
(***************************************************************************)

StoreSession ==
    /\ "restart" \in features /\ stored # <<recent, last>>
    /\ stored' = <<recent, last>>
    /\ UNCHANGED <<disk, sols, active, call, recent, last, edits, started>>

Restart ==
    /\ "restart" \in features /\ started
    /\ sols' = [i \in Slots |-> None]
    /\ active' = None
    /\ call' = [c \in Calls |-> Idle]
    /\ recent' = stored[1] /\ last' = stored[2]
    /\ started' = FALSE
    /\ UNCHANGED <<disk, stored, edits>>

Calling ==
    \/ \E c \in Calls :
        \/ Begin(c) \/ \E yes \in BOOLEAN : Answer(c, yes)
        \/ SetActiveNew(c) \/ SetActiveUntitled(c) \/ CloseSolution(c)
        \/ FindManifest(c) \/ ReadManifest(c) \/ OpenMember(c)
        \/ \E p \in Projects : BeginOpenProject(c, p)
        \/ AddProject(c) \/ ProjectOpened(c)
        \/ BeginSave(c) \/ SaveWritten(c) \/ Pick(c)
        \/ \E f \in Folders : BeginSaveAs(c, f)
        \/ SaveAsWritten(c)
        \/ \E n \in Names : BeginRename(c, n)
        \/ OldManifestExists(c) \/ ManifestMoved(c)
    \/ \E j \in 1 .. MaxMembers : CloseProject(j)
    \/ Edit \/ StoreSession \/ Restart

Next == Calling /\ UNCHANGED features

Spec == Init /\ [][Next]_vars

(***************************************************************************)
(* Properties.                                                             *)
(***************************************************************************)

Open == {i \in Slots : sols[i] # None}
Quiet == \A c \in Calls : call[c] = Idle

(* Every object is a solution, the active one exists, members are told apart. *)
TypeOK ==
    /\ active \in Open \cup {None}
    /\ \A i \in Open : LET s == sols[i] IN
        /\ s.name \in Names /\ s.root \in Folders \cup {None}
        /\ s.dirty \in BOOLEAN /\ s.settings \in 0 .. MaxEdits
        /\ \A j, k \in DOMAIN s.members : j # k => s.members[j].id # s.members[k].id
        /\ \A j \in DOMAIN s.members :
            s.members[j].status \in {"unopened", "resolved", "failed", "unknown"}
    /\ \A c \in Calls : \A i \in Slots : Holds(call[c], i) => i \in Open
    /\ \A f \in Folders : DOMAIN disk[f] \subseteq Names

(* The remembered solution heads the recent list, which names a folder once: *)
(* whatever calls overlap, the two halves of the session slice agree.        *)
RecentAgrees ==
    /\ \A j, k \in DOMAIN recent : j # k => recent[j] # recent[k]
    /\ last # None => recent # << >> /\ recent[1] = last

(* A project is a member once ("deduping by member path"), while nothing    *)
(* overlaps the call that adds it.                                          *)
MembersOnce ==
    OneAtATime => \A i \in Open : LET ms == sols[i].members IN
        \A j, k \in DOMAIN ms : j # k => ms[j].path # ms[k].path

(* What a solution holds beyond what was last saved or loaded; the members  *)
(* of an untitled solution do not count.                                    *)
Unsaved(s) ==
    \/ s.settings # s.saved.settings
    \/ ~Untitled(s) /\ Refs(s.members) # s.saved.members

(* A solution with unsaved content is dirty ("Any member/setting mutation   *)
(* flips dirty; Save clears it"), if one call ran at a time.                *)
UnsavedIsDirty == OneAtATime => \A i \in Open : Unsaved(sols[i]) => sols[i].dirty

(* Unsaved content of the active solution goes only with the user's         *)
(* agreement, or into the solution that takes its place ("a dirty solution  *)
(* asks to discard"), if one call runs at a time; the end of the program is *)
(* not a replacement.                                                       *)
NothingLostUnasked ==
    [][LET s == sols[active]
           kept == /\ active' # None
                   /\ sols'[active'].settings = s.settings
                   /\ Refs(sols'[active'].members) = Refs(s.members)
           agreed == \E c \in Calls : call[c] # Idle /\ call'[c] = Idle
                        /\ "agreed" \in DOMAIN call[c] /\ call[c].agreed = active
       IN  OneAtATime /\ active # None /\ active' # active /\ started' /\ Unsaved(s) => kept \/ agreed]_vars

(* A solution that was closed is not the one to reopen at the next start,   *)
(* unless the close overlapped another call.                                *)
ClosedIsForgotten == OneAtATime /\ started /\ Quiet /\ active = None => last = None

(* A solution as it becomes active by opening is the one its manifest holds, *)
(* and every member of it was opened, if one call runs at a time.            *)
OpenedAsSaved ==
    [][\A c \in Calls : OneAtATime /\ OpenMember(c) /\ active' = call[c].sol /\ active' # active =>
         LET s == sols'[active'] IN
         /\ s.name \in DOMAIN disk[s.root] /\ Content(s) = disk[s.root][s.name]
         /\ ~s.dirty /\ \A j \in DOMAIN s.members : s.members[j].status # "unopened"]_vars

(* A project is opened into the solution that is active, unless a call that *)
(* replaces the solution overlaps.                                          *)
OpenedIntoActive == [][\A c \in Calls : OneAtATime /\ ProjectOpened(c) => call[c].sol = active]_vars

(* A member that opened when it was added opens again with its solution: no *)
(* member fails to load while every project stays where it is ("the same    *)
(* rule OpenSolution's storageFor uses").                                   *)
MembersReopen ==
    \A i \in Open : \A j \in DOMAIN sols[i].members : sols[i].members[j].status # "failed"
=============================================================================
