-------------------------- MODULE MemberContentOps --------------------------
(* solution-services/project-services/content/member-content-ops.ts: the    *)
(* rename, delete, create, import and move of files of one member, and the  *)
(* lifecycle guard through which the host keeps its open editors in step    *)
(* (content-lifecycle.ts).  Every call is a sequence of awaits on the       *)
(* storage, any of which may fail.                                          *)
EXTENDS ProjectFiles, FiniteSets, SequencesExt

CONSTANTS
    Variants,   \* name -> the candidates UniqueName tries, the name first
    Bad,        \* a name that is empty, a dot name or holds a separator
    Starts,     \* disks to start from
    MaxCalls,   \* bound on calls under way at once
    MaxSteps    \* bound on calls

VARIABLES
    files,      \* the disk
    editors,    \* inode of an opened file -> path its editor holds, <<>> if closed
    calls,      \* calls under way
    removed,    \* history: inodes a Delete took away
    steps       \* calls made
opsVars == <<files, editors, calls, removed, steps>>

Closed == Root

IsSafeName(name) == name # Bad

(* Those paths of a selection that no other selected path contains. *)
Roots(paths) == {p \in paths : ~\E q \in paths : Under(p, q)}

(* Pure planning of a move: covered paths and paths already there are        *)
(* dropped, a folder moved into itself or below is rejected.                *)
Wanted(paths, dest) == {p \in Roots(paths \ {Root}) : ParentOf(p) # dest}
Rejected(paths, dest) == {p \in Wanted(paths, dest) : Within(dest, p)}
PlanMoves(paths, dest) ==
    {[from |-> p, to |-> Join(dest, BaseName(p))] :
        p \in Wanted(paths, dest) \ Rejected(paths, dest)}

(***************************************************************************)
(* The guard of the host.                                                  *)
(***************************************************************************)

OnMoved(from, to) ==
    editors' = [i \in Inodes |-> IF editors[i] # Closed /\ Within(editors[i], from)
                            THEN Carried(editors[i], from, to) ELSE editors[i]]

OnRemoved(paths) ==
    editors' = [i \in Inodes |-> IF \E p \in paths : Within(editors[i], p)
                            THEN Closed ELSE editors[i]]

OpenEditor(path) ==
    /\ path \in DOMAIN files /\ ~files[path].dir
    /\ editors[files[path].ino] = Closed /\ calls = {}
    /\ editors' = [editors EXCEPT ![files[path].ino] = path]
    /\ UNCHANGED <<files, calls, removed, steps>>

(***************************************************************************)
(* Calls.  A call that fails or ends is gone; what it did stays.           *)
(***************************************************************************)

Begin(call) ==
    /\ steps < MaxSteps /\ Cardinality(calls) < MaxCalls
    /\ steps' = steps + 1
    /\ calls' = calls \cup {[call EXCEPT !.n = steps]}
    /\ UNCHANGED <<files, editors, removed>>

Call(kind, todo) == [n |-> 0, kind |-> kind, todo |-> todo, probe |-> 1, done |-> {}]
Goes(c, d) == calls' = (calls \ {c}) \cup {d}
Ends(c) == calls' = calls \ {c}

(* Mutant of Fails: a delete that fails half way tells the guard nothing.    *)
FailsInSilence(c) ==
    /\ Ends(c)
    /\ UNCHANGED <<files, editors, removed, steps>>

Fails(c) ==
    /\ Ends(c)
    /\ IF c.kind = "delete" THEN OnRemoved(c.done) ELSE editors' = editors
    /\ UNCHANGED <<files, removed, steps>>

(* Renaming to a bad name, or to the same one, touches nothing. *)
Rename(path, name) ==
    /\ path \in DOMAIN files /\ IsSafeName(name) /\ name # BaseName(path)
    /\ Begin(Call("rename", <<[from |-> path, to |-> Join(ParentOf(path), name)]>>))

(* Move plans once, from the paths it was given. *)
Move(paths, dest) ==
    /\ PlanMoves(paths, dest) # {} /\ IsFolder(files, dest)
    /\ \A m \in PlanMoves(paths, dest) : Fits(files, m.from, m.to)
    /\ Begin(Call("move", SetToSeq(PlanMoves(paths, dest))))

(* Mutant of Relocate: the target is not looked at. *)
RelocateUnchecked(c) ==
    /\ c.kind \in {"rename", "move"} /\ c.todo # <<>> /\ c.probe = 1
    /\ Goes(c, [c EXCEPT !.probe = 2])
    /\ UNCHANGED <<files, editors, removed, steps>>

(* Both look at the target first: a rename ends at a collision, a move       *)
(* skips the path.                                                          *)
Relocate(c) ==
    /\ c.kind \in {"rename", "move"} /\ c.todo # <<>> /\ c.probe = 1
    /\ LET m == Head(c.todo)
       IN  Goes(c, IF Exists(files, m.to)
                   THEN [c EXCEPT !.todo = Tail(@)]
                   ELSE [c EXCEPT !.probe = 2])
    /\ UNCHANGED <<files, editors, removed, steps>>

Relocated(c) ==
    /\ c.kind \in {"rename", "move"} /\ c.todo # <<>> /\ c.probe = 2
    /\ LET m == Head(c.todo)
       IN  /\ Exists(files, m.from) /\ IsFolder(files, ParentOf(m.to))
           /\ ~Within(m.to, m.from)
           /\ files' = MoveTree(files, m.from, m.to)
           /\ OnMoved(m.from, m.to)
           /\ Goes(c, [c EXCEPT !.todo = Tail(@), !.probe = 1, !.done = @ \cup {m}])
    /\ UNCHANGED <<removed, steps>>

(* The guard may veto a delete before the disk is touched. *)
Delete(paths) ==
    /\ Roots(paths \ {Root}) # {}
    /\ Begin(Call("delete", SetToSeq(Roots(paths \ {Root}))))

Veto(c) ==
    /\ c.kind = "delete" /\ c.done = {} /\ Ends(c)
    /\ UNCHANGED <<files, editors, removed, steps>>

Deleted(c) ==
    /\ c.kind = "delete" /\ c.todo # <<>> /\ Exists(files, Head(c.todo))
    /\ files' = Erase(files, Head(c.todo))
    /\ removed' = removed \cup {files[p].ino : p \in {q \in DOMAIN files :
                                                  Within(q, Head(c.todo))}}
    /\ Goes(c, [c EXCEPT !.todo = Tail(@), !.done = @ \cup {Head(c.todo)}])
    /\ UNCHANGED <<editors, steps>>

(* NewFile, NewFolder and ImportBytes (several files, all names checked      *)
(* first) probe the variants of a name until one is free.                   *)
New(folder, names, dir) ==
    /\ IsFolder(files, folder) /\ Len(folder) < MaxDepth
    /\ \A k \in DOMAIN names : IsSafeName(names[k])
    /\ Begin(Call("new", [k \in DOMAIN names |->
                            [in |-> folder, name |-> names[k], dir |-> dir]]))

Candidate(c) ==
    Join(Head(c.todo).in, Variants[Head(c.todo).name][c.probe])

Probe(c) ==
    /\ c.kind = "new" /\ c.todo # <<>> /\ c.done = {}
    /\ IF Exists(files, Candidate(c))
       THEN /\ c.probe < Len(Variants[Head(c.todo).name])
            /\ Goes(c, [c EXCEPT !.probe = @ + 1])
       ELSE Goes(c, [c EXCEPT !.done = {Candidate(c)}])
    /\ UNCHANGED <<files, editors, removed, steps>>

Write(c) ==
    /\ c.kind = "new" /\ c.done # {} /\ IsFolder(files, Head(c.todo).in)
    /\ \E i \in FreeInodes(files) \ removed :
          files' = Put(files, Candidate(c), [ino |-> i, dir |-> Head(c.todo).dir])
    /\ Goes(c, [c EXCEPT !.todo = Tail(@), !.probe = 1, !.done = {}])
    /\ UNCHANGED <<editors, removed, steps>>

(* A call with nothing left ends; a delete tells the guard what went. *)
End(c) ==
    /\ c.todo = <<>> /\ Ends(c)
    /\ IF c.kind = "delete" THEN OnRemoved(c.done) ELSE editors' = editors
    /\ UNCHANGED <<files, removed, steps>>

OpsInit ==
    /\ files \in Starts /\ calls = {} /\ removed = {} /\ steps = 0
    /\ editors = [i \in Inodes |-> Closed]

OpsNext ==
    \/ \E p \in Paths : OpenEditor(p)
    \/ \E p \in Paths, n \in Names : Rename(p, n)
    \/ \E S \in SUBSET DOMAIN files : Delete(S)
    \/ \E S \in SUBSET DOMAIN files, d \in DOMAIN files \cup {Root} : Move(S, d)
    \/ \E d \in DOMAIN files \cup {Root}, n \in Names, dir \in BOOLEAN : New(d, <<n>>, dir)
    \/ \E d \in DOMAIN files \cup {Root}, n, m \in Names : New(d, <<n, m>>, FALSE)
    \/ \E c \in calls : \/ Relocate(c) \/ Relocated(c) \/ Veto(c) \/ Deleted(c)
                        \/ Probe(c) \/ Write(c) \/ End(c) \/ Fails(c)

(***************************************************************************)
(* Properties.                                                             *)
(***************************************************************************)

OpsTypeOK ==
    /\ DOMAIN files \subseteq Paths /\ removed \subseteq Inodes
    /\ \A p \in DOMAIN files : IsFolder(files, ParentOf(p))
    /\ \A i \in Inodes : editors[i] \in Paths \cup {Closed}

(* An open editor holds the path of its file whenever no call is under way,  *)
(* also after a call that failed half way: a file that moved with a folder   *)
(* took its editor along, and an editor of a deleted file is closed.        *)
EditorsFollow ==
    calls = {} => \A i \in Inodes : editors[i] # Closed =>
        editors[i] \in DOMAIN files /\ files[editors[i]].ino = i

(* Nothing but a delete takes a file away: no rename, move, creation or      *)
(* import writes over what is there.                                        *)
NothingOverwritten ==
    [][\A p \in DOMAIN files :
          files[p].ino \in {files'[q].ino : q \in DOMAIN files'} \cup removed']_opsVars
=============================================================================
