---------------------------- MODULE ContentStore ----------------------------
(* solution-services/project-services/content/project-content-store.ts:    *)
(* the reactive, lazy tree of one project's files.  A folder is listed     *)
(* when its first observer subscribes; a watcher of that one directory     *)
(* then feeds additions and removals, which are buffered for a settle      *)
(* window so that a rename (a removal and an addition of one inode, in     *)
(* either order) keeps the node's id.  Changes on disk come from anywhere. *)
(*                                                                         *)
(* `tree` is the store's memory.  A folder's state object outlives its     *)
(* entry in the store's map of folders (`attached`): a load or a timer     *)
(* still holds it.                                                         *)
EXTENDS ProjectFiles, FiniteSets, SequencesExt

CONSTANTS
    Sinks,          \* observers
    Hidden,         \* the manifest's name, hidden at the root only
    MaxChanges,     \* bound on changes of the disk
    MaxObserves,    \* bound on subscriptions
    Seeds,          \* disks a store may be opened on
    Overlaps        \* which overlaps are allowed: Calm, Patient, Pointed,
                    \* Early, Steady and Inner say what each of them is

VARIABLES
    disk, tree, feed, loads, stats, disposed, changes, observes,
    identity    \* history: the id an inode had since it came to its folder

RootId == 1
NoWatcher == [n |-> 0, folder |-> 0, path |-> <<>>]

NoState ==
    [attached |-> TRUE, loaded |-> FALSE, loading |-> FALSE, children |-> {},
     byPath |-> <<>>, byIno |-> <<>>, watch |-> NoWatcher, removals |-> <<>>,
     adds |-> <<>>, timer |-> FALSE]

(* The root node is minted first; no folder has a state yet. *)
EmptyTree ==
    [node |-> (RootId :> [path |-> Root, dir |-> TRUE]), known |-> {RootId},
     folder |-> <<>>, live |-> {}, sub |-> [s \in Sinks |-> 0],
     view |-> [s \in Sinks |-> {}]]

Ids(t) == DOMAIN t.node
Without(f, S) == [x \in DOMAIN f \ S |-> f[x]]
Having(f, x, v) == (x :> v) @@ f

(* nodeById / pathById: both fall back to the root for an unknown id. *)
PathOf(t, id) == IF id \in t.known THEN t.node[id].path ELSE Root

IsHiddenEntry(path) == Len(path) = 1 /\ BaseName(path) = Hidden

(* A fresh number for a watcher or a load; its identity is all that counts. *)
Fresh(S) == CHOOSE n \in 1..(Cardinality(S) + 1) : \A x \in S : x.n # n

SinksOf(t, f) == {s \in Sinks : t.sub[s] = f}
Emit(t, f, id) == [t EXCEPT !.view = [s \in Sinks |-> IF s \in SinksOf(t, f)
                                                 THEN @[s] \cup {id} ELSE @[s]]]
Retract(t, f, id) == [t EXCEPT !.view = [s \in Sinks |-> IF s \in SinksOf(t, f)
                                                 THEN @[s] \ {id} ELSE @[s]]]

Arm(t, f, path) ==
    LET w == [n |-> Fresh(t.live), folder |-> f, path |-> path]
    IN  [t EXCEPT !.live = @ \cup {w}, !.folder[f].watch = w]

Close(t, f) ==
    [t EXCEPT !.live = @ \ {t.folder[f].watch}, !.folder[f].watch = NoWatcher]

(***************************************************************************)
(* Nodes.                                                                  *)
(***************************************************************************)

(* Mint or reuse a child by its path: a reused one keeps its old kind. *)
InternChild(t, f, path, dir) ==
    IF path \in DOMAIN t.folder[f].byPath
    THEN t
    ELSE LET id == Cardinality(Ids(t)) + 1
         IN  [t EXCEPT !.node = Having(@, id, [path |-> path, dir |-> dir]),
                       !.known = @ \cup {id},
                       !.folder[f].children = @ \cup {id},
                       !.folder[f].byPath = Having(@, path, id)]

ChildAt(t, f, path) == t.folder[f].byPath[path]

Subtree(t, id) ==
    LET grow[n \in 0..MaxDepth] ==
            IF n = 0 THEN {id}
            ELSE grow[n-1] \cup UNION {t.folder[f].children :
                                  f \in grow[n-1] \cap DOMAIN t.folder}
    IN  grow[MaxDepth]

(* The node, its descendants, and the states and watchers of those of them  *)
(* that are expanded folders.  A pending timer of theirs is not cleared.    *)
DropSubtree(t, id) ==
    LET gone == Subtree(t, id)
        held == {f \in gone \cap DOMAIN t.folder : t.folder[f].attached}
    IN  [t EXCEPT
          !.known = @ \ gone,
          !.live = @ \ {t.folder[f].watch : f \in held},
          !.folder = [f \in DOMAIN @ |->
                        IF f \in held
                        THEN [@[f] EXCEPT !.attached = FALSE, !.watch = NoWatcher]
                        ELSE @[f]]]

(* The realized descendants follow their folder, and every folder state in  *)
(* the subtree gets a watcher at its new place, collapsed or not.           *)
RenameSubtree(t, id, from, to) ==
    LET below == Subtree(t, id)
        states == below \cap DOMAIN t.folder
        rekey(m) == [p \in {Carried(q, from, to) : q \in DOMAIN m} |->
                        m[Carried(p, to, from)]]
        moved == [t EXCEPT
                    !.node = [n \in DOMAIN @ |->
                                IF n \in below \ {id}
                                THEN [@[n] EXCEPT !.path = Carried(@, from, to)]
                                ELSE @[n]],
                    !.folder = [f \in DOMAIN @ |->
                                  IF f \in states
                                  THEN [@[f] EXCEPT !.byPath = rekey(@)]
                                  ELSE @[f]]]
        point(u, f) == IF disposed THEN Close(u, f)
                       ELSE Arm(Close(u, f), f, u.node[f].path)
    IN  FoldLeft(point, moved, SetToSeq(states))

(* A folder is expanded when it and every folder above it are listed.        *)
Expanded(t, f) ==
    /\ f \in DOMAIN t.folder
    /\ \A g \in t.known \cap DOMAIN t.folder :
          f \in Subtree(t, g) => t.folder[g].loaded

(* History: an inode of an expanded folder's child gets the child's id.      *)
Recorded(t) ==
    [i \in Inodes |->
        LET named == {c \in UNION {t.folder[f].children :
                                    f \in {g \in t.known : Expanded(t, g)}} :
                        /\ c \in t.known /\ t.node[c].path \in DOMAIN disk
                        /\ disk[t.node[c].path].ino = i}
        IN  IF identity[i] # 0 \/ named = {} THEN identity[i]
            ELSE CHOOSE c \in named : TRUE]

Forget(S) == identity' = [i \in Inodes |-> IF i \in S THEN 0 ELSE identity[i]]
InodesIn(path) == {disk[p].ino : p \in {q \in DOMAIN disk : Within(q, path)}}

(***************************************************************************)
(* Observing a folder.                                                     *)
(***************************************************************************)

(* Paths a report, an inode lookup or an open settle window still speaks of. *)
InFlight ==
    {e.path : e \in ToSet(feed)} \cup {s.path : s \in stats}
      \cup UNION {{x.path : x \in ToSet(tree.folder[f].adds)
                                  \cup ToSet(tree.folder[f].removals)} :
                     f \in {g \in DOMAIN tree.folder : tree.folder[g].timer}}

Loading(f) == \E l \in loads : l.folder = f
Busy(f) == \/ Loading(f)
           \/ f \in DOMAIN tree.folder /\ tree.folder[f].timer
           \/ \E e \in ToSet(feed) : e.watch.folder = f
           \/ \E s \in stats : s.folder = f

(* No report of this path, nor of a folder above or an entry below it, is    *)
(* still on its way ("window"), and no directory it is in is being listed    *)
(* ("load").                                                                *)
Calm(path) ==
    /\ "window" \in Overlaps \/ \A p \in InFlight : ~Within(p, path) /\ ~Within(path, p)
    /\ "load" \in Overlaps \/ \A l \in loads : ~Within(l.dir, path) /\ l.dir # ParentOf(path)

(* The last observer leaves only when the folder's reports have settled, and  *)
(* those about the folder itself.                                          *)
Patient(f) == "collapse" \in Overlaps \/
    (~Busy(f) /\ \A p \in InFlight : ~Within(PathOf(tree, f), p))

(* Folders are opened from the top and closed from the bottom. *)
Topmost(f) == "nested" \in Overlaps \/
    \A g \in (tree.known \cap DOMAIN tree.folder) \ {f} :
        f \in Subtree(tree, g) => tree.folder[g].loaded
Lowest(f) == "nested" \in Overlaps \/
    \A g \in (Subtree(tree, f) \cap DOMAIN tree.folder) \ {f} :
        ~tree.folder[g].loaded /\ ~Loading(g)

(* A folder's directory is where its node says. *)
Pointed(f) == "load" \in Overlaps \/ (IsFolder(disk, PathOf(tree, f))
                                        /\ \A p \in InFlight : ~Within(PathOf(tree, f), p))

(* A second observer joins a load only before its first entry is out.        *)
Early(f) == "join" \in Overlaps \/
    \A l \in loads : l.folder = f => Len(l.todo) = Cardinality(l.seen)

Observe(s, f) ==
    /\ ~disposed /\ tree.sub[s] = 0 /\ f \in tree.known /\ tree.node[f].dir
    /\ observes < MaxObserves /\ Pointed(f) /\ Early(f) /\ Topmost(f)
    /\ observes' = observes + 1
    /\ LET t == IF f \in DOMAIN tree.folder THEN tree
                ELSE [tree EXCEPT !.folder = Having(@, f, NoState)]
           u == [t EXCEPT !.sub[s] = f, !.view[s] = {}]
           state == u.folder[f]
       IN  IF ~state.loaded /\ ~state.loading
           THEN /\ tree' = [u EXCEPT !.folder[f].loading = TRUE]
                /\ loads' = loads \cup {[n |-> Fresh(loads), folder |-> f,
                                          dir |-> PathOf(tree, f), listed |-> FALSE,
                                          todo |-> <<>>, seen |-> {}]}
           ELSE /\ tree' = [u EXCEPT !.view[s] =
                                IF state.loaded THEN state.children ELSE {}]
                /\ loads' = loads
    /\ UNCHANGED <<disk, feed, stats, disposed, changes, identity>>

(* The last observer leaving closes the watcher and the window; what the     *)
(* window had buffered stays.                                               *)
Unobserve(s) ==
    LET f == tree.sub[s]
        t == [tree EXCEPT !.sub[s] = 0, !.view[s] = {}]
    IN  /\ f # 0
        /\ IF SinksOf(t, f) # {}
           THEN tree' = t /\ identity' = identity
           ELSE /\ Patient(f) /\ Lowest(f)
                /\ Forget({i \in Inodes : identity[i] \in Subtree(tree, f)})
                /\ tree' = [Close(t, f) EXCEPT !.folder[f].timer = FALSE,
                                !.folder[f].loaded = FALSE,
                                !.folder[f].loading = FALSE]
        /\ UNCHANGED <<disk, feed, loads, stats, disposed, changes, observes>>

Dispose ==
    /\ ~disposed /\ disposed' = TRUE
    /\ LET held == {f \in DOMAIN tree.folder : tree.folder[f].attached}
       IN  tree' = [tree EXCEPT
                      !.live = @ \ {tree.folder[f].watch : f \in held},
                      !.folder = [f \in DOMAIN @ |->
                          IF f \in held
                          THEN [@[f] EXCEPT !.watch = NoWatcher, !.timer = FALSE]
                          ELSE @[f]]]
    /\ UNCHANGED <<disk, feed, loads, stats, changes, observes, identity>>

(***************************************************************************)
(* A load: list, then per entry one inode lookup and one ContentAdded.     *)
(***************************************************************************)

LoadList(l) ==
    /\ ~l.listed
    /\ LET entries == {p \in Listing(disk, l.dir) : ~IsHiddenEntry(p)}
       IN  loads' = (loads \ {l}) \cup
                      {[l EXCEPT !.listed = TRUE, !.seen = entries,
                                 !.todo = SetToSeq({[path |-> p, dir |-> disk[p].dir] :
                                                      p \in entries})]}
    /\ UNCHANGED <<disk, tree, feed, stats, disposed, changes, observes, identity>>

(* An entry that vanished before its lookup rejects the load for good. *)
LoadEntry(l) ==
    /\ l.listed /\ l.todo # <<>>
    /\ LET e == Head(l.todo)
           t == InternChild(tree, l.folder, e.path, e.dir)
           id == ChildAt(t, l.folder, e.path)
       IN  IF Exists(disk, e.path)
           THEN /\ tree' = Emit([t EXCEPT !.folder[l.folder].byIno =
                                      Having(@, disk[e.path].ino, id)], l.folder, id)
                /\ loads' = (loads \ {l}) \cup {[l EXCEPT !.todo = Tail(@)]}
           ELSE /\ tree' = t
                /\ loads' = loads \ {l}
    /\ UNCHANGED <<disk, feed, stats, disposed, changes, observes, identity>>

(* Mutant of CatchUp: what vanished while the folder was collapsed stays.    *)
CatchUpNever(t, l) == t

(* Children that vanished while nobody watched are dropped without a word. *)
CatchUp(t, l) ==
    LET gone == {p \in DOMAIN t.folder[l.folder].byPath : p \notin l.seen}
        drop(u, p) ==
            LET id == u.folder[l.folder].byPath[p]
            IN  DropSubtree([u EXCEPT !.folder[l.folder].byPath = Without(@, {p}),
                                      !.folder[l.folder].children = @ \ {id}], id)
    IN  FoldLeft(drop, t, SetToSeq(gone))

LoadDone(l) ==
    /\ l.listed /\ l.todo = <<>>
    /\ loads' = loads \ {l}
    /\ LET t == CatchUp(tree, l)
       IN  tree' = IF disposed THEN t
                   ELSE Arm([t EXCEPT !.folder[l.folder].loaded = TRUE], l.folder, l.dir)
    /\ identity' = Recorded(tree')
    /\ UNCHANGED <<disk, feed, stats, disposed, changes, observes>>

(***************************************************************************)
(* Reports of the watchers.                                                *)
(***************************************************************************)

ScheduleFlush(t, f) ==
    IF disposed THEN t ELSE [t EXCEPT !.folder[f].timer = TRUE]

InoOf(t, f, id) ==
    LET keys == {i \in DOMAIN t.folder[f].byIno : t.folder[f].byIno[i] = id}
    IN  IF keys = {} THEN 0 ELSE CHOOSE i \in keys : TRUE

(* Map.set: an entry of the same path keeps its place in the order. *)
Upsert(seq, e) ==
    IF \E k \in DOMAIN seq : seq[k].path = e.path
    THEN [k \in DOMAIN seq |-> IF seq[k].path = e.path THEN e ELSE seq[k]]
    ELSE Append(seq, e)

Report ==
    /\ feed # <<>> /\ feed' = Tail(feed)
    /\ LET e == Head(feed)
           f == e.watch.folder
       IN  IF e.watch \notin tree.live
           THEN UNCHANGED <<tree, stats>>
           ELSE IF e.removed
           THEN /\ stats' = stats
                /\ tree' = IF e.path \notin DOMAIN tree.folder[f].byPath THEN tree
                           ELSE LET id == ChildAt(tree, f, e.path)
                                IN ScheduleFlush([tree EXCEPT !.folder[f].removals =
                                     Upsert(@, [path |-> e.path, id |-> id,
                                                ino |-> InoOf(tree, f, id),
                                                dir |-> tree.node[id].dir])], f)
           ELSE /\ tree' = tree
                /\ stats' = IF IsHiddenEntry(e.path) THEN stats
                            ELSE stats \cup {[folder |-> f, path |-> e.path, dir |-> e.dir]}
    /\ UNCHANGED <<disk, loads, disposed, changes, observes, identity>>

(* The inode lookup of an addition; it fails when the entry is gone again. *)
Looked(s) ==
    /\ stats' = stats \ {s}
    /\ tree' = IF ~Exists(disk, s.path) THEN tree
               ELSE ScheduleFlush([tree EXCEPT !.folder[s.folder].adds =
                        Upsert(@, [path |-> s.path, ino |-> disk[s.path].ino,
                                   dir |-> s.dir])], s.folder)
    /\ UNCHANGED <<disk, feed, loads, disposed, changes, observes, identity>>

(***************************************************************************)
(* The end of a settle window.                                             *)
(***************************************************************************)

(* Mutant of MatchesOf: a removal pairs by its path, not by its inode.       *)
MatchesByPath(t, f, add) ==
    {k \in DOMAIN t.folder[f].removals :
        /\ t.folder[f].removals[k].path = add.path
        /\ t.folder[f].removals[k].dir = add.dir}

MatchesOf(t, f, add) ==
    {k \in DOMAIN t.folder[f].removals :
        /\ t.folder[f].removals[k].ino = add.ino
        /\ t.folder[f].removals[k].dir = add.dir
        /\ add.ino # 0}

(* Pass 1: an addition and a removal of one inode and kind are a rename. *)
Pair(t, f, add) ==
    LET found == MatchesOf(t, f, add)
        k == CHOOSE i \in found : \A j \in found : i <= j
        rem == t.folder[f].removals[k]
        from == t.node[rem.id].path
        u == [t EXCEPT
                !.folder[f].adds = SelectSeq(@, LAMBDA x : x.path # add.path),
                !.folder[f].removals = RemoveAt(@, k),
                !.folder[f].byPath = Having(Without(@, {from}), add.path, rem.id),
                !.folder[f].byIno = Having(@, add.ino, rem.id),
                !.node[rem.id].path = add.path]
    IN  IF found = {} THEN t
        ELSE Emit(IF t.node[rem.id].dir THEN RenameSubtree(u, rem.id, from, add.path)
                  ELSE u, f, rem.id)

(* Pass 2: what is left of the removals. *)
TakeAway(t, f, rem) ==
    Retract(DropSubtree([t EXCEPT
        !.folder[f].children = @ \ {rem.id},
        !.folder[f].byPath = Without(@, {rem.path}),
        !.folder[f].byIno = Without(@, {rem.ino})], rem.id), f, rem.id)

(* Pass 3: what is left of the additions. *)
PutIn(t, f, add) ==
    LET u == InternChild(t, f, add.path, add.dir)
        id == ChildAt(u, f, add.path)
    IN  Emit([u EXCEPT !.folder[f].byIno = Having(@, add.ino, id)], f, id)

Flushed(t, f) ==
    LET paired == FoldLeft(LAMBDA u, a : Pair(u, f, a), t, t.folder[f].adds)
        fewer == FoldLeft(LAMBDA u, r : TakeAway(u, f, r), paired,
                          paired.folder[f].removals)
        full == FoldLeft(LAMBDA u, a : PutIn(u, f, a), fewer, fewer.folder[f].adds)
    IN  [full EXCEPT !.folder[f].removals = <<>>, !.folder[f].adds = <<>>]

(* One half of a rename is buffered and the other one still on its way: the *)
(* window is sized to outlast the gap between the two.                     *)
Halved(f) ==
    LET state == tree.folder[f]
        coming == {s.path : s \in {x \in stats : x.folder = f}} \cup
                  {e.path : e \in {x \in ToSet(feed) : x.watch.folder = f /\ ~x.removed}}
        going == {e.path : e \in {x \in ToSet(feed) : x.watch.folder = f /\ x.removed}}
    IN  \/ \E r \in ToSet(state.removals), p \in coming \cap DOMAIN disk :
              disk[p].ino = r.ino
        \/ \E a \in ToSet(state.adds), p \in going \cap DOMAIN state.byPath :
              InoOf(tree, f, state.byPath[p]) = a.ino

Flush(f) ==
    /\ tree.folder[f].timer /\ ("split" \in Overlaps \/ ~Halved(f))
    /\ tree' = Flushed([tree EXCEPT !.folder[f].timer = FALSE], f)
    /\ identity' = Recorded(tree')
    /\ UNCHANGED <<disk, feed, loads, stats, disposed, changes, observes>>

(***************************************************************************)
(* Changes of the disk, by the store's own mutations and by anyone else.   *)
(* Every live watcher of the directory reports; the two halves of a        *)
(* rename in either order, and an expanded folder that is deleted reports  *)
(* its entries before or after itself.                                     *)
(***************************************************************************)

Reports(path, removed, dir) ==
    SetToSeq({[watch |-> w, path |-> path, removed |-> removed, dir |-> dir] :
                w \in {x \in tree.live : x.path = ParentOf(path)}})

Change(d) ==
    /\ changes < MaxChanges /\ changes' = changes + 1
    /\ disk' = d
    /\ UNCHANGED <<tree, loads, stats, disposed, observes>>

(* A folder that was expanded and collapsed again is not renamed. *)
Steady(from) ==
    "collapsed" \in Overlaps \/
        \A f \in DOMAIN tree.folder \cap tree.known :
            Within(tree.node[f].path, from) => tree.folder[f].loaded

(* A path a collapsed folder remembers is not taken by the other kind.       *)
SameKind(path, dir) == "kind" \in Overlaps \/
    \A f \in DOMAIN tree.folder :
        path \in DOMAIN tree.folder[f].byPath /\ ~tree.folder[f].loaded
            => tree.node[ChildAt(tree, f, path)].dir = dir

(* A new folder does not get the inode of a folder whose removal is still    *)
(* on its way.                                                              *)
NotReused(ino, dir) == "reuse" \in Overlaps \/ ~dir \/
    \A f \in DOMAIN tree.folder : ino \in DOMAIN tree.folder[f].byIno =>
        tree.node[tree.folder[f].byIno[ino]].path \notin InFlight

Create(path, dir) ==
    /\ SameKind(path, dir)
    /\ Len(path) <= MaxDepth /\ ~Exists(disk, path) /\ IsFolder(disk, ParentOf(path))
    /\ Calm(path)
    /\ \E i \in {j \in FreeInodes(disk) : NotReused(j, dir)} : Change(Put(disk, path, [ino |-> i, dir |-> dir]))
    /\ feed' = feed \o Reports(path, FALSE, dir)
    /\ identity' = identity

(* The watcher of an expanded folder reports its entries, too, when the      *)
(* folder is deleted; whether it does when the folder is renamed is the      *)
(* runtime's affair ("inside").                                             *)
Inner(path) ==
    FlattenSeq(SetToSeq({Reports(p, TRUE, disk[p].dir) :
                            p \in {q \in DOMAIN disk : Under(q, path)}}))

Move(from, to) ==
    /\ Exists(disk, from) /\ ~Exists(disk, to) /\ IsFolder(disk, ParentOf(to))
    /\ ~Within(to, from) /\ Fits(disk, from, to)
    /\ Calm(from) /\ Calm(to)
    /\ Steady(from) /\ SameKind(to, disk[from].dir)
    /\ Change(MoveTree(disk, from, to))
    /\ LET gone == Reports(from, TRUE, disk[from].dir)
           come == Reports(to, FALSE, disk[from].dir)
           inner == IF "inside" \in Overlaps THEN Inner(from) ELSE <<>>
       IN  feed' \in {feed \o gone \o inner \o come, feed \o come \o gone \o inner}
    /\ Forget(IF ParentOf(from) = ParentOf(to) /\ ~IsHiddenEntry(to) THEN {} ELSE InodesIn(from))

Delete(path) ==
    /\ Exists(disk, path) /\ Calm(path)
    /\ Change(Erase(disk, path))
    /\ LET self == Reports(path, TRUE, disk[path].dir)
       IN  feed' \in {feed \o self \o Inner(path), feed \o Inner(path) \o self}
    /\ Forget(InodesIn(path))

(* The store's own mutations go to the storage by the path of a node.        *)
CreateIn(id, name, dir) == id \in tree.known /\ tree.node[id].dir
                             /\ Create(Join(PathOf(tree, id), name), dir)
Rename(id, name) == id \in tree.known \ {RootId}
    /\ Move(PathOf(tree, id), Join(ParentOf(PathOf(tree, id)), name))
MoveInto(id, dest) == id \in tree.known \ {RootId} /\ dest \in tree.known
    /\ Move(PathOf(tree, id), Join(PathOf(tree, dest), BaseName(PathOf(tree, id))))
DeleteNode(id) == id \in tree.known \ {RootId} /\ Delete(PathOf(tree, id))

StoreInit ==
    /\ disk \in Seeds /\ tree = EmptyTree
    /\ feed = <<>> /\ loads = {} /\ stats = {}
    /\ disposed = FALSE /\ changes = 0 /\ observes = 0
    /\ identity = [i \in Inodes |-> 0]

StoreNext ==
    \/ \E s \in Sinks, f \in tree.known : Observe(s, f)
    \/ \E s \in Sinks : Unobserve(s)
    \/ Dispose
    \/ \E l \in loads : LoadList(l) \/ LoadEntry(l) \/ LoadDone(l)
    \/ Report
    \/ \E s \in stats : Looked(s)
    \/ \E f \in DOMAIN tree.folder : Flush(f)
    \/ \E p \in Paths, dir \in BOOLEAN : Create(p, dir)
    \/ \E p, q \in Paths : Move(p, q)
    \/ \E p \in Paths : Delete(p)
    \/ \E id \in tree.known, n \in Names, dir \in BOOLEAN : CreateIn(id, n, dir)
    \/ \E id \in tree.known, n \in Names : Rename(id, n)
    \/ \E id, dest \in tree.known : tree.node[dest].dir /\ MoveInto(id, dest)
    \/ \E id \in tree.known : DeleteNode(id)

(***************************************************************************)
(* Properties.                                                             *)
(***************************************************************************)

StoreTypeOK ==
    /\ tree.known \subseteq Ids(tree)
    /\ \A f \in DOMAIN tree.folder :
          /\ tree.folder[f].children \subseteq Ids(tree)
          /\ \A p \in DOMAIN tree.folder[f].byPath :
                tree.folder[f].byPath[p] \in tree.folder[f].children
          /\ tree.folder[f].watch \in tree.live \cup {NoWatcher}
    /\ \A s \in Sinks : tree.view[s] \subseteq Ids(tree)

Quiet ==
    /\ feed = <<>> /\ loads = {} /\ stats = {}
    /\ \A f \in DOMAIN tree.folder : ~tree.folder[f].timer

(* Once the reports have settled, an expanded folder's children are exactly  *)
(* the entries of its directory, wherever that directory was renamed to, and *)
(* each is found again under its path.                                      *)
SettlesToDisk ==
    Quiet /\ ~disposed =>
        \A f \in {g \in tree.known : Expanded(tree, g)} :
            LET state == tree.folder[f]
                shown == {p \in Listing(disk, PathOf(tree, f)) : ~IsHiddenEntry(p)}
            IN  /\ {tree.node[c].path : c \in state.children} = shown
                /\ DOMAIN state.byPath = shown
                /\ \A p \in shown : tree.node[state.byPath[p]] = [path |-> p, dir |-> disk[p].dir]

(* What an observer has been told adds up to the folder's children.          *)
ObserversMirror ==
    Quiet /\ ~disposed => \A s \in Sinks :
                tree.sub[s] \in {g \in tree.known : Expanded(tree, g)} =>
                    tree.view[s] = tree.folder[tree.sub[s]].children

(* A rename in a folder that stays expanded keeps the node: the id under     *)
(* which an inode is known changes only when the inode left its folder.      *)
IdentityKept ==
    Quiet /\ ~disposed => \A f \in {g \in tree.known : Expanded(tree, g)} :
        \A c \in tree.folder[f].children :
            tree.node[c].path \in DOMAIN disk =>
                identity[disk[tree.node[c].path].ino] \in {0, c}

(* A disposed store holds no watcher and no settle timer.                    *)
DisposedIsInert ==
    disposed => /\ tree.live = {}
                /\ \A f \in DOMAIN tree.folder :
                      tree.folder[f].attached => ~tree.folder[f].timer
=============================================================================
