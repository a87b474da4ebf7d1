---------------------------- MODULE ProjectFiles ----------------------------
(* The storage of one project, as the content store and the content        *)
(* operations use it (the runtime's IStorage; its code is not in the       *)
(* repository).  A path is the sequence of its segments, the root is <<>>, *)
(* and a disk maps every existing path to its inode and whether it is a    *)
(* directory.                                                              *)
EXTENDS Naturals, Sequences

CONSTANTS
    Names,      \* the segments a path is made of
    MaxDepth,   \* the deepest path
    Inodes      \* the inode numbers the storage hands out (and reuses)

Root == <<>>

Paths == UNION {[1..n -> Names] : n \in 1..MaxDepth}

(* project-content-store.ts parentDir, member-content-ops.ts ParentOf *)
ParentOf(path) == SubSeq(path, 1, Len(path) - 1)

(* project-content-store.ts baseName, member-content-ops.ts BaseName *)
BaseName(path) == path[Len(path)]

(* project-content-store.ts childPath, member-content-ops.ts Join *)
Join(dir, name) == Append(dir, name)

(* path.startsWith(folder + '/') *)
Under(path, folder) ==
    /\ Len(path) > Len(folder)
    /\ SubSeq(path, 1, Len(folder)) = folder

Within(path, folder) == path = folder \/ Under(path, folder)

(* A path carried along when the folder `from` becomes `to`. *)
Carried(path, from, to) == to \o SubSeq(path, Len(from) + 1, Len(path))

Exists(d, path) == path = Root \/ path \in DOMAIN d

IsFolder(d, path) == path = Root \/ (path \in DOMAIN d /\ d[path].dir)

Listing(d, dir) == {p \in DOMAIN d : ParentOf(p) = dir}

FreeInodes(d) == Inodes \ {d[p].ino : p \in DOMAIN d}

Put(d, path, entry) ==
    [p \in DOMAIN d \cup {path} |-> IF p = path THEN entry ELSE d[p]]

Erase(d, path) == [p \in {q \in DOMAIN d : ~Within(q, path)} |-> d[p]]

(* A rename carries the whole subtree; what was at the target is replaced. *)
MoveTree(d, from, to) ==
    LET moved == {p \in DOMAIN d : Within(p, from)}
        kept == {p \in DOMAIN d : ~Within(p, from) /\ ~Within(p, to)}
        back(p) == Carried(p, to, from)
        here == {Carried(p, from, to) : p \in moved}
    IN  [p \in kept \cup here |-> IF p \in here THEN d[back(p)] ELSE d[p]]

Fits(d, from, to) ==
    \A p \in DOMAIN d : Within(p, from) => Len(Carried(p, from, to)) <= MaxDepth
=============================================================================
