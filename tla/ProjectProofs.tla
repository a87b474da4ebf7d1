---------------------------- MODULE ProjectProofs ----------------------------
(***************************************************************************)
(* What holds of one project in the workspace, for any names, disks,       *)
(* connections and bounds: of the calls on its files, of its settings and  *)
(* of its life.                                                            *)
(***************************************************************************)
EXTENDS MCWorkspace, FiniteSetTheorems, SequenceTheorems, TLAPS

(* A path below the member, without the member's own root.                   *)
Path == Seq(Segments) \ {<<>>}

(***************************************************************************)
(* Calls on files, one at a time.                                          *)
(***************************************************************************)

(* A disk that holds the folders of whatever it holds.                       *)
Tree(d) ==
    /\ IsFiniteSet(DOMAIN d) /\ DOMAIN d \subseteq Path
    /\ \A p \in DOMAIN d : \A n \in 1 .. Len(p) : SubSeq(p, 1, n) \in DOMAIN d

(* What a call still has to do, by its kind: where a file goes and where     *)
(* from; a path to delete; an entry to make. `done` is what it has told, or  *)
(* has to tell, the guard.                                                   *)
Relocation == [from : Path, to : Path]
Relocations == [n : Nat, kind : {"rename", "move"}, todo : Seq(Relocation), probe : {1, 2},
                done : SUBSET Relocation]
Deletions == [n : Nat, kind : {"delete"}, todo : Seq(Path), probe : {1}, done : SUBSET Path]
Creation == [in : Seq(Segments), name : Segments, dir : BOOLEAN]
Creations == [n : Nat, kind : {"new"}, todo : Seq(Creation), probe : Nat,
              done : SUBSET Path]

(* A call with the fields its kind has.                                      *)
IsCall(c) ==
    \/ c.kind \in {"rename", "move"} /\ c \in Relocations
    \/ c.kind = "delete" /\ c \in Deletions
    \/ c.kind = "new" /\ c \in Creations

(* What the call under way has looked up still is so.                        *)
Knows(c, d) ==
    /\ c.kind \in {"rename", "move"} /\ c.probe = 2 =>
          c.todo # <<>> /\ Head(c.todo).to \notin DOMAIN d
    /\ c.kind = "new" /\ c.todo # <<>> => c.probe \in 1 .. Len(Variants[Head(c.todo).name])
    /\ c.kind = "new" /\ c.done # {} => c.todo # <<>> /\ Ops!Candidate(c) \notin DOMAIN d

(* An editor holds the path of its file, unless a delete took that away and  *)
(* has not told the guard yet.                                              *)
Tracks(d, es, i) == es[i] \in DOMAIN d /\ d[es[i]].ino = i
Follows(d, es, cs) ==
    \A i \in OpsInodes : es[i] # <<>> =>
        \/ Tracks(d, es, i)
        \/ \E c \in cs : c.kind = "delete" /\ \E p \in c.done : Ops!Within(es[i], p)

(* The inductive invariant of the calls on files.                            *)
FilesInv ==
    /\ Tree(files) /\ editors \in [OpsInodes -> Seq(Segments)] /\ steps \in Nat
    /\ \A c \in calls : calls = {c} /\ IsCall(c) /\ Knows(c, files)
    /\ Follows(files, editors, calls)

FilesKept == subject = "calls" => FilesInv

(* The beginning of a path.                                                   *)
LEMMA Beginning ==
  ASSUME NEW S, NEW s \in Seq(S), NEW n \in 0 .. Len(s)
  PROVE  /\ SubSeq(s, 1, n) \in Seq(S) /\ Len(SubSeq(s, 1, n)) = n
         /\ \A i \in 1 .. n : SubSeq(s, 1, n)[i] = s[i]
  <1>1. Len(s) \in Nat /\ n \in Nat /\ \A i \in 1 .. n : s[i] \in S
    OBVIOUS
  <1>2. /\ SubSeq(s, 1, n) \in Seq(S)
        /\ Len(SubSeq(s, 1, n)) = IF 1 <= n THEN n - 1 + 1 ELSE 0
        /\ \A i \in 1 .. n - 1 + 1 : SubSeq(s, 1, n)[i] = s[1 + i - 1]
    BY <1>1, SubSeqProperties
  <1>3. \A i \in 1 .. n : i \in 1 .. n - 1 + 1 /\ 1 + i - 1 = i
    BY <1>1
  <1> QED  BY <1>1, <1>2, <1>3

(* A path is in a folder when it begins as the folder does.                   *)
LEMMA WithinIs ==
  ASSUME NEW p \in Seq(Segments), NEW f \in Seq(Segments)
  PROVE  Ops!Within(p, f) <=> Len(p) >= Len(f) /\ \A i \in 1 .. Len(f) : p[i] = f[i]
  <1>1. Len(p) \in Nat /\ Len(f) \in Nat
    OBVIOUS
  <1>2. ASSUME Len(p) >= Len(f)
        PROVE  SubSeq(p, 1, Len(f)) = f <=> \A i \in 1 .. Len(f) : p[i] = f[i]
    <2>1. /\ SubSeq(p, 1, Len(f)) \in Seq(Segments) /\ Len(SubSeq(p, 1, Len(f))) = Len(f)
          /\ \A i \in 1 .. Len(f) : SubSeq(p, 1, Len(f))[i] = p[i]
      BY <1>1, <1>2, Beginning
    <2>2. (\A i \in 1 .. Len(f) : p[i] = f[i]) => SubSeq(p, 1, Len(f)) = f
      BY <2>1, SeqEqual
    <2> QED  BY <2>1, <2>2
  <1>3. Len(p) = Len(f) /\ (\A i \in 1 .. Len(f) : p[i] = f[i]) => p = f
    BY SeqEqual
  <1> QED  BY <1>1, <1>2, <1>3 DEF Ops!Within, Ops!Under

(* What is in a folder stays in it when it gets longer.                       *)
LEMMA WithinFrom ==
  ASSUME NEW p \in Seq(Segments), NEW n \in 0 .. Len(p), NEW f \in Seq(Segments),
         Ops!Within(SubSeq(p, 1, n), f)
  PROVE  Ops!Within(p, f)
  <1>1. /\ SubSeq(p, 1, n) \in Seq(Segments) /\ Len(SubSeq(p, 1, n)) = n
        /\ \A i \in 1 .. n : SubSeq(p, 1, n)[i] = p[i]
    BY Beginning
  <1>2. n >= Len(f) /\ \A i \in 1 .. Len(f) : SubSeq(p, 1, n)[i] = f[i]
    BY <1>1, WithinIs
  <1>3. Len(p) \in Nat /\ Len(f) \in Nat /\ n <= Len(p) /\ n \in Nat
    OBVIOUS
  <1>4. Len(p) >= Len(f) /\ \A i \in 1 .. Len(f) : p[i] = f[i]
    BY <1>1, <1>2, <1>3
  <1> QED  BY <1>4, WithinIs

(* A path carried along, segment by segment.                                  *)
LEMMA CarriedIs ==
  ASSUME NEW p \in Seq(Segments), NEW from \in Seq(Segments), NEW to \in Seq(Segments),
         Len(p) >= Len(from)
  PROVE  /\ Ops!Carried(p, from, to) \in Seq(Segments)
         /\ Len(Ops!Carried(p, from, to)) = Len(to) + (Len(p) - Len(from))
         /\ \A i \in 1 .. Len(to) : Ops!Carried(p, from, to)[i] = to[i]
         /\ \A i \in 1 .. Len(p) - Len(from) :
               Ops!Carried(p, from, to)[Len(to) + i] = p[Len(from) + i]
  <1> DEFINE rest == SubSeq(p, Len(from) + 1, Len(p))
  <1>1. Len(p) \in Nat /\ Len(from) \in Nat /\ Len(to) \in Nat
    OBVIOUS
  <1>2. /\ rest \in Seq(Segments) /\ Len(rest) = Len(p) - Len(from)
        /\ \A i \in 1 .. Len(p) - Len(from) : rest[i] = p[Len(from) + i]
    <2>1. /\ Len(from) + 1 \in Int /\ Len(p) \in Int
          /\ \A i \in Len(from) + 1 .. Len(p) : p[i] \in Segments
      BY <1>1
    <2>2. /\ rest \in Seq(Segments)
          /\ Len(rest) = IF Len(from) + 1 <= Len(p) THEN Len(p) - (Len(from) + 1) + 1 ELSE 0
          /\ \A i \in 1 .. Len(p) - (Len(from) + 1) + 1 : rest[i] = p[(Len(from) + 1) + i - 1]
      BY <2>1, SubSeqProperties
    <2> HIDE DEF rest
    <2>3. ASSUME NEW i \in 1 .. Len(p) - Len(from) PROVE rest[i] = p[Len(from) + i]
      <3>1. i \in 1 .. Len(p) - (Len(from) + 1) + 1 /\ (Len(from) + 1) + i - 1 = Len(from) + i
        BY <1>1
      <3> QED  BY <2>2, <3>1
    <2> QED  BY <1>1, <2>2, <2>3
  <1>3. Ops!Carried(p, from, to) = to \o rest
    BY DEF Ops!Carried
  <1> HIDE DEF rest
  <1>4. /\ to \o rest \in Seq(Segments) /\ Len(to \o rest) = Len(to) + Len(rest)
        /\ \A i \in 1 .. Len(to) + Len(rest) :
              (to \o rest)[i] = IF i <= Len(to) THEN to[i] ELSE rest[i - Len(to)]
    BY <1>2, ConcatProperties
  <1>5. \A i \in 1 .. Len(to) : (to \o rest)[i] = to[i]
    BY <1>1, <1>2, <1>4
  <1>6. ASSUME NEW i \in 1 .. Len(p) - Len(from)
        PROVE  (to \o rest)[Len(to) + i] = p[Len(from) + i]
    <2>1. /\ Len(to) + i \in 1 .. Len(to) + Len(rest) /\ ~(Len(to) + i <= Len(to))
          /\ (Len(to) + i) - Len(to) = i
      BY <1>1, <1>2
    <2> QED  BY <1>2, <1>4, <2>1
  <1> QED  BY <1>2, <1>3, <1>4, <1>5, <1>6

(* A path in a folder that moves is in the folder it becomes, and back where  *)
(* it was when the folder moves back.                                         *)
LEMMA CarriedBack ==
  ASSUME NEW p \in Seq(Segments), NEW from \in Seq(Segments), NEW to \in Seq(Segments),
         Ops!Within(p, from)
  PROVE  /\ Ops!Carried(p, from, to) \in Seq(Segments)
         /\ Ops!Within(Ops!Carried(p, from, to), to)
         /\ Ops!Carried(Ops!Carried(p, from, to), to, from) = p
  <1> DEFINE q == Ops!Carried(p, from, to)
             r == Ops!Carried(q, to, from)
  <1>1. Len(p) >= Len(from) /\ \A i \in 1 .. Len(from) : p[i] = from[i]
    BY WithinIs
  <1>2. /\ q \in Seq(Segments) /\ Len(q) = Len(to) + (Len(p) - Len(from))
        /\ \A i \in 1 .. Len(to) : q[i] = to[i]
        /\ \A i \in 1 .. Len(p) - Len(from) : q[Len(to) + i] = p[Len(from) + i]
    BY <1>1, CarriedIs
  <1> HIDE DEF q
  <1>3. Len(p) \in Nat /\ Len(from) \in Nat /\ Len(to) \in Nat
    OBVIOUS
  <1>4. Len(q) >= Len(to) /\ Len(q) - Len(to) = Len(p) - Len(from)
    BY <1>1, <1>2, <1>3
  <1>5. /\ r \in Seq(Segments) /\ Len(r) = Len(from) + (Len(q) - Len(to))
        /\ \A i \in 1 .. Len(from) : r[i] = from[i]
        /\ \A i \in 1 .. Len(q) - Len(to) : r[Len(from) + i] = q[Len(to) + i]
    BY <1>2, <1>4, CarriedIs
  <1> HIDE DEF r
  <1>6. ASSUME NEW i \in 1 .. Len(p) PROVE r[i] = p[i]
    <2>1. CASE i <= Len(from)
      BY <1>1, <1>3, <1>5, <2>1
    <2>2. CASE ~(i <= Len(from))
      <3>1. i - Len(from) \in 1 .. Len(p) - Len(from) /\ Len(from) + (i - Len(from)) = i
        BY <1>3, <2>2
      <3> QED  BY <1>2, <1>4, <1>5, <3>1
    <2> QED  BY <2>1, <2>2
  <1>7. Len(r) = Len(p)
    BY <1>3, <1>4, <1>5
  <1>8. r = p
    BY <1>5, <1>6, <1>7, SeqEqual
  <1>9. Ops!Within(q, to)
    BY <1>2, <1>4, WithinIs
  <1> QED  BY <1>2, <1>8, <1>9 DEF q, r

(* The disk holds the folders of what it holds.                               *)
LEMMA TreeHolds ==
  ASSUME NEW d, Tree(d), NEW p \in DOMAIN d, NEW f \in Path, Ops!Within(p, f)
  PROVE  f \in DOMAIN d
  <1>1. p \in Seq(Segments) /\ f \in Seq(Segments) /\ f # <<>>
    BY DEF Tree, Path
  <1>2. Len(f) \in 1 .. Len(p)
    <2>1. Len(p) >= Len(f) /\ Len(f) \in Nat /\ Len(f) # 0
      BY <1>1, WithinIs
    <2> QED  BY <1>1, <2>1
  <1>3. CASE Ops!Under(p, f)
    BY <1>2, <1>3 DEF Tree, Ops!Under
  <1> QED  BY <1>3 DEF Ops!Within

(* A delete takes a path and what is in it, and keeps the disk a tree.       *)
LEMMA EraseTree ==
  ASSUME NEW d, Tree(d), NEW x \in Path
  PROVE  /\ Tree(Ops!Erase(d, x))
         /\ \A p \in DOMAIN d : ~Ops!Within(p, x) =>
               p \in DOMAIN Ops!Erase(d, x) /\ Ops!Erase(d, x)[p] = d[p]
         /\ DOMAIN Ops!Erase(d, x) \subseteq DOMAIN d
  <1> DEFINE e == Ops!Erase(d, x)
             left == {q \in DOMAIN d : ~Ops!Within(q, x)}
  <1>1. DOMAIN e = left /\ \A p \in left : e[p] = d[p]
    BY DEF Ops!Erase
  <1>2. IsFiniteSet(left) /\ left \subseteq Path
    BY FS_Subset DEF Tree
  <1>3. ASSUME NEW p \in left, NEW n \in 1 .. Len(p) PROVE SubSeq(p, 1, n) \in left
    <2>1. p \in Seq(Segments) /\ x \in Seq(Segments) /\ SubSeq(p, 1, n) \in DOMAIN d
      BY DEF Tree, Path
    <2>2. n \in 0 .. Len(p)
      BY <2>1
    <2> QED  BY <2>1, <2>2, WithinFrom
  <1> QED  BY <1>1, <1>2, <1>3 DEF Tree

(* What a new path below a folder begins with.                               *)
LEMMA Joined ==
  ASSUME NEW in \in Seq(Segments), NEW name \in Segments
  PROVE  /\ Ops!Join(in, name) \in Path /\ Len(Ops!Join(in, name)) = Len(in) + 1
         /\ \A n \in 1 .. Len(in) : SubSeq(Ops!Join(in, name), 1, n) = SubSeq(in, 1, n)
         /\ SubSeq(Ops!Join(in, name), 1, Len(in) + 1) = Ops!Join(in, name)
         /\ SubSeq(in, 1, Len(in)) = in
  <1> DEFINE q == Append(in, name)
  <1>1. Len(in) \in Nat
    OBVIOUS
  <1>2. /\ q \in Seq(Segments) /\ Len(q) = Len(in) + 1
        /\ \A i \in 1 .. Len(in) : q[i] = in[i]
    BY AppendProperties
  <1>3. Ops!Join(in, name) = q
    BY DEF Ops!Join
  <1> HIDE DEF q
  <1>4. \A n \in 1 .. Len(in) : SubSeq(q, 1, n) = SubSeq(in, 1, n)
    <2> SUFFICES ASSUME NEW n \in 1 .. Len(in) PROVE SubSeq(q, 1, n) = SubSeq(in, 1, n)
      OBVIOUS
    <2>1. n \in 0 .. Len(q) /\ n \in 0 .. Len(in)
      BY <1>1, <1>2
    <2>2. /\ SubSeq(q, 1, n) \in Seq(Segments) /\ Len(SubSeq(q, 1, n)) = n
          /\ \A i \in 1 .. n : SubSeq(q, 1, n)[i] = q[i]
      BY <1>2, <2>1, Beginning
    <2>3. /\ SubSeq(in, 1, n) \in Seq(Segments) /\ Len(SubSeq(in, 1, n)) = n
          /\ \A i \in 1 .. n : SubSeq(in, 1, n)[i] = in[i]
      BY <2>1, Beginning
    <2>4. \A i \in 1 .. n : SubSeq(q, 1, n)[i] = SubSeq(in, 1, n)[i]
      BY <1>1, <1>2, <2>2, <2>3
    <2> QED  BY <2>2, <2>3, <2>4, SeqEqual
  <1>5. SubSeq(q, 1, Len(in) + 1) = q /\ SubSeq(in, 1, Len(in)) = in
    BY <1>2, SubSeqFull
  <1>6. q # <<>>
    BY <1>1, <1>2
  <1> QED  BY <1>2, <1>3, <1>4, <1>5, <1>6 DEF Path

(* A disk that holds a folder holds every beginning of it.                    *)
LEMMA FolderHeld ==
  ASSUME NEW d, Tree(d), NEW in \in Seq(Segments), Ops!IsFolder(d, in), NEW n \in 1 .. Len(in)
  PROVE  SubSeq(in, 1, n) \in DOMAIN d
  <1>1. in # <<>>
    OBVIOUS
  <1> QED  BY <1>1 DEF Tree, Ops!IsFolder, Ops!Root

(* A new file or folder in a folder that exists keeps the disk a tree.       *)
LEMMA PutTree ==
  ASSUME NEW d, Tree(d), NEW in \in Seq(Segments), Ops!IsFolder(d, in), NEW name \in Segments,
         NEW entry
  PROVE  Tree(Ops!Put(d, Ops!Join(in, name), entry))
  <1> DEFINE q == Ops!Join(in, name)
  <1>1. DOMAIN Ops!Put(d, q, entry) = DOMAIN d \cup {q}
    BY DEF Ops!Put
  <1>2. IsFiniteSet(DOMAIN d \cup {q})
    BY FS_AddElement DEF Tree
  <1>3. ASSUME NEW n \in 1 .. Len(q) PROVE SubSeq(q, 1, n) \in DOMAIN d \cup {q}
    <2>1. Len(q) = Len(in) + 1 /\ Len(in) \in Nat
      BY Joined
    <2>2. CASE n = Len(in) + 1
      BY <2>2, Joined
    <2>3. CASE n # Len(in) + 1
      <3>1. n \in 1 .. Len(in)
        BY <2>1, <2>3
      <3> QED  BY <3>1, Joined, FolderHeld
    <2> QED  BY <2>2, <2>3
  <1>4. q \in Path
    BY Joined
  <1> HIDE DEF q
  <1> QED  BY <1>1, <1>2, <1>3, <1>4 DEF Tree, q

(* A rename or move that found its target free.                               *)
Moves(d, from, to) ==
    /\ Tree(d) /\ from \in DOMAIN d /\ to \in Path /\ to \notin DOMAIN d
    /\ ~Ops!Within(to, from) /\ Ops!IsFolder(d, Ops!ParentOf(to))

(* The paths a move of `from` takes along, those it leaves, and where the    *)
(* former come to.                                                           *)
Moved(d, from) == {p \in DOMAIN d : Ops!Within(p, from)}
Stays(d, from) == {p \in DOMAIN d : ~Ops!Within(p, from)}
Lands(d, from, to) == {Ops!Carried(p, from, to) : p \in Moved(d, from)}

(* A disk m is disk d after a move: what was in `from` is carried along, the  *)
(* rest is where it was.                                                      *)
Carries(m, d, from, to) ==
    /\ DOMAIN m = Stays(d, from) \cup Lands(d, from, to)
    /\ \A p \in DOMAIN d :
          IF Ops!Within(p, from) THEN m[Ops!Carried(p, from, to)] = d[p] ELSE m[p] = d[p]

(* A rename or move to a free target carries a subtree along.                *)
LEMMA MoveCarries ==
  ASSUME NEW d, NEW from, NEW to, Moves(d, from, to)
  PROVE  Carries(Ops!MoveTree(d, from, to), d, from, to)
  <1> DEFINE moved == {p \in DOMAIN d : Ops!Within(p, from)}
             kept == {p \in DOMAIN d : ~Ops!Within(p, from) /\ ~Ops!Within(p, to)}
             here == {Ops!Carried(p, from, to) : p \in moved}
             m == Ops!MoveTree(d, from, to)
  <1>1. m = [p \in kept \cup here |-> IF p \in here THEN d[Ops!Carried(p, to, from)] ELSE d[p]]
    BY DEF Ops!MoveTree
  <1>2. /\ from \in Seq(Segments) /\ to \in Seq(Segments)
        /\ \A p \in DOMAIN d : p \in Seq(Segments)
    BY DEF Moves, Tree, Path
  <1>3. \A p \in DOMAIN d : ~Ops!Within(p, to)
    BY TreeHolds DEF Moves
  <1>4. \A p \in moved : /\ Ops!Within(Ops!Carried(p, from, to), to)
                         /\ Ops!Carried(Ops!Carried(p, from, to), to, from) = p
    BY <1>2, CarriedBack
  <1> HIDE DEF m
  <1>5. kept = {p \in DOMAIN d : ~Ops!Within(p, from)}
    BY <1>3
  <1>6. \A p \in kept : p \notin here
    BY <1>3, <1>4
  <1>7. ASSUME NEW p \in moved PROVE m[Ops!Carried(p, from, to)] = d[p]
    <2>1. Ops!Carried(p, from, to) \in here
      OBVIOUS
    <2> HIDE DEF here
    <2> QED  BY <1>1, <1>4, <2>1
  <1>8. ASSUME NEW p \in kept PROVE m[p] = d[p]
    <2> HIDE DEF here
    <2> QED  BY <1>1, <1>6
  <1>9. DOMAIN m = kept \cup here
    <2> HIDE DEF kept, here
    <2> QED  BY <1>1
  <1> QED  BY <1>5, <1>7, <1>8, <1>9 DEF m, Stays, Moved, Lands, Carries

(* It keeps the disk a tree: every folder on the way to a carried path is    *)
(* there, above the target because the target's folder is, below it          *)
(* because the subtree came whole.                                           *)
LEMMA MoveKeepsTree ==
  ASSUME NEW d, NEW from, NEW to, Moves(d, from, to)
  PROVE  Tree(Ops!MoveTree(d, from, to))
  <1> DEFINE moved == {q \in DOMAIN d : Ops!Within(q, from)}
             kept == {p \in DOMAIN d : ~Ops!Within(p, from)}
             here == {Ops!Carried(p, from, to) : p \in moved}
             m == Ops!MoveTree(d, from, to)
  <1>1. DOMAIN m = kept \cup here
    <2>1. kept = Stays(d, from) /\ here = Lands(d, from, to)
      BY DEF Stays, Lands, Moved
    <2>2. DOMAIN m = Stays(d, from) \cup Lands(d, from, to)
      BY MoveCarries DEF Carries
    <2> HIDE DEF kept, here
    <2> QED  BY <2>1, <2>2
  <1>2. /\ from \in Path /\ to \in Path /\ from \in DOMAIN d /\ Tree(d)
        /\ from \in Seq(Segments) /\ to \in Seq(Segments)
        /\ \A p \in DOMAIN d : p \in Seq(Segments) /\ p \in Path
    BY DEF Moves, Tree, Path
  <1>3. IsFiniteSet(kept) /\ IsFiniteSet(here)
    <2>1. IsFiniteSet(kept) /\ IsFiniteSet(moved)
      BY <1>2, FS_Subset DEF Tree
    <2> DEFINE carry == [p \in moved |-> Ops!Carried(p, from, to)]
    <2>2. carry \in Surjection(moved, here)
      BY DEF Surjection
    <2> HIDE DEF carry, moved, here
    <2> QED  BY <2>1, <2>2, FS_Surjection
  <1>4. \A q \in here : q \in Path
    <2> SUFFICES ASSUME NEW p \in moved PROVE Ops!Carried(p, from, to) \in Path
      OBVIOUS
    <2>1. Ops!Carried(p, from, to) \in Seq(Segments) /\ Ops!Within(Ops!Carried(p, from, to), to)
      BY <1>2, CarriedBack
    <2>2. Len(Ops!Carried(p, from, to)) >= Len(to) /\ Len(to) # 0 /\ Len(to) \in Nat
      BY <1>2, <2>1, WithinIs DEF Path
    <2>3. Ops!Carried(p, from, to) # <<>>
      BY <1>2, <2>1, <2>2
    <2> QED  BY <2>1, <2>3 DEF Path
  <1>5. ASSUME NEW p \in kept, NEW n \in 1 .. Len(p) PROVE SubSeq(p, 1, n) \in kept
    <2>1. SubSeq(p, 1, n) \in DOMAIN d /\ n \in 0 .. Len(p)
      BY <1>2 DEF Tree
    <2> QED  BY <1>2, <2>1, WithinFrom
  <1>6. ASSUME NEW p \in moved, NEW n \in 1 .. Len(Ops!Carried(p, from, to))
        PROVE  SubSeq(Ops!Carried(p, from, to), 1, n) \in kept \cup here
    <2> DEFINE q == Ops!Carried(p, from, to)
    <2>1. /\ Len(p) >= Len(from) /\ \A i \in 1 .. Len(from) : p[i] = from[i]
          /\ p \in Seq(Segments) /\ p \in DOMAIN d
      BY <1>2, WithinIs
    <2>2. /\ q \in Seq(Segments) /\ Len(q) = Len(to) + (Len(p) - Len(from))
          /\ \A i \in 1 .. Len(to) : q[i] = to[i]
          /\ \A i \in 1 .. Len(p) - Len(from) : q[Len(to) + i] = p[Len(from) + i]
      BY <1>2, <2>1, CarriedIs
    <2>3. Len(p) \in Nat /\ Len(from) \in Nat /\ Len(to) \in Nat /\ Len(from) # 0 /\ n \in Nat
      BY <1>2, <2>1 DEF Path
    <2> HIDE DEF q, moved
    <2>4. /\ SubSeq(q, 1, n) \in Seq(Segments) /\ Len(SubSeq(q, 1, n)) = n
          /\ \A i \in 1 .. n : SubSeq(q, 1, n)[i] = q[i]
      <3>1. n \in 0 .. Len(q)
        BY <2>2, <2>3 DEF q
      <3> QED  BY <2>2, <3>1, Beginning
    <2>5. CASE n < Len(to)
      <3> DEFINE in == Ops!ParentOf(to)
      <3>1. in = SubSeq(to, 1, Len(to) - 1) /\ Len(to) - 1 \in 0 .. Len(to)
        BY <2>3, <2>5 DEF Ops!ParentOf
      <3>2. /\ in \in Seq(Segments) /\ Len(in) = Len(to) - 1
            /\ \A i \in 1 .. Len(to) - 1 : in[i] = to[i]
        BY <1>2, <3>1, Beginning
      <3> HIDE DEF in
      <3>3. n \in 1 .. Len(in) /\ n \in 0 .. Len(in) /\ n \in 0 .. Len(to)
        BY <2>3, <2>5, <3>2
      <3>4. SubSeq(in, 1, n) \in DOMAIN d
        BY <3>2, <3>3, FolderHeld DEF Moves, in
      <3>5. /\ SubSeq(in, 1, n) \in Seq(Segments) /\ Len(SubSeq(in, 1, n)) = n
            /\ \A i \in 1 .. n : SubSeq(in, 1, n)[i] = in[i]
        BY <3>2, <3>3, Beginning
      <3>6. /\ SubSeq(to, 1, n) \in Seq(Segments) /\ Len(SubSeq(to, 1, n)) = n
            /\ \A i \in 1 .. n : SubSeq(to, 1, n)[i] = to[i]
        BY <1>2, <3>3, Beginning
      <3>7. \A i \in 1 .. n : i \in 1 .. Len(to) - 1 /\ i \in 1 .. Len(to)
        BY <2>3, <2>5
      <3>8. SubSeq(q, 1, n) = SubSeq(in, 1, n)
        <4>1. \A i \in 1 .. n : SubSeq(q, 1, n)[i] = SubSeq(in, 1, n)[i]
          BY <2>2, <2>4, <3>2, <3>5, <3>7
        <4> QED  BY <2>4, <3>5, <4>1, SeqEqual
      <3>9. SubSeq(to, 1, n) = SubSeq(in, 1, n)
        <4>1. \A i \in 1 .. n : SubSeq(to, 1, n)[i] = SubSeq(in, 1, n)[i]
          BY <3>2, <3>5, <3>6, <3>7
        <4> QED  BY <3>5, <3>6, <4>1, SeqEqual
      <3>10. ~Ops!Within(SubSeq(in, 1, n), from)
        BY <1>2, <3>3, <3>9, WithinFrom DEF Moves
      <3> QED  BY <3>4, <3>8, <3>10 DEF q
    <2>6. CASE ~(n < Len(to))
      <3> DEFINE k == Len(from) + (n - Len(to))
                 r == SubSeq(p, 1, k)
                 c == Ops!Carried(r, from, to)
      <3>1. /\ k \in 1 .. Len(p) /\ k \in 0 .. Len(p) /\ k >= Len(from) /\ k \in Nat
            /\ Len(to) + (k - Len(from)) = n /\ k - Len(from) <= Len(p) - Len(from)
        <4>1. n <= Len(to) + (Len(p) - Len(from))
          BY <2>2 DEF q
        <4> QED  BY <2>1, <2>3, <2>6, <4>1
      <3> HIDE DEF k
      <3>2. r \in Seq(Segments) /\ Len(r) = k /\ \A i \in 1 .. k : r[i] = p[i]
        BY <2>1, <3>1, Beginning
      <3>3. r \in DOMAIN d
        BY <2>1, <3>1, <1>2 DEF Tree
      <3> HIDE DEF r
      <3>4. Ops!Within(r, from)
        <4>1. Len(r) >= Len(from) /\ \A i \in 1 .. Len(from) : r[i] = from[i]
          BY <2>1, <2>3, <3>1, <3>2
        <4> QED  BY <1>2, <3>2, <4>1, WithinIs
      <3>5. /\ c \in Seq(Segments) /\ Len(c) = Len(to) + (Len(r) - Len(from))
            /\ \A i \in 1 .. Len(to) : c[i] = to[i]
            /\ \A i \in 1 .. Len(r) - Len(from) : c[Len(to) + i] = r[Len(from) + i]
        BY <1>2, <3>1, <3>2, CarriedIs
      <3> HIDE DEF c
      <3>6. Len(c) = n
        BY <3>1, <3>2, <3>5
      <3>7. ASSUME NEW i \in 1 .. n PROVE c[i] = SubSeq(q, 1, n)[i]
        <4>1. CASE i <= Len(to)
          BY <2>2, <2>3, <2>4, <3>5, <4>1
        <4>2. CASE ~(i <= Len(to))
          <5> DEFINE j == i - Len(to)
          <5>1. /\ j \in 1 .. Len(r) - Len(from) /\ j \in 1 .. Len(p) - Len(from)
                /\ Len(to) + j = i /\ Len(from) + j \in 1 .. k
            BY <2>3, <3>1, <3>2, <4>2
          <5> HIDE DEF j
          <5>2. c[i] = r[Len(from) + j] /\ q[i] = p[Len(from) + j]
            BY <2>2, <3>5, <5>1
          <5> QED  BY <2>4, <3>2, <5>1, <5>2
        <4> QED  BY <4>1, <4>2
      <3>8. c = SubSeq(q, 1, n)
        BY <2>4, <3>5, <3>6, <3>7, SeqEqual
      <3>9. r \in moved
        BY <3>3, <3>4 DEF moved
      <3> QED  BY <3>8, <3>9 DEF c, q
    <2> QED  BY <2>5, <2>6
  <1>7. \A q \in here : \A n \in 1 .. Len(q) : SubSeq(q, 1, n) \in kept \cup here
    BY <1>6
  <1>8. \A p \in kept : p \in Path /\ \A n \in 1 .. Len(p) : SubSeq(p, 1, n) \in kept \cup here
    BY <1>2, <1>5
  <1>9. IsFiniteSet(kept \cup here)
    BY <1>3, FS_Union
  <1> HIDE DEF kept, here, m
  <1> QED  BY <1>1, <1>4, <1>7, <1>8, <1>9 DEF Tree, m

(* The file operations count their calls as anybody does.                    *)
LEMMA SameCount == ASSUME NEW S PROVE Ops!Cardinality(S) = Cardinality(S)
  BY DEF Ops!Cardinality, Cardinality

(* The items of a finite set, in some order.                                  *)
LEMMA SeqOfSet ==
  ASSUME NEW S, IsFiniteSet(S)
  PROVE  Ops!SetToSeq(S) \in Seq(S)
  <1>1. /\ Cardinality(S) \in Nat /\ ExistsBijection(1 .. Cardinality(S), S)
    BY FS_CardinalityType
  <1> DEFINE n == Cardinality(S)
  <1>2. \E f \in [1 .. n -> S] : Ops!IsInjective(f)
    <2>1. PICK f \in Bijection(1 .. n, S) : TRUE
      BY <1>1 DEF ExistsBijection
    <2> QED  BY <2>1 DEF Bijection, Injection, Ops!IsInjective, IsInjective
  <1>3. Ops!SetToSeq(S) \in [1 .. n -> S]
    <2>1. Ops!SetToSeq(S) = CHOOSE f \in [1 .. n -> S] : Ops!IsInjective(f)
      BY SameCount DEF Ops!SetToSeq
    <2> HIDE DEF n
    <2> QED  BY <1>2, <2>1
  <1> HIDE DEF n
  <1>4. n \in Nat
    BY <1>1 DEF n
  <1> QED  BY <1>3, <1>4, SeqDef

(* A call as it begins.                                                       *)
Fresh(kind, todo) ==
    [n |-> steps, kind |-> kind, todo |-> todo, probe |-> 1, done |-> {}]

(* When calls come one at a time, a call that begins finds none under way.   *)
LEMMA CallBegins ==
  ASSUME FilesInv, MaxCalls = 1, NEW kind, NEW todo, Ops!Begin(Ops!Call(kind, todo)),
         IsCall(Fresh(kind, todo))
  PROVE  FilesInv'
  <1>1. calls = {}
    <2> SUFFICES ASSUME NEW c \in calls PROVE FALSE
      OBVIOUS
    <2>1. calls = {c}
      BY DEF FilesInv
    <2>2. Cardinality(calls) = 1
      BY <2>1, FS_Singleton
    <2> QED  BY <2>2, SameCount DEF Ops!Begin
  <1>2. /\ calls' = {Fresh(kind, todo)} /\ steps' = steps + 1 /\ UNCHANGED <<files, editors>>
    BY <1>1 DEF Ops!Begin, Ops!Call, Fresh
  <1> DEFINE c == Fresh(kind, todo)
  <1>3. c.kind = kind /\ c.todo = todo /\ c.probe = 1 /\ c.done = {}
    BY DEF Fresh
  <1> HIDE DEF c
  <1>4. Knows(c, files)
    <2>1. ASSUME kind = "new", todo # <<>> PROVE 1 \in 1 .. Len(Variants[Head(todo).name])
      <3>1. todo \in Seq(Creation)
        BY <1>3, <2>1 DEF IsCall, Creations, c
      <3>2. Head(todo) \in Creation
        BY <2>1, <3>1
      <3>4. Head(todo).name \in Segments
        BY <3>2 DEF Creation
      <3>3. Variants[Head(todo).name] \in Seq(Segments) /\ Variants[Head(todo).name] # <<>>
        BY <3>4, VariantsAssumption
      <3> QED  BY <3>3
    <2> QED  BY <1>3, <2>1 DEF Knows
  <1>5. Follows(files, editors, {c})
    BY <1>1 DEF FilesInv, Follows
  <1> QED  BY <1>2, <1>4, <1>5 DEF FilesInv, c, Follows, Tracks

(* An editor that opens holds the path of its file.                          *)
LEMMA OpenEditorKept ==
  ASSUME FilesInv, NEW p, Ops!OpenEditor(p)
  PROVE  FilesInv'
  <1> DEFINE i == files[p].ino
  <1>1. /\ p \in DOMAIN files /\ calls = {} /\ editors' = [editors EXCEPT ![i] = p]
        /\ UNCHANGED <<files, calls, steps>>
    BY DEF Ops!OpenEditor
  <1>2. p \in Seq(Segments)
    BY <1>1 DEF FilesInv, Tree, Path
  <1>3. editors' \in [OpsInodes -> Seq(Segments)]
    BY <1>1, <1>2 DEF FilesInv
  <1>4. \A j \in OpsInodes : editors'[j] = IF j = i THEN p ELSE editors[j]
    BY <1>1 DEF FilesInv
  <1> HIDE DEF i
  <1>5. Follows(files, editors', calls)
    BY <1>1, <1>4 DEF FilesInv, Follows, Tracks, i
  <1> QED  BY <1>1, <1>3, <1>5 DEF FilesInv, Follows, Tracks

(* Rename plans one relocation, beside the path renamed.                     *)
LEMMA RenameKept ==
  ASSUME FilesInv, MaxCalls = 1, NEW p, NEW name \in Segments, Ops!Rename(p, name)
  PROVE  FilesInv'
  <1> DEFINE in == Ops!ParentOf(p)
             todo == <<[from |-> p, to |-> Ops!Join(in, name)]>>
  <1>1. p \in Path /\ steps \in Nat
    BY DEF FilesInv, Tree, Ops!Rename
  <1>2. in \in Seq(Segments)
    <2>1. p \in Seq(Segments) /\ Len(p) - 1 \in 0 .. Len(p)
      BY <1>1 DEF Path
    <2> QED  BY <2>1, Beginning DEF Ops!ParentOf
  <1>3. todo \in Seq(Relocation)
    BY <1>1, <1>2, Joined DEF Relocation
  <1>4. Ops!Begin(Ops!Call("rename", todo))
    BY DEF Ops!Rename
  <1> HIDE DEF todo
  <1>5. IsCall(Fresh("rename", todo))
    BY <1>1, <1>3 DEF IsCall, Fresh, Relocations
  <1> QED  BY <1>4, <1>5, CallBegins

(* Move plans a relocation for each path it keeps of its selection.          *)
LEMMA MoveKept ==
  ASSUME FilesInv, MaxCalls = 1, NEW P \in SUBSET DOMAIN files,
         NEW dest \in DOMAIN files \cup {Ops!Root}, Ops!Move(P, dest)
  PROVE  FilesInv'
  <1> DEFINE plan == Ops!PlanMoves(P, dest)
             left == Ops!Wanted(P, dest) \ Ops!Rejected(P, dest)
  <1>1. DOMAIN files \subseteq Path /\ IsFiniteSet(DOMAIN files) /\ steps \in Nat
    BY DEF FilesInv, Tree
  <1>2. left \subseteq P
    BY DEF Ops!Wanted, Ops!Roots
  <1>3. dest \in Seq(Segments)
    <2>1. <<>> \in Seq(Segments)
      OBVIOUS
    <2> QED  BY <1>1, <2>1 DEF Ops!Root, Path
  <1>4. \A p \in left : [from |-> p, to |-> Ops!Join(dest, Ops!BaseName(p))] \in Relocation
    <2> SUFFICES ASSUME NEW p \in left
                 PROVE  [from |-> p, to |-> Ops!Join(dest, Ops!BaseName(p))] \in Relocation
      OBVIOUS
    <2>1. p \in Seq(Segments) /\ p # <<>> /\ p \in Path
      BY <1>1, <1>2 DEF Path
    <2>2. Ops!BaseName(p) \in Segments
      BY <2>1 DEF Ops!BaseName
    <2> QED  BY <1>3, <2>1, <2>2, Joined DEF Relocation
  <1>5. IsFiniteSet(left)
    BY <1>1, <1>2, FS_Subset
  <1>6. plan = {[from |-> p, to |-> Ops!Join(dest, Ops!BaseName(p))] : p \in left}
    BY DEF Ops!PlanMoves
  <1>7. IsFiniteSet(plan)
    <2> DEFINE f == [p \in left |-> [from |-> p, to |-> Ops!Join(dest, Ops!BaseName(p))]]
    <2>1. f \in Surjection(left, plan)
      BY <1>6 DEF Surjection
    <2> HIDE DEF f, left, plan
    <2> QED  BY <1>5, <2>1, FS_Surjection
  <1>8. plan \subseteq Relocation
    BY <1>4, <1>6
  <1> DEFINE todo == Ops!SetToSeq(plan)
  <1>9. Ops!Begin(Ops!Call("move", todo))
    BY DEF Ops!Move
  <1> HIDE DEF plan
  <1>10. todo \in Seq(Relocation)
    <2>1. todo \in Seq(plan)
      BY <1>7, SeqOfSet
    <2> QED  BY <1>8, <2>1, SeqMonotonic
  <1> HIDE DEF todo
  <1>11. IsCall(Fresh("move", todo))
    BY <1>1, <1>10 DEF IsCall, Fresh, Relocations
  <1> QED  BY <1>9, <1>11, CallBegins

(* Delete plans the roots of its selection.                                  *)
LEMMA DeleteKept ==
  ASSUME FilesInv, MaxCalls = 1, NEW P \in SUBSET DOMAIN files, Ops!Delete(P)
  PROVE  FilesInv'
  <1> DEFINE roots == Ops!Roots(P \ {Ops!Root})
             todo == Ops!SetToSeq(roots)
  <1>1. DOMAIN files \subseteq Path /\ IsFiniteSet(DOMAIN files) /\ steps \in Nat
    BY DEF FilesInv, Tree
  <1>2. roots \subseteq DOMAIN files
    BY DEF Ops!Roots
  <1>3. Ops!Begin(Ops!Call("delete", todo))
    BY DEF Ops!Delete
  <1> HIDE DEF roots
  <1>4. todo \in Seq(Path)
    <2>1. IsFiniteSet(roots) /\ roots \subseteq Path
      BY <1>1, <1>2, FS_Subset
    <2>2. todo \in Seq(roots)
      BY <2>1, SeqOfSet
    <2> QED  BY <2>1, <2>2, SeqMonotonic
  <1> HIDE DEF todo
  <1>5. IsCall(Fresh("delete", todo))
    BY <1>1, <1>4 DEF IsCall, Fresh, Deletions
  <1> QED  BY <1>3, <1>5, CallBegins

(* New files and folders, and imports, plan their names in a folder that     *)
(* exists.                                                                   *)
LEMMA NewKept ==
  ASSUME FilesInv, MaxCalls = 1, NEW in \in DOMAIN files \cup {Ops!Root},
         NEW names \in Seq(Segments), NEW dir \in BOOLEAN, Ops!New(in, names, dir)
  PROVE  FilesInv'
  <1> DEFINE todo == [k \in DOMAIN names |-> [in |-> in, name |-> names[k], dir |-> dir]]
  <1>1. in \in Seq(Segments) /\ steps \in Nat
    <2>1. <<>> \in Seq(Segments)
      OBVIOUS
    <2> QED  BY <2>1 DEF FilesInv, Tree, Ops!Root, Path
  <1>2. todo \in Seq(Creation)
    <2>1. Len(names) \in Nat /\ DOMAIN names = 1 .. Len(names)
          /\ \A k \in DOMAIN names : names[k] \in Segments
      OBVIOUS
    <2>2. todo \in [1 .. Len(names) -> Creation]
      BY <1>1, <2>1 DEF Creation
    <2> QED  BY <2>1, <2>2
  <1>3. Ops!Begin(Ops!Call("new", todo))
    BY DEF Ops!New
  <1> HIDE DEF todo
  <1>4. IsCall(Fresh("new", todo))
    BY <1>1, <1>2 DEF IsCall, Fresh, Creations
  <1> QED  BY <1>3, <1>4, CallBegins

(* The call under way is the only one, and only a delete that has begun       *)
(* leaves an editor without its file.                                         *)
LEMMA UnderWay ==
  ASSUME FilesInv, NEW c \in calls
  PROVE  /\ calls = {c} /\ IsCall(c) /\ Knows(c, files)
         /\ \A d : Ops!Goes(c, d) => calls' = {d}
         /\ Ops!Ends(c) => calls' = {}
         /\ c.kind # "delete" \/ c.done = {} =>
               \A i \in OpsInodes : editors[i] # <<>> => Tracks(files, editors, i)
  BY DEF FilesInv, Follows, Ops!Goes, Ops!Ends

(* A relocation waits for a target that it found free.                       *)
LEMMA RelocateKept ==
  ASSUME FilesInv, NEW c \in calls, Ops!Relocate(c)
  PROVE  FilesInv'
  <1>1. /\ c \in Relocations /\ c.kind \in {"rename", "move"} /\ c.todo # <<>>
        /\ UNCHANGED <<files, editors, steps>>
    BY UnderWay DEF Ops!Relocate, IsCall
  <1>2. c.todo \in Seq(Relocation)
    BY <1>1 DEF Relocations
  <1>3. /\ Head(c.todo) \in Relocation /\ Tail(c.todo) \in Seq(Relocation)
    BY <1>1, <1>2
  <1> DEFINE d == IF Ops!Exists(files, Head(c.todo).to)
                  THEN [c EXCEPT !.todo = Tail(c.todo)] ELSE [c EXCEPT !.probe = 2]
  <1>4. calls' = {d}
    BY UnderWay DEF Ops!Relocate
  <1>5. c.probe = 1
    BY DEF Ops!Relocate
  <1>6. /\ d \in Relocations /\ d.kind \in {"rename", "move"}
        /\ d.probe = 2 => d.todo = c.todo /\ ~Ops!Exists(files, Head(c.todo).to)
    <2>1. [c EXCEPT !.todo = Tail(c.todo)] \in Relocations
          /\ [c EXCEPT !.todo = Tail(c.todo)].kind = c.kind
          /\ [c EXCEPT !.todo = Tail(c.todo)].probe = 1
      BY <1>1, <1>3, <1>5 DEF Relocations
    <2>2. [c EXCEPT !.probe = 2] \in Relocations /\ [c EXCEPT !.probe = 2].kind = c.kind
          /\ [c EXCEPT !.probe = 2].todo = c.todo
      BY <1>1 DEF Relocations
    <2>3. CASE Ops!Exists(files, Head(c.todo).to)
      BY <1>1, <2>1, <2>3
    <2>4. CASE ~Ops!Exists(files, Head(c.todo).to)
      BY <1>1, <2>2, <2>4
    <2> QED  BY <2>3, <2>4
  <1> HIDE DEF d
  <1>7. IsCall(d) /\ Knows(d, files)
    BY <1>1, <1>6 DEF IsCall, Knows, Ops!Exists
  <1>8. Follows(files, editors, {d})
    BY <1>1, UnderWay DEF Follows
  <1> QED  BY <1>1, <1>4, <1>7, <1>8 DEF FilesInv, Follows, Tracks

(* A relocation takes the editors of what it carries along, and writes       *)
(* over nothing.                                                             *)
LEMMA RelocatedKept ==
  ASSUME FilesInv, NEW c \in calls, Ops!Relocated(c)
  PROVE  /\ FilesInv'
         /\ \A p \in DOMAIN files : \E q \in DOMAIN files' : files'[q] = files[p]
  <1> DEFINE from == Head(c.todo).from
             to == Head(c.todo).to
             d == [c EXCEPT !.todo = Tail(c.todo), !.probe = 1, !.done = c.done \cup {Head(c.todo)}]
  <1>1. /\ c \in Relocations /\ c.kind \in {"rename", "move"} /\ c.todo # <<>> /\ c.probe = 2
        /\ steps' = steps
    BY UnderWay DEF Ops!Relocated, IsCall
  <1>2. c.todo \in Seq(Relocation)
    BY <1>1 DEF Relocations
  <1>3. Head(c.todo) \in Relocation /\ Tail(c.todo) \in Seq(Relocation)
    BY <1>1, <1>2
  <1>4. /\ Ops!Exists(files, from) /\ Ops!IsFolder(files, Ops!ParentOf(to)) /\ ~Ops!Within(to, from)
        /\ files' = Ops!MoveTree(files, from, to) /\ Ops!OnMoved(from, to)
        /\ calls' = {d}
    BY UnderWay DEF Ops!Relocated
  <1>5. /\ from \in Path /\ to \in Path /\ to \notin DOMAIN files
        /\ from \in Seq(Segments) /\ to \in Seq(Segments)
    BY <1>1, <1>3, UnderWay DEF Relocation, Knows, Path
  <1>6. Moves(files, from, to)
    BY <1>4, <1>5 DEF Moves, FilesInv, Ops!Exists, Ops!Root, Path
  <1>7. /\ d \in Relocations /\ d.kind \in {"rename", "move"} /\ d.probe = 1
    BY <1>1, <1>3 DEF Relocations
  <1> HIDE DEF from, to, d
  <1>8. IsCall(d) /\ Knows(d, files')
    BY <1>7 DEF IsCall, Knows
  <1>9. Tree(files')
    BY <1>4, <1>6, MoveKeepsTree
  <1>10. Carries(files', files, from, to)
    BY <1>4, <1>6, MoveCarries
  <1>11. /\ \A p \in DOMAIN files : Ops!Within(p, from) => Ops!Carried(p, from, to) \in DOMAIN files'
         /\ \A p \in DOMAIN files : ~Ops!Within(p, from) => p \in DOMAIN files'
    BY <1>10 DEF Carries, Stays, Lands, Moved
  <1>12. \A p \in DOMAIN files : \E q \in DOMAIN files' : files'[q] = files[p]
    <2> SUFFICES ASSUME NEW p \in DOMAIN files
                 PROVE  \E q \in DOMAIN files' : files'[q] = files[p]
      OBVIOUS
    <2>1. CASE Ops!Within(p, from)
      BY <1>10, <1>11, <2>1 DEF Carries
    <2>2. CASE ~Ops!Within(p, from)
      BY <1>10, <1>11, <2>2 DEF Carries
    <2> QED  BY <2>1, <2>2
  <1>13. editors' = [i \in OpsInodes |->
                       IF editors[i] # <<>> /\ Ops!Within(editors[i], from)
                       THEN Ops!Carried(editors[i], from, to) ELSE editors[i]]
    BY <1>4 DEF Ops!OnMoved, Ops!Closed, Ops!Root
  <1>14. \A i \in OpsInodes : editors[i] # <<>> => Tracks(files, editors, i)
    BY <1>1, UnderWay
  <1>15. editors' \in [OpsInodes -> Seq(Segments)]
    <2>1. \A i \in OpsInodes : editors[i] \in Seq(Segments)
      BY DEF FilesInv
    <2>2. \A i \in OpsInodes : Ops!Within(editors[i], from) =>
              Ops!Carried(editors[i], from, to) \in Seq(Segments)
      BY <1>5, <2>1, CarriedBack
    <2> QED  BY <1>13, <2>1, <2>2
  <1>16. ASSUME NEW i \in OpsInodes, editors'[i] # <<>> PROVE Tracks(files', editors', i)
    <2>1. editors[i] # <<>>
      BY <1>13, <1>16
    <2>2. editors[i] \in DOMAIN files /\ files[editors[i]].ino = i
      BY <1>14, <2>1 DEF Tracks
    <2>3. CASE Ops!Within(editors[i], from)
      <3>1. editors'[i] = Ops!Carried(editors[i], from, to)
        BY <1>13, <2>1, <2>3
      <3> QED  BY <1>10, <1>11, <2>2, <2>3, <3>1 DEF Tracks, Carries
    <2>4. CASE ~Ops!Within(editors[i], from)
      <3>1. editors'[i] = editors[i]
        BY <1>13, <2>4
      <3> QED  BY <1>10, <1>11, <2>2, <2>4, <3>1 DEF Tracks, Carries
    <2> QED  BY <2>3, <2>4
  <1>17. Follows(files, editors, calls)'
    BY <1>16 DEF Follows, Tracks
  <1>18. FilesInv'
    BY <1>1, <1>4, <1>8, <1>9, <1>15, <1>17 DEF FilesInv
  <1> QED  BY <1>12, <1>18

(* A delete that the guard vetoes has touched nothing.                       *)
LEMMA VetoKept ==
  ASSUME FilesInv, NEW c \in calls, Ops!Veto(c)
  PROVE  FilesInv'
  <1>1. calls' = {} /\ UNCHANGED <<files, editors, steps>> /\ c.done = {}
    BY UnderWay DEF Ops!Veto
  <1>2. Follows(files, editors, {})
    BY <1>1, UnderWay DEF Follows
  <1> QED  BY <1>1, <1>2 DEF FilesInv, Follows, Tracks

(* A delete notes what it takes away until it tells the guard.               *)
LEMMA DeletedKept ==
  ASSUME FilesInv, NEW c \in calls, Ops!Deleted(c)
  PROVE  /\ FilesInv'
         /\ \A p \in DOMAIN files : (\E q \in DOMAIN files' : files'[q] = files[p])
                                    \/ files[p].ino \in removed'
  <1> DEFINE x == Head(c.todo)
             d == [c EXCEPT !.todo = Tail(c.todo), !.done = c.done \cup {x}]
  <1>1. c \in Deletions /\ c.kind = "delete" /\ c.todo # <<>> /\ UNCHANGED <<editors, steps>>
    BY UnderWay DEF Ops!Deleted, IsCall
  <1>2. c.todo \in Seq(Path)
    BY <1>1 DEF Deletions
  <1>3. x \in Path /\ Tail(c.todo) \in Seq(Path)
    BY <1>1, <1>2
  <1>4. /\ files' = Ops!Erase(files, x) /\ calls' = {d}
        /\ removed' = removed \cup {files[p].ino : p \in {q \in DOMAIN files : Ops!Within(q, x)}}
    BY UnderWay DEF Ops!Deleted
  <1>5. d \in Deletions /\ d.kind = "delete" /\ d.done = c.done \cup {x} /\ d.probe = 1
    BY <1>1, <1>3 DEF Deletions
  <1> HIDE DEF x, d
  <1>6. IsCall(d) /\ Knows(d, files')
    BY <1>5 DEF IsCall, Knows
  <1>7. /\ Tree(files')
        /\ \A p \in DOMAIN files : ~Ops!Within(p, x) => p \in DOMAIN files' /\ files'[p] = files[p]
    BY <1>3, <1>4, EraseTree DEF FilesInv
  <1>8. \A p \in DOMAIN files : (\E q \in DOMAIN files' : files'[q] = files[p])
                                \/ files[p].ino \in removed'
    BY <1>4, <1>7
  <1>9. ASSUME NEW i \in OpsInodes, editors[i] # <<>>
        PROVE  \/ editors[i] \in DOMAIN files' /\ files'[editors[i]].ino = i
               \/ \E p \in d.done : Ops!Within(editors[i], p)
    <2>1. CASE Tracks(files, editors, i)
      BY <1>5, <1>7, <2>1 DEF Tracks
    <2>2. CASE \E p \in c.done : Ops!Within(editors[i], p)
      BY <1>5, <2>2
    <2> QED  BY <1>9, <2>1, <2>2, UnderWay DEF FilesInv, Follows
  <1>10. Follows(files, editors, calls)'
    BY <1>1, <1>4, <1>5, <1>9 DEF Follows, Tracks
  <1>11. FilesInv'
    BY <1>1, <1>4, <1>6, <1>7, <1>10 DEF FilesInv
  <1> QED  BY <1>8, <1>11

(* A probe stops at the first variant of the name that is free.              *)
LEMMA ProbeKept ==
  ASSUME FilesInv, NEW c \in calls, Ops!Probe(c)
  PROVE  FilesInv'
  <1>1. /\ c \in Creations /\ c.kind = "new" /\ c.todo # <<>> /\ c.done = {}
        /\ UNCHANGED <<files, editors, steps>>
    BY UnderWay DEF Ops!Probe, IsCall
  <1>2. c.todo \in Seq(Creation)
    BY <1>1 DEF Creations
  <1>3. Head(c.todo) \in Creation
    BY <1>1, <1>2
  <1>4. /\ c.probe \in 1 .. Len(Variants[Head(c.todo).name])
        /\ Variants[Head(c.todo).name] \in Seq(Segments)
    BY <1>1, <1>3, UnderWay, VariantsAssumption DEF Knows, Creation
  <1>5. Ops!Candidate(c) \in Path
    <2>1. Variants[Head(c.todo).name][c.probe] \in Segments /\ Head(c.todo).in \in Seq(Segments)
      BY <1>3, <1>4 DEF Creation
    <2> QED  BY <2>1, Joined DEF Ops!Candidate
  <1>6. PICK d : /\ calls' = {d} /\ d \in Creations /\ d.kind = "new" /\ d.todo = c.todo
                 /\ d.probe \in 1 .. Len(Variants[Head(c.todo).name])
                 /\ d.done # {} => Ops!Candidate(d) \notin DOMAIN files
    <2>1. CASE Ops!Exists(files, Ops!Candidate(c))
      <3> DEFINE d == [c EXCEPT !.probe = c.probe + 1]
      <3>1. calls' = {d} /\ c.probe < Len(Variants[Head(c.todo).name])
        BY <2>1, UnderWay DEF Ops!Probe
      <3>2. d \in Creations /\ d.kind = "new" /\ d.todo = c.todo /\ d.probe = c.probe + 1 /\ d.done = {}
        BY <1>1 DEF Creations
      <3>3. c.probe + 1 \in 1 .. Len(Variants[Head(c.todo).name])
        BY <1>4, <3>1
      <3> HIDE DEF d
      <3> QED  BY <3>1, <3>2, <3>3
    <2>2. CASE ~Ops!Exists(files, Ops!Candidate(c))
      <3> DEFINE d == [c EXCEPT !.done = {Ops!Candidate(c)}]
      <3>1. calls' = {d}
        BY <2>2, UnderWay DEF Ops!Probe
      <3>2. d \in Creations /\ d.kind = "new" /\ d.todo = c.todo /\ d.probe = c.probe
        BY <1>1, <1>5 DEF Creations
      <3> HIDE DEF d
      <3>3. Ops!Candidate(d) = Ops!Candidate(c)
        BY <3>2 DEF Ops!Candidate
      <3> QED  BY <1>4, <2>2, <3>1, <3>2, <3>3 DEF Ops!Exists
    <2> QED  BY <2>1, <2>2
  <1>7. IsCall(d) /\ Knows(d, files)
    BY <1>1, <1>6 DEF IsCall, Knows
  <1>8. Follows(files, editors, {d})
    BY <1>1, UnderWay DEF Follows
  <1> QED  BY <1>1, <1>6, <1>7, <1>8 DEF FilesInv, Follows, Tracks

(* A creation writes where its probe found nothing.                          *)
LEMMA WriteKept ==
  ASSUME FilesInv, NEW c \in calls, Ops!Write(c)
  PROVE  /\ FilesInv'
         /\ \A p \in DOMAIN files : \E q \in DOMAIN files' : files'[q] = files[p]
  <1> DEFINE in == Head(c.todo).in
             name == Variants[Head(c.todo).name][c.probe]
             q == Ops!Candidate(c)
             d == [c EXCEPT !.todo = Tail(c.todo), !.probe = 1, !.done = {}]
  <1>1. /\ c \in Creations /\ c.kind = "new" /\ c.done # {} /\ c.todo # <<>>
        /\ q \notin DOMAIN files /\ UNCHANGED <<editors, steps>>
    BY UnderWay DEF Ops!Write, IsCall, Knows
  <1>2. c.todo \in Seq(Creation)
    BY <1>1 DEF Creations
  <1>3. Head(c.todo) \in Creation /\ Tail(c.todo) \in Seq(Creation)
    BY <1>1, <1>2
  <1>4. PICK entry : files' = Ops!Put(files, q, entry)
    BY DEF Ops!Write
  <1>5. calls' = {d} /\ Ops!IsFolder(files, in)
    BY UnderWay DEF Ops!Write
  <1>6. in \in Seq(Segments) /\ name \in Segments /\ q = Ops!Join(in, name)
    <2>1. /\ c.probe \in 1 .. Len(Variants[Head(c.todo).name])
          /\ Variants[Head(c.todo).name] \in Seq(Segments) /\ in \in Seq(Segments)
      BY <1>1, <1>3, UnderWay, VariantsAssumption DEF Knows, Creation
    <2> QED  BY <2>1 DEF Ops!Candidate
  <1>7. d \in Creations /\ d.kind = "new" /\ d.todo = Tail(c.todo) /\ d.probe = 1 /\ d.done = {}
    BY <1>1, <1>3 DEF Creations
  <1> HIDE DEF in, name, q, d
  <1>8. Tree(files')
    BY <1>4, <1>5, <1>6, PutTree DEF FilesInv
  <1>9. \A p \in DOMAIN files : p \in DOMAIN files' /\ files'[p] = files[p]
    BY <1>1, <1>4 DEF Ops!Put
  <1>10. IsCall(d) /\ Knows(d, files')
    <2>1. ASSUME d.todo # <<>> PROVE 1 \in 1 .. Len(Variants[Head(d.todo).name])
      <3>1. Head(d.todo) \in Creation
        BY <1>3, <1>7, <2>1
      <3>2. /\ Variants[Head(d.todo).name] \in Seq(Segments)
            /\ Variants[Head(d.todo).name] # <<>>
        BY <3>1, VariantsAssumption DEF Creation
      <3> QED  BY <3>2
    <2> QED  BY <1>7, <2>1 DEF IsCall, Knows
  <1>11. Follows(files, editors, calls)'
    BY <1>1, <1>9, UnderWay DEF Follows, Tracks
  <1>12. FilesInv'
    BY <1>1, <1>5, <1>8, <1>10, <1>11 DEF FilesInv
  <1> QED  BY <1>9, <1>12

(* A delete that ends, complete or not, has the guard close the editors of   *)
(* what went.                                                                *)
LEMMA CallEnds ==
  ASSUME FilesInv, NEW c \in calls, calls' = {}, UNCHANGED <<files, steps>>,
         IF c.kind = "delete" THEN Ops!OnRemoved(c.done) ELSE editors' = editors
  PROVE  FilesInv'
  <1>1. CASE c.kind = "delete"
    <2>1. editors' = [i \in OpsInodes |-> IF \E p \in c.done : Ops!Within(editors[i], p)
                                          THEN <<>> ELSE editors[i]]
      BY <1>1 DEF Ops!OnRemoved, Ops!Closed, Ops!Root
    <2>2. <<>> \in Seq(Segments)
      OBVIOUS
    <2>3. editors' \in [OpsInodes -> Seq(Segments)]
      BY <2>1, <2>2 DEF FilesInv
    <2>4. ASSUME NEW i \in OpsInodes, editors'[i] # <<>>
          PROVE  editors'[i] \in DOMAIN files /\ files[editors'[i]].ino = i
      <3>1. editors'[i] = editors[i] /\ ~\E p \in c.done : Ops!Within(editors[i], p)
        BY <2>1, <2>4
      <3> QED  BY <2>4, <3>1, UnderWay DEF FilesInv, Follows, Tracks
    <2>5. Follows(files, editors, calls)'
      BY <2>4 DEF Follows, Tracks
    <2> QED  BY <2>3, <2>5 DEF FilesInv
  <1>2. CASE c.kind # "delete"
    <2>1. Follows(files, editors, {})
      BY <1>2, UnderWay DEF Follows
    <2> QED  BY <1>2, <2>1 DEF FilesInv, Follows, Tracks
  <1> QED  BY <1>1, <1>2

(* A call that is done ends.                                                 *)
LEMMA EndKept ==
  ASSUME FilesInv, NEW c \in calls, Ops!End(c)
  PROVE  FilesInv'
  BY UnderWay, CallEnds DEF Ops!End

(* So does a call that fails half way.                                       *)
LEMMA FailsKept ==
  ASSUME FilesInv, NEW c \in calls, Ops!Fails(c)
  PROVE  FilesInv'
  BY UnderWay, CallEnds DEF Ops!Fails

(* A member starts with a tree on disk and no editor.                        *)
LEMMA FilesStart ==
  ASSUME Ops!OpsInit
  PROVE  FilesInv
  <1>1. Tree(files)
    BY DisksAssumption DEF Ops!OpsInit, Tree, Path
  <1>2. <<>> \in Seq(Segments)
    OBVIOUS
  <1>3. editors = [i \in OpsInodes |-> <<>>]
    BY DEF Ops!OpsInit, Ops!Closed, Ops!Root
  <1> QED  BY <1>1, <1>2, <1>3 DEF Ops!OpsInit, FilesInv, Follows

(* A step keeps the invariant, and what it takes away was deleted.            *)
LEMMA FilesGoOn ==
  ASSUME FilesInv, MaxCalls = 1, Ops!OpsNext
  PROVE  /\ FilesInv'
         /\ \A p \in DOMAIN files : (\E q \in DOMAIN files' : files'[q] = files[p])
                                    \/ files[p].ino \in removed'
  <1>1. CASE \E p \in Ops!Paths : Ops!OpenEditor(p)
    BY <1>1, OpenEditorKept DEF Ops!OpenEditor
  <1>2. CASE \E p \in Ops!Paths, n \in Segments : Ops!Rename(p, n)
    BY <1>2, RenameKept DEF Ops!Rename, Ops!Begin
  <1>3. CASE \E S \in SUBSET DOMAIN files : Ops!Delete(S)
    BY <1>3, DeleteKept DEF Ops!Delete, Ops!Begin
  <1>4. CASE \E S \in SUBSET DOMAIN files, d \in DOMAIN files \cup {Ops!Root} : Ops!Move(S, d)
    BY <1>4, MoveKept DEF Ops!Move, Ops!Begin
  <1>5. CASE \E d \in DOMAIN files \cup {Ops!Root}, n \in Segments, dir \in BOOLEAN :
                Ops!New(d, <<n>>, dir)
    <2>1. \A n \in Segments : <<n>> \in Seq(Segments)
      OBVIOUS
    <2> QED  BY <1>5, <2>1, NewKept DEF Ops!New, Ops!Begin
  <1>6. CASE \E d \in DOMAIN files \cup {Ops!Root}, n, m \in Segments : Ops!New(d, <<n, m>>, FALSE)
    <2>1. \A n, m \in Segments : <<n, m>> \in Seq(Segments)
      OBVIOUS
    <2> QED  BY <1>6, <2>1, NewKept DEF Ops!New, Ops!Begin
  <1>7. ASSUME NEW c \in calls,
               \/ Ops!Relocate(c) \/ Ops!Relocated(c) \/ Ops!Veto(c) \/ Ops!Deleted(c)
               \/ Ops!Probe(c) \/ Ops!Write(c) \/ Ops!End(c) \/ Ops!Fails(c)
        PROVE  /\ FilesInv'
               /\ \A p \in DOMAIN files : (\E q \in DOMAIN files' : files'[q] = files[p])
                                          \/ files[p].ino \in removed'
    <2>1. CASE Ops!Relocated(c)
      BY <2>1, RelocatedKept
    <2>2. CASE Ops!Deleted(c)
      BY <2>2, DeletedKept
    <2>3. CASE Ops!Write(c)
      BY <2>3, WriteKept
    <2>4. CASE Ops!Relocate(c) \/ Ops!Veto(c) \/ Ops!Probe(c) \/ Ops!End(c) \/ Ops!Fails(c)
      <3>1. UNCHANGED files
        BY <2>4 DEF Ops!Relocate, Ops!Veto, Ops!Probe, Ops!End, Ops!Fails
      <3>2. FilesInv'
        BY <2>4, RelocateKept, VetoKept, ProbeKept, EndKept, FailsKept
      <3> QED  BY <3>1, <3>2
    <2> QED  BY <1>7, <2>1, <2>2, <2>3, <2>4
  <1> QED  BY <1>1, <1>2, <1>3, <1>4, <1>5, <1>6, <1>7 DEF Ops!OpsNext

(* With one call at a time, member-content-ops.ts keeps the disk a tree,     *)
(* knows the target it is about to take to be free, and leaves no editor     *)
(* behind but those of a delete that has still to tell the guard.            *)
THEOREM FilesAreKept ==
  ASSUME MaxCalls = 1
  PROVE  WorkspaceSpec => []FilesKept
  <1>1. WorkspaceInit => FilesKept
    BY FilesStart DEF WorkspaceInit, FilesKept
  <1>2. FilesKept /\ [WorkspaceNext]_<<subject, vars, observing, operating, keeping, living>>
          => FilesKept'
    <2> SUFFICES ASSUME FilesKept,
                        [WorkspaceNext]_<<subject, vars, observing, operating, keeping, living>>
                 PROVE  FilesKept'
      OBVIOUS
    <2>1. CASE Operate
      BY <2>1, FilesGoOn DEF FilesKept, Operate
    <2>2. CASE Manage \/ Watch \/ Keep \/ Live
      BY <2>2 DEF FilesKept, Manage, Watch, Keep, Live
    <2>3. CASE UNCHANGED <<subject, vars, observing, operating, keeping, living>>
      <3>1. UNCHANGED <<subject, operating>>
        BY <2>3
      <3> QED  BY <3>1 DEF FilesKept, operating, FilesInv, Follows, Tracks
    <2> QED  BY <2>1, <2>2, <2>3 DEF WorkspaceNext
  <1> QED  BY <1>1, <1>2, PTL DEF WorkspaceSpec

(* The host's lifecycle guard keeps the editors in step: with one call at    *)
(* a time, whenever none is under way an open editor holds the path of its   *)
(* own file, also after a rename, move or delete that failed half way.       *)
THEOREM EditorsAreFollowed ==
  ASSUME MaxCalls = 1
  PROVE  WorkspaceSpec => []EditorsFollow
  <1>1. FilesKept => EditorsFollow
    BY DEF FilesKept, FilesInv, Follows, Tracks, EditorsFollow, Ops!EditorsFollow,
       Ops!Closed,
           Ops!Root
  <1> QED  BY <1>1, FilesAreKept, PTL

(***************************************************************************)
(* The settings, when no document is unreadable and nobody edits bags while *)
(* they are flushed.                                                        *)
(***************************************************************************)

(* The fields of the records a step may replace one of.                       *)
Shaped ==
    /\ manifestDoc = [bags |-> manifestDoc.bags, fields |-> manifestDoc.fields]
    /\ localDoc = [bags |-> localDoc.bags, key |-> localDoc.key]
    /\ solution = [bags |-> solution.bags, migrated |-> solution.migrated]
    /\ solutionDisk = [bags |-> solutionDisk.bags, migrated |-> solutionDisk.migrated]
    /\ task # None =>
          /\ task = [op |-> task.op, at |-> task.at, id |-> task.id, shared |-> task.shared,
                     local |-> task.local, read |-> task.read]
          /\ task.local = [bags |-> task.local.bags, key |-> task.local.key]
    /\ held # None =>
          held = [bags |-> held.bags, dirty |-> held.dirty, at |-> held.at, out |-> held.out,
                  read |-> held.read]

(* An entry of a bag.                                                        *)
Connection == [id : Connections, default : BOOLEAN]

(* A bag has a connection once and one default at most.                       *)
GoodBag(bag) ==
    /\ bag \in Seq(Connection)
    /\ \A i, j \in DOMAIN bag : bag[i].id = bag[j].id => i = j
    /\ \A i, j \in DOMAIN bag : bag[i].default /\ bag[j].default => i = j

(* What an operation under way knows.                                         *)
TaskKnows ==
    /\ task.at = "writeLocal" /\ task.op \notin {"select", "clear", "migrate"} =>
          task.local.key = localDoc.key
    /\ task.op = "migrate" => ~solutionDisk.migrated
    /\ task.at \in {"readManifest", "writeManifest"} <=> task.op = "field"
    /\ task.at = "writeManifest" => task.read = manifestDoc
    /\ task.op = "field" /\ held # None => held.at = "rest"

(* What the persister a host holds open knows of its document.               *)
HeldKnows ==
    /\ held.at \in {"rest", "read", "write"}
    /\ held.at # "rest" => held.out = held.bags
    /\ held.at = "write" => held.read = manifestDoc
    /\ held.at = "rest" /\ ~held.dirty => manifestDoc.bags = held.bags

(* The inductive invariant of the settings.                                  *)
SettingsInv ==
    /\ Shaped
    /\ picked # None => localDoc.key = picked
    /\ solutionDisk.migrated => solution.migrated
    /\ GoodBag(solution.bags) /\ GoodBag(solutionDisk.bags)
    /\ manifestDoc.fields = fieldEdits
    /\ task # None => TaskKnows
    /\ held # None => HeldKnows

SettingsKept == subject = "settings" => SettingsInv

(* A connection whose default flag is set stays the same connection.         *)
LEMMA Redefault ==
  ASSUME NEW r \in Connection, NEW d \in BOOLEAN
  PROVE  /\ [r EXCEPT !.default = d] \in Connection /\ [r EXCEPT !.default = d].id = r.id
         /\ [r EXCEPT !.default = d].default = d
  BY DEF Connection

(* Adding a connection that is no default, or clearing a default, keeps      *)
(* one default.                                                              *)
LEMMA PutGood ==
  ASSUME NEW bag, GoodBag(bag), NEW id \in Connections
  PROVE  GoodBag(Settings!Put(bag, id, FALSE))
  <1>1. CASE Settings!Has(bag, id)
    <2> DEFINE put == [i \in DOMAIN bag |-> IF bag[i].id = id
                          THEN [bag[i] EXCEPT !.default = FALSE] ELSE bag[i]]
    <2>1. Settings!Put(bag, id, FALSE) = put
      BY <1>1 DEF Settings!Put
    <2>2. \A i \in DOMAIN bag : /\ put[i] \in Connection /\ put[i].id = bag[i].id
                                /\ put[i].default => bag[i].default
      <3>1. \A i \in DOMAIN bag : bag[i] \in Connection
        BY DEF GoodBag
      <3> QED  BY <3>1, Redefault
    <2>3. DOMAIN put = 1 .. Len(bag) /\ Len(bag) \in Nat /\ put \in Seq(Connection)
      <3>1. DOMAIN bag = 1 .. Len(bag) /\ Len(bag) \in Nat
        BY DEF GoodBag
      <3>2. put \in [1 .. Len(bag) -> Connection]
        BY <2>2, <3>1
      <3> QED  BY <3>1, <3>2
    <2>4. DOMAIN put = DOMAIN bag
      OBVIOUS
    <2> HIDE DEF put
    <2> QED  BY <2>1, <2>2, <2>3, <2>4 DEF GoodBag
  <1>2. CASE ~Settings!Has(bag, id)
    BY <1>2 DEF GoodBag, Settings!Put, Settings!Has, Connection
  <1> QED  BY <1>1, <1>2

(* SetSolutionDefault leaves one default, adopted or not.                    *)
LEMMA OnlyDefaultGood ==
  ASSUME NEW bag, GoodBag(bag), NEW id \in Connections
  PROVE  GoodBag(Settings!OnlyDefault(bag, id))
  <1> DEFINE others == [i \in DOMAIN bag |-> [bag[i] EXCEPT !.default = bag[i].id = id]]
             put == [i \in DOMAIN others |-> IF others[i].id = id
                          THEN [others[i] EXCEPT !.default = TRUE] ELSE others[i]]
  <1>1. \A i \in DOMAIN bag : /\ others[i] \in Connection /\ others[i].id = bag[i].id
                              /\ others[i].default <=> bag[i].id = id
    <2> SUFFICES ASSUME NEW i \in DOMAIN bag
                 PROVE  /\ others[i] \in Connection /\ others[i].id = bag[i].id
                        /\ others[i].default <=> bag[i].id = id
      OBVIOUS
    <2>1. bag[i] \in Connection /\ (bag[i].id = id) \in BOOLEAN
      BY DEF GoodBag
    <2>2. others[i] = [bag[i] EXCEPT !.default = bag[i].id = id]
      OBVIOUS
    <2> HIDE DEF others
    <2> QED  BY <2>1, <2>2, Redefault
  <1>2. DOMAIN others = DOMAIN bag /\ DOMAIN put = DOMAIN others
    OBVIOUS
  <1>3. DOMAIN bag = 1 .. Len(bag) /\ Len(bag) \in Nat
    BY DEF GoodBag
  <1>4. others \in Seq(Connection)
    <2>1. others \in [1 .. Len(bag) -> Connection]
      BY <1>1, <1>3
    <2> QED  BY <1>3, <2>1
  <1>5. Settings!OnlyDefault(bag, id) = Settings!Put(others, id, TRUE)
    BY DEF Settings!OnlyDefault
  <1> HIDE DEF others
  <1>6. CASE Settings!Has(others, id)
    <2>1. Settings!Put(others, id, TRUE) = put
      BY <1>6 DEF Settings!Put
    <2>2. \A i \in DOMAIN bag : /\ put[i] \in Connection /\ put[i].id = bag[i].id
                                /\ put[i].default <=> bag[i].id = id
      BY <1>1, <1>2 DEF Connection
    <2>3. put \in Seq(Connection)
      <3>1. put \in [1 .. Len(bag) -> Connection]
        BY <1>2, <1>3, <2>2
      <3> QED  BY <1>3, <3>1
    <2> HIDE DEF put
    <2>4. \A i, j \in DOMAIN put : put[i].id = put[j].id => i = j
      BY <1>2, <2>2 DEF GoodBag
    <2>5. \A i, j \in DOMAIN put : put[i].default /\ put[j].default => i = j
      BY <1>2, <2>2 DEF GoodBag
    <2> QED  BY <1>5, <2>1, <2>3, <2>4, <2>5 DEF GoodBag
  <1>7. CASE ~Settings!Has(others, id)
    <2> DEFINE one == [id |-> id, default |-> TRUE]
    <2>1. Settings!Put(others, id, TRUE) = Append(others, one) /\ one \in Connection
      BY <1>7 DEF Settings!Put, Connection
    <2>2. one.id = id /\ \A i \in DOMAIN bag : others[i].id # id /\ ~others[i].default
      BY <1>1, <1>2, <1>7 DEF Settings!Has
    <2> HIDE DEF one
    <2>3. /\ Append(others, one) \in Seq(Connection)
          /\ DOMAIN Append(others, one) = 1 .. Len(bag) + 1
          /\ \A i \in 1 .. Len(bag) : Append(others, one)[i] = others[i]
          /\ Append(others, one)[Len(bag) + 1] = one
      BY <1>2, <1>3, <1>4, <2>1
    <2>4. \A i \in 1 .. Len(bag) + 1 : i = Len(bag) + 1 \/ i \in DOMAIN bag
      BY <1>3
    <2>5. \A i, j \in 1 .. Len(bag) + 1 : Append(others, one)[i].id = Append(others, one)[j].id => i = j
      BY <1>1, <1>2, <1>3, <2>2, <2>3, <2>4 DEF GoodBag
    <2>6. \A i, j \in 1 .. Len(bag) + 1 :
              Append(others, one)[i].default /\ Append(others, one)[j].default => i = j
      BY <1>1, <1>2, <1>3, <2>2, <2>3, <2>4 DEF GoodBag
    <2>7. Settings!OnlyDefault(bag, id) = Append(others, one)
      BY <1>5, <2>1
    <2> QED  BY <2>3, <2>5, <2>6, <2>7 DEF GoodBag
  <1> QED  BY <1>6, <1>7

(* A sequence without its item at k.                                         *)
LEMMA RemovedAt ==
  ASSUME NEW S, NEW s \in Seq(S), NEW k \in DOMAIN s
  PROVE  /\ Settings!RemoveAt(s, k) \in Seq(S)
         /\ Len(Settings!RemoveAt(s, k)) = Len(s) - 1
         /\ \A i \in 1 .. Len(s) - 1 :
               Settings!RemoveAt(s, k)[i] = IF i < k THEN s[i] ELSE s[i + 1]
  <1>1. Len(s) \in Nat /\ k \in 1 .. Len(s) /\ \A i \in 1 .. Len(s) : s[i] \in S
    OBVIOUS
  <1> DEFINE a == SubSeq(s, 1, k - 1)
             b == SubSeq(s, k + 1, Len(s))
  <1>2. /\ a \in Seq(S) /\ Len(a) = k - 1
        /\ \A i \in 1 .. k - 1 : a[i] = s[i]
    BY <1>1, SubSeqProperties
  <1>3. /\ b \in Seq(S) /\ Len(b) = Len(s) - k
        /\ \A i \in 1 .. Len(s) - k : b[i] = s[k + i]
    <2>1. k + 1 \in Int /\ Len(s) \in Int /\ \A i \in k + 1 .. Len(s) : s[i] \in S
      BY <1>1
    <2>2. /\ b \in Seq(S) /\ Len(b) = IF k + 1 <= Len(s) THEN Len(s) - (k + 1) + 1 ELSE 0
          /\ \A i \in 1 .. Len(s) - (k + 1) + 1 : b[i] = s[(k + 1) + i - 1]
      BY <2>1, SubSeqProperties
    <2> HIDE DEF b
    <2>3. \A i \in 1 .. Len(s) - k : b[i] = s[k + i]
      <3> SUFFICES ASSUME NEW i \in 1 .. Len(s) - k PROVE b[i] = s[k + i]
        OBVIOUS
      <3>1. (k + 1) + i - 1 = k + i /\ i \in 1 .. Len(s) - (k + 1) + 1
        BY <1>1
      <3> QED  BY <2>2, <3>1
    <2> QED  BY <1>1, <2>2, <2>3
  <1>4. Settings!RemoveAt(s, k) = a \o b
    BY DEF Settings!RemoveAt
  <1> HIDE DEF a, b
  <1>5. /\ a \o b \in Seq(S) /\ Len(a \o b) = Len(a) + Len(b)
        /\ \A i \in 1 .. Len(a) + Len(b) : (a \o b)[i] = IF i <= Len(a) THEN a[i] ELSE b[i - Len(a)]
    BY <1>2, <1>3, ConcatProperties
  <1>6. ASSUME NEW i \in 1 .. Len(s) - 1
        PROVE  (a \o b)[i] = IF i < k THEN s[i] ELSE s[i + 1]
    <2>1. CASE i < k
      BY <1>1, <1>2, <1>3, <1>5, <2>1
    <2>2. CASE ~(i < k)
      <3>1. i - (k - 1) \in 1 .. Len(s) - k /\ k + (i - (k - 1)) = i + 1
        BY <1>1, <2>2
      <3>2. i \in 1 .. Len(a) + Len(b) /\ ~(i <= Len(a)) /\ i - Len(a) = i - (k - 1)
        BY <1>1, <1>2, <1>3, <2>2
      <3> QED  BY <1>3, <1>5, <2>2, <3>1, <3>2
    <2> QED  BY <2>1, <2>2
  <1>7. Len(a) + Len(b) = Len(s) - 1
    BY <1>1, <1>2, <1>3
  <1> QED  BY <1>4, <1>5, <1>6, <1>7

(* Removing a connection keeps one default at most.                          *)
LEMMA DropGood ==
  ASSUME NEW bag, GoodBag(bag), NEW id, Settings!Has(bag, id)
  PROVE  GoodBag(Settings!Drop(bag, id))
  <1> DEFINE k == CHOOSE i \in DOMAIN bag : bag[i].id = id
             rest == Settings!RemoveAt(bag, k)
  <1>1. k \in DOMAIN bag /\ bag \in Seq(Connection) /\ Settings!Drop(bag, id) = rest
    BY DEF Settings!Has, Settings!Drop, GoodBag
  <1> HIDE DEF k
  <1>2. /\ rest \in Seq(Connection) /\ Len(rest) = Len(bag) - 1
        /\ \A i \in 1 .. Len(bag) - 1 : rest[i] = IF i < k THEN bag[i] ELSE bag[i + 1]
    BY <1>1, RemovedAt
  <1> HIDE DEF rest
  <1> DEFINE at(i) == IF i < k THEN i ELSE i + 1
  <1>3. DOMAIN rest = 1 .. Len(bag) - 1 /\ DOMAIN bag = 1 .. Len(bag) /\ Len(bag) \in Nat
    BY <1>1, <1>2
  <1>4. \A i \in 1 .. Len(bag) - 1 : rest[i] = bag[at(i)] /\ at(i) \in 1 .. Len(bag)
    BY <1>1, <1>2, <1>3
  <1>5. \A i, j \in 1 .. Len(bag) - 1 : at(i) = at(j) => i = j
    BY <1>1, <1>3
  <1> HIDE DEF at
  <1>6. \A i, j \in DOMAIN rest : rest[i].id = rest[j].id => i = j
    BY <1>3, <1>4, <1>5 DEF GoodBag
  <1>7. \A i, j \in DOMAIN rest : rest[i].default /\ rest[j].default => i = j
    BY <1>3, <1>4, <1>5 DEF GoodBag
  <1> QED  BY <1>1, <1>2, <1>6, <1>7 DEF GoodBag

(* Whatever an operation makes of the sidecar, only three of them change its *)
(* selection.                                                                *)
LEMMA ChosenKeeps ==
  ASSUME localDoc = [bags |-> localDoc.bags, key |-> localDoc.key]
  PROVE  /\ Settings!Chosen(localDoc)
               = [bags |-> Settings!Chosen(localDoc).bags, key |-> Settings!Chosen(localDoc).key]
         /\ task.op \notin {"select", "clear", "migrate"} =>
               Settings!Chosen(localDoc).key = localDoc.key
  <1> DEFINE key == Settings!Key(Settings!ScopeOf(task.id, localDoc.bags, task.shared, solution.bags),
                                 "none", task.id)
             old == Settings!Key("global", "none", Override)
             bags == Settings!Put(localDoc.bags, task.id, task.op = "addDefault")
  <1>1. Settings!Chosen(localDoc) =
          CASE task.op = "select" -> [localDoc EXCEPT !.key = key]
            [] task.op = "clear" -> IF localDoc.key = None THEN localDoc
                                    ELSE [localDoc EXCEPT !.key = "cleared"]
            [] task.op = "migrate" -> [localDoc EXCEPT !.key = old]
            [] OTHER -> [localDoc EXCEPT !.bags = bags]
    BY DEF Settings!Chosen
  <1> HIDE DEF key, old, bags
  <1>2. \/ Settings!Chosen(localDoc) = localDoc
        \/ \E v : Settings!Chosen(localDoc) = [localDoc EXCEPT !.key = v]
        \/ \E v : Settings!Chosen(localDoc) = [localDoc EXCEPT !.bags = v]
    BY <1>1
  <1>3. task.op \notin {"select", "clear", "migrate"} =>
            Settings!Chosen(localDoc) = [localDoc EXCEPT !.bags = bags]
    BY <1>1
  <1>4. [localDoc EXCEPT !.bags = bags].key = localDoc.key
    OBVIOUS
  <1>5. \A v : /\ [localDoc EXCEPT !.key = v] = [bags |-> localDoc.bags, key |-> v]
               /\ [localDoc EXCEPT !.bags = v] = [bags |-> v, key |-> localDoc.key]
    OBVIOUS
  <1>6. \A x, y : [bags |-> x, key |-> y].bags = x /\ [bags |-> x, key |-> y].key = y
    OBVIOUS
  <1> QED  BY <1>2, <1>3, <1>4, <1>5, <1>6

(* A selection, a clearing or an added connection begins with the            *)
(* documents to read.                                                        *)
LEMMA BeginSelectionKept ==
  ASSUME SettingsInv, ReadsFail = FALSE, LateEdits = FALSE, Settings!BeginSelection
  PROVE  SettingsInv'
  <1>1. Shaped'
    BY DEF SettingsInv, Shaped, Settings!BeginSelection, Settings!Idle0, Settings!Begins,
       Settings!Start, Settings!documents, Settings!owners, Settings!placed
  <1>2. GoodBag(solution.bags)' /\ GoodBag(solutionDisk.bags)'
    BY PutGood, DropGood, OnlyDefaultGood DEF SettingsInv, Shaped, Settings!BeginSelection,
       Settings!Idle0, Settings!Begins, Settings!Start, Settings!documents, Settings!owners,
       Settings!placed
  <1>3. /\ picked' # None => localDoc'.key = picked'
        /\ solutionDisk'.migrated => solution'.migrated
        /\ manifestDoc'.fields = fieldEdits'
    BY DEF SettingsInv, Shaped, TaskKnows, HeldKnows, Settings!BeginSelection,
       Settings!Idle0, Settings!Begins, Settings!Start, Settings!documents, Settings!owners,
       Settings!placed
  <1>4. (task # None)' => TaskKnows'
    BY DEF SettingsInv, Shaped, TaskKnows, HeldKnows, Settings!BeginSelection,
       Settings!Idle0, Settings!Begins, Settings!Start, Settings!documents, Settings!owners,
       Settings!placed
  <1>5. (held # None)' => HeldKnows'
    BY DEF SettingsInv, Shaped, TaskKnows, HeldKnows, Settings!BeginSelection,
       Settings!Idle0, Settings!Begins, Settings!Start, Settings!documents, Settings!owners,
       Settings!placed
  <1> QED  BY <1>1, <1>2, <1>3, <1>4, <1>5 DEF SettingsInv

(* Reading the shared manifest changes nothing.                              *)
LEMMA OpenSharedKept ==
  ASSUME SettingsInv, ReadsFail = FALSE, LateEdits = FALSE, Settings!OpenShared
  PROVE  SettingsInv'
  <1>1. Shaped'
    BY DEF SettingsInv, Shaped, Settings!OpenShared, Settings!At, Settings!documents,
       Settings!owners, Settings!placed
  <1>2. GoodBag(solution.bags)' /\ GoodBag(solutionDisk.bags)'
    BY PutGood, DropGood, OnlyDefaultGood DEF SettingsInv, Shaped, Settings!OpenShared,
       Settings!At, Settings!documents, Settings!owners, Settings!placed
  <1>3. /\ picked' # None => localDoc'.key = picked'
        /\ solutionDisk'.migrated => solution'.migrated
        /\ manifestDoc'.fields = fieldEdits'
    BY DEF SettingsInv, Shaped, TaskKnows, HeldKnows, Settings!OpenShared, Settings!At,
       Settings!documents, Settings!owners, Settings!placed
  <1>4. (task # None)' => TaskKnows'
    BY DEF SettingsInv, Shaped, TaskKnows, HeldKnows, Settings!OpenShared, Settings!At,
       Settings!documents, Settings!owners, Settings!placed
  <1>5. (held # None)' => HeldKnows'
    BY DEF SettingsInv, Shaped, TaskKnows, HeldKnows, Settings!OpenShared, Settings!At,
       Settings!documents, Settings!owners, Settings!placed
  <1> QED  BY <1>1, <1>2, <1>3, <1>4, <1>5 DEF SettingsInv

(* The sidecar is changed in memory, with the selection it had but for       *)
(* three operations.                                                         *)
LEMMA OpenLocalKept ==
  ASSUME SettingsInv, ReadsFail = FALSE, LateEdits = FALSE, Settings!OpenLocal
  PROVE  SettingsInv'
  <1>1. Shaped'
    BY ChosenKeeps DEF SettingsInv, Shaped, Settings!OpenLocal, Settings!At, Settings!End,
       Settings!documents, Settings!owners, Settings!placed
  <1>2. GoodBag(solution.bags)' /\ GoodBag(solutionDisk.bags)'
    BY PutGood, DropGood, OnlyDefaultGood DEF SettingsInv, Shaped, Settings!OpenLocal,
       Settings!At, Settings!Chosen, Settings!End, Settings!documents, Settings!owners,
       Settings!placed
  <1>3. /\ picked' # None => localDoc'.key = picked'
        /\ solutionDisk'.migrated => solution'.migrated
        /\ manifestDoc'.fields = fieldEdits'
    BY ChosenKeeps DEF SettingsInv, Shaped, TaskKnows, HeldKnows, Settings!OpenLocal,
       Settings!At, Settings!End, Settings!documents, Settings!owners, Settings!placed
  <1>4. (task # None)' => TaskKnows'
    BY ChosenKeeps DEF SettingsInv, Shaped, TaskKnows, HeldKnows, Settings!OpenLocal,
       Settings!At, Settings!End, Settings!documents, Settings!owners, Settings!placed
  <1>5. (held # None)' => HeldKnows'
    BY ChosenKeeps DEF SettingsInv, Shaped, TaskKnows, HeldKnows, Settings!OpenLocal,
       Settings!At, Settings!End, Settings!documents, Settings!owners, Settings!placed
  <1> QED  BY <1>1, <1>2, <1>3, <1>4, <1>5 DEF SettingsInv

(* Writing the sidecar records the connection picked, and takes none back.   *)
LEMMA WriteLocalKept ==
  ASSUME SettingsInv, ReadsFail = FALSE, LateEdits = FALSE, Settings!WriteLocal
  PROVE  SettingsInv'
  <1>1. Shaped'
    BY DEF SettingsInv, Shaped, Settings!WriteLocal, Settings!At, Settings!Stamp,
       Settings!Wait, Settings!End, Settings!placed
  <1>2. GoodBag(solution.bags)' /\ GoodBag(solutionDisk.bags)'
    BY PutGood, DropGood, OnlyDefaultGood DEF SettingsInv, Shaped, Settings!WriteLocal,
       Settings!At, Settings!Stamp, Settings!Wait, Settings!End, Settings!placed
  <1>3. /\ picked' # None => localDoc'.key = picked'
        /\ solutionDisk'.migrated => solution'.migrated
        /\ manifestDoc'.fields = fieldEdits'
    BY DEF SettingsInv, Shaped, TaskKnows, HeldKnows, Settings!WriteLocal, Settings!At,
       Settings!Stamp, Settings!Wait, Settings!End, Settings!placed
  <1>4. (task # None)' => TaskKnows'
    BY DEF SettingsInv, Shaped, TaskKnows, HeldKnows, Settings!WriteLocal, Settings!At,
       Settings!Stamp, Settings!Wait, Settings!End, Settings!placed
  <1>5. (held # None)' => HeldKnows'
    BY DEF SettingsInv, Shaped, TaskKnows, HeldKnows, Settings!WriteLocal, Settings!At,
       Settings!Stamp, Settings!Wait, Settings!End, Settings!placed
  <1> QED  BY <1>1, <1>2, <1>3, <1>4, <1>5 DEF SettingsInv

(* A solution default replaces the ones before it.                           *)
LEMMA BeginDefaultKept ==
  ASSUME SettingsInv, ReadsFail = FALSE, LateEdits = FALSE, Settings!BeginDefault
  PROVE  SettingsInv'
  <1>1. Shaped'
    BY DEF SettingsInv, Shaped, Settings!BeginDefault, Settings!Idle0, Settings!Begins,
       Settings!Start, Settings!documents, Settings!placed
  <1>2. GoodBag(solution.bags)' /\ GoodBag(solutionDisk.bags)'
    BY PutGood, DropGood, OnlyDefaultGood DEF SettingsInv, Shaped, Settings!BeginDefault,
       Settings!Idle0, Settings!Begins, Settings!Start, Settings!documents, Settings!placed
  <1>3. /\ picked' # None => localDoc'.key = picked'
        /\ solutionDisk'.migrated => solution'.migrated
        /\ manifestDoc'.fields = fieldEdits'
    BY DEF SettingsInv, Shaped, TaskKnows, HeldKnows, Settings!BeginDefault, Settings!Idle0,
       Settings!Begins, Settings!Start, Settings!documents, Settings!placed
  <1>4. (task # None)' => TaskKnows'
    BY DEF SettingsInv, Shaped, TaskKnows, HeldKnows, Settings!BeginDefault, Settings!Idle0,
       Settings!Begins, Settings!Start, Settings!documents, Settings!placed
  <1>5. (held # None)' => HeldKnows'
    BY DEF SettingsInv, Shaped, TaskKnows, HeldKnows, Settings!BeginDefault, Settings!Idle0,
       Settings!Begins, Settings!Start, Settings!documents, Settings!placed
  <1> QED  BY <1>1, <1>2, <1>3, <1>4, <1>5 DEF SettingsInv

(* A saved solution has its bags on disk.                                    *)
LEMMA SaveSolutionKept ==
  ASSUME SettingsInv, ReadsFail = FALSE, LateEdits = FALSE, Settings!SaveSolution
  PROVE  SettingsInv'
  <1>1. Shaped'
    BY DEF SettingsInv, Shaped, Settings!SaveSolution, Settings!At, Settings!End,
       Settings!documents, Settings!placed
  <1>2. GoodBag(solution.bags)' /\ GoodBag(solutionDisk.bags)'
    BY PutGood, DropGood, OnlyDefaultGood DEF SettingsInv, Shaped, Settings!SaveSolution,
       Settings!At, Settings!End, Settings!documents, Settings!placed
  <1>3. /\ picked' # None => localDoc'.key = picked'
        /\ solutionDisk'.migrated => solution'.migrated
        /\ manifestDoc'.fields = fieldEdits'
    BY DEF SettingsInv, Shaped, TaskKnows, HeldKnows, Settings!SaveSolution, Settings!At,
       Settings!End, Settings!documents, Settings!placed
  <1>4. (task # None)' => TaskKnows'
    BY DEF SettingsInv, Shaped, TaskKnows, HeldKnows, Settings!SaveSolution, Settings!At,
       Settings!End, Settings!documents, Settings!placed
  <1>5. (held # None)' => HeldKnows'
    BY DEF SettingsInv, Shaped, TaskKnows, HeldKnows, Settings!SaveSolution, Settings!At,
       Settings!End, Settings!documents, Settings!placed
  <1> QED  BY <1>1, <1>2, <1>3, <1>4, <1>5 DEF SettingsInv

(* A migration begins on a solution that is not marked, in memory or on      *)
(* disk.                                                                     *)
LEMMA BeginMigrateKept ==
  ASSUME SettingsInv, ReadsFail = FALSE, LateEdits = FALSE, Settings!BeginMigrate
  PROVE  SettingsInv'
  <1>1. Shaped'
    BY DEF SettingsInv, Shaped, Settings!BeginMigrate, Settings!Idle0, Settings!Begins,
       Settings!HasMarker, Settings!Start, Settings!documents, Settings!owners,
       Settings!placed
  <1>2. GoodBag(solution.bags)' /\ GoodBag(solutionDisk.bags)'
    BY PutGood, DropGood, OnlyDefaultGood DEF SettingsInv, Shaped, Settings!BeginMigrate,
       Settings!Idle0, Settings!Begins, Settings!HasMarker, Settings!Start,
       Settings!documents, Settings!owners, Settings!placed
  <1>3. /\ picked' # None => localDoc'.key = picked'
        /\ solutionDisk'.migrated => solution'.migrated
        /\ manifestDoc'.fields = fieldEdits'
    BY DEF SettingsInv, Shaped, TaskKnows, HeldKnows, Settings!BeginMigrate, Settings!Idle0,
       Settings!Begins, Settings!HasMarker, Settings!Start, Settings!documents,
       Settings!owners, Settings!placed
  <1>4. (task # None)' => TaskKnows'
    BY DEF SettingsInv, Shaped, TaskKnows, HeldKnows, Settings!BeginMigrate, Settings!Idle0,
       Settings!Begins, Settings!HasMarker, Settings!Start, Settings!documents,
       Settings!owners, Settings!placed
  <1>5. (held # None)' => HeldKnows'
    BY DEF SettingsInv, Shaped, TaskKnows, HeldKnows, Settings!BeginMigrate, Settings!Idle0,
       Settings!Begins, Settings!HasMarker, Settings!Start, Settings!documents,
       Settings!owners, Settings!placed
  <1> QED  BY <1>1, <1>2, <1>3, <1>4, <1>5 DEF SettingsInv

(* The user's migration touches no document of the project.                  *)
LEMMA BeginMigrateGlobalKept ==
  ASSUME SettingsInv, ReadsFail = FALSE, LateEdits = FALSE, Settings!BeginMigrateGlobal
  PROVE  SettingsInv'
  <1>1. Shaped'
    BY DEF SettingsInv, Shaped, Settings!BeginMigrateGlobal, Settings!Idle0,
       Settings!Begins, Settings!Start, Settings!documents, Settings!owners, Settings!placed
  <1>2. GoodBag(solution.bags)' /\ GoodBag(solutionDisk.bags)'
    BY PutGood, DropGood, OnlyDefaultGood DEF SettingsInv, Shaped,
       Settings!BeginMigrateGlobal, Settings!Idle0, Settings!Begins, Settings!Start,
       Settings!documents, Settings!owners, Settings!placed
  <1>3. /\ picked' # None => localDoc'.key = picked'
        /\ solutionDisk'.migrated => solution'.migrated
        /\ manifestDoc'.fields = fieldEdits'
    BY DEF SettingsInv, Shaped, TaskKnows, HeldKnows, Settings!BeginMigrateGlobal,
       Settings!Idle0, Settings!Begins, Settings!Start, Settings!documents, Settings!owners,
       Settings!placed
  <1>4. (task # None)' => TaskKnows'
    BY DEF SettingsInv, Shaped, TaskKnows, HeldKnows, Settings!BeginMigrateGlobal,
       Settings!Idle0, Settings!Begins, Settings!Start, Settings!documents, Settings!owners,
       Settings!placed
  <1>5. (held # None)' => HeldKnows'
    BY DEF SettingsInv, Shaped, TaskKnows, HeldKnows, Settings!BeginMigrateGlobal,
       Settings!Idle0, Settings!Begins, Settings!Start, Settings!documents, Settings!owners,
       Settings!placed
  <1> QED  BY <1>1, <1>2, <1>3, <1>4, <1>5 DEF SettingsInv

(* Nor does what it lifts from the old file.                                 *)
LEMMA ReadLegacyKept ==
  ASSUME SettingsInv, ReadsFail = FALSE, LateEdits = FALSE, Settings!ReadLegacy
  PROVE  SettingsInv'
  <1>1. Shaped'
    BY DEF SettingsInv, Shaped, Settings!ReadLegacy, Settings!At, Settings!Wait,
       Settings!documents, Settings!placed
  <1>2. GoodBag(solution.bags)' /\ GoodBag(solutionDisk.bags)'
    BY PutGood, DropGood, OnlyDefaultGood DEF SettingsInv, Shaped, Settings!ReadLegacy,
       Settings!At, Settings!Wait, Settings!documents, Settings!placed
  <1>3. /\ picked' # None => localDoc'.key = picked'
        /\ solutionDisk'.migrated => solution'.migrated
        /\ manifestDoc'.fields = fieldEdits'
    BY DEF SettingsInv, Shaped, TaskKnows, HeldKnows, Settings!ReadLegacy, Settings!At,
       Settings!Wait, Settings!documents, Settings!placed
  <1>4. (task # None)' => TaskKnows'
    BY DEF SettingsInv, Shaped, TaskKnows, HeldKnows, Settings!ReadLegacy, Settings!At,
       Settings!Wait, Settings!documents, Settings!placed
  <1>5. (held # None)' => HeldKnows'
    BY DEF SettingsInv, Shaped, TaskKnows, HeldKnows, Settings!ReadLegacy, Settings!At,
       Settings!Wait, Settings!documents, Settings!placed
  <1> QED  BY <1>1, <1>2, <1>3, <1>4, <1>5 DEF SettingsInv

(* Nor does its flush.                                                       *)
LEMMA FlushGlobalKept ==
  ASSUME SettingsInv, ReadsFail = FALSE, LateEdits = FALSE, Settings!FlushGlobal
  PROVE  SettingsInv'
  <1>1. Shaped'
    BY DEF SettingsInv, Shaped, Settings!FlushGlobal, Settings!At, Settings!End,
       Settings!documents, Settings!placed
  <1>2. GoodBag(solution.bags)' /\ GoodBag(solutionDisk.bags)'
    BY PutGood, DropGood, OnlyDefaultGood DEF SettingsInv, Shaped, Settings!FlushGlobal,
       Settings!At, Settings!End, Settings!documents, Settings!placed
  <1>3. /\ picked' # None => localDoc'.key = picked'
        /\ solutionDisk'.migrated => solution'.migrated
        /\ manifestDoc'.fields = fieldEdits'
    BY DEF SettingsInv, Shaped, TaskKnows, HeldKnows, Settings!FlushGlobal, Settings!At,
       Settings!End, Settings!documents, Settings!placed
  <1>4. (task # None)' => TaskKnows'
    BY DEF SettingsInv, Shaped, TaskKnows, HeldKnows, Settings!FlushGlobal, Settings!At,
       Settings!End, Settings!documents, Settings!placed
  <1>5. (held # None)' => HeldKnows'
    BY DEF SettingsInv, Shaped, TaskKnows, HeldKnows, Settings!FlushGlobal, Settings!At,
       Settings!End, Settings!documents, Settings!placed
  <1> QED  BY <1>1, <1>2, <1>3, <1>4, <1>5 DEF SettingsInv

(* A change of a manifest field begins while no flush of the bags is under   *)
(* way.                                                                      *)
LEMMA BeginFieldKept ==
  ASSUME SettingsInv, ReadsFail = FALSE, LateEdits = FALSE, Settings!BeginField
  PROVE  SettingsInv'
  <1>1. Shaped'
    BY DEF SettingsInv, Shaped, Settings!BeginField, Settings!Idle0, Settings!Begins,
       Settings!Start, Settings!documents, Settings!owners, Settings!placed
  <1>2. GoodBag(solution.bags)' /\ GoodBag(solutionDisk.bags)'
    BY PutGood, DropGood, OnlyDefaultGood DEF SettingsInv, Shaped, Settings!BeginField,
       Settings!Idle0, Settings!Begins, Settings!Start, Settings!documents, Settings!owners,
       Settings!placed
  <1>3. /\ picked' # None => localDoc'.key = picked'
        /\ solutionDisk'.migrated => solution'.migrated
        /\ manifestDoc'.fields = fieldEdits'
    BY DEF SettingsInv, Shaped, TaskKnows, HeldKnows, Settings!BeginField, Settings!Idle0,
       Settings!Begins, Settings!Start, Settings!documents, Settings!owners, Settings!placed
  <1>4. (task # None)' => TaskKnows'
    BY DEF SettingsInv, Shaped, TaskKnows, HeldKnows, Settings!BeginField, Settings!Idle0,
       Settings!Begins, Settings!Start, Settings!documents, Settings!owners, Settings!placed
  <1>5. (held # None)' => HeldKnows'
    BY DEF SettingsInv, Shaped, TaskKnows, HeldKnows, Settings!BeginField, Settings!Idle0,
       Settings!Begins, Settings!Start, Settings!documents, Settings!owners, Settings!placed
  <1> QED  BY <1>1, <1>2, <1>3, <1>4, <1>5 DEF SettingsInv

(* It reads the manifest as it is.                                           *)
LEMMA ReadManifestKept ==
  ASSUME SettingsInv, ReadsFail = FALSE, LateEdits = FALSE, Settings!ReadManifest
  PROVE  SettingsInv'
  <1>1. Shaped'
    BY DEF SettingsInv, Shaped, Settings!ReadManifest, Settings!At, Settings!documents,
       Settings!owners, Settings!placed
  <1>2. GoodBag(solution.bags)' /\ GoodBag(solutionDisk.bags)'
    BY PutGood, DropGood, OnlyDefaultGood DEF SettingsInv, Shaped, Settings!ReadManifest,
       Settings!At, Settings!documents, Settings!owners, Settings!placed
  <1>3. /\ picked' # None => localDoc'.key = picked'
        /\ solutionDisk'.migrated => solution'.migrated
        /\ manifestDoc'.fields = fieldEdits'
    BY DEF SettingsInv, Shaped, TaskKnows, HeldKnows, Settings!ReadManifest, Settings!At,
       Settings!documents, Settings!owners, Settings!placed
  <1>4. (task # None)' => TaskKnows'
    BY DEF SettingsInv, Shaped, TaskKnows, HeldKnows, Settings!ReadManifest, Settings!At,
       Settings!documents, Settings!owners, Settings!placed
  <1>5. (held # None)' => HeldKnows'
    BY DEF SettingsInv, Shaped, TaskKnows, HeldKnows, Settings!ReadManifest, Settings!At,
       Settings!documents, Settings!owners, Settings!placed
  <1> QED  BY <1>1, <1>2, <1>3, <1>4, <1>5 DEF SettingsInv

(* It writes the bags back as it read them, and nobody wrote since.          *)
LEMMA WriteManifestKept ==
  ASSUME SettingsInv, ReadsFail = FALSE, LateEdits = FALSE, Settings!WriteManifest
  PROVE  SettingsInv'
  <1>1. Shaped'
    BY DEF SettingsInv, Shaped, TaskKnows, Settings!WriteManifest, Settings!At,
       Settings!End, Settings!owners, Settings!placed
  <1>2. GoodBag(solution.bags)' /\ GoodBag(solutionDisk.bags)'
    BY PutGood, DropGood, OnlyDefaultGood DEF SettingsInv, Shaped, Settings!WriteManifest,
       Settings!At, Settings!End, Settings!owners, Settings!placed
  <1>3. /\ picked' # None => localDoc'.key = picked'
        /\ solutionDisk'.migrated => solution'.migrated
        /\ manifestDoc'.fields = fieldEdits'
    BY DEF SettingsInv, Shaped, TaskKnows, HeldKnows, Settings!WriteManifest, Settings!At,
       Settings!End, Settings!owners, Settings!placed
  <1>4. (task # None)' => TaskKnows'
    BY DEF SettingsInv, Shaped, TaskKnows, HeldKnows, Settings!WriteManifest, Settings!At,
       Settings!End, Settings!owners, Settings!placed
  <1>5. (held # None)' => HeldKnows'
    BY DEF SettingsInv, Shaped, TaskKnows, HeldKnows, Settings!WriteManifest, Settings!At,
       Settings!End, Settings!owners, Settings!placed
  <1> QED  BY <1>1, <1>2, <1>3, <1>4, <1>5 DEF SettingsInv

(* The host's edits of the solution's bags make no second default.           *)
LEMMA EditOwnerKept ==
  ASSUME SettingsInv, ReadsFail = FALSE, LateEdits = FALSE, Settings!EditOwner
  PROVE  SettingsInv'
  <1>1. Shaped'
    BY DEF SettingsInv, Shaped, Settings!EditOwner, Settings!Begins, Settings!documents,
       Settings!placed
  <1>2. GoodBag(solution.bags)' /\ GoodBag(solutionDisk.bags)'
    <2>1. PICK id \in Connections :
             \/ UNCHANGED solution
             \/ solution' = [solution EXCEPT !.bags =
                   IF Settings!Has(solution.bags, id) THEN Settings!Drop(solution.bags, id)
                   ELSE Settings!Put(solution.bags, id, FALSE)]
      BY DEF Settings!EditOwner
    <2>2. /\ solution = [bags |-> solution.bags, migrated |-> solution.migrated]
          /\ GoodBag(solution.bags) /\ GoodBag(solutionDisk.bags)
      BY DEF SettingsInv, Shaped
    <2>3. UNCHANGED solutionDisk
      BY DEF Settings!EditOwner
    <2>4. CASE solution' = [solution EXCEPT !.bags =
                   IF Settings!Has(solution.bags, id) THEN Settings!Drop(solution.bags, id)
                   ELSE Settings!Put(solution.bags, id, FALSE)]
      <3>1. solution'.bags = IF Settings!Has(solution.bags, id) THEN Settings!Drop(solution.bags, id)
                             ELSE Settings!Put(solution.bags, id, FALSE)
        BY <2>2, <2>4
      <3> QED  BY <2>2, <2>3, <3>1, PutGood, DropGood
    <2> QED  BY <2>1, <2>2, <2>3, <2>4
  <1>3. /\ picked' # None => localDoc'.key = picked'
        /\ solutionDisk'.migrated => solution'.migrated
        /\ manifestDoc'.fields = fieldEdits'
    BY DEF SettingsInv, Shaped, TaskKnows, HeldKnows, Settings!EditOwner, Settings!Begins,
       Settings!documents, Settings!placed
  <1>4. (task # None)' => TaskKnows'
    BY DEF SettingsInv, Shaped, TaskKnows, HeldKnows, Settings!EditOwner, Settings!Begins,
       Settings!documents, Settings!placed
  <1>5. (held # None)' => HeldKnows'
    BY DEF SettingsInv, Shaped, TaskKnows, HeldKnows, Settings!EditOwner, Settings!Begins,
       Settings!documents, Settings!placed
  <1> QED  BY <1>1, <1>2, <1>3, <1>4, <1>5 DEF SettingsInv

(* A persister that opens holds the bags that are written.                   *)
LEMMA OpenHeldKept ==
  ASSUME SettingsInv, ReadsFail = FALSE, LateEdits = FALSE, Settings!OpenHeld
  PROVE  SettingsInv'
  <1>1. Shaped'
    BY DEF SettingsInv, Shaped, Settings!OpenHeld, Settings!Begins, Settings!documents,
       Settings!owners, Settings!placed
  <1>2. GoodBag(solution.bags)' /\ GoodBag(solutionDisk.bags)'
    BY PutGood, DropGood, OnlyDefaultGood DEF SettingsInv, Shaped, Settings!OpenHeld,
       Settings!Begins, Settings!documents, Settings!owners, Settings!placed
  <1>3. /\ picked' # None => localDoc'.key = picked'
        /\ solutionDisk'.migrated => solution'.migrated
        /\ manifestDoc'.fields = fieldEdits'
    BY DEF SettingsInv, Shaped, TaskKnows, HeldKnows, Settings!OpenHeld, Settings!Begins,
       Settings!documents, Settings!owners, Settings!placed
  <1>4. (task # None)' => TaskKnows'
    BY DEF SettingsInv, Shaped, TaskKnows, HeldKnows, Settings!OpenHeld, Settings!Begins,
       Settings!documents, Settings!owners, Settings!placed
  <1>5. (held # None)' => HeldKnows'
    BY DEF SettingsInv, Shaped, TaskKnows, HeldKnows, Settings!OpenHeld, Settings!Begins,
       Settings!documents, Settings!owners, Settings!placed
  <1> QED  BY <1>1, <1>2, <1>3, <1>4, <1>5 DEF SettingsInv

(* An edit of a held bag makes its persister dirty.                          *)
LEMMA EditHeldKept ==
  ASSUME SettingsInv, ReadsFail = FALSE, LateEdits = FALSE, Settings!EditHeld
  PROVE  SettingsInv'
  <1>1. Shaped'
    BY DEF SettingsInv, Shaped, Settings!EditHeld, Settings!Begins, Settings!documents,
       Settings!owners, Settings!placed
  <1>2. GoodBag(solution.bags)' /\ GoodBag(solutionDisk.bags)'
    BY PutGood, DropGood, OnlyDefaultGood DEF SettingsInv, Shaped, Settings!EditHeld,
       Settings!Begins, Settings!documents, Settings!owners, Settings!placed
  <1>3. /\ picked' # None => localDoc'.key = picked'
        /\ solutionDisk'.migrated => solution'.migrated
        /\ manifestDoc'.fields = fieldEdits'
    BY DEF SettingsInv, Shaped, TaskKnows, HeldKnows, Settings!EditHeld, Settings!Begins,
       Settings!documents, Settings!owners, Settings!placed
  <1>4. (task # None)' => TaskKnows'
    BY DEF SettingsInv, Shaped, TaskKnows, HeldKnows, Settings!EditHeld, Settings!Begins,
       Settings!documents, Settings!owners, Settings!placed
  <1>5. (held # None)' => HeldKnows'
    BY DEF SettingsInv, Shaped, TaskKnows, HeldKnows, Settings!EditHeld, Settings!Begins,
       Settings!documents, Settings!owners, Settings!placed
  <1> QED  BY <1>1, <1>2, <1>3, <1>4, <1>5 DEF SettingsInv

(* A flush serializes the bags as they are.                                  *)
LEMMA FlushHeldKept ==
  ASSUME SettingsInv, ReadsFail = FALSE, LateEdits = FALSE, Settings!FlushHeld
  PROVE  SettingsInv'
  <1>1. Shaped'
    BY DEF SettingsInv, Shaped, Settings!FlushHeld, Settings!documents, Settings!owners,
       Settings!placed
  <1>2. GoodBag(solution.bags)' /\ GoodBag(solutionDisk.bags)'
    BY PutGood, DropGood, OnlyDefaultGood DEF SettingsInv, Shaped, Settings!FlushHeld,
       Settings!documents, Settings!owners, Settings!placed
  <1>3. /\ picked' # None => localDoc'.key = picked'
        /\ solutionDisk'.migrated => solution'.migrated
        /\ manifestDoc'.fields = fieldEdits'
    BY DEF SettingsInv, Shaped, TaskKnows, HeldKnows, Settings!FlushHeld,
       Settings!documents, Settings!owners, Settings!placed
  <1>4. (task # None)' => TaskKnows'
    BY DEF SettingsInv, Shaped, TaskKnows, HeldKnows, Settings!FlushHeld,
       Settings!documents, Settings!owners, Settings!placed
  <1>5. (held # None)' => HeldKnows'
    BY DEF SettingsInv, Shaped, TaskKnows, HeldKnows, Settings!FlushHeld,
       Settings!documents, Settings!owners, Settings!placed
  <1> QED  BY <1>1, <1>2, <1>3, <1>4, <1>5 DEF SettingsInv

(* It reads the manifest again before it writes.                             *)
LEMMA HeldReadsKept ==
  ASSUME SettingsInv, ReadsFail = FALSE, LateEdits = FALSE, Settings!HeldReads
  PROVE  SettingsInv'
  <1>1. Shaped'
    BY DEF SettingsInv, Shaped, Settings!HeldReads, Settings!documents, Settings!owners,
       Settings!placed
  <1>2. GoodBag(solution.bags)' /\ GoodBag(solutionDisk.bags)'
    BY PutGood, DropGood, OnlyDefaultGood DEF SettingsInv, Shaped, Settings!HeldReads,
       Settings!documents, Settings!owners, Settings!placed
  <1>3. /\ picked' # None => localDoc'.key = picked'
        /\ solutionDisk'.migrated => solution'.migrated
        /\ manifestDoc'.fields = fieldEdits'
    BY DEF SettingsInv, Shaped, TaskKnows, HeldKnows, Settings!HeldReads,
       Settings!documents, Settings!owners, Settings!placed
  <1>4. (task # None)' => TaskKnows'
    BY DEF SettingsInv, Shaped, TaskKnows, HeldKnows, Settings!HeldReads,
       Settings!documents, Settings!owners, Settings!placed
  <1>5. (held # None)' => HeldKnows'
    BY DEF SettingsInv, Shaped, TaskKnows, HeldKnows, Settings!HeldReads,
       Settings!documents, Settings!owners, Settings!placed
  <1> QED  BY <1>1, <1>2, <1>3, <1>4, <1>5 DEF SettingsInv

(* It writes its bags into the manifest it read, and is clean.               *)
LEMMA HeldWritesKept ==
  ASSUME SettingsInv, ReadsFail = FALSE, LateEdits = FALSE, Settings!HeldWrites
  PROVE  SettingsInv'
  <1>1. Shaped'
    <2>1. /\ held # None /\ held.at = "write" /\ held.read = manifestDoc
          /\ held' = [held EXCEPT !.at = "rest", !.dirty = FALSE]
          /\ manifestDoc' = [manifestDoc EXCEPT !.bags = held.out]
          /\ UNCHANGED <<localDoc, solution, solutionDisk, task>>
      BY DEF SettingsInv, HeldKnows, Settings!HeldWrites, Settings!Merged, Settings!owners
    <2> QED  BY <2>1 DEF SettingsInv, Shaped
  <1>2. GoodBag(solution.bags)' /\ GoodBag(solutionDisk.bags)'
    BY PutGood, DropGood, OnlyDefaultGood DEF SettingsInv, Shaped, Settings!HeldWrites,
       Settings!Merged, Settings!owners, Settings!placed
  <1>3. /\ picked' # None => localDoc'.key = picked'
        /\ solutionDisk'.migrated => solution'.migrated
        /\ manifestDoc'.fields = fieldEdits'
    BY DEF SettingsInv, Shaped, TaskKnows, HeldKnows, Settings!HeldWrites, Settings!Merged,
       Settings!owners, Settings!placed
  <1>4. (task # None)' => TaskKnows'
    BY DEF SettingsInv, Shaped, TaskKnows, HeldKnows, Settings!HeldWrites, Settings!Merged,
       Settings!owners, Settings!placed
  <1>5. (held # None)' => HeldKnows'
    BY DEF SettingsInv, Shaped, TaskKnows, HeldKnows, Settings!HeldWrites, Settings!Merged,
       Settings!owners, Settings!placed
  <1> QED  BY <1>1, <1>2, <1>3, <1>4, <1>5 DEF SettingsInv

(* A restart falls back on what is written.                                  *)
LEMMA StopAndStartKept ==
  ASSUME SettingsInv, ReadsFail = FALSE, LateEdits = FALSE, Settings!StopAndStart
  PROVE  SettingsInv'
  <1>1. Shaped'
    BY DEF SettingsInv, Shaped, Settings!StopAndStart, Settings!Begins, Settings!documents,
       Settings!placed
  <1>2. GoodBag(solution.bags)' /\ GoodBag(solutionDisk.bags)'
    BY PutGood, DropGood, OnlyDefaultGood DEF SettingsInv, Shaped, Settings!StopAndStart,
       Settings!Begins, Settings!documents, Settings!placed
  <1>3. /\ picked' # None => localDoc'.key = picked'
        /\ solutionDisk'.migrated => solution'.migrated
        /\ manifestDoc'.fields = fieldEdits'
    BY DEF SettingsInv, Shaped, TaskKnows, HeldKnows, Settings!StopAndStart,
       Settings!Begins, Settings!documents, Settings!placed
  <1>4. (task # None)' => TaskKnows'
    BY DEF SettingsInv, Shaped, TaskKnows, HeldKnows, Settings!StopAndStart,
       Settings!Begins, Settings!documents, Settings!placed
  <1>5. (held # None)' => HeldKnows'
    BY DEF SettingsInv, Shaped, TaskKnows, HeldKnows, Settings!StopAndStart,
       Settings!Begins, Settings!documents, Settings!placed
  <1> QED  BY <1>1, <1>2, <1>3, <1>4, <1>5 DEF SettingsInv

(* A project starts with no bags.                                            *)
LEMMA SettingsStart ==
  ASSUME Settings!BagsInit
  PROVE  SettingsInv
  <1>1. GoodBag(<<>>)
    BY DEF GoodBag
  <1>2. Shaped
    BY DEF Settings!BagsInit, Settings!NoProject, Settings!Empty, Shaped
  <1> QED  BY <1>1, <1>2 DEF Settings!BagsInit, Settings!NoProject, Settings!Empty,
              SettingsInv

(* Every operation on the settings keeps the invariant.                      *)
LEMMA SettingsGoOn ==
  ASSUME SettingsInv, ReadsFail = FALSE, LateEdits = FALSE, Settings!BagsNext
  PROVE  SettingsInv'
  BY BeginSelectionKept, OpenSharedKept, OpenLocalKept, WriteLocalKept, BeginDefaultKept,
     SaveSolutionKept, BeginMigrateKept, BeginMigrateGlobalKept, ReadLegacyKept,
     FlushGlobalKept, BeginFieldKept, ReadManifestKept, WriteManifestKept, EditOwnerKept,
     OpenHeldKept, EditHeldKept, FlushHeldKept, HeldReadsKept, HeldWritesKept,
     StopAndStartKept DEF Settings!BagsNext

(* When documents can be read and bags are not edited during their flush,    *)
(* the settings keep the selection recorded, the persister's bags and the    *)
(* manifest in step, and one default in the solution.                        *)
THEOREM SettingsAreKept ==
  ASSUME ReadsFail = FALSE, LateEdits = FALSE
  PROVE  WorkspaceSpec => []SettingsKept
  <1>1. WorkspaceInit => SettingsKept
    BY SettingsStart DEF WorkspaceInit, SettingsKept
  <1>2. SettingsKept /\ [WorkspaceNext]_<<subject, vars, observing, operating, keeping, living>>
          => SettingsKept'
    <2> SUFFICES ASSUME SettingsKept,
                        [WorkspaceNext]_<<subject, vars, observing, operating, keeping, living>>
                 PROVE  SettingsKept'
      OBVIOUS
    <2>1. CASE Keep
      BY <2>1, SettingsGoOn DEF SettingsKept, Keep
    <2>2. CASE Manage \/ Watch \/ Operate \/ Live
      BY <2>2 DEF SettingsKept, Manage, Watch, Operate, Live
    <2>3. CASE UNCHANGED <<subject, vars, observing, operating, keeping, living>>
      <3>1. UNCHANGED <<subject, keeping>>
        BY <2>3
      <3> QED  BY <3>1 DEF SettingsKept, keeping, SettingsInv, Shaped, TaskKnows, HeldKnows
    <2> QED  BY <2>1, <2>2, <2>3 DEF WorkspaceNext
  <1> QED  BY <1>1, <1>2, PTL DEF WorkspaceSpec

(* What a run checks of the settings follows.                                *)
LEMMA SettingsSound ==
  ASSUME SettingsInv
  PROVE  /\ Settings!ChosenIsUsed /\ Settings!CleanIsWritten
         /\ Settings!FieldsKept /\ Settings!OneDefault
  <1>1. Settings!ChosenIsUsed
    <2> DEFINE hits == {i \in DOMAIN Settings!Current : Settings!Current[i].key = localDoc.key}
    <2> SUFFICES ASSUME picked # None,
                        NEW i \in DOMAIN Settings!Current, Settings!Current[i].key = picked
                 PROVE  Settings!EffectiveFor(localDoc.key, Settings!Current).key = picked
      BY DEF Settings!ChosenIsUsed
    <2>1. localDoc.key = picked
      BY DEF SettingsInv
    <2>2. i \in hits
      BY <2>1
    <2>3. (CHOOSE h \in hits : TRUE) \in hits
      BY <2>2
    <2>4. Settings!EffectiveFor(localDoc.key, Settings!Current)
              = Settings!Current[CHOOSE h \in hits : TRUE]
      BY <2>2 DEF Settings!EffectiveFor
    <2> QED  BY <2>1, <2>3, <2>4
  <1>2. Settings!CleanIsWritten
    BY DEF SettingsInv, HeldKnows, Settings!CleanIsWritten
  <1>3. Settings!FieldsKept
    BY DEF SettingsInv, Settings!FieldsKept
  <1>4. Settings!OneDefault
    BY DEF SettingsInv, GoodBag, Settings!OneDefault
  <1> QED  BY <1>1, <1>2, <1>3, <1>4

(***************************************************************************)
(* The life of a project.                                                   *)
(***************************************************************************)

(* Where a generator is at work.                                             *)
Making == {"generator", "compile", "write"}

(* What a writer has checked it may write over, or the user edited since.     *)
Excusable(f, who) == content[f] = Life!Edited => <<who, f>> \in late

(* Between its look at a file and its write a writer may still write it.     *)
LooksFirst ==
    /\ life # None /\ life.at = "writeScaffold" => Excusable("scaffold", "life")
    /\ life # None /\ life.at = "compile" => life.gens # <<>> /\ Head(life.gens) = "dto"
    /\ life # None /\ life.at = "write" /\ Head(life.gens) \in {"app", "main"} =>
          Excusable(Head(life.gens), "life")
    /\ ui = "writeViews" => Excusable("views", "ui")
    /\ ui \in {"checkMain", "writeApp"} => Excusable("app", "ui")
    /\ ui \in {"writeApp", "writeMain"} => Excusable("main", "ui")

(* The values the variables of a project's life have.                        *)
LifeShape ==
    /\ DOMAIN content = Life!Files /\ texts \in Nat /\ references \in Nat \cup {None}
    /\ life # None => life \in Life!LifeCalls
    /\ subscribers \in {<<"generators">>, <<"once", "generators">>}

(* An open member is in the session, or about to be.                          *)
Tracked ==
    /\ references = None => member = "none"
    /\ life = None /\ member = "open" => session
    /\ life # None =>
        /\ life.kind = "restore" => session
        /\ life.at = "untrack" => member = "none"
        /\ member = "open" /\ ~session =>
              life.kind \in {"create", "open"} /\ life.at \in {"checkScaffold", "writeScaffold", "track"}

(* The model generated is of the references in force, unless something failed. *)
UpToDate ==
    \/ excused
    \/ content["dto"][1] = "compiled" /\ content["dto"][2] = references

(* The generator of the model has still to be called, or is running.          *)
Due ==
    \/ life.at = "handlers" /\ \E i \in DOMAIN life.targets :
                                   i >= life.next /\ life.targets[i] = "generators"
    \/ life.at \in Making /\ Head(life.gens) = "dto"

(* Where each kind of call stands before and after its event is raised.       *)
Before(kind) ==
    CASE kind = "create" -> {"writeManifest", "checkScaffold", "writeScaffold", "readManifest"}
      [] kind = "open" -> {"openMember", "checkScaffold", "writeScaffold", "track", "readManifest"}
      [] kind = "restore" -> {"openMember", "checkScaffold", "writeScaffold", "readManifest"}
      [] kind = "close" -> {"closeMember", "untrack", "readManifest"}
      [] kind = "references" -> {"writeReferences", "readManifest"}
After(kind) ==
    CASE kind = "create" -> {"handlers", "openMember", "checkScaffold", "writeScaffold", "track"} \cup Making
      [] kind = "close" -> {"handlers"}
      [] OTHER -> {"handlers"} \cup Making

(* What is generated, by where the call under way stands.                    *)
Generated ==
    /\ life = None /\ references # None => UpToDate
    /\ life # None =>
        /\ life.event = "none" =>
              /\ life.at \in Before(life.kind)
              /\ life.kind # "create" => references # None
              /\ life.kind = "create" => member = "none" /\ (references = None <=> life.at = "writeManifest")
              /\ life.kind \in {"open", "restore", "close"} => UpToDate
              /\ life.kind \in {"open", "restore"} =>
                    (member = "open" <=> life.at \notin {"openMember", "readManifest"})
                    \/ life.at = "readManifest"
        /\ life.event # "none" =>
              /\ life.event = Life!EventOf(life.kind) /\ life.at \in After(life.kind)
              /\ references # None /\ life.refs = references
              /\ UpToDate \/ (life.event # "removed" /\ Due)
              /\ life.at \in Making => life.gens # <<>>
              /\ life.at \in {"checkScaffold", "writeScaffold", "track"} => member = "open"

(* The inductive invariant of a project's life.                              *)
LifeInv == LifeShape /\ LooksFirst /\ Tracked /\ Generated

LifeKept == subject = "life" => LifeInv

(* What a generator or scaffold writes is never what the user wrote.         *)
LEMMA Contents ==
    /\ Life!Absent # Life!Edited /\ Life!Made # Life!Edited /\ Life!Pristine # Life!Edited
    /\ Life!Wired # Life!Edited
    /\ \A r, v : Life!Compiled(r, v) # Life!Edited
    /\ \A r, v : Life!Compiled(r, v)[1] = "compiled" /\ Life!Compiled(r, v)[2] = r
  BY DEF Life!Absent, Life!Edited, Life!Made, Life!Pristine, Life!Wired, Life!Compiled

(* The generators stay subscribed; the other handler may come and go         *)
(* before them.                                                              *)
LEMMA SubscribersListen ==
  ASSUME LifeShape
  PROVE  /\ subscribers \in Seq({"once", "generators"})
         /\ \E i \in DOMAIN subscribers : i >= 1 /\ subscribers[i] = "generators"
         /\ Life!Unsubscribed("once") \in {<<"generators">>, <<"once", "generators">>}
         /\ ("once" \notin {subscribers[i] : i \in DOMAIN subscribers}) =>
               <<"once">> \o subscribers = <<"once", "generators">>
  <1> DEFINE H == {"once", "generators"}
  <1>0. <<"once">> \in Seq(H) /\ <<"generators">> \in Seq(H) /\ <<"once", "generators">> \in Seq(H)
    OBVIOUS
  <1>1. CASE subscribers = <<"generators">>
    <2>1. {i \in DOMAIN subscribers : subscribers[i] = "once"} = {}
      BY <1>1
    <2>2. <<"once">> \o subscribers = <<"once", "generators">>
      <3>1. /\ <<"once">> \o <<"generators">> \in Seq(H)
            /\ Len(<<"once">> \o <<"generators">>) = 2
            /\ \A i \in 1 .. 2 : (<<"once">> \o <<"generators">>)[i] =
                     IF i <= 1 THEN <<"once">>[i] ELSE <<"generators">>[i - 1]
        BY <1>0, ConcatProperties
      <3>2. \A i \in 1 .. 2 : (<<"once">> \o <<"generators">>)[i] = <<"once", "generators">>[i]
        BY <3>1
      <3> HIDE DEF H
      <3>3. <<"once">> \o <<"generators">> = <<"once", "generators">>
        BY <1>0, <3>1, <3>2, SeqEqual
      <3> QED  BY <1>1, <3>3
    <2>3. subscribers[1] = "generators" /\ 1 \in DOMAIN subscribers
      BY <1>1
    <2> QED  BY <1>0, <1>1, <2>1, <2>2, <2>3 DEF Life!Unsubscribed
  <1>2. CASE subscribers = <<"once", "generators">>
    <2>1. {i \in DOMAIN subscribers : subscribers[i] = "once"} = {1}
      BY <1>2
    <2>2. Life!Min({1}) = 1
      BY DEF Life!Min
    <2>3. SubSeq(subscribers, 1, 0) = <<>>
      BY SubSeqEmpty
    <2>4. SubSeq(subscribers, 2, 2) = <<"generators">>
      <3>1. \A i \in 2 .. 2 : subscribers[i] \in H
        BY <1>2
      <3>2. /\ SubSeq(subscribers, 2, 2) \in Seq(H) /\ Len(SubSeq(subscribers, 2, 2)) = 1
            /\ \A i \in 1 .. 1 : SubSeq(subscribers, 2, 2)[i] = subscribers[2 + i - 1]
        BY <3>1, SubSeqProperties
      <3>3. \A i \in 1 .. 1 : SubSeq(subscribers, 2, 2)[i] = <<"generators">>[i]
        BY <1>2, <3>2
      <3> HIDE DEF H
      <3> QED  BY <1>0, <3>2, <3>3, SeqEqual
    <2>5. <<>> \o <<"generators">> = <<"generators">>
      BY <1>0, ConcatEmptySeq
    <2>6. Len(subscribers) = 2 /\ 1 - 1 = 0 /\ 1 + 1 = 2
      BY <1>2
    <2>7. Life!RemoveAt(subscribers, 1) = <<"generators">>
      BY <2>3, <2>4, <2>5, <2>6 DEF Life!RemoveAt
    <2>8. Life!Unsubscribed("once") = <<"generators">>
      <3> DEFINE found == {i \in DOMAIN subscribers : subscribers[i] = "once"}
      <3>1. Life!Unsubscribed("once") = IF found = {} THEN subscribers ELSE Life!RemoveAt(subscribers, Life!Min(found))
        BY DEF Life!Unsubscribed
      <3>2. found = {1}
        BY <2>1
      <3> HIDE DEF found
      <3> QED  BY <2>2, <2>7, <3>1, <3>2
    <2>9. subscribers[2] = "generators" /\ 2 \in DOMAIN subscribers /\ subscribers[1] = "once"
          /\ 1 \in DOMAIN subscribers
      BY <1>2
    <2> QED  BY <1>0, <1>2, <2>8, <2>9
  <1>3. QED  BY <1>1, <1>2 DEF LifeShape

(* A generator that is done leaves the rest to run.                          *)
LEMMA PassedOn ==
  ASSUME NEW l \in Life!LifeCalls, l.gens # <<>>
  PROVE  /\ Life!Passed(l) \in Life!LifeCalls
         /\ Life!Passed(l).at \in {"handlers", "generator"}
         /\ Life!Passed(l).at = "generator" => Life!Passed(l).gens # <<>>
         /\ Life!Passed(l).kind = l.kind /\ Life!Passed(l).event = l.event
         /\ Life!Passed(l).refs = l.refs /\ Life!Passed(l).targets = l.targets
         /\ Life!Passed(l).next = l.next /\ Life!Passed(l).gens = Tail(l.gens)
  <1>1. l.gens \in Seq({"dto", "data", "app", "main"})
    BY DEF Life!LifeCalls
  <1>2. Tail(l.gens) \in Seq({"dto", "data", "app", "main"}) /\ Len(Tail(l.gens)) = Len(l.gens) - 1
        /\ Len(l.gens) \in Nat
    BY <1>1, HeadTailProperties
  <1>3. Len(l.gens) # 0 /\ Len(<<>>) = 0
    BY <1>1
  <1> DEFINE rest == Tail(l.gens)
  <1>4. Len(rest) = Len(l.gens) - 1
    BY <1>2
  <1> HIDE DEF rest
  <1>6. ASSUME rest = <<>> PROVE Len(l.gens) = 1
    <2>1. Len(rest) = 0
      BY <1>6
    <2> QED  BY <1>2, <1>4, <2>1
  <1> USE DEF rest
  <1>5. QED  BY <1>2, <1>6 DEF Life!LifeCalls, Life!Passed

(* A lifecycle call begins with its first tests passed.                      *)
LEMMA BeginLifeKept ==
  ASSUME LifeInv, Life!BeginLife
  PROVE LifeInv'
  <1>1. LifeShape'
    <2>1. life' \in Life!LifeCalls
      <3>1. <<>> \in Seq({"once", "generators"}) /\ <<>> \in Seq({"dto", "data", "app", "main"})
        OBVIOUS
      <3>2. PICK kind \in {"create", "open", "restore", "close", "references"},
                 at \in {"writeManifest", "openMember", "closeMember", "writeReferences"} :
                    Life!Call(kind, at)
        BY DEF Life!BeginLife
      <3> QED  BY <3>1, <3>2 DEF Life!Call, Life!LifeCalls
    <2> QED  BY <2>1 DEF LifeInv, LifeShape, Life!BeginLife, Life!project
  <1>2. LooksFirst'
    BY Contents DEF LifeInv, LifeShape, LooksFirst, Excusable, Life!LifeCalls,
       Life!BeginLife, Life!Counts, Life!Call, Life!project, Life!place, Life!history
  <1>3. Tracked'
    BY NoneAssumption DEF LifeInv, LifeShape, Tracked, Generated, Before, After, Making,
       Life!LifeCalls, Life!BeginLife, Life!Counts, Life!Call, Life!project, Life!place,
       Life!history
  <1>4. Generated'
    BY NoneAssumption, Contents DEF LifeInv, LifeShape, Tracked, Generated, UpToDate, Due,
       Before, After, Making, Life!LifeCalls, Life!EventOf, Life!BeginLife, Life!Counts,
       Life!Call, Life!project, Life!place, Life!history
  <1>5. QED  BY <1>1, <1>2, <1>3, <1>4 DEF LifeInv

(* A creation writes the manifest.                                           *)
LEMMA CreateManifestKept ==
  ASSUME LifeInv, Life!CreateManifest
  PROVE LifeInv'
  <1>1. LifeShape'
    BY DEF LifeInv, LifeShape, Life!LifeCalls, Life!CreateManifest, Life!Doing, Life!Go,
       Life!place, Life!history
  <1>2. LooksFirst'
    BY Contents DEF LifeInv, LifeShape, LooksFirst, Excusable, Life!LifeCalls,
       Life!CreateManifest, Life!Doing, Life!Go, Life!place, Life!history
  <1>3. Tracked'
    BY NoneAssumption DEF LifeInv, LifeShape, Tracked, Generated, Before, After, Making,
       Life!LifeCalls, Life!CreateManifest, Life!Doing, Life!Go, Life!place, Life!history
  <1>4. Generated'
    BY NoneAssumption, Contents DEF LifeInv, LifeShape, Tracked, Generated, UpToDate, Due,
       Before, After, Making, Life!LifeCalls, Life!EventOf, Life!CreateManifest, Life!Doing,
       Life!Go, Life!place, Life!history
  <1>5. QED  BY <1>1, <1>2, <1>3, <1>4 DEF LifeInv

(* The scaffold is looked for before it is written.                          *)
LEMMA CheckScaffoldKept ==
  ASSUME LifeInv, Life!CheckScaffold
  PROVE LifeInv'
  <1>1. LifeShape'
    BY DEF LifeInv, LifeShape, Life!LifeCalls, Life!CheckScaffold, Life!Doing, Life!Go,
       Life!Scaffolded, Life!project, Life!place
  <1>2. LooksFirst'
    BY Contents DEF LifeInv, LifeShape, LooksFirst, Excusable, Life!LifeCalls,
       Life!CheckScaffold, Life!Doing, Life!Go, Life!Scaffolded, Life!project, Life!place
  <1>3. Tracked'
    BY NoneAssumption DEF LifeInv, LifeShape, Tracked, Generated, Before, After, Making,
       Life!LifeCalls, Life!CheckScaffold, Life!Doing, Life!Go, Life!Scaffolded,
       Life!project, Life!place
  <1>4. Generated'
    BY NoneAssumption, Contents DEF LifeInv, LifeShape, Tracked, Generated, UpToDate, Due,
       Before, After, Making, Life!LifeCalls, Life!EventOf, Life!CheckScaffold, Life!Doing,
       Life!Go, Life!Scaffolded, Life!project, Life!place
  <1>5. QED  BY <1>1, <1>2, <1>3, <1>4 DEF LifeInv

(* It is written where nothing was, or over an edit made since.              *)
LEMMA WriteScaffoldKept ==
  ASSUME LifeInv, Life!WriteScaffold
  PROVE LifeInv'
  <1>1. LifeShape'
    BY DEF LifeInv, LifeShape, Life!LifeCalls, Life!WriteScaffold, Life!Doing, Life!Go,
       Life!Scaffolded, Life!place, Life!history
  <1>2. LooksFirst'
    BY Contents DEF LifeInv, LifeShape, LooksFirst, Excusable, Life!LifeCalls,
       Life!WriteScaffold, Life!Doing, Life!Go, Life!Scaffolded, Life!place, Life!history
  <1>3. Tracked'
    BY NoneAssumption DEF LifeInv, LifeShape, Tracked, Generated, Before, After, Making,
       Life!LifeCalls, Life!WriteScaffold, Life!Doing, Life!Go, Life!Scaffolded, Life!place,
       Life!history
  <1>4. Generated'
    BY NoneAssumption, Contents DEF LifeInv, LifeShape, Tracked, Generated, UpToDate, Due,
       Before, After, Making, Life!LifeCalls, Life!EventOf, Life!WriteScaffold, Life!Doing,
       Life!Go, Life!Scaffolded, Life!place, Life!history
  <1>5. QED  BY <1>1, <1>2, <1>3, <1>4 DEF LifeInv

(* An opening makes the project a member, resolved or not.                   *)
LEMMA OpenMemberKept ==
  ASSUME LifeInv, Life!OpenMember
  PROVE LifeInv'
  <1>1. LifeShape'
    BY DEF LifeInv, LifeShape, Life!LifeCalls, Life!OpenMember, Life!Doing, Life!Go,
       Life!Finish, Life!Counts, Life!project, Life!history
  <1>2. LooksFirst'
    BY Contents DEF LifeInv, LifeShape, LooksFirst, Excusable, Life!LifeCalls,
       Life!OpenMember, Life!Doing, Life!Go, Life!Finish, Life!Counts, Life!project,
       Life!history
  <1>3. Tracked'
    BY NoneAssumption DEF LifeInv, LifeShape, Tracked, Generated, Before, After, Making,
       Life!LifeCalls, Life!OpenMember, Life!Doing, Life!Go, Life!Finish, Life!Counts,
       Life!project, Life!history
  <1>4. Generated'
    BY NoneAssumption, Contents DEF LifeInv, LifeShape, Tracked, Generated, UpToDate, Due,
       Before, After, Making, Life!LifeCalls, Life!EventOf, Life!OpenMember, Life!Doing,
       Life!Go, Life!Finish, Life!Counts, Life!project, Life!history
  <1>5. QED  BY <1>1, <1>2, <1>3, <1>4 DEF LifeInv

(* An open member is tracked in the session.                                 *)
LEMMA TrackKept ==
  ASSUME LifeInv, Life!Track
  PROVE LifeInv'
  <1>1. LifeShape'
    BY DEF LifeInv, LifeShape, Life!LifeCalls, Life!Track, Life!Doing, Life!Go, Life!Finish,
       Life!project, Life!history
  <1>2. LooksFirst'
    BY Contents DEF LifeInv, LifeShape, LooksFirst, Excusable, Life!LifeCalls, Life!Track,
       Life!Doing, Life!Go, Life!Finish, Life!project, Life!history
  <1>3. Tracked'
    BY NoneAssumption DEF LifeInv, LifeShape, Tracked, Generated, Before, After, Making,
       Life!LifeCalls, Life!Track, Life!Doing, Life!Go, Life!Finish, Life!project,
       Life!history
  <1>4. Generated'
    BY NoneAssumption, Contents DEF LifeInv, LifeShape, Tracked, Generated, UpToDate, Due,
       Before, After, Making, Life!LifeCalls, Life!EventOf, Life!Track, Life!Doing, Life!Go,
       Life!Finish, Life!project, Life!history
  <1>5. QED  BY <1>1, <1>2, <1>3, <1>4 DEF LifeInv

(* A closing takes the member out.                                           *)
LEMMA CloseMemberKept ==
  ASSUME LifeInv, Life!CloseMember
  PROVE LifeInv'
  <1>1. LifeShape'
    BY DEF LifeInv, LifeShape, Life!LifeCalls, Life!CloseMember, Life!Doing, Life!Go,
       Life!project, Life!history
  <1>2. LooksFirst'
    BY Contents DEF LifeInv, LifeShape, LooksFirst, Excusable, Life!LifeCalls,
       Life!CloseMember, Life!Doing, Life!Go, Life!project, Life!history
  <1>3. Tracked'
    BY NoneAssumption DEF LifeInv, LifeShape, Tracked, Generated, Before, After, Making,
       Life!LifeCalls, Life!CloseMember, Life!Doing, Life!Go, Life!project, Life!history
  <1>4. Generated'
    BY NoneAssumption, Contents DEF LifeInv, LifeShape, Tracked, Generated, UpToDate, Due,
       Before, After, Making, Life!LifeCalls, Life!EventOf, Life!CloseMember, Life!Doing,
       Life!Go, Life!project, Life!history
  <1>5. QED  BY <1>1, <1>2, <1>3, <1>4 DEF LifeInv

(* Then it takes it out of the session.                                      *)
LEMMA UntrackKept ==
  ASSUME LifeInv, Life!Untrack
  PROVE LifeInv'
  <1>1. LifeShape'
    BY DEF LifeInv, LifeShape, Life!LifeCalls, Life!Untrack, Life!Doing, Life!Go,
       Life!project, Life!history
  <1>2. LooksFirst'
    BY Contents DEF LifeInv, LifeShape, LooksFirst, Excusable, Life!LifeCalls, Life!Untrack,
       Life!Doing, Life!Go, Life!project, Life!history
  <1>3. Tracked'
    BY NoneAssumption DEF LifeInv, LifeShape, Tracked, Generated, Before, After, Making,
       Life!LifeCalls, Life!Untrack, Life!Doing, Life!Go, Life!project, Life!history
  <1>4. Generated'
    BY NoneAssumption, Contents DEF LifeInv, LifeShape, Tracked, Generated, UpToDate, Due,
       Before, After, Making, Life!LifeCalls, Life!EventOf, Life!Untrack, Life!Doing,
       Life!Go, Life!project, Life!history
  <1>5. QED  BY <1>1, <1>2, <1>3, <1>4 DEF LifeInv

(* A change of references outdates the model until its event is raised.      *)
LEMMA WriteReferencesKept ==
  ASSUME LifeInv, Life!WriteReferences
  PROVE LifeInv'
  <1>1. LifeShape'
    <2>1. references \in Nat
      BY DEF LifeInv, LifeShape, Tracked, Generated, UpToDate, Due, Before, After, Making,
         Life!LifeCalls, Life!EventOf, Life!WriteReferences, Life!Doing, Life!Go,
         Life!place, Life!history
    <2>2. life' \in Life!LifeCalls
      BY DEF LifeInv, LifeShape, Life!LifeCalls, Life!WriteReferences, Life!Doing, Life!Go
    <2>3. UNCHANGED <<content, texts, subscribers>> /\ references' \in Nat
      BY <2>1 DEF Life!WriteReferences
    <2> QED  BY <2>2, <2>3 DEF LifeInv, LifeShape
  <1>2. LooksFirst'
    BY Contents DEF LifeInv, LifeShape, LooksFirst, Excusable, Life!LifeCalls,
       Life!WriteReferences, Life!Doing, Life!Go, Life!place, Life!history
  <1>3. Tracked'
    BY NoneAssumption DEF LifeInv, LifeShape, Tracked, Generated, Before, After, Making,
       Life!LifeCalls, Life!WriteReferences, Life!Doing, Life!Go, Life!place, Life!history
  <1>4. Generated'
    BY NoneAssumption, Contents DEF LifeInv, LifeShape, Tracked, Generated, UpToDate, Due,
       Before, After, Making, Life!LifeCalls, Life!EventOf, Life!WriteReferences,
       Life!Doing, Life!Go, Life!place, Life!history
  <1>5. QED  BY <1>1, <1>2, <1>3, <1>4 DEF LifeInv

(* Raising an event leaves the generators to be called, unless the project   *)
(* was closed.                                                               *)
LEMMA RaiseKept ==
  ASSUME LifeInv, Life!Raise
  PROVE LifeInv'
  <1>6. life' \in Life!LifeCalls
    <2>1. references \in Nat /\ subscribers \in Seq({"once", "generators"})
      BY SubscribersListen DEF LifeInv, LifeShape, Tracked, Generated, UpToDate, Due,
         Before, After, Making, Life!LifeCalls, Life!EventOf, Life!Raise, Life!Doing
    <2>2. /\ life \in Life!LifeCalls /\ life # None
          /\ life' = [life EXCEPT !.at = "handlers", !.event = Life!EventOf(life.kind),
                            !.refs = references, !.targets = subscribers, !.next = 1]
      BY DEF LifeInv, LifeShape, Life!Raise, Life!Doing
    <2>3. Life!EventOf(life.kind) \in {"created", "opened", "removed", "referencesChanged"}
      BY <2>2 DEF Life!LifeCalls, Life!EventOf
    <2> DEFINE event == Life!EventOf(life.kind)
    <2>4. event \in {"created", "opened", "removed", "referencesChanged"} /\ 1 \in Nat \ {0}
      BY <2>3
    <2> HIDE DEF event
    <2>5. life' = [life EXCEPT !.at = "handlers", !.event = event,
                          !.refs = references, !.targets = subscribers, !.next = 1]
      BY <2>2 DEF event
    <2> QED  BY <2>1, <2>2, <2>4, <2>5 DEF Life!LifeCalls
  <1>1. LifeShape'
    <2>1. UNCHANGED <<references, content, texts, subscribers>>
      BY DEF Life!Raise, Life!project
    <2> QED  BY <1>6, <2>1 DEF LifeInv, LifeShape
  <1>2. LooksFirst'
    BY Contents DEF LifeInv, LifeShape, LooksFirst, Excusable, Life!LifeCalls, Life!Raise,
       Life!Doing, Life!EventOf, Life!project, Life!place
  <1>3. Tracked'
    BY NoneAssumption DEF LifeInv, LifeShape, Tracked, Generated, Before, After, Making,
       Life!LifeCalls, Life!Raise, Life!Doing, Life!EventOf, Life!project, Life!place
  <1>4. Generated'
    <2>1. /\ life # None /\ life \in Life!LifeCalls /\ life.at = "readManifest"
          /\ life' = [life EXCEPT !.at = "handlers", !.event = Life!EventOf(life.kind),
                            !.refs = references, !.targets = subscribers, !.next = 1]
          /\ UNCHANGED <<references, content, member, session>>
          /\ excused' = (excused /\ Life!EventOf(life.kind) \notin {"opened", "created"})
      BY DEF LifeInv, LifeShape, Life!Raise, Life!Doing, Life!project, Life!place
    <2>2. life.event = "none"
      BY <2>1 DEF LifeInv, Generated, After, Making
    <2>3. references # None /\ (life.kind = "close" => UpToDate)
      BY <2>1, <2>2 DEF LifeInv, Generated
    <2>4. /\ life'.kind = life.kind /\ life'.at = "handlers" /\ life'.refs = references
          /\ life'.event = Life!EventOf(life.kind) /\ life'.targets = subscribers
          /\ life'.next = 1 /\ life.kind \in {"create", "open", "restore", "close", "references"}
      BY <2>1 DEF Life!LifeCalls
    <2>5. /\ life'.event # "none" /\ "handlers" \in After(life.kind)
          /\ life.kind # "close" => life'.event # "removed"
      BY <2>4 DEF Life!EventOf, After
    <2>6. life.kind # "close" => Due'
      BY <2>4, SubscribersListen DEF LifeInv, Due
    <2>7. life.kind = "close" => UpToDate'
      BY <2>1, <2>3 DEF UpToDate, Life!EventOf
    <2> QED  BY <2>1, <2>3, <2>4, <2>5, <2>6, <2>7, <1>6, NoneAssumption DEF Generated,
                Making
  <1>5. QED  BY <1>1, <1>2, <1>3, <1>4 DEF LifeInv

(* A raise that ends has called the generators.                              *)
LEMMA RaiseEndsKept ==
  ASSUME LifeInv, Life!RaiseEnds
  PROVE LifeInv'
  <1>1. LifeShape'
    BY DEF LifeInv, LifeShape, Life!LifeCalls, Life!RaiseEnds, Life!Doing, Life!Raised,
       Life!Listening, Life!Go, Life!Finish, Life!project, Life!place, Life!history
  <1>2. LooksFirst'
    BY Contents DEF LifeInv, LifeShape, LooksFirst, Excusable, Life!LifeCalls,
       Life!RaiseEnds, Life!Doing, Life!Raised, Life!Listening, Life!Go, Life!Finish,
       Life!project, Life!place, Life!history
  <1>3. Tracked'
    BY NoneAssumption DEF LifeInv, LifeShape, Tracked, Generated, Before, After, Making,
       Life!LifeCalls, Life!RaiseEnds, Life!Doing, Life!Raised, Life!Listening, Life!Go,
       Life!Finish, Life!project, Life!place, Life!history
  <1>4. Generated'
    BY NoneAssumption, Contents DEF LifeInv, LifeShape, Tracked, Generated, UpToDate, Due,
       Before, After, Making, Life!LifeCalls, Life!EventOf, Life!RaiseEnds, Life!Doing,
       Life!Raised, Life!Listening, Life!Go, Life!Finish, Life!project, Life!place,
       Life!history
  <1>5. QED  BY <1>1, <1>2, <1>3, <1>4 DEF LifeInv

(* One that fails is excused, and nothing is owed after a closing.           *)
LEMMA RaiseFailsKept ==
  ASSUME LifeInv, Life!RaiseFails
  PROVE LifeInv'
  <1>1. LifeShape'
    BY DEF LifeInv, LifeShape, Life!LifeCalls, Life!RaiseFails, Life!Counts, Life!Finish,
       Life!project, Life!place
  <1>2. LooksFirst'
    BY Contents DEF LifeInv, LifeShape, LooksFirst, Excusable, Life!LifeCalls,
       Life!RaiseFails, Life!Counts, Life!Finish, Life!project, Life!place
  <1>3. Tracked'
    BY NoneAssumption DEF LifeInv, LifeShape, Tracked, Generated, Before, After, Making,
       Life!LifeCalls, Life!RaiseFails, Life!Counts, Life!Finish, Life!project, Life!place
  <1>4. Generated'
    BY NoneAssumption, Contents DEF LifeInv, LifeShape, Tracked, Generated, UpToDate, Due,
       Before, After, Making, Life!LifeCalls, Life!EventOf, Life!RaiseFails, Life!Counts,
       Life!Finish, Life!project, Life!place
  <1>5. QED  BY <1>1, <1>2, <1>3, <1>4 DEF LifeInv

(* Every event but a closing makes the generators run, the model's first.    *)
LEMMA RunsModelFirst ==
  ASSUME NEW event \in {"created", "opened", "removed", "referencesChanged"}
  PROVE  /\ Life!ToRun(event) \in Seq({"dto", "data", "app", "main"})
         /\ Life!ToRun(event) # <<>> => Head(Life!ToRun(event)) = "dto"
         /\ event # "removed" <=> Life!ToRun(event) # <<>>
  <1>1. /\ <<"dto", "data", "app", "main">> # <<>> /\ <<"dto", "data">> # <<>>
        /\ Head(<<"dto", "data", "app", "main">>) = "dto" /\ Head(<<"dto", "data">>) = "dto"
        /\ <<"dto", "data", "app", "main">> \in Seq({"dto", "data", "app", "main"})
        /\ <<"dto", "data">> \in Seq({"dto", "data", "app", "main"})
        /\ <<>> \in Seq({"dto", "data", "app", "main"})
    OBVIOUS
  <1>2. QED  BY <1>1 DEF Life!ToRun, Life!Triggered, Life!Generators

(* The next handler is called: the generators, or one that passes them on.   *)
LEMMA NextHandlerKept ==
  ASSUME LifeInv, Life!NextHandler
  PROVE LifeInv'
  <1> DEFINE handler == life.targets[life.next]
             gens == IF handler = "generators" THEN Life!ToRun(life.event) ELSE <<>>
  <1>6. /\ life # None /\ life \in Life!LifeCalls /\ life.at = "handlers"
        /\ life.next \in DOMAIN life.targets /\ handler \in {"once", "generators"}
        /\ life' = [life EXCEPT !.next = life.next + 1, !.gens = gens,
                               !.at = IF gens = <<>> THEN "handlers" ELSE "generator"]
        /\ subscribers' = IF handler = "once" THEN Life!Unsubscribed(handler) ELSE subscribers
        /\ UNCHANGED <<references, texts, content, member, session, ui, excused, late>>
    BY DEF LifeInv, LifeShape, Life!LifeCalls, Life!NextHandler, Life!Doing, Life!Listening,
           Life!project, Life!place, Life!history
  <1>7. /\ life.event \in {"created", "opened", "removed", "referencesChanged"}
        /\ life.event # "none" /\ life.at \in After(life.kind)
        /\ references # None /\ life.refs = references /\ life.event = Life!EventOf(life.kind)
    BY <1>6 DEF LifeInv, Generated, Before, Life!LifeCalls
  <1>8. /\ gens \in Seq({"dto", "data", "app", "main"})
        /\ gens # <<>> => Head(gens) = "dto"
        /\ handler = "generators" /\ life.event # "removed" => gens # <<>>
        /\ life.event = "removed" => gens = <<>>
    <2>1. <<>> \in Seq({"dto", "data", "app", "main"})
      OBVIOUS
    <2> QED  BY <1>7, <2>1, RunsModelFirst
  <1> DEFINE at == IF gens = <<>> THEN "handlers" ELSE "generator"
  <1>10. at \in {"handlers", "generator"} /\ life.next + 1 \in Nat \ {0}
    BY <1>6 DEF Life!LifeCalls
  <1> HIDE DEF gens, at
  <1>9. /\ life' \in Life!LifeCalls /\ life'.gens = gens /\ life'.next = life.next + 1
        /\ life'.kind = life.kind /\ life'.event = life.event /\ life'.targets = life.targets
        /\ life'.refs = life.refs
        /\ life'.at = at
    <2>1. life' = [life EXCEPT !.next = life.next + 1, !.gens = gens, !.at = at]
      BY <1>6 DEF at
    <2> QED  BY <1>6, <1>8, <1>10, <2>1 DEF Life!LifeCalls
  <1> USE DEF at
  <1> HIDE DEF handler
  <1>1. LifeShape'
    BY <1>6, <1>9, SubscribersListen DEF LifeInv, LifeShape
  <1>2. LooksFirst'
    BY <1>6, <1>9 DEF LifeInv, LooksFirst, Excusable
  <1>3. Tracked'
    BY <1>6, <1>9, NoneAssumption DEF LifeInv, Tracked
  <1>4. Generated'
    <2>1. life'.at \in After(life.kind)
      <3>1. life.kind \in {"create", "open", "restore", "close", "references"}
        BY <1>6 DEF Life!LifeCalls
      <3> QED  BY <1>7, <1>8, <1>9, <3>1 DEF After, Making, Life!EventOf
    <2>2. life.event # "removed" /\ Due => Due'
      <3>1. ASSUME gens # <<>> PROVE Due'
        BY <1>8, <1>9, <3>1 DEF Due, Making
      <3>2. ASSUME life.event # "removed", Due, gens = <<>> PROVE Due'
        <4>1. PICK i \in DOMAIN life.targets : i >= life.next /\ life.targets[i] = "generators"
          BY <1>6, <3>2 DEF Due, Making
        <4>2. i >= life.next + 1
          BY <1>6, <1>8, <3>2, <4>1 DEF handler, Life!LifeCalls
        <4> QED  BY <1>9, <3>2, <4>1, <4>2 DEF Due
      <3> QED  BY <3>1, <3>2
    <2>3. UpToDate => UpToDate'
      BY <1>6 DEF UpToDate
    <2>4. UpToDate \/ (life.event # "removed" /\ Due)
      BY <1>6, <1>7 DEF LifeInv, Generated
    <2>5. life' # None
      BY <1>9, NoneAssumption
    <2> QED  BY <1>6, <1>7, <1>9, <2>1, <2>2, <2>3, <2>4, <2>5 DEF Generated, Making
  <1>5. QED  BY <1>1, <1>2, <1>3, <1>4 DEF LifeInv

(* While a generator runs, its event is out and the references are those     *)
(* it carries.                                                               *)
LEMMA WhileMaking ==
  ASSUME LifeInv, life # None, life.at \in Making
  PROVE  /\ life \in Life!LifeCalls /\ life.gens # <<>>
         /\ Head(life.gens) \in {"dto", "data", "app", "main"}
         /\ life.kind \in {"create", "open", "restore", "references"}
         /\ life.event # "none" /\ life.event # "removed" /\ life.event = Life!EventOf(life.kind)
         /\ references # None /\ life.refs = references
         /\ UpToDate \/ Head(life.gens) = "dto"
  <1>1. life \in Life!LifeCalls
    BY DEF LifeInv, LifeShape
  <1>2. life.event # "none"
    BY <1>1 DEF LifeInv, Generated, Before, Making, Life!LifeCalls
  <1>3. /\ life.at \in After(life.kind) /\ life.gens # <<>> /\ life.event = Life!EventOf(life.kind)
        /\ references # None /\ life.refs = references
        /\ UpToDate \/ (life.event # "removed" /\ Due)
    BY <1>2 DEF LifeInv, Generated
  <1>4. life.kind # "close" /\ life.kind \in {"create", "open", "restore", "close", "references"}
    BY <1>1, <1>3 DEF After, Making, Life!LifeCalls
  <1>5. life.event # "removed"
    BY <1>3, <1>4 DEF Life!EventOf
  <1>6. life.gens \in Seq({"dto", "data", "app", "main"})
    BY <1>1 DEF Life!LifeCalls
  <1>7. Head(life.gens) \in {"dto", "data", "app", "main"}
    BY <1>3, <1>6
  <1>8. Due => Head(life.gens) = "dto"
    BY DEF Due, Making
  <1> QED  BY <1>1, <1>2, <1>3, <1>4, <1>5, <1>7, <1>8

(* A generation goes on with the model up to date, or still to be written.   *)
LEMMA MakingGoesOn ==
  ASSUME LifeInv, life # None, life.at \in Making, life' \in Life!LifeCalls,
         life'.kind = life.kind, life'.event = life.event, life'.refs = life.refs,
         life'.at \in Making \cup {"handlers"}, life'.at \in Making => life'.gens # <<>>,
         UNCHANGED references,
         UpToDate' \/ (life'.at \in Making /\ Head(life'.gens) = "dto")
  PROVE  Generated'
  <1>1. life'.at \in After(life'.kind)
    BY WhileMaking DEF After, Making
  <1>2. life' # None
    BY NoneAssumption
  <1>3. Due' \/ UpToDate'
    BY DEF Due
  <1> QED  BY <1>1, <1>2, <1>3, WhileMaking DEF Generated, Making

(* A generator looks at its output first; the model's always goes on.        *)
LEMMA GenerateKept ==
  ASSUME LifeInv, Life!Generate
  PROVE LifeInv'
  <1> USE DEF Life!Now
  <1>6. /\ life # None /\ life.at = "generator"
        /\ life' = IF ~Life!Wanted(Head(life.gens)) THEN Life!Passed(life)
                  ELSE [life EXCEPT !.at = IF Head(life.gens) = "dto" THEN "compile" ELSE "write"]
        /\ late' = late \ {<<"life", Head(life.gens)>>}
        /\ UNCHANGED <<references, texts, content, member, session, subscribers, ui, excused>>
    BY DEF Life!Generate, Life!Doing, Life!project, Life!place
  <1>7. life.at \in Making
    BY <1>6 DEF Making
  <1>8. CASE Life!Wanted(Head(life.gens))
    <2>1. /\ life' \in Life!LifeCalls /\ life'.kind = life.kind /\ life'.event = life.event
          /\ life'.refs = life.refs /\ life'.gens = life.gens
          /\ life'.at = IF Head(life.gens) = "dto" THEN "compile" ELSE "write"
      BY <1>6, <1>7, <1>8, WhileMaking DEF Life!LifeCalls
    <2>2. Head(life.gens) \in {"app", "main"} => content[Head(life.gens)] = Life!Absent
      BY <1>8 DEF Life!Wanted, Life!Overwrites
    <2>3. LifeShape'
      BY <1>6, <2>1 DEF LifeInv, LifeShape
    <2>4. LooksFirst'
      BY <1>6, <1>7, <2>1, <2>2, WhileMaking, Contents DEF LifeInv, LooksFirst, Excusable
    <2>5. Tracked'
      BY <1>6, <1>7, <2>1, NoneAssumption, WhileMaking DEF LifeInv, Tracked
    <2>6. UpToDate => UpToDate'
      BY <1>6 DEF UpToDate
    <2>7. life'.at \in Making
      BY <2>1 DEF Making
    <2>8. Generated'
      BY <1>6, <1>7, <2>1, <2>6, <2>7, WhileMaking, MakingGoesOn
    <2> QED  BY <2>3, <2>4, <2>5, <2>8 DEF LifeInv
  <1>9. CASE ~Life!Wanted(Head(life.gens))
    <2>1. /\ life' = Life!Passed(life) /\ Head(life.gens) # "dto" /\ UpToDate
      BY <1>6, <1>7, <1>9, WhileMaking DEF Life!Wanted, Life!Overwrites
    <2>2. /\ life' \in Life!LifeCalls /\ life'.kind = life.kind /\ life'.event = life.event
          /\ life'.refs = life.refs /\ life'.at \in {"handlers", "generator"}
          /\ life'.at = "generator" => life'.gens # <<>>
      BY <1>7, <2>1, WhileMaking, <1>6, PassedOn
    <2>3. LifeShape'
      BY <1>6, <2>2 DEF LifeInv, LifeShape
    <2>4. LooksFirst'
      BY <1>6, <1>7, <2>2, WhileMaking DEF LifeInv, LooksFirst, Excusable
    <2>5. Tracked'
      BY <1>6, <1>7, <2>2, NoneAssumption, WhileMaking DEF LifeInv, Tracked
    <2>6. UpToDate'
      BY <1>6, <2>1 DEF UpToDate
    <2>7. life'.at \in Making \cup {"handlers"} /\ (life'.at \in Making => life'.gens # <<>>)
      BY <2>2 DEF Making
    <2>8. Generated'
      BY <1>6, <1>7, <2>2, <2>6, <2>7, MakingGoesOn
    <2> QED  BY <2>3, <2>4, <2>5, <2>8 DEF LifeInv
  <1> QED  BY <1>8, <1>9

(* The model compiles, or its failure is excused.                            *)
LEMMA CompileKept ==
  ASSUME LifeInv, Life!Compile
  PROVE LifeInv'
  <1>1. /\ life # None /\ life.at = "compile"
        /\ UNCHANGED <<references, texts, content, member, session, subscribers, ui, late>>
        /\ \/ life' = [life EXCEPT !.at = "write", !.texts = texts] /\ UNCHANGED excused
           \/ life' = Life!Passed(life) /\ excused' = TRUE
    BY DEF Life!Compile, Life!Doing, Life!project, Life!place
  <1>2. life.at \in Making /\ Head(life.gens) = "dto"
    BY <1>1 DEF Making, LifeInv, LooksFirst
  <1>3. /\ life' \in Life!LifeCalls /\ life'.kind = life.kind /\ life'.event = life.event
        /\ life'.refs = life.refs /\ life'.at \in {"handlers", "generator", "write"}
        /\ life'.at \in {"generator", "write"} => life'.gens # <<>>
        /\ life'.at = "write" => life'.gens = life.gens
    <2>1. CASE life' = [life EXCEPT !.at = "write", !.texts = texts]
      BY <1>1, <1>2, <2>1, WhileMaking DEF LifeInv, LifeShape, Life!LifeCalls
    <2>2. CASE life' = Life!Passed(life)
      BY <1>1, <1>2, <2>2, WhileMaking, PassedOn
    <2> QED  BY <1>1, <2>1, <2>2
  <1>4. UpToDate' \/ (life'.at = "write" /\ life'.gens = life.gens)
    <2>1. CASE life' = [life EXCEPT !.at = "write", !.texts = texts]
      BY <1>1, <1>2, <2>1, WhileMaking DEF Life!LifeCalls
    <2>2. CASE life' = Life!Passed(life) /\ excused' = TRUE
      BY <2>2 DEF UpToDate
    <2> QED  BY <1>1, <2>1, <2>2
  <1>5. LifeShape'
    BY <1>1, <1>3 DEF LifeInv, LifeShape
  <1>6. LooksFirst'
    BY <1>1, <1>2, <1>3 DEF LifeInv, LooksFirst, Excusable
  <1>7. Tracked'
    BY <1>1, <1>2, <1>3, NoneAssumption, WhileMaking DEF LifeInv, Tracked
  <1>8. life'.at \in Making \cup {"handlers"} /\ (life'.at \in Making => life'.gens # <<>>)
        /\ (life'.at = "write" => life'.at \in Making)
    BY <1>3 DEF Making
  <1>9. Generated'
    BY <1>1, <1>2, <1>3, <1>4, <1>8, MakingGoesOn
  <1> QED  BY <1>5, <1>6, <1>7, <1>9 DEF LifeInv

(* The model written is of the references in force.                          *)
LEMMA WriteOutputKept ==
  ASSUME LifeInv, Life!WriteOutput
  PROVE LifeInv'
  <1> USE DEF Life!Now
  <1>1. /\ life # None /\ life.at = "write"
        /\ content' = [content EXCEPT ![Head(life.gens)] = Life!Output(Head(life.gens))]
        /\ life' = Life!Passed(life)
        /\ UNCHANGED <<references, texts, member, session, subscribers, ui, excused, late>>
    BY DEF Life!WriteOutput, Life!Doing, Life!place, Life!history
  <1>2. life.at \in Making
    BY <1>1 DEF Making
  <1>3. /\ life' \in Life!LifeCalls /\ life'.kind = life.kind /\ life'.event = life.event
        /\ life'.refs = life.refs /\ life'.at \in {"handlers", "generator"}
        /\ life'.at = "generator" => life'.gens # <<>>
    BY <1>1, <1>2, WhileMaking, PassedOn
  <1>4. LifeShape'
    BY <1>1, <1>3 DEF LifeInv, LifeShape
  <1>5. \A f \in Life!Files : \A who : Excusable(f, who) => Excusable(f, who)'
    <2>1. Life!Output(Head(life.gens)) # Life!Edited
      BY <1>2, WhileMaking, Contents DEF Life!Output
    <2> QED  BY <1>1, <2>1 DEF Excusable, LifeInv, LifeShape
  <1>6. LooksFirst'
    <2>1. {"views", "app", "main"} \subseteq Life!Files
      BY DEF Life!Files
    <2> QED  BY <1>1, <1>3, <1>5, <2>1 DEF LifeInv, LooksFirst
  <1>7. Tracked'
    BY <1>1, <1>2, <1>3, NoneAssumption, WhileMaking DEF LifeInv, Tracked
  <1>8. UpToDate'
    <2>1. "dto" \in DOMAIN content
      BY DEF LifeInv, LifeShape, Life!Files
    <2>2. CASE Head(life.gens) = "dto"
      BY <1>1, <1>2, <2>1, <2>2, WhileMaking, Contents DEF UpToDate, Life!Output
    <2>3. CASE Head(life.gens) # "dto"
      BY <1>1, <1>2, <2>1, <2>3, WhileMaking DEF UpToDate
    <2> QED  BY <2>2, <2>3
  <1>9. life'.at \in Making \cup {"handlers"} /\ (life'.at \in Making => life'.gens # <<>>)
    BY <1>3 DEF Making
  <1>10. Generated'
    BY <1>1, <1>2, <1>3, <1>8, <1>9, MakingGoesOn
  <1> QED  BY <1>4, <1>6, <1>7, <1>10 DEF LifeInv

(* A generation of views begins beside the lifecycle.                        *)
LEMMA BeginViewsKept ==
  ASSUME LifeInv, Life!BeginViews
  PROVE LifeInv'
  <1>1. LifeShape'
    BY DEF LifeInv, LifeShape, Life!LifeCalls, Life!BeginViews, Life!Counts, Life!project,
       Life!place, Life!history
  <1>2. LooksFirst'
    BY Contents DEF LifeInv, LifeShape, LooksFirst, Excusable, Life!LifeCalls,
       Life!BeginViews, Life!Counts, Life!project, Life!place, Life!history
  <1>3. Tracked'
    BY NoneAssumption DEF LifeInv, LifeShape, Tracked, Generated, Before, After, Making,
       Life!LifeCalls, Life!BeginViews, Life!Counts, Life!project, Life!place, Life!history
  <1>4. Generated'
    BY NoneAssumption, Contents DEF LifeInv, LifeShape, Tracked, Generated, UpToDate, Due,
       Before, After, Making, Life!LifeCalls, Life!EventOf, Life!BeginViews, Life!Counts,
       Life!project, Life!place, Life!history
  <1>5. QED  BY <1>1, <1>2, <1>3, <1>4 DEF LifeInv

(* Views are looked for before they are written.                             *)
LEMMA CheckViewsKept ==
  ASSUME LifeInv, Life!CheckViews
  PROVE LifeInv'
  <1>1. LifeShape'
    BY DEF LifeInv, LifeShape, Life!LifeCalls, Life!CheckViews, Life!ViewsAt, Life!Leave,
       Life!place
  <1>2. LooksFirst'
    BY Contents DEF LifeInv, LifeShape, LooksFirst, Excusable, Life!LifeCalls,
       Life!CheckViews, Life!ViewsAt, Life!Leave, Life!place
  <1>3. Tracked'
    BY NoneAssumption DEF LifeInv, LifeShape, Tracked, Generated, Before, After, Making,
       Life!LifeCalls, Life!CheckViews, Life!ViewsAt, Life!Leave, Life!place
  <1>4. Generated'
    BY NoneAssumption, Contents DEF LifeInv, LifeShape, Tracked, Generated, UpToDate, Due,
       Before, After, Making, Life!LifeCalls, Life!EventOf, Life!CheckViews, Life!ViewsAt,
       Life!Leave, Life!place
  <1>5. QED  BY <1>1, <1>2, <1>3, <1>4 DEF LifeInv

(* They are written where nothing was, or over an edit made since.           *)
LEMMA WriteViewsKept ==
  ASSUME LifeInv, Life!WriteViews
  PROVE LifeInv'
  <1>1. LifeShape'
    BY DEF LifeInv, LifeShape, Life!LifeCalls, Life!WriteViews, Life!ViewsAt, Life!Leave,
       Life!place
  <1>2. LooksFirst'
    BY Contents DEF LifeInv, LifeShape, LooksFirst, Excusable, Life!LifeCalls,
       Life!WriteViews, Life!ViewsAt, Life!Leave, Life!place
  <1>3. Tracked'
    BY NoneAssumption DEF LifeInv, LifeShape, Tracked, Generated, Before, After, Making,
       Life!LifeCalls, Life!WriteViews, Life!ViewsAt, Life!Leave, Life!place
  <1>4. Generated'
    BY NoneAssumption, Contents DEF LifeInv, LifeShape, Tracked, Generated, UpToDate, Due,
       Before, After, Making, Life!LifeCalls, Life!EventOf, Life!WriteViews, Life!ViewsAt,
       Life!Leave, Life!place
  <1>5. QED  BY <1>1, <1>2, <1>3, <1>4 DEF LifeInv

(* The application root is looked at first.                                  *)
LEMMA CheckAppKept ==
  ASSUME LifeInv, Life!CheckApp
  PROVE LifeInv'
  <1>1. LifeShape'
    BY DEF LifeInv, LifeShape, Life!LifeCalls, Life!CheckApp, Life!ViewsAt, Life!Leave,
       Life!place
  <1>2. LooksFirst'
    BY Contents DEF LifeInv, LifeShape, LooksFirst, Excusable, Life!LifeCalls,
       Life!CheckApp, Life!ViewsAt, Life!Leave, Life!place
  <1>3. Tracked'
    BY NoneAssumption DEF LifeInv, LifeShape, Tracked, Generated, Before, After, Making,
       Life!LifeCalls, Life!CheckApp, Life!ViewsAt, Life!Leave, Life!place
  <1>4. Generated'
    BY NoneAssumption, Contents DEF LifeInv, LifeShape, Tracked, Generated, UpToDate, Due,
       Before, After, Making, Life!LifeCalls, Life!EventOf, Life!CheckApp, Life!ViewsAt,
       Life!Leave, Life!place
  <1>5. QED  BY <1>1, <1>2, <1>3, <1>4 DEF LifeInv

(* Then the main file, last before both are wired.                           *)
LEMMA CheckMainKept ==
  ASSUME LifeInv, Life!CheckMain
  PROVE LifeInv'
  <1>1. LifeShape'
    BY DEF LifeInv, LifeShape, Life!LifeCalls, Life!CheckMain, Life!Leave, Life!place
  <1>2. LooksFirst'
    BY NoneAssumption, Contents DEF LifeInv, LifeShape, LooksFirst, Excusable,
       Life!LifeCalls, Life!CheckMain, Life!Leave, Life!place
  <1>3. Tracked'
    BY NoneAssumption DEF LifeInv, LifeShape, Tracked, Generated, Before, After, Making,
       Life!LifeCalls, Life!CheckMain, Life!Leave, Life!place
  <1>4. Generated'
    BY NoneAssumption, Contents DEF LifeInv, LifeShape, Tracked, Generated, UpToDate, Due,
       Before, After, Making, Life!LifeCalls, Life!EventOf, Life!CheckMain, Life!Leave,
       Life!place
  <1>5. QED  BY <1>1, <1>2, <1>3, <1>4 DEF LifeInv

(* The application root is wired.                                            *)
LEMMA WireAppKept ==
  ASSUME LifeInv, Life!WireApp
  PROVE LifeInv'
  <1>1. LifeShape'
    BY DEF LifeInv, LifeShape, Life!LifeCalls, Life!WireApp, Life!ViewsAt, Life!Leave,
       Life!place
  <1>2. LooksFirst'
    BY Contents DEF LifeInv, LifeShape, LooksFirst, Excusable, Life!LifeCalls, Life!WireApp,
       Life!ViewsAt, Life!Leave, Life!place
  <1>3. Tracked'
    BY NoneAssumption DEF LifeInv, LifeShape, Tracked, Generated, Before, After, Making,
       Life!LifeCalls, Life!WireApp, Life!ViewsAt, Life!Leave, Life!place
  <1>4. Generated'
    BY NoneAssumption, Contents DEF LifeInv, LifeShape, Tracked, Generated, UpToDate, Due,
       Before, After, Making, Life!LifeCalls, Life!EventOf, Life!WireApp, Life!ViewsAt,
       Life!Leave, Life!place
  <1>5. QED  BY <1>1, <1>2, <1>3, <1>4 DEF LifeInv

(* Then the main file, and the generation of views ends.                     *)
LEMMA WireMainKept ==
  ASSUME LifeInv, Life!WireMain
  PROVE LifeInv'
  <1>1. LifeShape'
    BY DEF LifeInv, LifeShape, Life!LifeCalls, Life!WireMain, Life!ViewsAt, Life!Leave,
       Life!place
  <1>2. LooksFirst'
    BY NoneAssumption, Contents DEF LifeInv, LifeShape, LooksFirst, Excusable,
       Life!LifeCalls, Life!WireMain, Life!ViewsAt, Life!Leave, Life!place
  <1>3. Tracked'
    BY NoneAssumption DEF LifeInv, LifeShape, Tracked, Generated, Before, After, Making,
       Life!LifeCalls, Life!WireMain, Life!ViewsAt, Life!Leave, Life!place
  <1>4. Generated'
    BY NoneAssumption, Contents DEF LifeInv, LifeShape, Tracked, Generated, UpToDate, Due,
       Before, After, Making, Life!LifeCalls, Life!EventOf, Life!WireMain, Life!ViewsAt,
       Life!Leave, Life!place
  <1>5. QED  BY <1>1, <1>2, <1>3, <1>4 DEF LifeInv

(* An edit by the user is noted as made since every check.                   *)
LEMMA UserEditsKept ==
  ASSUME LifeInv, Life!UserEdits
  PROVE LifeInv'
  <1>1. LifeShape'
    BY DEF LifeInv, LifeShape, Life!LifeCalls, Life!UserEdits, Life!Counts, Life!UserFiles,
       Life!place
  <1>2. LooksFirst'
    <2>1. ASSUME NEW g \in Life!Files, NEW who \in {"life", "ui"}, Excusable(g, who)
          PROVE  Excusable(g, who)'
      BY <2>1 DEF LifeInv, LifeShape, Excusable, Life!UserEdits, Life!Counts,
         Life!UserFiles, Life!place
    <2>2. /\ UNCHANGED <<life, ui>>
          /\ {"scaffold", "views", "app", "main"} \subseteq Life!Files
      BY DEF Life!Files, Life!UserEdits, Life!Counts, Life!UserFiles, Life!place
    <2> QED  BY <2>1, <2>2 DEF LifeInv, LooksFirst
  <1>3. Tracked'
    BY NoneAssumption DEF LifeInv, LifeShape, Tracked, Generated, Before, After, Making,
       Life!LifeCalls, Life!UserEdits, Life!Counts, Life!UserFiles, Life!place
  <1>4. Generated'
    <2>1. /\ UNCHANGED <<references, member, session, life, excused>>
          /\ content'["dto"] = content["dto"]
      BY DEF LifeInv, LifeShape, Life!Files, Life!UserEdits, Life!Counts, Life!UserFiles,
         Life!place
    <2> QED  BY <2>1 DEF LifeInv, Generated, UpToDate, Due, Before, After, Making,
                Life!EventOf
  <1>5. QED  BY <1>1, <1>2, <1>3, <1>4 DEF LifeInv

(* A handler of one event subscribes before the generators.                  *)
LEMMA SubscribesKept ==
  ASSUME LifeInv, Life!Subscribes
  PROVE LifeInv'
  <1>1. LifeShape'
    BY SubscribersListen DEF LifeInv, LifeShape, Life!LifeCalls, Life!Subscribes,
       Life!Counts, Life!project, Life!place, Life!history
  <1>2. LooksFirst'
    BY Contents DEF LifeInv, LifeShape, LooksFirst, Excusable, Life!LifeCalls,
       Life!Subscribes, Life!Counts, Life!project, Life!place, Life!history
  <1>3. Tracked'
    BY NoneAssumption DEF LifeInv, LifeShape, Tracked, Generated, Before, After, Making,
       Life!LifeCalls, Life!Subscribes, Life!Counts, Life!project, Life!place, Life!history
  <1>4. Generated'
    BY NoneAssumption, Contents DEF LifeInv, LifeShape, Tracked, Generated, UpToDate, Due,
       Before, After, Making, Life!LifeCalls, Life!EventOf, Life!Subscribes, Life!Counts,
       Life!project, Life!place, Life!history
  <1>5. QED  BY <1>1, <1>2, <1>3, <1>4 DEF LifeInv

(* A restart excuses what was under way.                                     *)
LEMMA StopsKept ==
  ASSUME LifeInv, Life!Stops
  PROVE LifeInv'
  <1>1. LifeShape'
    BY DEF LifeInv, LifeShape, Life!LifeCalls, Life!Stops, Life!Counts, Life!project
  <1>2. LooksFirst'
    BY NoneAssumption, Contents DEF LifeInv, LifeShape, LooksFirst, Excusable,
       Life!LifeCalls, Life!Stops, Life!Counts, Life!project
  <1>3. Tracked'
    BY NoneAssumption DEF LifeInv, LifeShape, Tracked, Generated, Before, After, Making,
       Life!LifeCalls, Life!Stops, Life!Counts, Life!project
  <1>4. Generated'
    BY NoneAssumption, Contents DEF LifeInv, LifeShape, Tracked, Generated, UpToDate, Due,
       Before, After, Making, Life!LifeCalls, Life!EventOf, Life!Stops, Life!Counts,
       Life!project
  <1>5. QED  BY <1>1, <1>2, <1>3, <1>4 DEF LifeInv

(* A project starts out of nothing.                                          *)
LEMMA LifeStarts ==
  ASSUME Life!LifeInit
  PROVE  LifeInv
  <1>1. LifeShape
    BY NoneAssumption DEF Life!LifeInit, LifeShape
  <1>2. LooksFirst
    BY NoneAssumption DEF Life!LifeInit, LooksFirst
  <1>3. Tracked /\ Generated
    BY DEF Life!LifeInit, Tracked, Generated
  <1> QED  BY <1>1, <1>2, <1>3 DEF LifeInv

(* Every step of a project's life keeps the invariant.                       *)
LEMMA LifeGoesOn ==
  ASSUME LifeInv, Life!LifeNext
  PROVE  LifeInv'
  BY BeginLifeKept, CreateManifestKept, CheckScaffoldKept, WriteScaffoldKept,
     OpenMemberKept,
     TrackKept, CloseMemberKept, UntrackKept, WriteReferencesKept, RaiseKept, RaiseEndsKept,
     RaiseFailsKept, NextHandlerKept, GenerateKept, CompileKept, WriteOutputKept,
     BeginViewsKept, CheckViewsKept, WriteViewsKept, CheckAppKept, CheckMainKept,
     WireAppKept, WireMainKept, UserEditsKept, SubscribesKept, StopsKept DEF Life!LifeNext

(* Of ProjectLifecycle, ProjectEvents and the generator scheduler: between   *)
(* its steps a project's call knows what it has checked, an open member is   *)
(* in the session or about to be, and the model is generated for the         *)
(* references in force, or is about to be, or a failure is excused.          *)
THEOREM LifeIsKept == WorkspaceSpec => []LifeKept
  <1>1. WorkspaceInit => LifeKept
    BY LifeStarts DEF WorkspaceInit, LifeKept
  <1>2. LifeKept /\ [WorkspaceNext]_<<subject, vars, observing, operating, keeping, living>>
          => LifeKept'
    <2> SUFFICES ASSUME LifeKept,
                        [WorkspaceNext]_<<subject, vars, observing, operating, keeping, living>>
                 PROVE  LifeKept'
      OBVIOUS
    <2>1. CASE Live
      BY <2>1, LifeGoesOn DEF LifeKept, Live
    <2>2. CASE Manage \/ Watch \/ Operate \/ Keep
      BY <2>2 DEF LifeKept, Manage, Watch, Operate, Keep
    <2>3. CASE UNCHANGED <<subject, vars, observing, operating, keeping, living>>
      <3>1. UNCHANGED <<subject, living>>
        BY <2>3
      <3> QED  BY <3>1 DEF LifeKept, living, LifeInv, LifeShape, LooksFirst, Excusable,
                  Tracked,
                           Generated, UpToDate, Due
    <2> QED  BY <2>1, <2>2, <2>3 DEF WorkspaceNext
  <1> QED  BY <1>1, <1>2, PTL DEF WorkspaceSpec

(* A step writes over an edit only when it came after the writer's check.    *)
LEMMA EditsKeptByStep ==
  ASSUME LifeInv, Life!LifeNext
  PROVE  Life!EditedKept
  <1> SUFFICES ASSUME NEW f \in Life!UserFiles, content[f] = Life!Edited, content'[f] # Life!Edited
               PROVE  <<IF ui' # ui THEN "ui" ELSE "life", f>> \in late
    BY DEF Life!EditedKept
  <1>1. CASE Life!WriteScaffold
    <2>1. ui' = ui /\ f = "scaffold" /\ Excusable("scaffold", "life")
      BY <1>1 DEF LifeInv, LifeShape, LooksFirst, Life!WriteScaffold, Life!Doing,
         Life!Files, Life!UserFiles
    <2> QED  BY <2>1 DEF Excusable
  <1>2. CASE Life!WriteOutput
    <2>1. ui' = ui /\ f = Head(life.gens) /\ f \in {"app", "main"} /\ life # None /\ life.at = "write"
      <3>1. life # None /\ life.at = "write" /\ life.at \in Making
        BY <1>2 DEF Life!WriteOutput, Life!Doing, Making
      <3>2. Head(life.gens) \in {"dto", "data", "app", "main"}
        BY <3>1, WhileMaking
      <3> QED  BY <1>2, <3>1, <3>2 DEF LifeInv, LifeShape, Life!WriteOutput, Life!Now,
                  Life!Files, Life!UserFiles
    <2>2. Excusable(f, "life")
      BY <2>1 DEF LifeInv, LooksFirst
    <2> QED  BY <2>1, <2>2 DEF Excusable
  <1>3. CASE Life!WriteViews
    <2>1. ui' # ui /\ f = "views" /\ Excusable("views", "ui")
      BY <1>3 DEF LifeInv, LifeShape, LooksFirst, Life!WriteViews, Life!ViewsAt, Life!Files,
         Life!UserFiles
    <2> QED  BY <2>1 DEF Excusable
  <1>4. CASE Life!WireApp
    <2>1. ui' # ui /\ f = "app" /\ Excusable("app", "ui")
      BY <1>4 DEF LifeInv, LifeShape, LooksFirst, Life!WireApp, Life!ViewsAt, Life!Files,
         Life!UserFiles
    <2> QED  BY <2>1 DEF Excusable
  <1>5. CASE Life!WireMain
    <2>1. ui' # ui /\ f = "main" /\ Excusable("main", "ui")
      BY <1>5, NoneAssumption DEF LifeInv, LifeShape, LooksFirst, Life!WireMain,
         Life!ViewsAt, Life!Files, Life!UserFiles
    <2> QED  BY <2>1 DEF Excusable
  <1>6. CASE Life!UserEdits
    <2>1. f \in DOMAIN content
      BY DEF LifeInv, LifeShape, Life!Files, Life!UserFiles
    <2> QED  BY <1>6, <2>1 DEF Life!UserEdits
  <1>7. CASE UNCHANGED content
    BY <1>7
  <1>8. \/ Life!WriteScaffold \/ Life!WriteOutput \/ Life!WriteViews \/ Life!WireApp
        \/ Life!WireMain \/ Life!UserEdits \/ UNCHANGED content
    <2>1. CASE Life!BeginLife \/ Life!CheckScaffold \/ Life!OpenMember \/ Life!Track
               \/ Life!CloseMember \/ Life!Untrack \/ Life!Raise \/ Life!RaiseEnds
               \/ Life!RaiseFails \/ Life!NextHandler \/ Life!Generate \/ Life!Compile
               \/ Life!BeginViews \/ Life!Subscribes \/ Life!Stops
      BY <2>1 DEF Life!BeginLife, Life!CheckScaffold, Life!OpenMember, Life!Track,
                  Life!CloseMember, Life!Untrack, Life!Raise, Life!RaiseEnds, Life!RaiseFails,
                  Life!NextHandler, Life!Generate, Life!Compile, Life!BeginViews,
                  Life!Subscribes, Life!Stops, Life!project
    <2>2. CASE Life!CreateManifest \/ Life!WriteReferences \/ Life!CheckViews \/ Life!CheckApp
               \/ Life!CheckMain
      BY <2>2 DEF Life!CreateManifest, Life!WriteReferences, Life!CheckViews, Life!CheckApp,
                  Life!CheckMain
    <2> QED  BY <2>1, <2>2 DEF Life!LifeNext
  <1> QED  BY <1>1, <1>2, <1>3, <1>4, <1>5, <1>6, <1>7, <1>8

(* No generator or scaffold writes over what the user edited before it       *)
(* looked: the scaffold and views look for the file, and the wiring at       *)
(* both files it touches.                                                    *)
THEOREM EditsKept == WorkspaceSpec => [][subject = "life" => Life!EditedKept]_<<content, life, ui, late>>
  <1>1. LifeKept /\ [WorkspaceNext]_<<subject, vars, observing, operating, keeping, living>>
          => [subject = "life" => Life!EditedKept]_<<content, life, ui, late>>
    <2> SUFFICES ASSUME LifeKept,
                        [WorkspaceNext]_<<subject, vars, observing, operating, keeping, living>>,
                        subject = "life", ~UNCHANGED <<content, life, ui, late>>
                 PROVE  Life!EditedKept
      OBVIOUS
    <2>1. CASE Live
      BY <2>1, EditsKeptByStep DEF LifeKept, Live
    <2>2. CASE UNCHANGED <<subject, vars, observing, operating, keeping, living>>
      <3>1. UNCHANGED living
        BY <2>2
      <3> QED  BY <3>1 DEF living
    <2> QED  BY <2>1, <2>2 DEF WorkspaceNext, Manage, Watch, Operate, Keep
  <1> QED  BY <1>1, LifeIsKept, PTL DEF WorkspaceSpec

(* Whatever file was on disk before a step of a call is there after it,      *)
(* moved or not, unless a delete took it (one call at a time); and no        *)
(* generator writes over an edit made before it looked.                      *)
THEOREM NothingIsOverwritten ==
  ASSUME MaxCalls = 1
  PROVE  WorkspaceSpec => NothingOverwritten
  <1> DEFINE Taken == \A p \in DOMAIN files :
                         files[p].ino \in {files'[q].ino : q \in DOMAIN files'} \cup removed'
  <1>1. FilesKept /\ [WorkspaceNext]_<<subject, vars, observing, operating, keeping, living>>
          => [Taken]_Ops!opsVars
    <2> SUFFICES ASSUME FilesKept, ~UNCHANGED Ops!opsVars,
                        [WorkspaceNext]_<<subject, vars, observing, operating, keeping, living>>
                 PROVE  Taken
      OBVIOUS
    <2>1. CASE Operate
      <3>1. \A p \in DOMAIN files : (\E q \in DOMAIN files' : files'[q] = files[p])
                                    \/ files[p].ino \in removed'
        BY <2>1, FilesGoOn DEF FilesKept, Operate
      <3> QED  BY <3>1
    <2>2. CASE Manage \/ Watch \/ Keep \/ Live
      BY <2>2 DEF Manage, Watch, Keep, Live, operating, Ops!opsVars
    <2>3. CASE UNCHANGED <<subject, vars, observing, operating, keeping, living>>
      <3>1. UNCHANGED operating
        BY <2>3
      <3> QED  BY <3>1 DEF operating, Ops!opsVars
    <2> QED  BY <2>1, <2>2, <2>3 DEF WorkspaceNext
  <1>2. WorkspaceSpec => [][Taken]_Ops!opsVars
    BY <1>1, FilesAreKept, PTL DEF WorkspaceSpec
  <1> QED  BY <1>2, EditsKept DEF NothingOverwritten, Ops!NothingOverwritten

(* The connection selected is the one in effect while it exists, a clean     *)
(* persister has written what it holds, no field of the manifest is taken    *)
(* back, the solution has one default; and a project at rest has its model   *)
(* generated for its references and is in the session while open.            *)
THEOREM ProjectIsKept ==
  ASSUME ReadsFail = FALSE, LateEdits = FALSE
  PROVE  WorkspaceSpec => []ProjectKept
  <1>1. SettingsKept /\ LifeKept => ProjectKept
    <2>1. LifeInv => Life!GeneratedCurrent /\ Life!OpenIsTracked
      BY DEF LifeInv, Generated, UpToDate, Tracked, Life!GeneratedCurrent,
         Life!OpenIsTracked
    <2> QED  BY <2>1, SettingsSound DEF SettingsKept, LifeKept, ProjectKept
  <1> QED  BY <1>1, SettingsAreKept, LifeIsKept, PTL

=============================================================================
