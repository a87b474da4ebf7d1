------------------------- MODULE SolutionGraphProofs -------------------------
(***************************************************************************)
(* The safety of the solution graph, for any members, files, names and     *)
(* declarations, and any habits of the user and the subscribers.           *)
(*                                                                         *)
(* A load of some files homes their declarations and leaves the other      *)
(* nodes alone, so stripping and reloading any part of a graph that holds  *)
(* what the sources declare gives one that holds what the edited sources   *)
(* declare, and throws exactly when those do not build (Reload).  Cones of *)
(* files, members with their dependents and repairs are all such reloads.  *)
(***************************************************************************)
EXTENDS SolutionGraph, FiniteSetTheorems, WellFoundedInduction, TLAPS

(* A graph in which every edge joins two nodes.                              *)
Joined(g) == g.edges \subseteq (DOMAIN g.node) \X (DOMAIN g.node)
Sane(g) == IsGraph(g) /\ Joined(g)

-----------------------------------------------------------------------------
(* The names some files declare are names of the declarations they hold.     *)
LEMMA NamesOf ==
    ASSUME NEW s, IsSources(s), NEW fs \in SUBSET Files
    PROVE  /\ NamesIn(s, fs) \subseteq Names
           /\ \A f \in fs \cap DOMAIN s : s[f] \subseteq Decls
           /\ \A n : n \in NamesIn(s, fs) <=> \E f \in fs \cap DOMAIN s : \E d \in s[f] : d.name = n
<1>1. \A f \in fs \cap DOMAIN s : s[f] \subseteq Decls BY DEF IsSources, Texts
<1>2. \A n : n \in NamesIn(s, fs) <=> \E f \in fs \cap DOMAIN s : \E d \in s[f] : d.name = n
  BY DEF NamesIn, Declared
<1>3. NamesIn(s, fs) \subseteq Names BY <1>1, <1>2 DEF Decls
<1> QED BY <1>1, <1>2, <1>3

(* A load homes each node it adds in a file that declares it, and leaves the *)
(* other nodes as they are.                                                  *)
LEMMA LoadShape ==
    ASSUME NEW g, Sane(g), NEW s, IsSources(s), NEW fs \in SUBSET Files
    PROVE  LET h == LoadFiles(g, s, fs)
               added == NamesIn(s, fs)
           IN  /\ Sane(h)
               /\ DOMAIN h.node = DOMAIN g.node \cup added
               /\ \A n \in added : h.node[n].file \in fs /\ n \in NamesIn(s, {h.node[n].file})
               /\ \A n \in DOMAIN g.node \ added : h.node[n] = g.node[n]
               /\ \A n \in added : h.node[n].attrs \subseteq DOMAIN h.node
<1> DEFINE h == LoadFiles(g, s, fs)
           added == NamesIn(s, fs)
           present == fs \cap DOMAIN s
           known == [f \in fs |-> Known(g, s, fs, f)]
           home(n) == CHOOSE f \in present : n \in NamesIn(s, {f})
           decl(n) == CHOOSE d \in s[home(n)] : d.name = n
           node == [n \in DOMAIN g.node \cup added |->
                      IF n \in added
                      THEN [file |-> home(n), attrs |-> decl(n).attrs \cap known[home(n)]]
                      ELSE g.node[n]]
           edges == g.edges \cup UNION {{n} \X (decl(n).edges \cap known[home(n)]) : n \in added}
           unresolved == [f \in Files |->
                            IF f \in present
                            THEN UNION {d.attrs \cup d.edges : d \in s[f]} \ known[f]
                            ELSE IF f \in fs THEN {} ELSE g.unresolved[f]]
<1>1. h.node = node /\ h.edges = edges /\ h.unresolved = unresolved /\ h.folded = g.folded
  BY DEF LoadFiles
<1>2. ASSUME NEW n \in added
      PROVE  home(n) \in present /\ n \in NamesIn(s, {home(n)}) /\ decl(n) \in Decls
  <2>1. PICK f \in present : n \in NamesIn(s, {f})
    <3>1. PICK f \in present : \E d \in s[f] : d.name = n BY NamesOf
    <3>2. f \in {f} \cap DOMAIN s /\ {f} \in SUBSET Files BY <3>1
    <3> QED BY <3>1, <3>2, NamesOf
  <2>2. home(n) \in present /\ n \in NamesIn(s, {home(n)}) BY <2>1
  <2>3. PICK d \in s[home(n)] : d.name = n
    <3> HIDE DEF home
    <3> QED BY <2>2, NamesOf
  <2>4. decl(n) \in s[home(n)]
    <3> HIDE DEF home
    <3> QED BY <2>3
  <2>5. s[home(n)] \subseteq Decls
    <3> HIDE DEF home
    <3> QED BY <2>2, NamesOf
  <2> QED BY <2>2, <2>4, <2>5
<1>3. \A f \in fs : known[f] \subseteq DOMAIN g.node \cup added
  BY DEF Known, UpTo, NamesIn, Declared
<1> HIDE DEF h, home, decl, known
<1>4. added \subseteq Names /\ DOMAIN g.node \subseteq Names
  BY NamesOf DEF Sane, IsGraph
<1>5. ASSUME NEW n \in DOMAIN node PROVE node[n] \in [file : Files, attrs : SUBSET Names]
  <2>1. CASE n \in added
    <3>1. decl(n).attrs \cap known[home(n)] \in SUBSET Names BY <2>1, <1>2 DEF Decls
    <3> QED BY <2>1, <3>1, <1>2
  <2>2. CASE n \notin added
    BY <2>2 DEF Sane, IsGraph
  <2> QED BY <2>1, <2>2
<1>6. edges \subseteq (DOMAIN g.node \cup added) \X (DOMAIN g.node \cup added)
  <2>1. ASSUME NEW n \in added
        PROVE  {n} \X (decl(n).edges \cap known[home(n)]) \subseteq (DOMAIN g.node \cup added) \X (DOMAIN g.node \cup added)
    BY <1>2, <1>3
  <2> QED BY <2>1 DEF Sane, Joined
<1>7. unresolved \in [Files -> SUBSET Names]
  <2>1. ASSUME NEW f \in Files PROVE unresolved[f] \subseteq Names
    <3>1. CASE f \in present
      <4>1. \A d \in s[f] : d.attrs \cup d.edges \subseteq Names BY <3>1, NamesOf DEF Decls
      <4> QED BY <3>1, <4>1
    <3>2. CASE f \notin present BY <3>2 DEF Sane, IsGraph
    <3> QED BY <3>1, <3>2
  <2> QED BY <2>1
<1>8. Sane(h)
  <2>1. DOMAIN node = DOMAIN g.node \cup added OBVIOUS
  <2>2. g.folded \subseteq DOMAIN g.node BY DEF Sane, IsGraph
  <2> HIDE DEF node, edges, unresolved, added
  <2>3. node \in [DOMAIN node -> [file : Files, attrs : SUBSET Names]] BY <1>5, <2>1 DEF node
  <2> QED BY <1>1, <1>4, <1>6, <1>7, <2>1, <2>2, <2>3 DEF Sane, Joined, IsGraph
<1>9. \A n \in added : h.node[n].file \in fs /\ n \in NamesIn(s, {h.node[n].file})
  BY <1>1, <1>2
<1>10. ASSUME NEW n \in added PROVE h.node[n].attrs \subseteq DOMAIN h.node
  <2>1. h.node[n].attrs = decl(n).attrs \cap known[home(n)] BY <1>1
  <2>2. known[home(n)] \subseteq DOMAIN g.node \cup added BY <1>2, <1>3
  <2> QED BY <1>1, <2>1, <2>2
<1> QED BY <1>1, <1>8, <1>9, <1>10 DEF h

(* Stripping drops the nodes of the stripped files and changes no other.     *)
LEMMA StripShape ==
    ASSUME NEW g, Sane(g), NEW fs \in SUBSET Files
    PROVE  LET h == Strip(g, fs)
           IN  /\ Sane(h)
               /\ DOMAIN h.node = {n \in DOMAIN g.node : g.node[n].file \notin fs}
               /\ \A n \in DOMAIN h.node : h.node[n] = g.node[n]
<1> DEFINE kept == {n \in DOMAIN g.node : g.node[n].file \notin fs}
           h == Strip(g, fs)
<1>1. h.node = [n \in kept |-> g.node[n]] /\ h.edges = g.edges \cap (kept \X kept)
      /\ h.unresolved = g.unresolved /\ h.folded = g.folded \cap kept
  BY DEF Strip, Restrict
<1> HIDE DEF h
<1>2. IsGraph(h) BY <1>1 DEF Sane, IsGraph
<1>3. Joined(h) BY <1>1 DEF Joined
<1> QED BY <1>1, <1>2, <1>3 DEF Sane, h

(* Resolving the references again leaves the nodes as they are.              *)
LEMMA ResolvedShape ==
    ASSUME NEW g, Sane(g)
    PROVE  Sane(Resolved(g)) /\ Resolved(g).node = g.node
<1>1. /\ Resolved(g).node = g.node /\ Resolved(g).edges = g.edges
      /\ Resolved(g).unresolved = g.unresolved /\ Resolved(g).folded \subseteq DOMAIN g.node
  <2>1. CASE HasResolutionRules(g)
    <3>1. Resolved(g) = [g EXCEPT !.folded = DOMAIN g.node] BY <2>1 DEF Resolved
    <3> QED BY <3>1 DEF Sane, IsGraph
  <2>2. CASE ~HasResolutionRules(g)
    <3>1. Resolved(g) = [g EXCEPT !.folded = g.folded] BY <2>2 DEF Resolved
    <3> QED BY <3>1 DEF Sane, IsGraph
  <2> QED BY <2>1, <2>2
<1> QED BY <1>1 DEF Sane, IsGraph, Joined

(* The empty graph has no nodes.                                             *)
LEMMA EmptySane == Sane(EmptyGraph) /\ DOMAIN EmptyGraph.node = {}
BY DEF Sane, IsGraph, Joined, EmptyGraph

(* The files of members are files.                                           *)
LEMMA FilesOfIn == ASSUME NEW ms PROVE FilesOf(ms) \in SUBSET Files
BY DEF FilesOf

(* A full build has the declared names for nodes, each homed in a file that  *)
(* declares it.                                                              *)
LEMMA FullBuildShape ==
    ASSUME NEW ms, NEW s, IsSources(s)
    PROVE  LET h == FullBuild(ms, s)
               added == NamesIn(s, FilesOf(ms))
           IN  /\ Sane(h)
               /\ DOMAIN h.node = added
               /\ \A n \in added : h.node[n].file \in FilesOf(ms) /\ n \in NamesIn(s, {h.node[n].file})
               /\ \A n \in added : h.node[n].attrs \subseteq added
<1> DEFINE h == LoadFiles(EmptyGraph, s, FilesOf(ms))
<1>1. /\ Sane(h) /\ DOMAIN h.node = NamesIn(s, FilesOf(ms))
      /\ \A n \in NamesIn(s, FilesOf(ms)) : h.node[n].file \in FilesOf(ms) /\ n \in NamesIn(s, {h.node[n].file})
      /\ \A n \in NamesIn(s, FilesOf(ms)) : h.node[n].attrs \subseteq DOMAIN h.node
  <2>1. FilesOf(ms) \in SUBSET Files BY FilesOfIn
  <2>2. /\ Sane(h)
        /\ DOMAIN h.node = DOMAIN EmptyGraph.node \cup NamesIn(s, FilesOf(ms))
        /\ \A n \in NamesIn(s, FilesOf(ms)) : h.node[n].file \in FilesOf(ms) /\ n \in NamesIn(s, {h.node[n].file})
        /\ \A n \in DOMAIN EmptyGraph.node \ NamesIn(s, FilesOf(ms)) : h.node[n] = EmptyGraph.node[n]
        /\ \A n \in NamesIn(s, FilesOf(ms)) : h.node[n].attrs \subseteq DOMAIN h.node
    BY <2>1, LoadShape, EmptySane, ZenonT(30)
  <2> QED BY <2>2, EmptySane
<1> HIDE DEF h
<1>2. Sane(Resolved(h)) /\ Resolved(h).node = h.node BY <1>1, ResolvedShape
<1> QED BY <1>1, <1>2 DEF FullBuild, h

(* A set of numbers has a least one.                                        *)
LEMMA LeastNatural == ASSUME NEW S \in SUBSET Nat, S # {} PROVE \E x \in S : \A y \in S : x <= y
<1> DEFINE W == {0..n : n \in S}
<1>1. W # {} /\ W \subseteq FiniteSubsetsOf(Nat)
  <2>1. PICK n \in S : TRUE OBVIOUS
  <2>2. 0..n \in W BY <2>1
  <2>3. ASSUME NEW w \in W PROVE w \in FiniteSubsetsOf(Nat)
    <3>1. PICK i \in S : w = 0..i OBVIOUS
    <3>2. IsFiniteSet(0..i) BY FS_Interval
    <3>3. 0..i \in SUBSET Nat OBVIOUS
    <3> QED BY <3>1, <3>2, <3>3 DEF FiniteSubsetsOf
  <2> QED BY <2>2, <2>3
<1>2. PICK X \in W : \A Y \in W : <<Y, X>> \notin StrictSubsetOrdering(Nat)
  <2> HIDE DEF W
  <2> QED BY <1>1, FS_StrictSubsetOrderingWellFounded, WFMin
<1>3. PICK x \in S : X = 0..x OBVIOUS
<1>4. ASSUME NEW y \in S PROVE x <= y
  <2>1. <<0..y, 0..x>> \notin StrictSubsetOrdering(Nat) BY <1>2, <1>3
  <2>2. SUFFICES ASSUME y < x PROVE FALSE OBVIOUS
  <2>3. 0..y \subseteq 0..x /\ x \in 0..x /\ x \notin 0..y /\ 0..x \subseteq Nat BY <2>2
  <2> QED BY <2>1, <2>3 DEF StrictSubsetOrdering
<1> QED BY <1>4

(* DependentsOf, a recursion counted by k, is a set of members.             *)
LEMMA DependentsIn == ASSUME NEW ms, NEW m PROVE DependentsOf(ms, m) \subseteq ms
<1> DEFINE N == Cardinality(Members)
           step(found) == found \cup {d \in ms : BaseIds[d] \cap (found \cup {m}) # {}}
           is(g, n) == g = [k \in 0..n |-> step(IF k = 0 THEN {} ELSE g[k - 1])]
           R == CHOOSE g : is(g, N)
<1>1. DependentsOf(ms, m) = R[N] BY DEF DependentsOf
<1>2. N \in Nat BY BuildAssumption, FS_CardinalityType
<1>3. \A x : x \subseteq ms => step(x) \subseteq ms OBVIOUS
<1> HIDE DEF step, N
<1>4. \E g : is(g, N)
  <2> DEFINE Bad == {n \in Nat : ~\E g : is(g, n)}
  <2>1. SUFFICES ASSUME Bad # {} PROVE FALSE BY <1>2
  <2>2. PICK n \in Bad : \A y \in Bad : n <= y BY <2>1, LeastNatural
  <2>3. CASE n = 0
    <3>1. is([k \in 0..0 |-> step({})], 0) OBVIOUS
    <3> QED BY <2>2, <2>3, <3>1
  <2>4. CASE n # 0
    <3>1. n - 1 \in Nat /\ n - 1 \notin Bad BY <2>2, <2>4
    <3>2. PICK g : is(g, n - 1) BY <3>1
    <3> DEFINE h == [k \in 0..n |-> IF k = n THEN step(g[n - 1]) ELSE g[k]]
    <3>3. ASSUME NEW k \in 0..n PROVE h[k] = step(IF k = 0 THEN {} ELSE h[k - 1])
      <4>1. CASE k = n BY <4>1, <2>4, <3>1
      <4>2. CASE k # n
        <5>1. k \in 0..(n - 1) /\ (k # 0 => k - 1 \in 0..n /\ k - 1 # n) BY <4>2, <3>1
        <5>2. g[k] = step(IF k = 0 THEN {} ELSE g[k - 1]) BY <3>2, <5>1
        <5> QED BY <4>2, <5>1, <5>2
      <4> QED BY <4>1, <4>2
    <3>4. is(h, n) BY <3>3
    <3> QED BY <3>4, <2>2
  <2> QED BY <2>3, <2>4
<1>5. is(R, N) BY <1>4
<1> HIDE DEF R
<1>6. \A k \in 0..N : R[k] \subseteq ms
  <2> DEFINE Bad == {k \in 0..N : ~(R[k] \subseteq ms)}
  <2>1. SUFFICES ASSUME Bad # {} PROVE FALSE OBVIOUS
  <2>2. Bad \in SUBSET Nat BY <1>2
  <2>3. PICK k \in Bad : \A y \in Bad : k <= y BY <2>1, <2>2, LeastNatural
  <2>4. R[k] = step(IF k = 0 THEN {} ELSE R[k - 1]) BY <1>5
  <2>5. k # 0 => R[k - 1] \subseteq ms BY <1>2, <2>3
  <2> QED BY <1>3, <2>3, <2>4, <2>5
<1> QED BY <1>1, <1>2, <1>6

-----------------------------------------------------------------------------
(* File f declares the name n.                                               *)
Says(s, f, n) == f \in DOMAIN s /\ \E d \in s[f] : d.name = n

(* No two declarations of the files fs have one name: what a build needs of  *)
(* them.                                                                     *)
Unique(s, fs) ==
    \A e, f \in fs \cap DOMAIN s : \A c \in s[e], d \in s[f] : c.name = d.name => e = f /\ c = d

(* The nodes are those the sources declare, each in a file that declares it. *)
Homed(g, ms, s) ==
    /\ \A n \in DOMAIN g.node : g.node[n].file \in FilesOf(ms) /\ Says(s, g.node[n].file, n)
    /\ \A f \in FilesOf(ms) : \A n : Says(s, f, n) => n \in DOMAIN g.node

(* Two source sets say the same of the files fs.                             *)
Agree(s, t, fs) ==
    \A f \in fs : (f \in DOMAIN s <=> f \in DOMAIN t) /\ (f \in DOMAIN s => s[f] = t[f])

(* NamesIn in terms of Says.                                                 *)
LEMMA NamesSaid == ASSUME NEW s, NEW fs PROVE \A n : n \in NamesIn(s, fs) <=> \E f \in fs : Says(s, f, n)
BY DEF NamesIn, Declared, Says

(* The same for one file.                                                    *)
LEMMA NamesSaidOne == ASSUME NEW s PROVE \A f, n : n \in NamesIn(s, {f}) <=> Says(s, f, n)
BY DEF NamesIn, Declared, Says

(* Files load if what they declare is new to the graph and declared once.    *)
LEMMA LoadableSays ==
    ASSUME NEW g, NEW s, NEW fs
    PROVE  Loadable(g, s, fs) <=> /\ \A f \in fs, n \in DOMAIN g.node : ~Says(s, f, n)
                                  /\ Unique(s, fs)
BY NamesSaid DEF Loadable, Unique

(* Members build if they bind one another acyclically and declare every name *)
(* once.                                                                     *)
LEMMA BuildableSays ==
    ASSUME NEW ms, NEW s PROVE Buildable(ms, s) <=> Acyclic(ms) /\ Unique(s, FilesOf(ms))
BY LoadableSays, EmptySane DEF Buildable

(* A full build is homed in its sources.                                     *)
LEMMA FullBuildHomed == ASSUME NEW ms, NEW s, IsSources(s) PROVE Homed(FullBuild(ms, s), ms, s)
<1> DEFINE h == FullBuild(ms, s)
<1>1. DOMAIN h.node = NamesIn(s, FilesOf(ms))
      /\ \A n \in NamesIn(s, FilesOf(ms)) : h.node[n].file \in FilesOf(ms) /\ n \in NamesIn(s, {h.node[n].file})
  BY FullBuildShape
<1> HIDE DEF h
<1> QED BY <1>1, NamesSaid, NamesSaidOne DEF Homed, h

(* Reloading some files of a model that is homed: the load throws exactly   *)
(* when a full build would, and leaves the model homed otherwise.           *)
LEMMA Reload ==
    ASSUME NEW g, Sane(g), NEW ms, NEW s, NEW t, IsSources(t),
           Buildable(ms, s), Homed(g, ms, s),
           NEW fs \in SUBSET FilesOf(ms), Agree(s, t, FilesOf(ms) \ fs)
    PROVE  /\ Loadable(Strip(g, fs), t, fs) <=> Buildable(ms, t)
           /\ Loadable(Strip(g, fs), t, fs) => Homed(LoadFiles(Strip(g, fs), t, fs), ms, t)
<1> DEFINE st == Strip(g, fs)
           h == LoadFiles(st, t, fs)
           rest == FilesOf(ms) \ fs
<1>1. fs \in SUBSET Files BY FilesOfIn
<1>2. Sane(st) /\ DOMAIN st.node = {n \in DOMAIN g.node : g.node[n].file \notin fs}
      /\ \A n \in DOMAIN st.node : st.node[n] = g.node[n]
  BY <1>1, StripShape
<1>3. \A f \in rest : \A n : Says(s, f, n) <=> Says(t, f, n)
  BY DEF Agree, Says
<1>4. Acyclic(ms) /\ Unique(s, FilesOf(ms)) BY BuildableSays
<1>5. \A n : n \in DOMAIN st.node <=> \E f \in rest : Says(t, f, n)
  <2>1. ASSUME NEW n \in DOMAIN st.node PROVE \E f \in rest : Says(t, f, n)
    BY <2>1, <1>2, <1>3 DEF Homed
  <2>2. ASSUME NEW n, NEW f \in rest, Says(t, f, n) PROVE n \in DOMAIN st.node
    <3>1. Says(s, f, n) /\ n \in DOMAIN g.node BY <2>2, <1>3 DEF Homed
    <3>2. Says(s, g.node[n].file, n) /\ g.node[n].file \in FilesOf(ms) BY <3>1 DEF Homed
    <3>3. g.node[n].file = f BY <3>1, <3>2, <1>4 DEF Unique, Says
    <3> QED BY <3>1, <3>3, <1>2
  <2> QED BY <2>1, <2>2
<1> HIDE DEF st, rest
<1>6. Loadable(st, t, fs) <=> Unique(t, FilesOf(ms))
  <2>1. ASSUME Unique(t, FilesOf(ms)) PROVE Loadable(st, t, fs)
    <3>1. \A f \in fs, n \in DOMAIN st.node : ~Says(t, f, n)
      BY <2>1, <1>5 DEF Unique, Says, rest
    <3> QED BY <2>1, <3>1, LoadableSays DEF Unique
  <2>2. ASSUME Loadable(st, t, fs) PROVE Unique(t, FilesOf(ms))
    <3>1. (\A f \in fs, n \in DOMAIN st.node : ~Says(t, f, n)) /\ Unique(t, fs)
      BY <2>2, LoadableSays
    <3>2. SUFFICES ASSUME NEW e \in FilesOf(ms) \cap DOMAIN t, NEW f \in FilesOf(ms) \cap DOMAIN t,
                          NEW c \in t[e], NEW d \in t[f], c.name = d.name
                   PROVE  e = f /\ c = d
      BY DEF Unique
    <3>3. Says(t, e, c.name) /\ Says(t, f, c.name) BY <3>2 DEF Says
    <3>4. CASE e \in fs /\ f \in fs BY <3>1, <3>2, <3>4 DEF Unique
    <3>5. CASE e \in rest /\ f \in rest
      <4>1. e \in DOMAIN s /\ f \in DOMAIN s /\ s[e] = t[e] /\ s[f] = t[f] BY <3>5 DEF Agree, rest
      <4> QED BY <3>2, <4>1, <1>4 DEF Unique
    <3>6. CASE e \in fs /\ f \in rest BY <3>1, <3>3, <3>6, <1>5
    <3>7. CASE e \in rest /\ f \in fs BY <3>1, <3>3, <3>7, <1>5
    <3> QED BY <3>4, <3>5, <3>6, <3>7 DEF rest
  <2> QED BY <2>1, <2>2
<1>7. Homed(h, ms, t)
  <2>1. DOMAIN h.node = DOMAIN st.node \cup NamesIn(t, fs)
        /\ (\A n \in NamesIn(t, fs) : h.node[n].file \in fs /\ n \in NamesIn(t, {h.node[n].file}))
        /\ (\A n \in DOMAIN st.node \ NamesIn(t, fs) : h.node[n] = st.node[n])
    BY <1>1, <1>2, LoadShape
  <2> HIDE DEF h
  <2>2. ASSUME NEW n \in DOMAIN h.node PROVE h.node[n].file \in FilesOf(ms) /\ Says(t, h.node[n].file, n)
    <3>1. CASE n \in NamesIn(t, fs) BY <2>1, <3>1, NamesSaidOne
    <3>2. CASE n \notin NamesIn(t, fs)
      <4>1. n \in DOMAIN st.node /\ h.node[n] = g.node[n] /\ n \in DOMAIN g.node /\ g.node[n].file \notin fs
        BY <2>1, <2>2, <3>2, <1>2
      <4> QED BY <4>1, <1>3 DEF Homed, rest
    <3> QED BY <3>1, <3>2
  <2>3. ASSUME NEW f \in FilesOf(ms), NEW n, Says(t, f, n) PROVE n \in DOMAIN h.node
    BY <2>1, <2>3, <1>5, NamesSaid DEF rest
  <2> QED BY <2>2, <2>3 DEF Homed
<1> QED BY <1>4, <1>6, <1>7, BuildableSays DEF st, h

-----------------------------------------------------------------------------
(* What every round of the referrer cone keeps.                              *)
RoundOK(r, f, m) ==
    /\ r = [graph |-> r.graph, failed |-> r.failed, files |-> r.files]
    /\ Sane(r.graph) /\ r.failed \in BOOLEAN
    /\ r.files \subseteq FilesOf({m}) /\ f \in r.files

(* The model with all sources in force but f's, or with t's in all files.   *)
Settles(r, t) ==
    /\ r.failed <=> ~Buildable(members, t)
    /\ ~r.failed => Homed(r.graph, members, t)

(* A round reloads the cone so far: it throws exactly when the edit does not *)
(* build.                                                                    *)
LEMMA RoundShape ==
    ASSUME NEW f \in Files, NEW m, NEW t, IsSources(t), NEW r, RoundOK(r, f, m), ~r.failed
    PROVE  /\ RoundOK(Round(r, m, t), f, m)
           /\ \A s : /\ m \in members /\ Buildable(members, s) /\ Homed(r.graph, members, s)
                    /\ Agree(s, t, FilesOf(members) \ r.files)
                    => Settles(Round(r, m, t), t)
<1> DEFINE st == Strip(r.graph, r.files)
           loaded == LoadFiles(st, t, r.files)
           new == Round(r, m, t)
           wide == r.files \cup ReferrerFiles(loaded, m, {n \in DOMAIN graph.node : graph.node[n].file \in r.files}
                                                   \cup {n \in DOMAIN loaded.node : loaded.node[n].file \in r.files})
                   \cup (IF DOMAIN loaded.node \ DOMAIN graph.node # {} THEN DanglingReferenceFiles(loaded, m) ELSE {})
<1>1. r.files \in SUBSET Files BY FilesOfIn DEF RoundOK
<1>2. Sane(st) BY <1>1, StripShape DEF RoundOK
<1>3. Sane(loaded) BY <1>1, <1>2, LoadShape
<1>4. wide \subseteq FilesOf({m}) /\ f \in wide
  BY DEF RoundOK, ReferrerFiles, DanglingReferenceFiles
<1>5. new = IF ~Loadable(st, t, r.files)
            THEN [r EXCEPT !.graph = st, !.failed = TRUE]
            ELSE [graph |-> loaded, failed |-> FALSE, files |-> wide]
  BY DEF Round
<1> HIDE DEF st, loaded, wide, new
<1>6. CASE ~Loadable(st, t, r.files)
  <2>1. new = [graph |-> st, failed |-> TRUE, files |-> r.files] BY <1>5, <1>6 DEF RoundOK
  <2>2. RoundOK(new, f, m) BY <2>1, <1>2 DEF RoundOK
  <2>3. ASSUME NEW s, m \in members, Buildable(members, s), Homed(r.graph, members, s),
               Agree(s, t, FilesOf(members) \ r.files)
        PROVE  ~Buildable(members, t)
    <3>1. r.files \in SUBSET FilesOf(members) /\ Sane(r.graph) BY <2>3 DEF RoundOK, FilesOf
    <3> QED BY <1>6, <2>3, <3>1, Reload DEF st
  <2> QED BY <2>1, <2>2, <2>3 DEF Settles, new
<1>7. CASE Loadable(st, t, r.files)
  <2>1. new = [graph |-> loaded, failed |-> FALSE, files |-> wide] BY <1>5, <1>7
  <2>2. RoundOK(new, f, m) BY <2>1, <1>3, <1>4 DEF RoundOK
  <2>3. ASSUME NEW s, m \in members, Buildable(members, s), Homed(r.graph, members, s),
               Agree(s, t, FilesOf(members) \ r.files)
        PROVE  Buildable(members, t) /\ Homed(loaded, members, t)
    <3>1. r.files \in SUBSET FilesOf(members) /\ Sane(r.graph) BY <2>3 DEF RoundOK, FilesOf
    <3> QED BY <1>7, <2>3, <3>1, Reload DEF st, loaded
  <2> QED BY <2>1, <2>2, <2>3 DEF Settles, new
<1> QED BY <1>6, <1>7

(* So does the whole cone, however many rounds it takes to close.            *)
LEMMA ConeShape ==
    ASSUME Sane(graph), NEW m, NEW f \in FilesOf({m}), NEW t, IsSources(t)
    PROVE  /\ RoundOK(Cone(f, m, t), f, m)
           /\ /\ m \in members /\ Buildable(members, sourcesOf) /\ Homed(graph, members, sourcesOf)
              /\ Agree(sourcesOf, t, FilesOf(members) \ {f})
              => Settles(Cone(f, m, t), t)
<1> DEFINE N == Cardinality(FilesOf({m}))
           first == [graph |-> graph, files |-> {f}, failed |-> FALSE]
           step(r) == IF r.failed THEN r ELSE Round(r, m, t)
           is(g, n) == g = [k \in 0..n |-> step(IF k = 0 THEN first ELSE g[k - 1])]
           R == CHOOSE g : is(g, N)
           Known0 == m \in members /\ Buildable(members, sourcesOf) /\ Homed(graph, members, sourcesOf)
                     /\ Agree(sourcesOf, t, FilesOf(members) \ {f})
           Fine(r) == RoundOK(r, f, m) /\ (Known0 => Settles(r, t))
<1>1. Cone(f, m, t) = R[N] BY DEF Cone
<1>2. N \in Nat
  <2>1. IsFiniteSet(FilesOf({m})) BY BuildAssumption, FS_Subset, FilesOfIn
  <2> QED BY <2>1, FS_CardinalityType
<1>3. RoundOK(first, f, m) BY DEF RoundOK
<1>4. f \in Files BY DEF FilesOf
<1>5. Fine(step(first)) BY <1>3, <1>4, RoundShape
<1>6. ASSUME NEW r, Fine(r) PROVE Fine(step(r))
  <2>1. CASE r.failed BY <1>6, <2>1
  <2>2. CASE ~r.failed
    <3>1. Agree(t, t, FilesOf(members) \ r.files) BY DEF Agree
    <3>2. Known0 => Buildable(members, t) /\ Homed(r.graph, members, t) /\ m \in members
      BY <1>6, <2>2 DEF Settles
    <3>3. RoundOK(Round(r, m, t), f, m) BY <1>4, <1>6, <2>2, RoundShape
    <3>4. Known0 => Settles(Round(r, m, t), t) BY <1>4, <1>6, <2>2, <3>1, <3>2, RoundShape
    <3> QED BY <2>2, <3>3, <3>4
  <2> QED BY <2>1, <2>2
<1> HIDE DEF step, N, first, Fine
<1>7. \E g : is(g, N)
  <2> DEFINE Bad == {n \in Nat : ~\E g : is(g, n)}
  <2>1. SUFFICES ASSUME Bad # {} PROVE FALSE BY <1>2
  <2>2. PICK n \in Bad : \A y \in Bad : n <= y BY <2>1, LeastNatural
  <2>3. CASE n = 0
    <3>1. is([k \in 0..0 |-> step(first)], 0) OBVIOUS
    <3> QED BY <2>2, <2>3, <3>1
  <2>4. CASE n # 0
    <3>1. n - 1 \in Nat /\ n - 1 \notin Bad BY <2>2, <2>4
    <3>2. PICK g : is(g, n - 1) BY <3>1
    <3> DEFINE h == [k \in 0..n |-> IF k = n THEN step(g[n - 1]) ELSE g[k]]
    <3>3. ASSUME NEW k \in 0..n PROVE h[k] = step(IF k = 0 THEN first ELSE h[k - 1])
      <4>1. CASE k = n BY <4>1, <2>4, <3>1
      <4>2. CASE k # n
        <5>1. k \in 0..(n - 1) /\ (k # 0 => k - 1 \in 0..n /\ k - 1 # n) BY <4>2, <3>1
        <5>2. g[k] = step(IF k = 0 THEN first ELSE g[k - 1]) BY <3>2, <5>1
        <5> QED BY <4>2, <5>1, <5>2
      <4> QED BY <4>1, <4>2
    <3>4. is(h, n) BY <3>3
    <3> QED BY <3>4, <2>2
  <2> QED BY <2>3, <2>4
<1>8. is(R, N) BY <1>7
<1> HIDE DEF R
<1>9. \A k \in 0..N : Fine(R[k])
  <2> DEFINE Bad == {k \in 0..N : ~Fine(R[k])}
  <2>1. SUFFICES ASSUME Bad # {} PROVE FALSE OBVIOUS
  <2>2. Bad \in SUBSET Nat BY <1>2
  <2>3. PICK k \in Bad : \A y \in Bad : k <= y BY <2>1, <2>2, LeastNatural
  <2>4. R[k] = step(IF k = 0 THEN first ELSE R[k - 1]) BY <1>8
  <2>5. k # 0 => Fine(R[k - 1]) BY <1>2, <2>3
  <2> QED BY <1>5, <1>6, <2>3, <2>4, <2>5
<1>10. Fine(R[N]) BY <1>2, <1>9
<1> QED BY <1>1, <1>10 DEF Fine

-----------------------------------------------------------------------------
(* Merging overlays the second source set on the first.                      *)
LEMMA MergeSources ==
    ASSUME NEW s, IsSources(s), NEW t, IsSources(t)
    PROVE  /\ IsSources(Merge(s, t)) /\ DOMAIN Merge(s, t) = DOMAIN s \cup DOMAIN t
           /\ \A f \in DOMAIN t : Merge(s, t)[f] = t[f]
           /\ \A f \in DOMAIN s \ DOMAIN t : Merge(s, t)[f] = s[f]
BY DEF IsSources, Merge

(* Restricting a source set keeps what it says of the files left.            *)
LEMMA RestrictSources ==
    ASSUME NEW s, IsSources(s), NEW fs
    PROVE  LET r == Restrict(s, DOMAIN s \cap fs)
           IN  IsSources(r) /\ DOMAIN r = DOMAIN s \cap fs /\ \A f \in DOMAIN r : r[f] = s[f]
BY DEF IsSources, Restrict

(* A source set splits into a member's part and the other members'.          *)
LEMMA OthersSources ==
    ASSUME NEW s, IsSources(s), NEW m
    PROVE  /\ IsSources(Others(s, m)) /\ DOMAIN Others(s, m) = DOMAIN s \ FilesOf({m})
           /\ \A f \in DOMAIN s \ FilesOf({m}) : Others(s, m)[f] = s[f]
           /\ IsSources(Of(s, m)) /\ DOMAIN Of(s, m) = DOMAIN s \cap FilesOf({m})
           /\ \A f \in DOMAIN s \cap FilesOf({m}) : Of(s, m)[f] = s[f]
BY DEF IsSources, Restrict, Others, Of

(* A workspace is a source set.                                              *)
LEMMA WorkspaceSources ==
    ASSUME NEW name \in DOMAIN Habits, NEW suite \in Habits[name].suites, NEW fs \in SUBSET Files,
           NEW w \in Workspaces(suite, fs)
    PROVE  IsSources(w) /\ DOMAIN w \subseteq fs
<1>1. DOMAIN suite \subseteq Files /\ suite \in [DOMAIN suite -> SUBSET Texts]
  BY TextsAssumption
<1>2. PICK gs \in SUBSET (fs \cap DOMAIN suite) : w \in [gs -> UNION {suite[f] : f \in gs}]
  BY DEF Workspaces
<1>3. \A f \in DOMAIN w : w[f] \in suite[f] BY DEF Workspaces
<1>4. ASSUME NEW f \in DOMAIN w PROVE w[f] \in Texts BY <1>1, <1>2, <1>3
<1> QED BY <1>2, <1>4 DEF IsSources

-----------------------------------------------------------------------------
(* No user both leaves refused texts lying about and has a subscriber that   *)
(* throws: with both, a refused sibling makes the incremental load of a good *)
(* edit fail, the repair builds it, and a subscriber throwing there brings   *)
(* the last-good sources back over it.                                       *)
Steady == \A name \in DOMAIN Habits : Habits[name].mends \/ ~Habits[name].subscriberFails

(* The invariant, in three parts.  First, types and edges.                   *)
Typed == TypeOK /\ EdgesHaveEnds /\ habit \in DOMAIN Habits

(* Second, while the user mends refused texts: the sources in force build,   *)
(* and the nodes of the graph are those they declare.                        *)
Stands == Habits[habit].mends => Buildable(members, sourcesOf) /\ Homed(graph, members, sourcesOf)

(* How a call that revised a known member may end: with the sources it asked *)
(* for if they build, with the ones before if not, and Changed fired.        *)
Edited(asked) ==
    /\ call'.request = asked /\ members' = members /\ habit' = habit
    /\ Buildable(members, asked.sources) => sourcesOf' = asked.sources
    /\ Habits[habit].mends =>
         /\ call'.emitted # <<>>
         /\ IF Buildable(members, asked.sources) THEN Homed(graph', members, asked.sources)
            ELSE sourcesOf' = sourcesOf /\ Homed(graph', members, sourcesOf)

(* A revision asks for source texts of the members there are.                *)
Asked(asked) ==
    IsSources(asked.sources) /\ DOMAIN asked.sources \subseteq FilesOf(members)

(* The change naming whole members is a change.                              *)
LEMMA WholeChange == ASSUME NEW g, NEW ms \in SUBSET Members PROVE Whole(g, ms) \in Changes
BY FilesOfIn DEF Whole, Changes, FileIdsFor

(* The graph of a typed state is sane.                                       *)
LEMMA SaneOf == ASSUME Typed PROVE Sane(graph)
BY DEF Typed, TypeOK, EdgesHaveEnds, Sane, Joined

(* Whatever a call ends with, if it is sane the state is typed.              *)
LEMMA FinishTyped ==
    ASSUME Typed, UNCHANGED <<members, habit>>, IsSources(text'),
           NEW asked, NEW s, IsSources(s), DOMAIN s \subseteq FilesOf(members),
           NEW g, Sane(g), NEW emitted \in Seq(Changes), Len(emitted) <= 2, NEW boom \in BOOLEAN,
           Finish(asked, s, g, emitted, boom)
    PROVE  Typed'
BY DEF Typed, TypeOK, EdgesHaveEnds, Sane, Joined, Finish

(* Bringing the last-good sources back answers an edit that does not build.  *)
LEMMA RestoreEdited ==
    ASSUME Typed, UNCHANGED <<members, habit>>, IsSources(text'),
           NEW asked, NEW g, Sane(g), NEW emitted \in Seq(Changes), Len(emitted) <= 1,
           Restore(asked, sourcesOf, g, emitted)
    PROVE  Typed' /\ (Stands /\ ~Buildable(members, asked.sources) => Edited(asked))
<1> DEFINE good == FullBuild(members, sourcesOf)
           told == Append(emitted, Whole(good, members))
<1>1. members \in SUBSET Members /\ IsSources(sourcesOf) /\ DOMAIN sourcesOf \subseteq FilesOf(members)
  BY DEF Typed, TypeOK
<1>2. Sane(good) /\ Homed(good, members, sourcesOf) BY <1>1, FullBuildShape, FullBuildHomed
<1>3. told \in Seq(Changes) /\ Len(told) <= 2 /\ told # <<>>
  <2>1. Whole(good, members) \in Changes BY <1>1, WholeChange
  <2>2. Len(emitted) \in Nat OBVIOUS
  <2>3. \A c \in Changes : Append(emitted, c) \in Seq(Changes) /\ Len(Append(emitted, c)) = Len(emitted) + 1
    OBVIOUS
  <2>4. told \in Seq(Changes) /\ Len(told) = Len(emitted) + 1 BY <2>1, <2>3
  <2> HIDE DEF told
  <2>5. Len(<<>>) = 0 OBVIOUS
  <2> QED BY <2>2, <2>4, <2>5
<1> HIDE DEF good, told
<1>4. CASE Buildable(members, sourcesOf)
  <2>1. PICK boom \in BOOLEAN : Finish(asked, sourcesOf, good, told, boom)
    BY <1>4 DEF Restore, Throws, good, told
  <2>2. Typed' BY <2>1, <1>1, <1>2, <1>3, FinishTyped
  <2> QED BY <2>1, <2>2, <1>2, <1>3 DEF Edited, Finish
<1>5. CASE ~Buildable(members, sourcesOf)
  <2>1. Finish(asked, sourcesOf, g, emitted, TRUE) BY <1>5 DEF Restore
  <2>2. Len(emitted) <= 2 /\ TRUE \in BOOLEAN OBVIOUS
  <2>3. Typed' BY <2>1, <2>2, <1>1, FinishTyped
  <2> QED BY <2>1, <2>3, <1>5 DEF Edited, Finish, Stands
<1> QED BY <1>4, <1>5

(* RepairFailedReplace answers every edit whose incremental load threw.      *)
LEMMA RepairEdited ==
    ASSUME Typed, UNCHANGED <<members, habit>>, IsSources(text'),
           NEW asked, Asked(asked), Stands /\ Habits[habit].mends => ~Buildable(members, asked.sources),
           NEW half, Sane(half), RepairFailedReplace(asked, sourcesOf, half)
    PROVE  Typed' /\ (Stands /\ Steady => Edited(asked))
<1> DEFINE g == FullBuild(members, asked.sources)
<1>1. members \in SUBSET Members BY DEF Typed, TypeOK
<1>2. Sane(g) /\ Homed(g, members, asked.sources) BY FullBuildShape, FullBuildHomed DEF Asked
<1>3. <<Whole(g, members)>> \in Seq(Changes) /\ Len(<<Whole(g, members)>>) = 1 BY <1>1, WholeChange
<1>4. <<>> \in Seq(Changes) /\ Len(<<>>) = 0 OBVIOUS
<1> HIDE DEF g
<1>5. CASE Buildable(members, asked.sources)
  <2>1. PICK boom \in Throws : IF boom THEN Restore(asked, sourcesOf, g, <<Whole(g, members)>>)
                               ELSE Finish(asked, asked.sources, g, <<Whole(g, members)>>, FALSE)
    BY <1>5 DEF RepairFailedReplace, g
  <2>2. CASE boom
    <3>1. Habits[habit].subscriberFails BY <2>1, <2>2 DEF Throws
    <3>2. ASSUME Stands, Steady PROVE FALSE BY <1>5, <3>1, <3>2 DEF Steady, Typed
    <3>3. Len(<<Whole(g, members)>>) <= 1 BY <1>3
    <3>4. Typed' BY <3>3, <2>1, <2>2, <1>2, <1>3, RestoreEdited
    <3> QED BY <3>2, <3>4
  <2>3. CASE ~boom
    <3>1. Len(<<Whole(g, members)>>) <= 2 /\ FALSE \in BOOLEAN BY <1>3
    <3>2. Finish(asked, asked.sources, g, <<Whole(g, members)>>, FALSE) BY <2>1, <2>3
    <3>3. Typed' BY <3>1, <3>2, <1>2, <1>3, FinishTyped DEF Asked
    <3> QED BY <3>2, <3>3, <1>2, <1>5 DEF Edited, Finish
  <2> QED BY <2>1, <2>2, <2>3
<1>6. CASE ~Buildable(members, asked.sources)
  <2>1. Restore(asked, sourcesOf, half, <<>>) BY <1>6 DEF RepairFailedReplace
  <2>2. Len(<<>>) <= 1 OBVIOUS
  <2> QED BY <2>1, <2>2, <1>4, <1>6, RestoreEdited
<1> QED BY <1>5, <1>6

(* Rebuilding because of resolution rules answers every edit.                *)
LEMMA RulesEdited ==
    ASSUME Typed, UNCHANGED <<members, habit>>, IsSources(text'),
           NEW asked, Asked(asked), RebuildWithRules(asked, sourcesOf)
    PROVE  Typed' /\ (Stands /\ Steady => Edited(asked))
<1> DEFINE g == FullBuild(members, asked.sources)
           told == <<Whole(g, members)>>
<1>1. CASE Buildable(members, asked.sources)
  <2>1. Sane(g) /\ Homed(g, members, asked.sources) BY FullBuildShape, FullBuildHomed DEF Asked
  <2>2. Whole(g, members) \in Changes BY WholeChange DEF Typed, TypeOK
  <2>3. PICK boom \in BOOLEAN : Finish(asked, asked.sources, g, told, boom)
    BY <1>1 DEF RebuildWithRules, Throws
  <2>4. told \in Seq(Changes) /\ Len(told) <= 2 /\ told # <<>> BY <2>2
  <2> HIDE DEF g, told
  <2>5. Typed' BY <2>1, <2>3, <2>4, FinishTyped DEF Asked
  <2> QED BY <2>1, <2>3, <2>4, <2>5, <1>1 DEF Edited, Finish
<1>2. CASE ~Buildable(members, asked.sources)
  <2>1. RepairFailedReplace(asked, sourcesOf, graph) BY <1>2 DEF RebuildWithRules
  <2>2. Sane(graph) BY SaneOf
  <2> QED BY <1>2, <2>1, <2>2, RepairEdited
<1> QED BY <1>1, <1>2

(* The incremental load of files fs into g, what g was stripped of; then    *)
(* `told` is what Changed fires with.                                       *)
LEMMA LoadEdited ==
    ASSUME Typed, UNCHANGED <<members, habit>>, IsSources(text'),
           NEW asked, Asked(asked), NEW g, Sane(g), NEW fs \in SUBSET Files,
           NEW h, h = LoadFiles(g, asked.sources, fs),
           Stands /\ Habits[habit].mends => Buildable(members, asked.sources) /\ Homed(h, members, asked.sources),
           NEW c \in Changes, NEW boom \in BOOLEAN,
           Finish(asked, asked.sources, Resolved(h), <<c>>, boom)
    PROVE  Typed' /\ (Stands /\ Steady => Edited(asked))
<1>1. Sane(h) BY LoadShape DEF Asked
<1>2. Sane(Resolved(h)) /\ Resolved(h).node = h.node BY <1>1, ResolvedShape
<1>3. <<c>> \in Seq(Changes) /\ Len(<<c>>) <= 2 /\ <<c>> # <<>> OBVIOUS
<1>4. Typed' BY <1>2, <1>3, FinishTyped DEF Asked
<1>5. Stands /\ Habits[habit].mends => Homed(Resolved(h), members, asked.sources)
  BY <1>2 DEF Homed
<1> QED BY <1>3, <1>4, <1>5 DEF Edited, Finish

(* The members loaded before a load throws leave a sane graph.               *)
LEMMA PrefixSane ==
    ASSUME NEW g, Sane(g), NEW s, IsSources(s), NEW fs \in SUBSET Files
    PROVE  Sane(LoadedPrefix(g, s, fs))
<1> DEFINE part == {f \in fs : Loadable(g, s, UpTo(fs, f))}
<1>1. part \in SUBSET Files OBVIOUS
<1> HIDE DEF part
<1>2. Sane(LoadFiles(g, s, part)) BY <1>1, LoadShape
<1> QED BY <1>2 DEF LoadedPrefix, part

(* A member and its dependents are members, and their files are the          *)
(* members'.                                                                 *)
LEMMA AffectedIn ==
    ASSUME Typed, NEW m \in members
    PROVE  LET ds == DependentsOf(members, m)
           IN  {m} \cup ds \in SUBSET Members /\ {m} \cup ds \subseteq members /\ FilesOf(ds) \in SUBSET FilesOf(members)
               /\ FilesOf({m} \cup ds) \in SUBSET FilesOf(members) /\ FilesOf({m}) \subseteq FilesOf({m} \cup ds)
<1>1. members \subseteq Members BY DEF Typed, TypeOK
<1>2. DependentsOf(members, m) \subseteq members BY DependentsIn
<1> QED BY <1>1, <1>2 DEF FilesOf

(* ReplaceMember of a known member answers the edit.                         *)
LEMMA MemberEdited ==
    ASSUME Typed, NEW m \in members, NEW w, IsSources(w), DOMAIN w \subseteq FilesOf({m}),
           habit' = habit, ReplaceMember(m, w)
    PROVE  LET asked == Ask("revise", members, Merge(Others(sourcesOf, m), w))
           IN  Typed' /\ (Stands /\ Steady => Edited(asked))
<1> DEFINE sources == Merge(Others(sourcesOf, m), w)
           asked == Ask("revise", members, sources)
           dependents == DependentsOf(members, m)
           affected == {m} \cup dependents
           fs == FilesOf(affected)
           st == Strip(graph, fs)
           h == LoadFiles(st, sources, fs)
           told == Whole(Resolved(h), affected)
<1>1. IsSources(sourcesOf) /\ IsSources(text) /\ DOMAIN sourcesOf \subseteq FilesOf(members) /\ members \subseteq Members
  BY DEF Typed, TypeOK
<1>2. IsSources(text')
  BY <1>1, OthersSources, MergeSources DEF ReplaceMember
<1>3. UNCHANGED <<members, habit>> BY DEF ReplaceMember
<1>4. asked.sources = sources BY DEF Ask
<1>5. /\ IsSources(Others(sourcesOf, m)) /\ DOMAIN Others(sourcesOf, m) = DOMAIN sourcesOf \ FilesOf({m})
      /\ \A f \in DOMAIN sourcesOf \ FilesOf({m}) : Others(sourcesOf, m)[f] = sourcesOf[f]
  BY <1>1, OthersSources
<1>6. /\ IsSources(sources) /\ DOMAIN sources = (DOMAIN sourcesOf \ FilesOf({m})) \cup DOMAIN w
      /\ \A f \in DOMAIN sourcesOf \ FilesOf({m}) : sources[f] = sourcesOf[f]
  <2> DEFINE o == Others(sourcesOf, m)
  <2>1. /\ IsSources(o) /\ DOMAIN o = DOMAIN sourcesOf \ FilesOf({m})
        /\ \A f \in DOMAIN sourcesOf \ FilesOf({m}) : o[f] = sourcesOf[f]
    BY <1>5
  <2> HIDE DEF o
  <2>2. /\ IsSources(Merge(o, w)) /\ DOMAIN Merge(o, w) = DOMAIN o \cup DOMAIN w
        /\ \A f \in DOMAIN o \ DOMAIN w : Merge(o, w)[f] = o[f]
    BY <2>1, MergeSources
  <2> QED BY <2>1, <2>2 DEF o
<1>7. FilesOf({m}) \subseteq FilesOf(members) BY DEF FilesOf
<1>8. Asked(asked) BY <1>1, <1>4, <1>6, <1>7 DEF Asked
<1>9. fs \in SUBSET FilesOf(members) /\ fs \in SUBSET Files /\ affected \in SUBSET Members /\ FilesOf({m}) \subseteq fs
  BY AffectedIn, FilesOfIn
<1>10. Agree(sourcesOf, sources, FilesOf(members) \ fs)
  BY <1>6, <1>9 DEF Agree
<1>11. Sane(graph) /\ Sane(st) BY <1>9, SaneOf, StripShape
<1>12. Stands /\ Habits[habit].mends =>
         /\ Loadable(st, sources, fs) <=> Buildable(members, sources)
         /\ Loadable(st, sources, fs) => Homed(h, members, sources)
  BY <1>6, <1>9, <1>10, <1>11, Reload DEF Stands
<1> HIDE DEF sources, fs, st, h
<1>13. CASE HasResolutionRules(graph)
  <2>1. RebuildWithRules(asked, sourcesOf) BY <1>13 DEF ReplaceMember, sources
  <2> QED BY <2>1, <1>2, <1>3, <1>8, RulesEdited DEF sources
<1>14. CASE ~HasResolutionRules(graph) /\ Loadable(st, sources, fs)
  <2>1. PICK boom \in BOOLEAN : Finish(asked, asked.sources, Resolved(h), <<told>>, boom)
    BY <1>14 DEF ReplaceMember, LoadOrRepair, MemberChange, Throws, Ask, sources, fs, st, h
  <2>2. told \in Changes BY <1>9, WholeChange
  <2>3. h = LoadFiles(st, asked.sources, fs) BY <1>4 DEF h
  <2> HIDE DEF told, asked
  <2>4. Typed' /\ (Stands /\ Steady => Edited(asked))
    BY <2>1, <2>2, <2>3, <1>2, <1>3, <1>4, <1>8, <1>9, <1>11, <1>12, <1>14, LoadEdited
  <2> QED BY <2>4 DEF asked, sources
<1>15. CASE ~HasResolutionRules(graph) /\ ~Loadable(st, sources, fs)
  <2>1. RepairFailedReplace(asked, sourcesOf, LoadedPrefix(st, asked.sources, fs))
    BY <1>15 DEF ReplaceMember, LoadOrRepair, Ask, sources, fs, st
  <2>2. Sane(LoadedPrefix(st, asked.sources, fs)) BY <1>4, <1>6, <1>9, <1>11, PrefixSane
  <2> HIDE DEF asked
  <2>3. Typed' /\ (Stands /\ Steady => Edited(asked))
    BY <2>1, <2>2, <1>2, <1>3, <1>4, <1>8, <1>12, <1>15, RepairEdited
  <2> QED BY <2>3 DEF asked, sources
<1> QED BY <1>13, <1>14, <1>15

(* ReplaceFile of a recorded file answers the edit.                          *)
LEMMA FileEdited ==
    ASSUME Typed, NEW f \in Files, NEW t \in Texts, habit' = habit, ReplaceFile(f, t), f \in DOMAIN sourcesOf
    PROVE  LET m == Home[f]
               w == Merge(Of(text, m), [g \in {f} |-> t])
               asked == Ask("revise", members, Merge(Others(sourcesOf, m), w))
           IN  Typed' /\ (Stands /\ Steady => Edited(asked))
<1> DEFINE m == Home[f]
           one == [g \in {f} |-> t]
           mine == Of(text, m)
           w == Merge(mine, one)
           o == Others(sourcesOf, m)
           sources == Merge(o, w)
           asked == Ask("revise", members, sources)
           dependents == DependentsOf(members, m)
           cone == Cone(f, m, sources)
           fs == FilesOf(dependents)
           st == Strip(cone.graph, fs)
           h == LoadFiles(st, sources, fs)
           told == FileChange(cone.files, m, dependents, sources)
<1>1. IsSources(sourcesOf) /\ IsSources(text) /\ DOMAIN sourcesOf \subseteq FilesOf(members) /\ members \subseteq Members
  BY DEF Typed, TypeOK
<1>2. m \in members /\ f \in FilesOf({m}) /\ FilesOf({m}) \subseteq FilesOf(members)
  BY <1>1 DEF FilesOf
<1>3. IsSources(one) /\ DOMAIN one = {f} BY DEF IsSources
<1>4. text' = Merge(text, one) /\ UNCHANGED <<members, habit>> BY DEF ReplaceFile
<1>5. IsSources(text') BY <1>1, <1>3, <1>4, MergeSources
<1>6. /\ IsSources(mine) /\ DOMAIN mine = DOMAIN text \cap FilesOf({m})
      /\ \A g \in DOMAIN mine : mine[g] = text[g]
      /\ IsSources(o) /\ DOMAIN o = DOMAIN sourcesOf \ FilesOf({m})
      /\ \A g \in DOMAIN o : o[g] = sourcesOf[g]
  BY <1>1, OthersSources
<1>7. Habits[habit].mends => \A g \in FilesOf({m}) \ {f} : At(text, g) = At(sourcesOf, g)
  BY <1>2 DEF ReplaceFile, Drafts
<1>8. asked.sources = sources BY DEF Ask
<1> HIDE DEF one, mine, o
<1>9. /\ IsSources(w) /\ DOMAIN w = DOMAIN mine \cup {f}
      /\ \A g \in DOMAIN mine \ {f} : w[g] = mine[g]
  <2>1. /\ IsSources(Merge(mine, one)) /\ DOMAIN Merge(mine, one) = DOMAIN mine \cup DOMAIN one
        /\ (\A g \in DOMAIN one : Merge(mine, one)[g] = one[g])
        /\ \A g \in DOMAIN mine \ DOMAIN one : Merge(mine, one)[g] = mine[g]
    BY <1>3, <1>6, MergeSources
  <2> QED BY <2>1, <1>3
<1> HIDE DEF w
<1>10. /\ IsSources(sources) /\ DOMAIN sources = DOMAIN o \cup DOMAIN w
       /\ (\A g \in DOMAIN w : sources[g] = w[g])
       /\ \A g \in DOMAIN o \ DOMAIN w : sources[g] = o[g]
  BY <1>6, <1>9, MergeSources
<1> HIDE DEF sources
<1>11. Asked(asked)
  BY <1>1, <1>2, <1>6, <1>8, <1>9, <1>10 DEF Asked
<1>12. Habits[habit].mends => Agree(sourcesOf, sources, FilesOf(members) \ {f})
  <2>1. SUFFICES ASSUME Habits[habit].mends, NEW g \in FilesOf(members) \ {f}
                 PROVE  (g \in DOMAIN sourcesOf <=> g \in DOMAIN sources)
                        /\ (g \in DOMAIN sourcesOf => sourcesOf[g] = sources[g])
    BY DEF Agree
  <2>2. CASE g \in FilesOf({m})
    <3>1. At(text, g) = At(sourcesOf, g) BY <2>1, <2>2, <1>7
    <3>2. (g \in DOMAIN text <=> g \in DOMAIN sourcesOf)
          /\ (g \in DOMAIN text => text[g] = sourcesOf[g])
      BY <3>1 DEF At
    <3> QED BY <3>2, <2>1, <2>2, <1>6, <1>9, <1>10
  <2>3. CASE g \notin FilesOf({m})
    BY <2>1, <2>3, <1>2, <1>6, <1>9, <1>10
  <2> QED BY <2>2, <2>3
<1>13. Sane(graph) BY SaneOf
<1>14. /\ RoundOK(cone, f, m)
       /\ Stands /\ Habits[habit].mends => Settles(cone, sources)
  BY <1>2, <1>10, <1>12, <1>13, ConeShape DEF Stands
<1>15. /\ fs \in SUBSET FilesOf(members) /\ fs \in SUBSET Files /\ {m} \cup dependents \in SUBSET Members
  BY <1>2, AffectedIn, FilesOfIn
<1> HIDE DEF cone, dependents, fs
<1>16. Sane(cone.graph) /\ cone.files \subseteq Files BY <1>14, FilesOfIn DEF RoundOK
<1>17. Sane(st) BY <1>15, <1>16, StripShape
<1>18. Stands /\ Habits[habit].mends /\ ~cone.failed =>
         Loadable(st, sources, fs) /\ Buildable(members, sources) /\ Homed(h, members, sources)
  <2>1. SUFFICES ASSUME Stands, Habits[habit].mends, ~cone.failed
                 PROVE  Loadable(st, sources, fs) /\ Buildable(members, sources) /\ Homed(h, members, sources)
    OBVIOUS
  <2>2. Buildable(members, sources) /\ Homed(cone.graph, members, sources) BY <2>1, <1>14 DEF Settles
  <2>3. Agree(sources, sources, FilesOf(members) \ fs) BY DEF Agree
  <2> QED BY <2>2, <2>3, <1>10, <1>15, <1>16, Reload
<1> HIDE DEF st, h
<1>19. CASE HasResolutionRules(graph)
  <2>1. RebuildWithRules(asked, sourcesOf) BY <1>19 DEF ReplaceFile, sources, o, w, mine, one
  <2> HIDE DEF asked
  <2>2. Typed' /\ (Stands /\ Steady => Edited(asked)) BY <2>1, <1>4, <1>5, <1>11, RulesEdited
  <2> QED BY <2>2 DEF asked, sources, o, w, mine, one
<1>20. CASE ~HasResolutionRules(graph) /\ cone.failed
  <2>1. RepairFailedReplace(asked, sourcesOf, cone.graph)
    BY <1>20 DEF ReplaceFile, sources, o, w, mine, one, cone
  <2>2. Stands /\ Habits[habit].mends => ~Buildable(members, asked.sources)
    BY <1>8, <1>14, <1>20 DEF Settles
  <2> HIDE DEF asked
  <2>3. Typed' /\ (Stands /\ Steady => Edited(asked))
    BY <2>1, <2>2, <1>4, <1>5, <1>11, <1>16, RepairEdited
  <2> QED BY <2>3 DEF asked, sources, o, w, mine, one
<1>21. CASE ~HasResolutionRules(graph) /\ ~cone.failed /\ Loadable(st, sources, fs)
  <2>1. PICK boom \in BOOLEAN : Finish(asked, asked.sources, Resolved(h), <<told>>, boom)
    BY <1>21 DEF ReplaceFile, LoadOrRepair, Throws, Ask, sources, o, w, mine, one, cone, st, h, fs, dependents
  <2>2. told \in Changes BY <1>15, <1>16, FilesOfIn DEF FileChange, Changes
  <2>3. h = LoadFiles(st, asked.sources, fs) BY <1>8 DEF h
  <2> HIDE DEF told, asked
  <2>4. Typed' /\ (Stands /\ Steady => Edited(asked))
    BY <2>1, <2>2, <2>3, <1>4, <1>5, <1>8, <1>11, <1>15, <1>17, <1>18, <1>21, LoadEdited
  <2> QED BY <2>4 DEF asked, sources, o, w, mine, one
<1>22. CASE ~HasResolutionRules(graph) /\ ~cone.failed /\ ~Loadable(st, sources, fs)
  <2>1. RepairFailedReplace(asked, sourcesOf, LoadedPrefix(st, asked.sources, fs))
    BY <1>22 DEF ReplaceFile, LoadOrRepair, Ask, sources, o, w, mine, one, cone, st, fs, dependents
  <2>2. Sane(LoadedPrefix(st, asked.sources, fs)) BY <1>8, <1>10, <1>15, <1>17, PrefixSane
  <2> HIDE DEF asked
  <2>3. Typed' /\ (Stands /\ Steady => Edited(asked))
    BY <2>1, <2>2, <1>4, <1>5, <1>11, <1>18, <1>22, RepairEdited
  <2> QED BY <2>3 DEF asked, sources, o, w, mine, one
<1> QED BY <1>19, <1>20, <1>21, <1>22

-----------------------------------------------------------------------------
(* Build leaves a graph that stands, or the one there was.                   *)
LEMMA BuildKeeps ==
    ASSUME Typed, habit' = habit, NEW ms \in SUBSET Members, Build(ms)
    PROVE  Typed' /\ (Stands => Stands') /\ call'.request.op = "open"
<1> DEFINE w == Restrict(text, DOMAIN text \cap FilesOf(ms))
           g == FullBuild(ms, w)
           asked == Ask("open", ms, w)
           told == <<Whole(g, ms)>>
<1>1. IsSources(text) /\ IsSources(sourcesOf) /\ DOMAIN sourcesOf \subseteq FilesOf(members)
      /\ call.emitted \in Seq(Changes) /\ Sane(graph)
  BY SaneOf DEF Typed, TypeOK
<1>2. IsSources(w) /\ DOMAIN w \subseteq FilesOf(ms)
  <2>1. IsSources(w) /\ DOMAIN w = DOMAIN text \cap FilesOf(ms) /\ \A f \in DOMAIN w : w[f] = text[f]
    BY <1>1, RestrictSources
  <2> QED BY <2>1
<1>3. Sane(g) /\ Homed(g, ms, w) BY <1>2, FullBuildShape, FullBuildHomed
<1>4. asked.op = "open" BY DEF Ask
<1>5. CASE Buildable(ms, w)
  <2>1. members' = ms /\ text' = text BY <1>5 DEF Build
  <2>2. PICK boom \in BOOLEAN : Finish(asked, w, g, told, boom) BY <1>5 DEF Build, Throws
  <2>3. told \in Seq(Changes) /\ Len(told) <= 2
    <3>1. Whole(g, ms) \in Changes BY WholeChange
    <3> QED BY <3>1
  <2> HIDE DEF w, g, told, asked
  <2>4. sourcesOf' = w /\ graph' = g /\ call'.request = asked /\ call'.emitted = told /\ call'.thrown = boom
    BY <2>2 DEF Finish
  <2>5. Typed'
    BY <1>1, <1>2, <1>3, <2>1, <2>3, <2>4 DEF Typed, TypeOK, EdgesHaveEnds, Sane, Joined
  <2>6. Stands' BY <1>3, <1>5, <2>1, <2>4 DEF Stands
  <2> QED BY <1>4, <2>4, <2>5, <2>6
<1>6. CASE ~Buildable(ms, w)
  <2>1. members' = members /\ text' = text BY <1>6 DEF Build
  <2>2. Finish(asked, sourcesOf, graph, <<>>, TRUE) BY <1>6 DEF Build
  <2>3. <<>> \in Seq(Changes) /\ Len(<<>>) <= 2 OBVIOUS
  <2> HIDE DEF w, g, told, asked
  <2>4. sourcesOf' = sourcesOf /\ graph' = graph /\ call'.request = asked /\ call'.emitted = <<>> /\ call'.thrown = TRUE
    BY <2>2 DEF Finish
  <2>5. Typed'
    BY <1>1, <2>1, <2>3, <2>4 DEF Typed, TypeOK, EdgesHaveEnds
  <2>6. Stands => Stands' BY <2>1, <2>4 DEF Stands
  <2> QED BY <1>4, <2>4, <2>5, <2>6
<1> QED BY <1>5, <1>6

(* A call about an unknown member or file changes nothing.                   *)
LEMMA UnknownKeeps ==
    ASSUME Typed, UNCHANGED <<members, habit>>, IsSources(text'),
           Finish(Ask("unknown", {}, NoSources), sourcesOf, graph, <<>>, TRUE)
    PROVE  Typed' /\ (Stands => Stands') /\ call'.request.op = "unknown" /\ UNCHANGED <<sourcesOf, graph>>
<1>1. IsSources(sourcesOf) /\ DOMAIN sourcesOf \subseteq FilesOf(members) /\ Sane(graph)
  BY SaneOf DEF Typed, TypeOK
<1>2. <<>> \in Seq(Changes) /\ Len(<<>>) <= 2 /\ TRUE \in BOOLEAN OBVIOUS
<1>3. Typed' BY <1>1, <1>2, FinishTyped
<1>4. sourcesOf' = sourcesOf /\ graph' = graph /\ call'.request = Ask("unknown", {}, NoSources)
  BY DEF Finish
<1> QED BY <1>3, <1>4 DEF Stands, Ask

(* Third, what RevisionsSound says of the last call.                         *)
Answered ==
    /\ EditHonoured
    /\ Habits[habit].mends => EveryEditEmits

(* The inductive invariant.                                                  *)
Inv == Typed /\ (Steady => Stands /\ Answered)

(* An answered edit keeps the invariant.                                     *)
LEMMA EditedKeeps ==
    ASSUME Typed, NEW asked, asked.op = "revise",
           Typed' /\ (Stands /\ Steady => Edited(asked)), Steady => Stands
    PROVE  Inv'
<1> SUFFICES ASSUME Steady PROVE Stands' /\ Answered' BY DEF Inv
<1>1. Edited(asked) /\ Stands OBVIOUS
<1>2. /\ call'.request = asked /\ members' = members /\ habit' = habit
      /\ Buildable(members, asked.sources) => sourcesOf' = asked.sources
  BY <1>1 DEF Edited
<1>3. Stands'
  <2>1. SUFFICES ASSUME Habits[habit].mends PROVE Buildable(members, sourcesOf') /\ Homed(graph', members, sourcesOf')
    BY <1>2 DEF Stands
  <2> QED BY <2>1, <1>1, <1>2 DEF Edited, Stands
<1>4. Answered'
  BY <1>1, <1>2 DEF Answered, EditHonoured, EveryEditEmits, Edited
<1> QED BY <1>3, <1>4

(* The invariant holds of no solution.                                       *)
LEMMA InitInv == Init => Inv
<1> SUFFICES ASSUME Init PROVE Inv OBVIOUS
<1>1. IsSources(NoSources) /\ DOMAIN NoSources = {} BY DEF NoSources, IsSources
<1>2. IsSources(text) BY WorkspaceSources DEF Init
<1>3. <<>> \in Seq(Changes) /\ Len(<<>>) <= 2 OBVIOUS
<1>4. Sane(EmptyGraph) /\ DOMAIN EmptyGraph.node = {} BY EmptySane
<1>5. Typed BY <1>1, <1>2, <1>3, <1>4 DEF Typed, TypeOK, EdgesHaveEnds, Sane, Joined, Init
<1>6. Acyclic({}) BY DEF Acyclic
<1>7. Stands BY <1>1, <1>4, <1>6, BuildableSays DEF Stands, Homed, Says, Unique, Init
<1>8. Answered BY DEF Answered, EditHonoured, EveryEditEmits, Init, Ask
<1> QED BY <1>5, <1>7, <1>8 DEF Inv

(* The disjuncts of Next, with what the operations are called with.         *)
Call ==
    \/ \E ms \in SUBSET Members : Build(ms)
    \/ \E m, w : IsSources(w) /\ DOMAIN w \subseteq FilesOf({m}) /\ ReplaceMember(m, w)
    \/ \E f \in Files, t \in Texts : ReplaceFile(f, t)

(* Each step is one of the three calls, with the habit unchanged.            *)
LEMMA NextCalls == ASSUME Typed, Next PROVE Call /\ habit' = habit
<1>1. PICK suite \in Habits[habit].suites :
        LET known == {Home[f] : f \in DOMAIN suite} IN
        \/ \E ms \in SUBSET known : Build(ms)
        \/ \E m \in known : \E w \in Workspaces(suite, FilesOf({m})) : ReplaceMember(m, w)
        \/ \E f \in DOMAIN suite : \E t \in suite[f] : ReplaceFile(f, t)
  BY DEF Next
<1>2. habit \in DOMAIN Habits /\ habit' = habit BY DEF Typed, Next
<1>3. DOMAIN suite \subseteq Files /\ suite \in [DOMAIN suite -> SUBSET Texts]
  BY <1>2, TextsAssumption
<1> DEFINE known == {Home[f] : f \in DOMAIN suite}
<1>4. known \subseteq Members BY <1>3, BuildAssumption
<1>5. CASE \E ms \in SUBSET known : Build(ms) BY <1>2, <1>4, <1>5 DEF Call
<1>6. CASE \E m \in known : \E w \in Workspaces(suite, FilesOf({m})) : ReplaceMember(m, w)
  BY <1>2, <1>6, WorkspaceSources, FilesOfIn DEF Call
<1>7. CASE \E f \in DOMAIN suite : \E t \in suite[f] : ReplaceFile(f, t) BY <1>2, <1>3, <1>7 DEF Call
<1> QED BY <1>1, <1>5, <1>6, <1>7

(* Every call keeps the invariant.                                           *)
LEMMA NextInv == ASSUME Inv, Next PROVE Inv'
<1>1. Typed /\ Call /\ habit' = habit BY NextCalls DEF Inv
<1>2. ASSUME NEW ms \in SUBSET Members, Build(ms) PROVE Inv'
  <2>1. Typed' /\ (Stands => Stands') /\ call'.request.op = "open" BY <1>1, <1>2, BuildKeeps
  <2> QED BY <2>1 DEF Inv, Answered, EditHonoured, EveryEditEmits
<1>3. ASSUME UNCHANGED <<members, habit>>, IsSources(text'),
             Finish(Ask("unknown", {}, NoSources), sourcesOf, graph, <<>>, TRUE)
      PROVE  Inv'
  <2>1. Typed' /\ (Stands => Stands') /\ call'.request.op = "unknown" BY <1>1, <1>3, UnknownKeeps
  <2> QED BY <2>1 DEF Inv, Answered, EditHonoured, EveryEditEmits
<1>4. ASSUME NEW m, NEW w, IsSources(w), DOMAIN w \subseteq FilesOf({m}), ReplaceMember(m, w) PROVE Inv'
  <2>1. CASE m \in members
    <3> DEFINE asked == Ask("revise", members, Merge(Others(sourcesOf, m), w))
    <3>1. Typed' /\ (Stands /\ Steady => Edited(asked)) BY <1>1, <1>4, <2>1, MemberEdited
    <3>2. asked.op = "revise" BY DEF Ask
    <3> HIDE DEF asked
    <3> QED BY <1>1, <3>1, <3>2, EditedKeeps DEF Inv
  <2>2. CASE m \notin members
    <3>1. IsSources(text') /\ UNCHANGED <<members, habit>>
      <4>1. IsSources(text) BY <1>1 DEF Typed, TypeOK
      <4>2. IsSources(Others(text, m)) BY <4>1, OthersSources
      <4>3. text' = Merge(Others(text, m), w) /\ UNCHANGED members BY <1>4 DEF ReplaceMember
      <4> QED BY <1>1, <1>4, <4>2, <4>3, MergeSources
    <3> QED BY <1>3, <1>4, <2>2, <3>1 DEF ReplaceMember
  <2> QED BY <2>1, <2>2
<1>5. ASSUME NEW f \in Files, NEW t \in Texts, ReplaceFile(f, t) PROVE Inv'
  <2>1. CASE f \in DOMAIN sourcesOf
    <3> DEFINE asked == Ask("revise", members,
                            Merge(Others(sourcesOf, Home[f]), Merge(Of(text, Home[f]), [g \in {f} |-> t])))
    <3>1. Typed' /\ (Stands /\ Steady => Edited(asked)) BY <1>1, <1>5, <2>1, FileEdited
    <3>2. asked.op = "revise" BY DEF Ask
    <3> HIDE DEF asked
    <3> QED BY <1>1, <3>1, <3>2, EditedKeeps DEF Inv
  <2>2. CASE f \notin DOMAIN sourcesOf
    <3>1. IsSources(text') /\ UNCHANGED <<members, habit>>
      <4>1. IsSources(text) BY <1>1 DEF Typed, TypeOK
      <4>2. IsSources([g \in {f} |-> t]) BY DEF IsSources
      <4>3. text' = Merge(text, [g \in {f} |-> t]) /\ UNCHANGED members BY <1>5 DEF ReplaceFile
      <4> QED BY <1>1, <4>1, <4>2, <4>3, MergeSources
    <3> QED BY <1>3, <1>5, <2>2, <3>1 DEF ReplaceFile
  <2> QED BY <2>1, <2>2
<1> QED BY <1>1, <1>2, <1>4, <1>5 DEF Call

(* The invariant holds in every reachable state, for all members, files,     *)
(* names, declarations and habits.                                           *)
THEOREM Invariance == Spec => []Inv
<1>1. Inv /\ [Next]_vars => Inv'
  <2> SUFFICES ASSUME Inv, [Next]_vars PROVE Inv' OBVIOUS
  <2>1. CASE Next BY <2>1, NextInv
  <2>2. CASE UNCHANGED vars
    BY <2>2 DEF vars, Inv, Typed, TypeOK, EdgesHaveEnds, Stands, Homed, Answered, EditHonoured, EveryEditEmits
  <2> QED BY <2>1, <2>2
<1> QED BY <1>1, InitInv, PTL DEF Spec

(* Every variable of SolutionGraph keeps its shape (TypeOK): after a         *)
(* refused, repaired or reloaded edit too, the sources recorded are of open  *)
(* members and the graph is a graph.                                         *)
THEOREM TypeCorrect == Spec => []TypeOK
<1>1. Inv => TypeOK BY DEF Inv, Typed
<1> QED BY <1>1, Invariance, PTL

(* No edge of the live model ever dangles, whatever Build, ReplaceMember,    *)
(* ReplaceFile and RepairFailedReplace stripped, loaded or gave up on, and   *)
(* whoever threw (EdgesHaveEnds).                                            *)
THEOREM EdgesJoin == Spec => []EdgesHaveEnds
<1>1. Inv => EdgesHaveEnds BY DEF Inv, Typed
<1> QED BY <1>1, Invariance, PTL

(* However an edit ends, no edge dangles, an edit that builds is not         *)
(* reverted, and Changed has fired while refused texts are mended            *)
(* (RevisionsSound).                                                         *)
THEOREM Revisions == ASSUME Steady PROVE Spec => []RevisionsSound
<1>1. Inv => RevisionsSound BY DEF Inv, Typed, Answered, RevisionsSound
<1> QED BY <1>1, Invariance, PTL

(* The nodes and their files are those a full build of the sources in force  *)
(* gives: the part of ImplementsModel about nodes.                           *)
NodesAsBuilt ==
    Habits[habit].mends =>
      LET built == FullBuild(members, sourcesOf)
      IN  DOMAIN graph.node = DOMAIN built.node
          /\ \A n \in DOMAIN graph.node : graph.node[n].file = built.node[n].file

(* Two graphs homed in the same sources have the same nodes in the same      *)
(* files.                                                                    *)
LEMMA HomedAlike ==
    ASSUME NEW ms, NEW s, Buildable(ms, s), NEW g, Homed(g, ms, s), NEW h, Homed(h, ms, s)
    PROVE  DOMAIN g.node = DOMAIN h.node /\ \A n \in DOMAIN g.node : g.node[n].file = h.node[n].file
<1>1. Unique(s, FilesOf(ms)) BY BuildableSays
<1>2. DOMAIN g.node = DOMAIN h.node BY DEF Homed
<1>3. ASSUME NEW n \in DOMAIN g.node PROVE g.node[n].file = h.node[n].file
  <2>1. /\ g.node[n].file \in FilesOf(ms) /\ Says(s, g.node[n].file, n)
        /\ h.node[n].file \in FilesOf(ms) /\ Says(s, h.node[n].file, n)
    BY <1>2 DEF Homed
  <2> QED BY <2>1, <1>1 DEF Says, Unique
<1> QED BY <1>2, <1>3

(* However many members and files were reloaded in place, and whatever       *)
(* failed on the way, the live graph has the nodes a from-scratch build has, *)
(* in the same files.                                                        *)
THEOREM NodesBuilt == ASSUME Steady PROVE Spec => []NodesAsBuilt
<1>1. Inv => NodesAsBuilt
  <2> SUFFICES ASSUME Inv, Habits[habit].mends
               PROVE  LET built == FullBuild(members, sourcesOf)
                      IN  DOMAIN graph.node = DOMAIN built.node
                          /\ \A n \in DOMAIN graph.node : graph.node[n].file = built.node[n].file
    BY DEF NodesAsBuilt
  <2>1. Buildable(members, sourcesOf) /\ Homed(graph, members, sourcesOf) /\ IsSources(sourcesOf)
    BY DEF Inv, Stands, Typed, TypeOK
  <2>2. Homed(FullBuild(members, sourcesOf), members, sourcesOf) BY <2>1, FullBuildHomed
  <2> QED BY <2>1, <2>2, HomedAlike
<1> QED BY <1>1, Invariance, PTL

-----------------------------------------------------------------------------
(* The abstract model, of the members and the sources in force; its graph is *)
(* what a full build of them gives.  (That the live graph equals it, edges   *)
(* and references included, is what ImplementsModel adds.)                   *)
Promise == INSTANCE SolutionModel
  WITH members <- WhileMending(members, {}), sources <- WhileMending(sourcesOf, NoSources),
       graph <- WhileMending(FullBuild(members, sourcesOf), EmptyGraph),
       request <- WhileMending(call.request, Ask("none", {}, NoSources))

(* The abstract module's operators are those of the build.                  *)
LEMMA SameOperators ==
    /\ Promise!EmptyGraph = EmptyGraph
    /\ \A ms : Promise!FilesOf(ms) = FilesOf(ms)
    /\ \A s : Promise!IsSources(s) = IsSources(s)
    /\ \A ms, s : Promise!Buildable(ms, s) = Buildable(ms, s)
    /\ \A ms, s : Promise!FullBuild(ms, s) = FullBuild(ms, s)
<1>1. Promise!EmptyGraph = EmptyGraph BY DEF Promise!EmptyGraph, EmptyGraph
<1>2. \A ms : Promise!FilesOf(ms) = FilesOf(ms) BY DEF Promise!FilesOf, FilesOf
<1>3. \A s : Promise!IsSources(s) = IsSources(s)
  BY DEF Promise!IsSources, IsSources, Promise!Texts, Texts, Promise!Decls, Decls
<1>4. \A s, fs : Promise!NamesIn(s, fs) = NamesIn(s, fs)
  BY DEF Promise!NamesIn, NamesIn, Promise!Declared, Declared
<1>5. \A g, s, fs : Promise!Loadable(g, s, fs) = Loadable(g, s, fs)
  BY <1>4 DEF Promise!Loadable, Loadable
<1>6. \A ms : Promise!Acyclic(ms) = Acyclic(ms)
  <2>1. Promise!Cardinality(Members) = Cardinality(Members)
    BY DEF Promise!Cardinality, Cardinality, Promise!IsFiniteSet, IsFiniteSet
  <2> QED BY <2>1 DEF Promise!Acyclic, Acyclic, Promise!DependentsOf, DependentsOf
<1>7. \A ms, s : Promise!Buildable(ms, s) = Buildable(ms, s)
  BY <1>1, <1>2, <1>5, <1>6 DEF Promise!Buildable, Buildable
<1>8. ASSUME NEW g, NEW s, NEW fs PROVE Promise!LoadFiles(g, s, fs) = LoadFiles(g, s, fs)
  BY DEF Promise!LoadFiles, LoadFiles, Promise!Known, Known, Promise!UpTo, UpTo,
     Promise!NamesIn, NamesIn, Promise!Declared, Declared
<1>9. ASSUME NEW g PROVE Promise!Resolved(g) = Resolved(g)
  BY DEF Promise!Resolved, Resolved, Promise!HasResolutionRules, HasResolutionRules
<1>10. ASSUME NEW ms, NEW s PROVE Promise!FullBuild(ms, s) = FullBuild(ms, s)
  BY <1>1, <1>2, <1>8, <1>9 DEF Promise!FullBuild, FullBuild
<1> QED BY <1>1, <1>2, <1>3, <1>7, <1>10

(* A revision of m leaves the sources of the other members alone.            *)
LEMMA RevisedSources ==
    ASSUME Typed, NEW m \in members, NEW w, IsSources(w), DOMAIN w \subseteq FilesOf({m})
    PROVE  LET s == Merge(Others(sourcesOf, m), w)
           IN  IsSources(s) /\ Agree(sourcesOf, s, FilesOf(members \ {m}))
<1> DEFINE o == Others(sourcesOf, m)
           s == Merge(o, w)
<1>1. IsSources(sourcesOf) BY DEF Typed, TypeOK
<1>2. /\ IsSources(o) /\ DOMAIN o = DOMAIN sourcesOf \ FilesOf({m})
      /\ \A f \in DOMAIN sourcesOf \ FilesOf({m}) : o[f] = sourcesOf[f]
  BY <1>1, OthersSources
<1> HIDE DEF o
<1>3. /\ IsSources(s) /\ DOMAIN s = DOMAIN o \cup DOMAIN w
      /\ \A f \in DOMAIN o \ DOMAIN w : s[f] = o[f]
  BY <1>2, MergeSources
<1> HIDE DEF s
<1>4. ASSUME NEW f \in FilesOf(members \ {m}) PROVE f \notin FilesOf({m}) BY DEF FilesOf
<1>5. Agree(sourcesOf, s, FilesOf(members \ {m})) BY <1>2, <1>3, <1>4 DEF Agree
<1> QED BY <1>3, <1>5 DEF s, o

(* What a revision asks for, and that it takes effect or does not.          *)
Revised ==
    LET r == call'.request IN
    /\ r.op = "revise" /\ r.members = members /\ IsSources(r.sources)
    /\ \E m \in members : Agree(sourcesOf, r.sources, FilesOf(members \ {m}))
    /\ members' = members
    /\ sourcesOf' = IF Buildable(members, r.sources) THEN r.sources ELSE sourcesOf

(* How Build ends.                                                           *)
Opened ==
    LET r == call'.request IN
    /\ r.op = "open" /\ r.members \subseteq Members /\ IsSources(r.sources)
    /\ IF Buildable(r.members, r.sources) THEN members' = r.members /\ sourcesOf' = r.sources
       ELSE UNCHANGED <<members, sourcesOf>>

(* How a call about something unknown ends.                                  *)
Ignored == call'.request = Ask("unknown", {}, NoSources) /\ UNCHANGED <<members, sourcesOf>>

(* An answered edit is a revision of the abstract model.                     *)
LEMMA EditedRevises ==
    ASSUME Typed, NEW m \in members, NEW w, IsSources(w), DOMAIN w \subseteq FilesOf({m}), Habits[habit].mends,
           Edited(Ask("revise", members, Merge(Others(sourcesOf, m), w)))
    PROVE  Revised
<1> DEFINE s == Merge(Others(sourcesOf, m), w)
           asked == Ask("revise", members, s)
<1>1. IsSources(s) /\ Agree(sourcesOf, s, FilesOf(members \ {m})) BY RevisedSources
<1>2. asked.op = "revise" /\ asked.members = members /\ asked.sources = s BY DEF Ask
<1>3. Edited(asked) OBVIOUS
<1> HIDE DEF asked, s
<1>4. call'.request = asked /\ members' = members BY <1>3 DEF Edited
<1>5. sourcesOf' = IF Buildable(members, s) THEN s ELSE sourcesOf BY <1>2, <1>3 DEF Edited
<1> QED BY <1>1, <1>2, <1>4, <1>5 DEF Revised

(* Every step, while refused texts are mended, is one of the three.          *)
LEMMA StepKinds ==
    ASSUME Inv, Steady, Habits[habit].mends, Next
    PROVE  Opened \/ Revised \/ Ignored
<1>1. Typed /\ Call /\ habit' = habit /\ Stands BY NextCalls DEF Inv
<1>2. ASSUME NEW ms \in SUBSET Members, Build(ms)
      PROVE  Opened
  <2> DEFINE w == Restrict(text, DOMAIN text \cap FilesOf(ms))
  <2>1. IsSources(w)
    <3>1. IsSources(text) BY <1>1 DEF Typed, TypeOK
    <3> QED BY <3>1, RestrictSources
  <2> DEFINE g == FullBuild(ms, w)
  <2>2. CASE Buildable(ms, w)
    <3>1. members' = ms /\ \E boom \in Throws : Finish(Ask("open", ms, w), w, g, <<Whole(g, ms)>>, boom)
      BY <1>2, <2>2 DEF Build
    <3> HIDE DEF w, g
    <3>2. call'.request = Ask("open", ms, w) /\ members' = ms /\ sourcesOf' = w BY <3>1 DEF Finish
    <3> QED BY <2>1, <2>2, <3>2 DEF Ask, Opened
  <2>3. CASE ~Buildable(ms, w)
    <3>1. members' = members /\ Finish(Ask("open", ms, w), sourcesOf, graph, <<>>, TRUE)
      BY <1>2, <2>3 DEF Build
    <3> HIDE DEF w, g
    <3>2. call'.request = Ask("open", ms, w) /\ UNCHANGED <<members, sourcesOf>> BY <3>1 DEF Finish
    <3> QED BY <2>1, <2>3, <3>2 DEF Ask, Opened
  <2> QED BY <2>2, <2>3
<1>3. ASSUME NEW m, NEW w, IsSources(w), DOMAIN w \subseteq FilesOf({m}), ReplaceMember(m, w)
      PROVE  Revised \/ Ignored
  <2>1. CASE m \in members
    <3>1. Edited(Ask("revise", members, Merge(Others(sourcesOf, m), w))) BY <1>1, <1>3, <2>1, MemberEdited
    <3> QED BY <1>1, <1>3, <2>1, <3>1, EditedRevises
  <2>2. CASE m \notin members BY <1>3, <2>2 DEF ReplaceMember, Finish, Ignored
  <2> QED BY <2>1, <2>2
<1>4. ASSUME NEW f \in Files, NEW t \in Texts, ReplaceFile(f, t)
      PROVE  Revised \/ Ignored
  <2>1. CASE f \in DOMAIN sourcesOf
    <3> DEFINE m == Home[f]
               one == [g \in {f} |-> t]
               w == Merge(Of(text, m), one)
    <3>1. IsSources(text) /\ DOMAIN sourcesOf \subseteq FilesOf(members) BY <1>1 DEF Typed, TypeOK
    <3>2. m \in members /\ f \in FilesOf({m}) BY <2>1, <3>1 DEF FilesOf
    <3>3. IsSources(one) /\ DOMAIN one = {f} BY DEF IsSources
    <3>4. IsSources(Of(text, m)) /\ DOMAIN Of(text, m) = DOMAIN text \cap FilesOf({m}) BY <3>1, OthersSources
    <3> HIDE DEF one
    <3>5. IsSources(w) /\ DOMAIN w = DOMAIN Of(text, m) \cup DOMAIN one BY <3>3, <3>4, MergeSources
    <3>6. DOMAIN w \subseteq FilesOf({m}) BY <3>2, <3>3, <3>4, <3>5
    <3>7. Edited(Ask("revise", members, Merge(Others(sourcesOf, m), w))) BY <1>1, <1>4, <2>1, FileEdited DEF one
    <3> HIDE DEF w, m
    <3> QED BY <1>1, <3>2, <3>5, <3>6, <3>7, EditedRevises
  <2>2. CASE f \notin DOMAIN sourcesOf BY <1>4, <2>2 DEF ReplaceFile, Finish, Ignored
  <2> QED BY <2>1, <2>2
<1> QED BY <1>1, <1>2, <1>3, <1>4 DEF Call

(* Building nothing gives the empty graph.                                   *)
LEMMA EmptyBuild == FullBuild({}, NoSources) = EmptyGraph
<1>1. FilesOf({}) = {} /\ DOMAIN NoSources = {} BY DEF FilesOf, NoSources
<1>2. NamesIn(NoSources, {}) = {} BY DEF NamesIn, Declared
<1>3. LoadFiles(EmptyGraph, NoSources, {}) =
        [node |-> EmptyGraph.node, edges |-> {}, unresolved |-> EmptyGraph.unresolved, folded |-> {}]
  BY <1>1, <1>2 DEF LoadFiles, EmptyGraph
<1>4. LoadFiles(EmptyGraph, NoSources, {}) = EmptyGraph BY <1>3 DEF EmptyGraph
<1>5. ~HasResolutionRules(EmptyGraph) BY DEF HasResolutionRules, EmptyGraph
<1>6. Resolved(EmptyGraph) = EmptyGraph BY <1>5 DEF Resolved, EmptyGraph
<1> QED BY <1>1, <1>4, <1>6 DEF FullBuild

(* SolutionGraph implements the abstract model of the solution: a request    *)
(* takes effect whole exactly when what it asks for builds, a revision       *)
(* touches one member, and anything else changes nothing.                    *)
THEOREM KeepsPromise == ASSUME Steady PROVE Spec => Promise!Spec
<1>1. Init => Promise!Init
  <2> SUFFICES ASSUME Init PROVE Promise!Init OBVIOUS
  <2>1. FullBuild(members, sourcesOf) = EmptyGraph BY EmptyBuild DEF Init
  <2>2. WhileMending(members, {}) = {} /\ WhileMending(sourcesOf, NoSources) = NoSources
        /\ WhileMending(FullBuild(members, sourcesOf), EmptyGraph) = EmptyGraph
        /\ WhileMending(call.request, Ask("none", {}, NoSources)) = Ask("none", {}, NoSources)
    BY <2>1 DEF Init, WhileMending
  <2> QED BY <2>2, SameOperators DEF Promise!Init, Promise!NoRequest, Ask, NoSources
<1>2. Inv /\ [Next]_vars => [Promise!Next]_(Promise!vars)
  <2> SUFFICES ASSUME Inv, [Next]_vars PROVE Promise!Next \/ UNCHANGED Promise!vars OBVIOUS
  <2>1. CASE UNCHANGED vars BY <2>1 DEF vars, Promise!vars, WhileMending
  <2>2. CASE Next /\ ~Habits[habit].mends
    <3>1. habit' = habit BY <2>2 DEF Next
    <3> QED BY <2>2, <3>1 DEF Promise!vars, WhileMending
  <2>3. CASE Next /\ Habits[habit].mends
    <3>1. habit' = habit BY <2>3 DEF Next
    <3> DEFINE M == WhileMending(members, {})
               S == WhileMending(sourcesOf, NoSources)
               G == WhileMending(FullBuild(members, sourcesOf), EmptyGraph)
               R == WhileMending(call.request, Ask("none", {}, NoSources))
    <3>2. /\ M = members /\ M' = members' /\ S = sourcesOf /\ S' = sourcesOf'
          /\ G = FullBuild(members, sourcesOf) /\ G' = FullBuild(members', sourcesOf')
          /\ R = call.request /\ R' = call'.request
      BY <2>3, <3>1 DEF WhileMending
    <3> HIDE DEF M, S, G, R
    <3>3. (IF Buildable(R'.members, R'.sources)
           THEN M' = R'.members /\ S' = R'.sources /\ G' = FullBuild(M', S')
           ELSE UNCHANGED <<M, S, G>>) => Promise!Answer
      BY SameOperators DEF Promise!Answer, M, S, G, R
    <3>4. CASE Opened
      <4>1. Promise!Answer BY <3>2, <3>3, <3>4 DEF Opened
      <4>2. R'.members \subseteq Members /\ IsSources(R'.sources) /\ R'.op = "open"
        BY <3>2, <3>4 DEF Opened
      <4> QED BY <4>1, <4>2, SameOperators DEF Promise!Next, Promise!Open, Promise!IsRequest, R
    <3>5. CASE Revised
      <4>1. R'.op = "revise" /\ R'.members = M /\ IsSources(R'.sources) /\ M' = M
            /\ S' = IF Buildable(M, R'.sources) THEN R'.sources ELSE S
        BY <3>2, <3>5 DEF Revised
      <4>2. R'.members \subseteq Members
        BY <3>2, <4>1 DEF Inv, Typed, TypeOK
      <4>3. PICK m \in M : \A f \in FilesOf(M \ {m}) : (f \in DOMAIN S <=> f \in DOMAIN R'.sources)
                                                     /\ (f \in DOMAIN S => S[f] = R'.sources[f])
        BY <3>2, <3>5 DEF Revised, Agree
      <4>4. G = FullBuild(M, S) /\ G' = FullBuild(M', S') BY <3>2
      <4>5. Promise!Answer BY <3>3, <4>1, <4>4
      <4>6. \E q \in M : \A f \in Promise!FilesOf(M \ {q}) :
              /\ f \in DOMAIN S <=> f \in DOMAIN R'.sources
              /\ f \in DOMAIN S => R'.sources[f] = S[f]
        BY <4>3, SameOperators
      <4>7. Promise!IsSources(R'.sources) BY <4>1, SameOperators
      <4>8. Promise!Revise BY <4>1, <4>2, <4>5, <4>6, <4>7 DEF Promise!Revise, Promise!IsRequest, M, S, R
      <4> QED BY <4>8 DEF Promise!Next
    <3>6. CASE Ignored
      <4>1. R' = Ask("unknown", {}, NoSources) /\ UNCHANGED <<M, S, G>> BY <3>2, <3>6 DEF Ignored
      <4>2. IsSources(NoSources) BY DEF IsSources, NoSources
      <4>3. R'.op = "unknown" /\ R'.members = {} /\ R'.sources = NoSources BY <4>1 DEF Ask
      <4>4. Promise!IsSources(R'.sources) BY <4>2, <4>3, SameOperators
      <4>5. R'.members \subseteq Members BY <4>3
      <4>6. Promise!Unknown BY <4>1, <4>3, <4>4, <4>5 DEF Promise!Unknown, Promise!IsRequest, M, S, G, R
      <4> QED BY <4>6 DEF Promise!Next
    <3> QED BY <2>3, <3>4, <3>5, <3>6, StepKinds
  <2> QED BY <2>1, <2>2, <2>3
<1> QED BY <1>1, <1>2, Invariance, PTL DEF Spec, Promise!Spec
=============================================================================
