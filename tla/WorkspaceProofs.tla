--------------------------- MODULE WorkspaceProofs ---------------------------
(***************************************************************************)
(* The solution manager within the workspace, for any folders, projects,   *)
(* names, mixes of calls and bounds.                                       *)
(*                                                                         *)
(* Every step of a call is Step, which keeps the objects somebody refers   *)
(* to; so the invariant (Managed) is stated of the objects, the active     *)
(* one, the calls and what is stored around them, one lemma says what Step *)
(* needs to keep it (StepKeeps), and there is a lemma for each operation.  *)
(* When calls do not overlap it also says what the call under way knows:   *)
(* that the solution it replaces is clean or was given up, that the        *)
(* content it writes is the content of the active solution, that no member *)
(* has the path it is about to add (CallFits).                             *)
(***************************************************************************)
EXTENDS MCWorkspace, FiniteSetTheorems, WellFoundedInduction, TLAPS

(* The variables of the workspace.                                          *)
everything == <<subject, vars, observing, operating, keeping, living>>

(* A set of natural numbers has a least one.                                *)
LEMMA LeastNatural == ASSUME NEW S \in SUBSET Nat, S # {} PROVE \E x \in S : \A y \in S : x <= y
<1> DEFINE W == {0..n : n \in S}
<1>1. W # {} /\ W \subseteq FiniteSubsetsOf(Nat)
  <2>1. PICK n \in S : TRUE OBVIOUS
  <2>2. 0..n \in W BY <2>1
  <2>3. ASSUME NEW w \in W PROVE w \in FiniteSubsetsOf(Nat)
    <3>1. PICK i \in S : w = 0..i OBVIOUS
    <3>2. IsFiniteSet(0..i) BY FS_Interval
    <3>3. 0..i \in SUBSET Nat OBVIOUS
    <3> QED BY <3>1, <3>2, <3>3 DEF FiniteSubsetsOf
  <2> QED BY <2>2, <2>3
<1>2. PICK X \in W : \A Y \in W : <<Y, X>> \notin StrictSubsetOrdering(Nat)
  <2> HIDE DEF W
  <2> QED BY <1>1, FS_StrictSubsetOrderingWellFounded, WFMin
<1>3. PICK x \in S : X = 0..x OBVIOUS
<1>4. ASSUME NEW y \in S PROVE x <= y
  <2>1. <<0..y, 0..x>> \notin StrictSubsetOrdering(Nat) BY <1>2, <1>3
  <2>2. SUFFICES ASSUME y < x PROVE FALSE OBVIOUS
  <2>3. 0..y \subseteq 0..x /\ x \in 0..x /\ x \notin 0..y /\ 0..x \subseteq Nat BY <2>2
  <2> QED BY <2>1, <2>3 DEF StrictSubsetOrdering
<1> QED BY <1>4

(* No two items of a sequence are equal.                                    *)
Once(s) == \A i, j \in 1..Len(s) : i # j => s[i] # s[j]

(* recentSolutions.filter: what Without leaves holds f no more, and each    *)
(* folder as often as before at most.                                       *)
LEMMA WithoutShape ==
    ASSUME NEW S, NEW s \in Seq(S), NEW f
    PROVE  LET t == Without(s, f)
           IN  t \in Seq(S) /\ (\A i \in 1..Len(t) : t[i] # f) /\ (Once(s) => Once(t))
<1> DEFINE N == Len(s)
           step(k, t) == IF k = 0 THEN << >> ELSE IF s[k] = f THEN t ELSE Append(t, s[k])
           is(g, n) == g = [k \in 0..n |-> step(k, g[k - 1])]
           R == CHOOSE g : is(g, N)
           Fine(k, t) == /\ t \in Seq(S)
                         /\ \A i \in 1..Len(t) : t[i] # f /\ \E j \in 1..k : t[i] = s[j]
                         /\ Once(s) => Once(t)
<1>1. Without(s, f) = R[N] BY DEF Without
<1>2. N \in Nat OBVIOUS
<1>3. Fine(0, << >>) BY DEF Once
<1>4. ASSUME NEW k \in 1..N, NEW t, Fine(k - 1, t) PROVE Fine(k, step(k, t))
  <2>0. \A j \in 1..(k - 1) : j \in 1..k OBVIOUS
  <2>1. CASE s[k] = f
    <3>1. step(k, t) = t BY <2>1
    <3> QED BY <1>4, <2>0, <3>1
  <2>2. CASE s[k] # f
    <3>1. step(k, t) = Append(t, s[k]) BY <2>2
    <3> DEFINE u == Append(t, s[k])
    <3>2. u \in Seq(S) /\ Len(u) = Len(t) + 1 /\ u[Len(t) + 1] = s[k] /\ \A i \in 1..Len(t) : u[i] = t[i]
      BY <1>4
    <3> HIDE DEF u
    <3>3. ASSUME NEW i \in 1..Len(u) PROVE u[i] # f /\ \E j \in 1..k : u[i] = s[j]
      <4>1. CASE i = Len(t) + 1 BY <4>1, <3>2, <2>2
      <4>2. CASE i \in 1..Len(t) BY <4>2, <3>2, <1>4, <2>0
      <4> QED BY <4>1, <4>2, <3>2, <1>4
    <3>4. ASSUME Once(s) PROVE Once(u)
      <4>1. Once(t) BY <3>4, <1>4
      <4>2. ASSUME NEW i \in 1..Len(t) PROVE u[i] # s[k]
        <5>1. PICK j \in 1..(k - 1) : t[i] = s[j] BY <1>4
        <5>2. j # k /\ j \in 1..Len(s) /\ k \in 1..Len(s) BY <2>0
        <5> QED BY <5>1, <5>2, <3>2, <3>4 DEF Once
      <4>3. ASSUME NEW i \in 1..Len(u), NEW j \in 1..Len(u), i # j PROVE u[i] # u[j]
        <5>1. i \in 1..Len(t) \/ i = Len(t) + 1 BY <3>2, <1>4
        <5>2. j \in 1..Len(t) \/ j = Len(t) + 1 BY <3>2, <1>4
        <5>3. CASE i \in 1..Len(t) /\ j \in 1..Len(t) BY <4>1, <4>3, <5>3, <3>2 DEF Once
        <5>4. CASE i \in 1..Len(t) /\ j = Len(t) + 1 BY <4>2, <5>4, <3>2
        <5>5. CASE j \in 1..Len(t) /\ i = Len(t) + 1 BY <4>2, <5>5, <3>2
        <5> QED BY <5>1, <5>2, <5>3, <5>4, <5>5, <4>3
      <4> QED BY <4>3 DEF Once
    <3> QED BY <3>1, <3>2, <3>3, <3>4 DEF u
  <2> QED BY <2>1, <2>2
<1>5. step(0, R[0 - 1]) = << >> OBVIOUS
<1> HIDE DEF step, N, Fine
<1>6. \E g : is(g, N)
  <2> DEFINE Failing == {n \in Nat : ~\E g : is(g, n)}
  <2>1. SUFFICES ASSUME Failing # {} PROVE FALSE BY <1>2
  <2>2. PICK n \in Failing : \A y \in Failing : n <= y BY <2>1, LeastNatural
  <2>3. CASE n = 0
    <3> DEFINE g == [k \in 0..0 |-> << >>]
    <3>1. step(0, g[0 - 1]) = << >> BY DEF step
    <3>2. is(g, 0) BY <3>1
    <3> QED BY <2>2, <2>3, <3>2
  <2>4. CASE n # 0
    <3>1. n - 1 \in Nat /\ n - 1 \notin Failing BY <2>2, <2>4
    <3>2. PICK g : is(g, n - 1) BY <3>1
    <3> DEFINE h == [k \in 0..n |-> IF k = n THEN step(n, g[n - 1]) ELSE g[k]]
    <3>3. ASSUME NEW k \in 0..n PROVE h[k] = step(k, h[k - 1])
      <4>1. CASE k = n BY <4>1, <2>4, <3>1
      <4>2. CASE k # n /\ k # 0
        <5>1. k \in 0..(n - 1) /\ k - 1 \in 0..n /\ k - 1 # n BY <4>2, <3>1
        <5>2. g[k] = step(k, g[k - 1]) BY <3>2, <5>1
        <5> QED BY <4>2, <5>1, <5>2
      <4>3. CASE k = 0
        <5>1. 0 \in 0..(n - 1) BY <3>1
        <5>2. g[0] = step(0, g[0 - 1]) BY <3>2, <5>1
        <5>3. step(0, g[0 - 1]) = << >> /\ step(0, h[0 - 1]) = << >> BY DEF step
        <5> QED BY <4>3, <5>2, <5>3, <2>4
      <4> QED BY <4>1, <4>2, <4>3
    <3>4. is(h, n) BY <3>3
    <3> QED BY <3>4, <2>2
  <2> QED BY <2>3, <2>4
<1>7. is(R, N) BY <1>6
<1> HIDE DEF R
<1>8. \A k \in 0..N : Fine(k, R[k])
  <2> DEFINE Failing == {k \in 0..N : ~Fine(k, R[k])}
  <2>1. SUFFICES ASSUME Failing # {} PROVE FALSE OBVIOUS
  <2>2. Failing \in SUBSET Nat BY <1>2
  <2>3. PICK k \in Failing : \A y \in Failing : k <= y BY <2>1, <2>2, LeastNatural
  <2>4. R[k] = step(k, R[k - 1]) BY <1>7
  <2>5. k # 0 => k \in 1..N /\ k - 1 \in 0..N /\ Fine(k - 1, R[k - 1]) BY <1>2, <2>3
  <2>6. k = 0 => R[k] = << >> BY <1>5, <2>4
  <2> QED BY <1>3, <1>4, <2>3, <2>4, <2>5, <2>6
<1>9. Fine(N, R[N]) BY <1>2, <1>8
<1> QED BY <1>1, <1>9 DEF Fine

-----------------------------------------------------------------------------
(* The solutions.                                                           *)
(* The solution a user agreed to discard, if any.                           *)
Agreed == Slots \cup {None}
(* What a call can be doing, stage by stage.                                *)
CallStates ==
    {Idle}
    \cup [op : {"untitled", "close"}, pc : {"ask", "go"}, agreed : Agreed]
    \cup [op : {"new"}, pc : {"ask", "go"}, agreed : Agreed, folder : Folders, name : Names]
    \cup [op : {"open", "restore"}, pc : {"ask", "go"}, agreed : Agreed, folder : Folders \cup {None}]
    \cup [op : {"open", "restore"}, pc : {"read"}, file : Names, agreed : Agreed, folder : Folders]
    \cup [op : {"open", "restore"}, pc : {"members"}, sol : Slots, agreed : Agreed, folder : Folders]
    \cup [op : {"openProject"}, pc : {"manifest"}, sol : Slots, project : Projects, path : Paths]
    \cup [op : {"openProject"}, pc : {"opening"}, sol : Slots, id : Nat, project : Projects]
    \cup [op : {"save"}, pc : {"pick"}]
    \cup [op : {"save"}, pc : {"write"}, sol : Slots, file : Names, content : Manifests]
    \cup [op : {"saveAs"}, pc : {"writeAs"}, sol : Slots, folder : Folders, file : Names, content : Manifests]
    \cup [op : {"rename"}, pc : {"exists", "move"}, sol : Slots, from : Names, to : Names]
(* The objects by slot.                                                     *)
Stores == [Slots -> Solutions \cup {None}]

(* Each folder holds manifests under names.                                 *)
IsDisk(d) ==
    /\ d = [f \in Folders |-> d[f]]
    /\ \A f \in Folders : DOMAIN d[f] \subseteq Names /\ d[f] \in [DOMAIN d[f] -> Manifests]
(* The session slices.                                                      *)
Sessions == Seq(Folders) \X (Folders \cup {None})

(* The calls of a behaviour run one at a time.                              *)
Single(fs) == "overlap" \notin fs
(* No two members have one path.                                            *)
PathsOnce(ms) == \A j, k \in DOMAIN ms : j # k => ms[j].path # ms[k].path
(* Every manifest on disk names a project once.                             *)
DiskOnce(d) == \A f \in Folders : \A n \in DOMAIN d[f] : PathsOnce(d[f][n].members)

(* A solution object: each project once, dirty if it holds more than was    *)
(* saved; without edits an untitled one has nothing but members.            *)
Fit(s, fs) ==
    /\ Single(fs) => PathsOnce(s.members) /\ (Unsaved(s) => s.dirty)
    /\ Untitled(s) /\ "edit" \notin fs => s.settings = s.saved.settings

(* The two halves of a session slice agree.                                 *)
Remembers(pair) ==
    /\ Once(pair[1])
    /\ pair[2] # None => pair[1] # << >> /\ pair[1][1] = pair[2]

(* The objects, the active one and the calls that hold one; a call that     *)
(* writes where its solution is holds one that has a place.                 *)
Writes(k) == k.op = "rename" \/ (k.op = "save" /\ k.pc = "write")
Objects(ss, a, ks, fs) ==
    /\ ss \in Stores /\ a \in Agreed /\ ks \in [Calls -> CallStates]
    /\ a # None => ss[a] # None
    /\ \A c \in Calls, i \in Slots : Holds(ks[c], i) => ss[i] # None
    /\ \A i \in Slots : ss[i] # None => i = a \/ \E c \in Calls : Holds(ks[c], i)
    /\ \A i \in Slots : ss[i] # None => Fit(ss[i], fs)
    /\ \A c \in Calls : Writes(ks[c]) => ss[ks[c].sol].root \in Folders

(* One call at a time: what the call under way knows is so.                 *)
CallFits(k, ss, a, d, fs) ==
    /\ k.op \in {"openProject", "saveAs"} \/ Writes(k) => k.sol = a
    /\ k.op = "openProject" =>
          /\ "openProject" \in fs
          /\ k.pc = "manifest" => \A j \in DOMAIN ss[a].members : ss[a].members[j].path # k.path
    /\ k.op = "saveAs" \/ (k.op = "save" /\ k.pc = "write") => k.content = Content(ss[a])
    /\ k.op \in {"new", "untitled", "close", "open", "restore"} =>
          IF k.pc = "ask" THEN a # None ELSE a = None \/ k.agreed = a \/ ~ss[a].dirty
    /\ k.op \in {"open", "restore"} /\ k.pc = "members" =>
          LET s == ss[k.sol] IN
          /\ s.root = k.folder /\ ~s.dirty
          /\ s.name \in DOMAIN d[s.root] /\ Content(s) = d[s.root][s.name]

(* The call reopens the remembered solution.                                *)
Reopens(k) == k.op = "restore" /\ k.folder # None

(* With one call at a time: it is the only one, what it knows is so, and no *)
(* folder is remembered while nothing is active and nothing is being        *)
(* reopened.                                                                *)
Alone(ss, a, ks, l, d, on, fs) ==
    /\ \A c, e \in Calls : ks[c] # Idle /\ ks[e] # Idle => c = e
    /\ \A c \in Calls : CallFits(ks[c], ss, a, d, fs)
    /\ on /\ a = None => l = None \/ \E c \in Calls : Reopens(ks[c])
    /\ DiskOnce(d)

(* What is not in an object: the disk and the two session slices.           *)
Around(d, r, l, st, e, on) ==
    /\ IsDisk(d) /\ r \in Seq(Folders) /\ l \in Folders \cup {None} /\ st \in Sessions
    /\ Remembers(<<r, l>>) /\ Remembers(st) /\ e \in Nat /\ on \in BOOLEAN

(* The inductive invariant of the solution manager.                         *)
Managed ==
    /\ Objects(sols, active, call, features)
    /\ Around(disk, recent, last, stored, edits, started)
    /\ features \in Mixes
    /\ Single(features) => Alone(sols, active, call, last, disk, started, features)
(* The same of the behaviours of the workspace that manage solutions.       *)
SolutionsInv == subject = "solutions" => Managed

-----------------------------------------------------------------------------
(* What Step assigns.                                                       *)
LEMMA StepIs ==
    ASSUME NEW c \in Calls, NEW ss, NEW a, NEW k, Step(c, ss, a, k), Objects(sols, active, call, features)
    PROVE  /\ sols' = [i \in Slots |-> IF i = a \/ \E e \in Calls : Holds(call'[e], i) THEN ss[i] ELSE None]
           /\ active' = a
           /\ call' = [call EXCEPT ![c] = k]
           /\ call'[c] = k /\ \A e \in Calls \ {c} : call'[e] = call[e]
BY DEF Step, Objects

(* A step of a call keeps the invariant if the objects it leaves are in     *)
(* order and the state the call goes on in fits them.                       *)
LEMMA StepKeeps ==
    ASSUME Managed, NEW c \in Calls, UNCHANGED features,
           Single(features) => \A e \in Calls \ {c} : call[e] = Idle,
           NEW ss \in Stores, NEW a \in Agreed, NEW k \in CallStates, Step(c, ss, a, k),
           a # None => ss[a] # None,
           \A i \in Slots : Holds(k, i) => ss[i] # None,
           \A i \in Slots : sols[i] # None => ss[i] # None /\ ss[i].root = sols[i].root,
           \A i \in Slots : ss[i] # None => Fit(ss[i], features),
           Writes(k) => ss[k.sol].root \in Folders,
           Around(disk', recent', last', stored', edits', started'),
           Single(features) =>
              /\ CallFits(k, ss, a, disk', features) /\ DiskOnce(disk')
              /\ started' /\ a = None => last' = None \/ Reopens(k)
    PROVE  Managed'
<1>0. Objects(sols, active, call, features) BY DEF Managed
<1>1. /\ sols' = [i \in Slots |-> IF i = a \/ \E e \in Calls : Holds(call'[e], i) THEN ss[i] ELSE None]
      /\ active' = a /\ call' = [call EXCEPT ![c] = k]
      /\ call'[c] = k /\ \A e \in Calls \ {c} : call'[e] = call[e]
  BY <1>0, StepIs
<1>2. sols' \in Stores /\ call' \in [Calls -> CallStates] BY <1>0, <1>1 DEF Stores, Objects
<1>3. a # None => a \in Slots /\ sols'[a] = ss[a] BY <1>1 DEF Agreed
<1>4. \A e \in Calls, i \in Slots : Holds(call'[e], i) => sols'[i] = ss[i] /\ ss[i] # None
  <2>1. \A e \in Calls \ {c}, i \in Slots : Holds(call[e], i) => sols[i] # None BY <1>0 DEF Objects
  <2> QED BY <1>1, <2>1
<1>5. \A i \in Slots : sols'[i] # None => sols'[i] = ss[i] BY <1>1
<1>6. \A e \in Calls : Writes(call'[e]) => call'[e].sol \in Slots /\ Holds(call'[e], call'[e].sol)
  BY <1>2 DEF Writes, Holds, CallStates, Idle
<1>7. \A e \in Calls : Writes(call'[e]) => sols'[call'[e].sol].root \in Folders
  <2> SUFFICES ASSUME NEW e \in Calls, Writes(call'[e]) PROVE sols'[call'[e].sol].root \in Folders OBVIOUS
  <2>1. sols'[call'[e].sol] = ss[call'[e].sol] BY <1>4, <1>6
  <2>2. CASE e = c BY <2>1, <2>2, <1>1
  <2>3. CASE e # c
    <3>1. call'[e] = call[e] /\ call[e].sol \in Slots /\ Holds(call[e], call[e].sol) BY <2>3, <1>1, <1>6
    <3>2. sols[call[e].sol] # None /\ sols[call[e].sol].root \in Folders BY <3>1, <1>0 DEF Objects
    <3> QED BY <2>1, <3>1, <3>2
  <2> QED BY <2>2, <2>3
<1>10. \A i \in Slots : sols'[i] # None => i = active' \/ \E e \in Calls : Holds(call'[e], i) BY <1>1
<1>8. Objects(sols', active', call', features) BY <1>1, <1>2, <1>3, <1>4, <1>5, <1>7, <1>10 DEF Objects
<1>9. ASSUME Single(features) PROVE Alone(sols', active', call', last', disk', started', features)
  <2>1. \A e, g \in Calls : call'[e] # Idle /\ call'[g] # Idle => e = g BY <1>1, <1>9
  <2>2. \A e \in Calls \ {c} : call'[e] = Idle BY <1>1, <1>9
  <2>3. CallFits(Idle, sols', a, disk', features) BY DEF CallFits, Idle, Writes
  <2>4. CallFits(k, sols', a, disk', features)
    <3>1. k.op \in {"openProject", "saveAs"} \/ Writes(k) \/ (k.op \in {"open", "restore"} /\ k.pc = "members")
            => k.sol \in Slots /\ Holds(k, k.sol)
      BY DEF CallStates, Writes, Holds, Idle
    <3>2. k.op \in {"openProject", "saveAs"} \/ Writes(k) \/ (k.op \in {"open", "restore"} /\ k.pc = "members")
            => sols'[k.sol] = ss[k.sol]
      BY <3>1, <1>1, <1>4
    <3>3. CallFits(k, ss, a, disk', features) BY <1>9
    <3>4. k.op = "save" /\ k.pc = "write" => Writes(k) BY DEF Writes
    <3> QED BY <3>2, <3>3, <3>4, <1>3 DEF CallFits
  <2>5. \A e \in Calls : CallFits(call'[e], sols', a, disk', features) BY <1>1, <2>2, <2>3, <2>4
  <2>6. started' /\ a = None => last' = None \/ \E e \in Calls : Reopens(call'[e]) BY <1>1, <1>9
  <2> QED BY <1>1, <1>9, <2>1, <2>5, <2>6 DEF Alone
<1> QED BY <1>8, <1>9 DEF Managed

(* There is always a slot for another object: one more than the calls and   *)
(* the active solution can hold.                                            *)
LEMMA SlotFree ==
    ASSUME Objects(sols, active, call, features)
    PROVE  FreeSlot \in Slots /\ FreeSlot # active /\ (\A c \in Calls : ~Holds(call[c], FreeSlot))
           /\ sols[FreeSlot] = None
<1> DEFINE N == Cardinality(Calls)
<1>1. IsFiniteSet(Calls) /\ N \in Nat BY BoundsAssumption, FS_CardinalityType
<1>2. IsFiniteSet(Slots) /\ Cardinality(Slots) = N + 2
  <2>1. Slots = 1..(N + 2) BY DEF Slots
  <2> QED BY <1>1, <2>1, FS_Interval
<1>3. PICK tag : tag \notin Calls
  <2>1. \E x : x \notin Calls BY NoSetContainsEverything
  <2> QED BY <2>1
<1>4. IsFiniteSet(Calls \cup {tag}) /\ Cardinality(Calls \cup {tag}) = N + 1 BY <1>1, <1>3, FS_AddElement
<1>5. Free # {}
  <2>1. SUFFICES ASSUME Free = {} PROVE FALSE OBVIOUS
  <2> DEFINE f == [i \in Slots |-> IF active = i THEN tag ELSE CHOOSE c \in Calls : Holds(call[c], i)]
  <2>2. \A i \in Slots : active = i \/ \E c \in Calls : Holds(call[c], i) BY <2>1 DEF Free
  <2>4. \A i \in Slots : active # i => f[i] \in Calls /\ Holds(call[f[i]], i) BY <2>2
  <2>7. \A i \in Slots : active = i => f[i] = tag OBVIOUS
  <2>3. f \in [Slots -> Calls \cup {tag}]
    <3> DEFINE T == Calls \cup {tag}
    <3>1. \A i \in Slots : f[i] \in T BY <2>4, <2>7
    <3> HIDE DEF T
    <3> QED BY <3>1
  <2> HIDE DEF f
  <2>5. Cardinality(Calls \cup {tag}) < Cardinality(Slots) BY <1>1, <1>2, <1>4
  <2>6. PICK i \in Slots, j \in Slots : i # j /\ f[i] = f[j] BY <1>2, <1>4, <2>3, <2>5, FS_PigeonHole
  <2> QED BY <2>4, <2>6, <2>7, <1>3 DEF Holds
<1>6. FreeSlot \in Free BY <1>5 DEF FreeSlot
<1>7. FreeSlot \in Slots /\ FreeSlot # active /\ \A c \in Calls : ~Holds(call[c], FreeSlot)
  BY <1>6 DEF Free
<1> QED BY <1>7 DEF Objects

(* There is always a number for another member.                             *)
LEMMA MemberIdFree ==
    ASSUME NEW s \in Solutions, Len(s.members) < MaxMembers
    PROVE  NewMemberId(s) \in Nat /\ \A j \in DOMAIN s.members : s.members[j].id # NewMemberId(s)
<1> DEFINE Ids == 1..2 * MaxMembers + 2
           D == DOMAIN s.members
<1>0. MaxMembers \in Nat BY BoundsAssumption
<1>1. D = 1..Len(s.members) /\ Len(s.members) \in Nat BY DEF Solutions
<1>2. IsFiniteSet(D) /\ Cardinality(D) = Len(s.members)
  <2> DEFINE L == Len(s.members)
  <2>1. L \in Nat /\ D = 1..L BY <1>1
  <2> HIDE DEF L, D
  <2>2. IsFiniteSet(1..L) /\ Cardinality(1..L) = L BY <2>1, FS_Interval
  <2> QED BY <2>1, <2>2 DEF L
<1>3. IsFiniteSet(Ids) /\ Cardinality(Ids) = 2 * MaxMembers + 2
  <2>1. 2 * MaxMembers + 2 \in Nat BY <1>0
  <2> QED BY <2>1, FS_Interval
<1>4. \E id \in Ids : \A j \in D : s.members[j].id # id
  <2>1. SUFFICES ASSUME \A id \in Ids : \E j \in D : s.members[j].id = id PROVE FALSE OBVIOUS
  <2> DEFINE f == [id \in Ids |-> CHOOSE j \in D : s.members[j].id = id]
  <2> HIDE DEF Ids, D
  <2>2. f \in [Ids -> D] /\ \A id \in Ids : s.members[f[id]].id = id BY <2>1
  <2>3. Cardinality(D) < Cardinality(Ids) BY <1>0, <1>1, <1>2, <1>3
  <2> HIDE DEF f
  <2>4. PICK x \in Ids, y \in Ids : x # y /\ f[x] = f[y] BY <1>2, <1>3, <2>2, <2>3, FS_PigeonHole
  <2> QED BY <2>2, <2>4
<1>5. NewMemberId(s) \in Ids /\ \A j \in D : s.members[j].id # NewMemberId(s) BY <1>4 DEF NewMemberId
<1> QED BY <1>0, <1>5

(* What a step leaves: the object of slot i is s, the others are as before.  *)
LEMMA StepPut ==
    ASSUME Managed, NEW c \in Calls, UNCHANGED features,
           Single(features) => \A e \in Calls \ {c} : call[e] = Idle,
           NEW i \in Slots, NEW s \in Solutions, Fit(s, features), sols[i] # None => s.root = sols[i].root,
           NEW a \in Agreed, NEW k \in CallStates, Step(c, [sols EXCEPT ![i] = s], a, k),
           a # None /\ a # i => sols[a] # None,
           \A j \in Slots : Holds(k, j) => j = i \/ sols[j] # None,
           Writes(k) => [sols EXCEPT ![i] = s][k.sol].root \in Folders,
           Around(disk', recent', last', stored', edits', started'),
           Single(features) =>
              /\ CallFits(k, [sols EXCEPT ![i] = s], a, disk', features) /\ DiskOnce(disk')
              /\ started' /\ a = None => last' = None \/ Reopens(k)
    PROVE  Managed'
<1> DEFINE ss == [sols EXCEPT ![i] = s]
<1>0. s # None BY NamesAssumption
<1>1. Objects(sols, active, call, features) BY DEF Managed
<1>2. ss \in Stores /\ ss[i] = s /\ \A j \in Slots \ {i} : ss[j] = sols[j] BY <1>1 DEF Objects, Stores
<1>3. Step(c, ss, a, k) OBVIOUS
<1>4. Writes(k) => ss[k.sol].root \in Folders OBVIOUS
<1>5. Single(features) =>
        /\ CallFits(k, ss, a, disk', features) /\ DiskOnce(disk')
        /\ started' /\ a = None => last' = None \/ Reopens(k)
  OBVIOUS
<1> HIDE DEF ss
<1>6. a # None => ss[a] # None BY <1>0, <1>2 DEF Agreed
<1>7. \A j \in Slots : Holds(k, j) => ss[j] # None BY <1>0, <1>2
<1>8. \A j \in Slots : sols[j] # None => ss[j] # None /\ ss[j].root = sols[j].root BY <1>0, <1>2
<1>9. \A j \in Slots : ss[j] # None => Fit(ss[j], features) BY <1>1, <1>2 DEF Objects
<1> QED BY <1>2, <1>3, <1>4, <1>5, <1>6, <1>7, <1>8, <1>9, StepKeeps

(* What a step leaves that touches no object: the active solution stays or  *)
(* is given up.                                                             *)
LEMMA StepSame ==
    ASSUME Managed, NEW c \in Calls, UNCHANGED features,
           Single(features) => \A e \in Calls \ {c} : call[e] = Idle,
           NEW a \in {active, None}, NEW k \in CallStates, Step(c, sols, a, k),
           \A j \in Slots : Holds(k, j) => sols[j] # None,
           Writes(k) => sols[k.sol].root \in Folders,
           Around(disk', recent', last', stored', edits', started'),
           Single(features) =>
              /\ CallFits(k, sols, a, disk', features) /\ DiskOnce(disk')
              /\ started' /\ a = None => last' = None \/ Reopens(k)
    PROVE  Managed'
<1>1. Objects(sols, active, call, features) BY DEF Managed
<1>2. sols \in Stores /\ a \in Agreed /\ (a # None => sols[a] # None) BY <1>1 DEF Objects, Agreed
<1>3. \A j \in Slots : sols[j] # None => Fit(sols[j], features) BY <1>1 DEF Objects
<1> QED BY <1>2, <1>3, StepKeeps

(* What the invariant says of one call and of the active solution.          *)
LEMMA Busy ==
    ASSUME Managed, NEW c \in Calls
    PROVE  /\ call[c] \in CallStates /\ active \in Agreed /\ (active # None => active \in Slots /\ sols[active] \in Solutions)
           /\ active # None => Fit(sols[active], features)
           /\ \A i \in Slots : Holds(call[c], i) => sols[i] \in Solutions /\ Fit(sols[i], features)
           /\ Writes(call[c]) => sols[call[c].sol].root \in Folders
           /\ Single(features) =>
                /\ CallFits(call[c], sols, active, disk, features) /\ DiskOnce(disk)
                /\ call[c] # Idle =>
                      /\ \A e \in Calls \ {c} : call[e] = Idle
                      /\ started /\ active = None => last = None \/ Reopens(call[c])
                /\ call[c] = Idle /\ MayInterfere =>
                      /\ \A e \in Calls \ {c} : call[e] = Idle
                      /\ started /\ active = None => last = None
<1>1. Objects(sols, active, call, features) /\ (Single(features) => Alone(sols, active, call, last, disk, started, features))
  BY DEF Managed
<1>2. /\ call[c] \in CallStates /\ active \in Agreed /\ (active # None => active \in Slots /\ sols[active] \in Solutions)
      /\ active # None => Fit(sols[active], features)
      /\ \A i \in Slots : Holds(call[c], i) => sols[i] \in Solutions /\ Fit(sols[i], features)
      /\ Writes(call[c]) => sols[call[c].sol].root \in Folders
  BY <1>1 DEF Objects, Stores, Agreed
<1>3. ~Reopens(Idle) BY DEF Reopens, Idle
<1>4. ASSUME Single(features)
      PROVE  /\ CallFits(call[c], sols, active, disk, features) /\ DiskOnce(disk)
             /\ call[c] # Idle =>
                   /\ \A e \in Calls \ {c} : call[e] = Idle
                   /\ started /\ active = None => last = None \/ Reopens(call[c])
             /\ call[c] = Idle /\ MayInterfere =>
                   /\ \A e \in Calls \ {c} : call[e] = Idle
                   /\ started /\ active = None => last = None
  <2>1. Alone(sols, active, call, last, disk, started, features) BY <1>1, <1>4
  <2>2. CallFits(call[c], sols, active, disk, features) /\ DiskOnce(disk) BY <2>1 DEF Alone
  <2>3. call[c] # Idle => \A e \in Calls \ {c} : call[e] = Idle BY <2>1 DEF Alone
  <2>4. call[c] # Idle /\ started /\ active = None => last = None \/ Reopens(call[c])
    BY <2>1, <2>3, <1>3 DEF Alone
  <2>5. MayInterfere => \A e \in Calls : call[e] = Idle BY <1>4 DEF MayInterfere, OneAtATime, Single
  <2>6. MayInterfere /\ started /\ active = None => last = None BY <2>1, <2>5, <1>3 DEF Alone
  <2> QED BY <2>2, <2>3, <2>4, <2>5, <2>6
<1> QED BY <1>2, <1>4

(* What a call carries at each stage.                                       *)
LEMMA Kinds ==
    ASSUME NEW k \in CallStates, k # Idle
    PROVE  /\ k.pc \in {"ask", "go"} =>
                /\ k.op \in {"new", "untitled", "close", "open", "restore"} /\ k.agreed \in Agreed
                /\ \A a \in Agreed : [k EXCEPT !.pc = "go", !.agreed = a] \in CallStates
                /\ k.op = "new" => k.folder \in Folders /\ k.name \in Names
                /\ k.op \in {"open", "restore"} => k.folder \in Folders \cup {None}
           /\ k.pc = "read" => k.op \in {"open", "restore"} /\ k.file \in Names /\ k.agreed \in Agreed /\ k.folder \in Folders
           /\ k.pc = "members" => k.op \in {"open", "restore"} /\ k.sol \in Slots /\ Holds(k, k.sol)
                                  /\ k.agreed \in Agreed /\ k.folder \in Folders
           /\ k.pc = "manifest" => k.op = "openProject" /\ k.sol \in Slots /\ Holds(k, k.sol)
                                   /\ k.project \in Projects /\ k.path \in Paths
           /\ k.pc = "opening" => k.op = "openProject" /\ k.sol \in Slots /\ Holds(k, k.sol)
           /\ k.pc = "pick" => k.op = "save"
           /\ k.pc = "write" => k.op = "save" /\ Writes(k) /\ k.sol \in Slots /\ Holds(k, k.sol)
                                /\ k.file \in Names /\ k.content \in Manifests
           /\ k.pc = "writeAs" => k.op = "saveAs" /\ k.sol \in Slots /\ Holds(k, k.sol) /\ k.folder \in Folders
                                  /\ k.file \in Names /\ k.content \in Manifests
           /\ k.pc \in {"exists", "move"} => k.op = "rename" /\ Writes(k) /\ k.sol \in Slots /\ Holds(k, k.sol)
                                /\ k.from \in Names /\ k.to \in Names
                                /\ [k EXCEPT !.pc = "move"] \in CallStates
BY DEF CallStates, Idle, Holds, Writes, Agreed

-----------------------------------------------------------------------------
(* Replacing the active solution.                                           *)
(* canReplace: the call asks, or goes on when there is nothing to lose.     *)
LEMMA CanReplaceKeeps ==
    ASSUME Managed, NEW c \in Calls, UNCHANGED features,
           Single(features) => \A e \in Calls \ {c} : call[e] = Idle,
           NEW q, Step(c, sols, active, q),
           q \in CallStates, q # Idle, q.pc = IF active # None /\ sols[active].dirty THEN "ask" ELSE "go",
           Around(disk', recent', last', stored', edits', started'), UNCHANGED disk,
           Single(features) => (started' /\ active = None => last' = None \/ Reopens(q))
    PROVE  Managed'
<1>1. q.pc \in {"ask", "go"} /\ q.op \in {"new", "untitled", "close", "open", "restore"} BY Kinds
<1>2. ~Writes(q) /\ \A j \in Slots : ~Holds(q, j) BY <1>1 DEF CallStates, Idle, Writes, Holds
<1>3. q.pc = "ask" => active # None OBVIOUS
<1>4. q.pc # "ask" => active = None \/ ~sols[active].dirty OBVIOUS
<1>5. CallFits(q, sols, active, disk', features) BY <1>1, <1>2, <1>3, <1>4 DEF CallFits
<1>6. Single(features) => DiskOnce(disk') BY Busy
<1> QED BY <1>2, <1>5, <1>6, StepSame

(* The part of the invariant that is not about objects.                     *)
LEMMA AroundKept ==
    ASSUME Managed PROVE Around(disk, recent, last, stored, edits, started)
BY DEF Managed

(* A call that replaces the solution begins, whatever its kind.             *)
LEMMA BeginReplaceKeeps ==
    ASSUME Managed, NEW c \in Calls, UNCHANGED features, NEW k,
           \A p \in {"ask", "go"} : [k EXCEPT !.pc = p] \in CallStates /\ [k EXCEPT !.pc = p] # Idle
                                    /\ [k EXCEPT !.pc = p].pc = p
                                    /\ (k.op = "restore" => Reopens([k EXCEPT !.pc = p]) \/ last = None),
           BeginReplace(c, k)
    PROVE  Managed'
<1> DEFINE q == [k EXCEPT !.pc = IF active # None /\ sols[active].dirty THEN "ask" ELSE "go"]
<1>1. Step(c, sols, active, q) BY DEF BeginReplace, CanReplace
<1>2. q \in CallStates /\ q # Idle /\ q.pc = (IF active # None /\ sols[active].dirty THEN "ask" ELSE "go")
      /\ (k.op = "restore" => Reopens(q) \/ last = None)
  OBVIOUS
<1>3. UNCHANGED <<recent, last, disk, stored, edits>> BY DEF BeginReplace, SameSession
<1>4. started' \in BOOLEAN BY AroundKept DEF BeginReplace, Around
<1>5. Around(disk', recent', last', stored', edits', started') BY <1>3, <1>4, AroundKept DEF Around
<1>6. call[c] = Idle /\ MayInterfere BY DEF BeginReplace, MayBegin
<1>7. Single(features) => \A e \in Calls \ {c} : call[e] = Idle BY <1>6, Busy
<1>8. Single(features) => (started' /\ active = None => last' = None \/ Reopens(q))
  <2>1. k.op # "restore" => started BY DEF BeginReplace
  <2> QED BY <2>1, <1>2, <1>3, <1>6, Busy
<1> HIDE DEF q
<1> QED BY <1>1, <1>2, <1>3, <1>5, <1>7, <1>8, CanReplaceKeeps

(* New, NewUntitled, Open, Close and RestoreSession begin.                  *)
LEMMA BeginKeeps == ASSUME Managed, NEW c \in Calls, UNCHANGED features, Begin(c) PROVE Managed'
<1>0. None \in Agreed /\ last \in Folders \cup {None} BY AroundKept DEF Agreed, Around
<1>1. ASSUME NEW f \in Folders, NEW n \in Names,
             BeginReplace(c, [op |-> "new", pc |-> "", agreed |-> None, folder |-> f, name |-> n])
      PROVE  Managed'
  <2> DEFINE k == [op |-> "new", pc |-> "", agreed |-> None, folder |-> f, name |-> n]
  <2>1. \A p \in {"ask", "go"} : [k EXCEPT !.pc = p] \in CallStates /\ [k EXCEPT !.pc = p] # Idle
                                 /\ [k EXCEPT !.pc = p].pc = p
                                 /\ (k.op = "restore" => Reopens([k EXCEPT !.pc = p]) \/ last = None)
    BY <1>0 DEF CallStates, Idle
  <2>2. BeginReplace(c, k) BY <1>1
  <2> HIDE DEF k
  <2> QED BY <2>1, <2>2, BeginReplaceKeeps
<1>2. ASSUME NEW o \in {"untitled", "close"}, BeginReplace(c, [op |-> o, pc |-> "", agreed |-> None])
      PROVE  Managed'
  <2> DEFINE k == [op |-> o, pc |-> "", agreed |-> None]
  <2>1. \A p \in {"ask", "go"} : [k EXCEPT !.pc = p] \in CallStates /\ [k EXCEPT !.pc = p] # Idle
                                 /\ [k EXCEPT !.pc = p].pc = p
                                 /\ (k.op = "restore" => Reopens([k EXCEPT !.pc = p]) \/ last = None)
    BY <1>0 DEF CallStates, Idle
  <2>2. BeginReplace(c, k) BY <1>2
  <2> HIDE DEF k
  <2> QED BY <2>1, <2>2, BeginReplaceKeeps
<1>3. ASSUME NEW o \in {"open", "restore"}, NEW f \in Folders \cup {None}, o = "restore" => f = last,
             BeginReplace(c, [op |-> o, pc |-> "", agreed |-> None, folder |-> f])
      PROVE  Managed'
  <2> DEFINE k == [op |-> o, pc |-> "", agreed |-> None, folder |-> f]
  <2>1. \A p \in {"ask", "go"} : [k EXCEPT !.pc = p] \in CallStates /\ [k EXCEPT !.pc = p] # Idle
                                 /\ [k EXCEPT !.pc = p].pc = p
                                 /\ (k.op = "restore" => Reopens([k EXCEPT !.pc = p]) \/ last = None)
    BY <1>0, <1>3 DEF CallStates, Idle, Reopens
  <2>2. BeginReplace(c, k) BY <1>3
  <2> HIDE DEF k
  <2> QED BY <2>1, <2>2, BeginReplaceKeeps
<1>4. CASE \E f \in Folders : BeginReplace(c, [op |-> "open", pc |-> "", agreed |-> None, folder |-> f])
  BY <1>4, <1>3
<1>5. CASE BeginReplace(c, IF last = None THEN [op |-> "restore", pc |-> "", agreed |-> None, folder |-> None]
                                          ELSE [op |-> "restore", pc |-> "", agreed |-> None, folder |-> last])
  BY <1>5, <1>3, <1>0
<1> QED BY <1>1, <1>2, <1>4, <1>5 DEF Begin

(* The user agrees to discard the active solution, or does not.             *)
LEMMA AnswerKeeps ==
    ASSUME Managed, NEW c \in Calls, UNCHANGED features, NEW yes \in BOOLEAN, Answer(c, yes) PROVE Managed'
<1>1. call[c] # Idle /\ call[c].pc = "ask" BY DEF Answer, At
<1>2. call[c] \in CallStates /\ active \in Agreed BY Busy
<1> DEFINE q == [call[c] EXCEPT !.pc = "go", !.agreed = active]
           k == IF yes THEN q ELSE Idle
<1>3. q \in CallStates BY <1>1, <1>2, Kinds
<1>9. q.pc = "go" /\ q # Idle BY <1>1, <1>2 DEF CallStates, Idle
<1>4. k \in CallStates /\ ~Writes(k) /\ (\A j \in Slots : ~Holds(k, j))
  <2>1. ~Writes(q) /\ \A j \in Slots : ~Holds(q, j) BY <1>3, <1>9 DEF CallStates, Idle, Writes, Holds
  <2>2. ~Writes(Idle) /\ \A j \in Slots : ~Holds(Idle, j) BY DEF Idle, Writes, Holds
  <2>3. Idle \in CallStates BY DEF CallStates
  <2> QED BY <1>3, <2>1, <2>2, <2>3
<1>5. Around(disk', recent', last', stored', edits', started') /\ UNCHANGED <<disk, last, started>>
  BY AroundKept DEF Answer, SameSession, Elsewhere
<1>6. CallFits(k, sols, active, disk, features)
  <2>1. q.op = call[c].op /\ q.pc = "go" /\ q.agreed = active /\ q.op \in {"new", "untitled", "close", "open", "restore"}
    BY <1>1, <1>2, Kinds DEF CallStates, Idle
  <2>2. CallFits(q, sols, active, disk, features) BY <2>1 DEF CallFits, Writes
  <2>3. CallFits(Idle, sols, active, disk, features) BY DEF CallFits, Idle, Writes
  <2> QED BY <2>2, <2>3
<1>7. Single(features) => active # None
  <2>1. Single(features) => CallFits(call[c], sols, active, disk, features) BY Busy
  <2> QED BY <2>1, <1>1, <1>2, Kinds DEF CallFits
<1>8. Step(c, sols, active, k) BY DEF Answer
<1> HIDE DEF k
<1> QED BY <1>1, <1>4, <1>5, <1>6, <1>7, <1>8, Busy, StepSame

(* A call that ended fits everything.                                       *)
LEMMA IdleFits ==
    /\ Idle \in CallStates /\ ~Writes(Idle) /\ (\A j \in Slots : ~Holds(Idle, j)) /\ ~Reopens(Idle)
    /\ \A ss, a, d, fs : CallFits(Idle, ss, a, d, fs)
<1>1. Idle \in CallStates BY DEF CallStates
<1>2. ~Writes(Idle) /\ (\A j \in Slots : ~Holds(Idle, j)) /\ ~Reopens(Idle)
  BY DEF Idle, Writes, Holds, Reopens
<1>3. \A ss, a, d, fs : CallFits(Idle, ss, a, d, fs) BY DEF CallFits, Idle, Writes
<1> QED BY <1>1, <1>2, <1>3

(* A solution just created is in order.                                     *)
LEMMA NewSolution ==
    ASSUME NEW n \in Names, NEW r \in Folders \cup {None}
    PROVE  Solution(n, r) \in Solutions /\ Fit(Solution(n, r), features)
<1> DEFINE s == Solution(n, r)
<1>1. << >> \in Seq([path : Paths, type : Types]) /\ [members |-> << >>, settings |-> 0] \in Manifests
  BY DEF Manifests
<1>2. << >> \in Seq([path : Paths, type : Types, status : Statuses, id : Nat]) OBVIOUS
<1>3. s \in Solutions BY <1>1, <1>2 DEF Solution, Solutions
<1>4. s.members = << >> /\ s.settings = s.saved.settings /\ s.saved.members = << >> BY DEF Solution
<1>5. Refs(<< >>) = << >> BY DEF Refs
<1> HIDE DEF s
<1>6. PathsOnce(s.members) BY <1>4 DEF PathsOnce
<1>7. ~Unsaved(s) BY <1>4, <1>5 DEF Unsaved
<1> QED BY <1>3, <1>4, <1>6, <1>7 DEF Fit, s

(* A call ends with another solution active.                                *)
LEMMA ReplacedKeeps ==
    ASSUME Managed, NEW c \in Calls, UNCHANGED features, call[c] # Idle,
           NEW s \in Solutions, Fit(s, features), Step(c, [sols EXCEPT ![FreeSlot] = s], FreeSlot, Idle),
           Around(disk', recent', last', stored', edits', started'),
           Single(features) => DiskOnce(disk')
    PROVE  Managed'
<1>1. FreeSlot \in Slots /\ sols[FreeSlot] = None BY SlotFree DEF Managed
<1>2. FreeSlot # None /\ FreeSlot \in Agreed BY <1>1, NamesAssumption, BoundsAssumption DEF Slots, Agreed
<1> QED BY <1>1, <1>2, Busy, IdleFits, StepPut

(* New ends.                                                                *)
LEMMA NewKeeps ==
    ASSUME Managed, NEW c \in Calls, UNCHANGED features, SetActiveNew(c) PROVE Managed'
<1>1. call[c] # Idle /\ call[c].pc = "go" /\ call[c].op = "new" BY DEF SetActiveNew, At
<1>2. call[c].name \in Names /\ call[c].folder \in Folders BY <1>1, Busy, Kinds
<1>3. Around(disk', recent', last', stored', edits', started') /\ disk' = disk
  BY AroundKept DEF SetActiveNew, SameSession, Elsewhere
<1>4. Step(c, [sols EXCEPT ![FreeSlot] = Solution(call[c].name, call[c].folder)], FreeSlot, Idle)
  BY DEF SetActiveNew
<1> QED BY <1>1, <1>2, <1>3, <1>4, Busy, NewSolution, ReplacedKeeps

(* NewUntitled ends, also as the last resort of RestoreSession.             *)
LEMMA UntitledKeeps ==
    ASSUME Managed, NEW c \in Calls, UNCHANGED features, SetActiveUntitled(c) PROVE Managed'
<1>1. call[c] # Idle BY DEF SetActiveUntitled, At
<1>2. Around(disk', recent', last', stored', edits', started') /\ disk' = disk
  BY AroundKept DEF SetActiveUntitled, Elsewhere, Around, Remembers
<1>3. Step(c, [sols EXCEPT ![FreeSlot] = Solution(DefaultName, None)], FreeSlot, Idle)
  BY DEF SetActiveUntitled
<1> QED BY <1>1, <1>2, <1>3, Busy, NewSolution, NamesAssumption, ReplacedKeeps

(* Close ends.                                                              *)
LEMMA CloseKeeps ==
    ASSUME Managed, NEW c \in Calls, UNCHANGED features, CloseSolution(c) PROVE Managed'
<1>1. call[c] # Idle BY DEF CloseSolution, At
<1>2. Around(disk', recent', last', stored', edits', started') /\ disk' = disk /\ last' = None
  BY AroundKept DEF CloseSolution, Elsewhere, Around, Remembers
<1>3. Step(c, sols, None, Idle) BY DEF CloseSolution
<1> QED BY <1>1, <1>2, <1>3, Busy, IdleFits, StepSame

(* Opening fails, before or after the manifest was found.                   *)
LEMMA OpenFailsKeeps ==
    ASSUME Managed, NEW c \in Calls, UNCHANGED features, call[c] # Idle, Opening(c), call[c].pc \in {"go", "read"},
           OpenFails(c), Elsewhere
    PROVE  Managed'
<1>0. call[c] \in CallStates BY Busy
<1>1. CASE call[c].op = "open"
  <2>1. Step(c, sols, active, Idle) /\ UNCHANGED <<recent, last>> BY <1>1 DEF OpenFails, SameSession
  <2>2. Around(disk', recent', last', stored', edits', started') /\ UNCHANGED <<disk, last, started>>
    BY <2>1, AroundKept DEF Elsewhere
  <2>3. Single(features) => (started' /\ active = None => last' = None)
    BY <1>1, <2>2, Busy DEF Reopens
  <2> QED BY <2>1, <2>2, <2>3, Busy, IdleFits, StepSame
<1>2. CASE call[c].op # "open"
  <2> DEFINE k == [op |-> "restore", pc |-> "", agreed |-> None, folder |-> None]
             q == [k EXCEPT !.pc = IF active # None /\ sols[active].dirty THEN "ask" ELSE "go"]
  <2>1. Step(c, sols, active, q) BY <1>2 DEF OpenFails, CanReplace
  <2>2. recent' = Without(recent, call[c].folder) /\ last' = None BY <1>2 DEF OpenFails
  <2>3. recent' \in Seq(Folders) /\ Once(recent')
    <3>1. recent \in Seq(Folders) /\ Once(recent) BY AroundKept DEF Around, Remembers
    <3> QED BY <2>2, <3>1, WithoutShape
  <2>4. Around(disk', recent', last', stored', edits', started')
    BY <2>2, <2>3, AroundKept DEF Elsewhere, Around, Remembers
  <2>5. q \in CallStates /\ q # Idle /\ q.pc = (IF active # None /\ sols[active].dirty THEN "ask" ELSE "go")
    BY DEF CallStates, Idle, Agreed
  <2> HIDE DEF q
  <2> QED BY <2>1, <2>2, <2>4, <2>5, Busy, CanReplaceKeeps DEF Elsewhere
<1> QED BY <1>1, <1>2

(* The folder was listed.                                                   *)
LEMMA FindKeeps ==
    ASSUME Managed, NEW c \in Calls, UNCHANGED features, FindManifest(c) PROVE Managed'
<1>1. call[c] # Idle /\ call[c].pc = "go" /\ Opening(c) /\ call[c].folder # None BY DEF FindManifest, At
<1>2. call[c].folder \in Folders /\ call[c].agreed \in Agreed /\ call[c].op \in {"open", "restore"}
  BY <1>1, Busy, Kinds DEF Opening
<1>3. CASE DOMAIN disk[call[c].folder] = {} BY <1>1, <1>3, OpenFailsKeeps DEF FindManifest
<1>4. CASE DOMAIN disk[call[c].folder] # {}
  <2>1. PICK n \in DOMAIN disk[call[c].folder] :
          Step(c, sols, active, [op |-> call[c].op, pc |-> "read", file |-> n,
                                 agreed |-> call[c].agreed, folder |-> call[c].folder])
    BY <1>4 DEF FindManifest
  <2> DEFINE k == [op |-> call[c].op, pc |-> "read", file |-> n,
                   agreed |-> call[c].agreed, folder |-> call[c].folder]
  <2>2. n \in Names BY <1>2, AroundKept DEF Around, IsDisk
  <2>3. k \in CallStates /\ ~Writes(k) /\ (\A j \in Slots : ~Holds(k, j)) /\ (Reopens(call[c]) => Reopens(k))
    BY <1>2, <2>2 DEF CallStates, Writes, Holds, Reopens
  <2>4. Around(disk', recent', last', stored', edits', started') /\ UNCHANGED <<disk, last, started>>
    BY <1>4, AroundKept DEF FindManifest, SameSession, Elsewhere
  <2>5. Single(features) => CallFits(k, sols, active, disk', features)
    <3>1. Single(features) => CallFits(call[c], sols, active, disk, features) BY Busy
    <3>2. Single(features) => active = None \/ k.agreed = active \/ ~sols[active].dirty
      BY <3>1, <1>1, <1>2 DEF CallFits
    <3>3. k.op \in {"open", "restore"} /\ k.pc = "read" BY <1>2
    <3> HIDE DEF k
    <3> QED BY <3>2, <3>3, <2>3 DEF CallFits
  <2>6. Step(c, sols, active, k) BY <2>1
  <2> HIDE DEF k
  <2> QED BY <1>1, <2>3, <2>4, <2>5, <2>6, Busy, StepSame
<1> QED BY <1>3, <1>4

(* The folder goes to the head of the recent list, and stands there once.   *)
LEMMA Pushed ==
    ASSUME NEW f \in Folders, recent \in Seq(Folders), Once(recent), PushRecent(f)
    PROVE  recent' \in Seq(Folders) /\ last' \in Folders \cup {None} /\ Remembers(<<recent', last'>>)
<1> DEFINE t == Without(recent, f)
           u == <<f>> \o t
<1>1. t \in Seq(Folders) /\ (\A i \in 1..Len(t) : t[i] # f) /\ Once(t) BY WithoutShape
<1>2. recent' = u /\ last' = f BY DEF PushRecent
<1> HIDE DEF t
<1>3. /\ u \in Seq(Folders) /\ Len(u) = Len(t) + 1 /\ u[1] = f /\ u # << >> /\ Len(t) \in Nat
      /\ \A i \in 2..Len(u) : i - 1 \in 1..Len(t) /\ u[i] = t[i - 1]
  BY <1>1
<1> HIDE DEF u
<1>4. ASSUME NEW i \in 1..Len(u), NEW j \in 1..Len(u), i # j PROVE u[i] # u[j]
  <2>1. CASE i = 1 BY <2>1, <1>1, <1>3, <1>4
  <2>2. CASE j = 1 BY <2>2, <1>1, <1>3, <1>4
  <2>3. CASE i # 1 /\ j # 1
    <3>1. i \in 2..Len(u) /\ j \in 2..Len(u) BY <1>3, <2>3
    <3>2. i - 1 \in 1..Len(t) /\ j - 1 \in 1..Len(t) /\ i - 1 # j - 1 /\ u[i] = t[i - 1] /\ u[j] = t[j - 1]
      BY <1>3, <1>4, <3>1
    <3> QED BY <3>2, <1>1 DEF Once
  <2> QED BY <2>1, <2>2, <2>3
<1>5. Once(u) BY <1>4 DEF Once
<1> QED BY <1>2, <1>3, <1>5 DEF Remembers

-----------------------------------------------------------------------------
(* Opening a solution.                                                      *)
LEMMA SeqItems ==
    ASSUME NEW S, NEW q \in Seq(S)
    PROVE  Len(q) \in Nat /\ DOMAIN q = 1..Len(q) /\ q = [j \in DOMAIN q |-> q[j]] /\ \A j \in DOMAIN q : q[j] \in S
OBVIOUS

(* A function on 1..n with values in S is a sequence over S.                *)
LEMMA SeqMade ==
    ASSUME NEW S, NEW n \in Nat, NEW q, q = [j \in 1..n |-> q[j]], \A j \in 1..n : q[j] \in S
    PROVE  q \in Seq(S)
<1>1. q \in [1..n -> S] OBVIOUS
<1> QED BY <1>1

(* The solution n at r, with the members ms still unopened.                 *)
AsRead(n, r, ms, t, m) ==
    [Solution(n, r) EXCEPT !.members = [j \in DOMAIN ms |-> Unopened(ms[j], j)], !.settings = t, !.saved = m]

(* The members, settings and manifest a solution object can be built from.  *)
Readable(ms, t, m, fs) ==
    /\ Len(ms) \in Nat /\ DOMAIN ms = 1..Len(ms) /\ t \in Nat /\ m \in Manifests
    /\ \A j \in DOMAIN ms : ms[j].path \in Paths /\ ms[j].type \in Types
    /\ Single(fs) => Refs(ms) = m.members /\ t = m.settings /\ PathsOnce(ms)

(* The object built from them is in order.                                  *)
LEMMA Reread ==
    ASSUME NEW n \in Names, NEW r \in Folders, NEW ms, NEW t, NEW m, Readable(ms, t, m, features)
    PROVE  LET s == AsRead(n, r, ms, t, m)
           IN  /\ s \in Solutions /\ Fit(s, features)
               /\ s.name = n /\ s.root = r /\ ~s.dirty
               /\ Single(features) => Content(s) = m
<1> DEFINE us == [j \in DOMAIN ms |-> Unopened(ms[j], j)]
           s == AsRead(n, r, ms, t, m)
<1> USE DEF Readable
<1>1. us \in Seq([path : Paths, type : Types, status : Statuses, id : Nat])
  <2> DEFINE M == [path : Paths, type : Types, status : Statuses, id : Nat]
  <2>1. \A j \in DOMAIN ms : us[j] \in M BY DEF Unopened, Statuses
  <2>2. us = [j \in 1..Len(ms) |-> us[j]] OBVIOUS
  <2>3. \A j \in 1..Len(ms) : us[j] \in M BY <2>1
  <2>5. Len(ms) \in Nat OBVIOUS
  <2> HIDE DEF us, M
  <2>6. us \in Seq(M) BY <2>2, <2>3, <2>5, SeqMade
  <2> QED BY <2>6 DEF M
<1>0. s = [Solution(n, r) EXCEPT !.members = us, !.settings = t, !.saved = m] BY DEF AsRead
<1>3. Refs(us) = Refs(ms) /\ DOMAIN us = DOMAIN ms /\ \A j \in DOMAIN ms : us[j].path = ms[j].path
  BY DEF Refs, Unopened
<1> HIDE DEF us
<1>2. s = [name |-> n, root |-> r, members |-> us, settings |-> t, dirty |-> FALSE, saved |-> m]
  BY <1>0 DEF Solution
<1>4. s \in Solutions BY <1>1, <1>2 DEF Solutions
<1>5. s.name = n /\ s.root = r /\ s.dirty = FALSE /\ s.members = us /\ s.settings = t /\ s.saved = m
  BY <1>2
<1>6. r # None BY NamesAssumption
<1> HIDE DEF s
<1>7. m = [members |-> m.members, settings |-> m.settings] BY DEF Manifests
<1>8. Single(features) => Content(s) = m /\ ~Unsaved(s) /\ PathsOnce(s.members)
  BY <1>3, <1>5, <1>7 DEF Content, Unsaved, PathsOnce
<1>9. Fit(s, features) BY <1>5, <1>6, <1>8 DEF Fit, Untitled
<1>10. /\ s \in Solutions /\ Fit(s, features)
       /\ s.name = n /\ s.root = r /\ ~s.dirty
       /\ Single(features) => Content(s) = m
  BY <1>4, <1>5, <1>8, <1>9
<1> QED BY <1>10 DEF s, us

(* The manifest was read, or is gone.                                       *)
LEMMA ReadKeeps ==
    ASSUME Managed, NEW c \in Calls, UNCHANGED features, ReadManifest(c) PROVE Managed'
<1> DEFINE f == call[c].folder
           n == call[c].file
<1>1. call[c] # Idle /\ call[c].pc = "read" /\ call[c] \in CallStates BY Busy DEF ReadManifest, At
<1>2. call[c].op \in {"open", "restore"} /\ n \in Names /\ call[c].agreed \in Agreed /\ f \in Folders
  BY <1>1, Kinds
<1>3. CASE n \notin DOMAIN disk[f]
  <2>1. OpenFails(c) /\ Elsewhere BY <1>3 DEF ReadManifest
  <2> QED BY <1>1, <1>2, <2>1, OpenFailsKeeps DEF Opening
<1>4. CASE n \in DOMAIN disk[f]
  <2> DEFINE i == FreeSlot
             m == disk[f][n]
             s == AsRead(n, f, m.members, m.settings, m)
             k == [op |-> call[c].op, pc |-> "members", sol |-> i, agreed |-> call[c].agreed, folder |-> f]
  <2>1. Step(c, [sols EXCEPT ![i] = s], active, k) /\ UNCHANGED <<recent, last, disk, stored, edits, started>>
    BY <1>4 DEF ReadManifest, SameSession, Elsewhere, AsRead
  <2>2. m \in Manifests BY <1>2, <1>4, AroundKept DEF Around, IsDisk
  <2>3. /\ Len(m.members) \in Nat /\ DOMAIN m.members = 1..Len(m.members)
        /\ \A j \in DOMAIN m.members : m.members[j].path \in Paths /\ m.members[j].type \in Types
        /\ m.settings \in Nat /\ Refs(m.members) = m.members
    <3>1. m.members \in Seq([path : Paths, type : Types]) /\ m.settings \in Nat BY <2>2 DEF Manifests
    <3> HIDE DEF m
    <3>2. /\ Len(m.members) \in Nat /\ DOMAIN m.members = 1..Len(m.members)
          /\ m.members = [j \in DOMAIN m.members |-> m.members[j]]
          /\ \A j \in DOMAIN m.members : m.members[j] \in [path : Paths, type : Types]
      BY <3>1, SeqItems
    <3>3. \A j \in DOMAIN m.members : m.members[j] \in [path : Paths, type : Types] BY <3>2
    <3>4. Refs(m.members) = m.members
      <4>1. \A j \in DOMAIN m.members :
              [path |-> m.members[j].path, type |-> m.members[j].type] = m.members[j]
        BY <3>3
      <4>2. Refs(m.members) = [j \in DOMAIN m.members |->
                                [path |-> m.members[j].path, type |-> m.members[j].type]] BY DEF Refs
      <4> QED BY <3>2, <4>1, <4>2
    <3> QED BY <3>1, <3>2, <3>3, <3>4
  <2>4. Single(features) => PathsOnce(m.members) BY <1>2, <1>4, Busy DEF DiskOnce
  <2> HIDE DEF m
  <2>5. /\ s \in Solutions /\ Fit(s, features) /\ s.name = n /\ s.root = f /\ ~s.dirty
        /\ Single(features) => Content(s) = m
    <3>1. Readable(m.members, m.settings, m, features) BY <2>2, <2>3, <2>4 DEF Readable
    <3> HIDE DEF n, f
    <3> QED BY <1>2, <3>1, Reread
  <2>6. i \in Slots /\ i # active /\ sols[i] = None BY SlotFree DEF Managed
  <2> HIDE DEF s, i
  <2>7. k \in CallStates /\ k.op \in {"open", "restore"} /\ k.pc = "members" BY <1>2, <2>6 DEF CallStates
  <2>8. ~Writes(k) /\ (\A j \in Slots : Holds(k, j) => j = i) /\ (Reopens(call[c]) => Reopens(k))
    BY <1>2, <2>6 DEF Writes, Holds, Reopens
  <2>9. Around(disk', recent', last', stored', edits', started') BY <2>1, AroundKept
  <2> DEFINE ss == [sols EXCEPT ![i] = s]
  <2>10. ss[i] = s /\ (active # None => ss[active] = sols[active])
    BY <2>6, Busy DEF Managed, Objects, Stores
  <2>11. Single(features) => CallFits(k, ss, active, disk', features)
    <3>1. Single(features) => CallFits(call[c], sols, active, disk, features) BY Busy
    <3>2. Single(features) => active = None \/ k.agreed = active \/ ~ss[active].dirty
      BY <3>1, <1>1, <1>2, <2>10 DEF CallFits
    <3>3. k.sol = i /\ k.folder = f /\ ss[k.sol] = s BY <2>10
    <3>4. Single(features) => s.name \in DOMAIN disk'[s.root] /\ Content(s) = disk'[s.root][s.name]
      BY <2>1, <2>5, <1>4 DEF m
    <3> HIDE DEF k, ss
    <3> QED BY <3>2, <3>3, <3>4, <2>5, <2>7, <2>8 DEF CallFits
  <2>12. active # None /\ active # i => sols[active] # None BY DEF Managed, Objects
  <2>13. Single(features) => DiskOnce(disk') /\ (started' /\ active = None => last' = None \/ Reopens(k))
    BY <1>1, <2>1, <2>8, Busy
  <2> HIDE DEF k
  <2> QED BY <1>1, <2>1, <2>5, <2>6, <2>7, <2>8, <2>9, <2>11, <2>12, <2>13, Busy, StepPut DEF ss
<1> QED BY <1>3, <1>4

(* Members of a solution opened in their places.                            *)
Among(s, ms, d) == [s EXCEPT !.members = ms, !.dirty = d]

(* Opening members changes neither what would be saved nor their paths.     *)
LEMMA Reopened ==
    ASSUME NEW s \in Solutions, Fit(s, features), NEW ms, NEW d \in BOOLEAN,
           ms = [x \in DOMAIN s.members |-> ms[x]],
           \A x \in DOMAIN s.members : ms[x] = s.members[x] \/ \E p : ms[x] = OpenedAt(s.members[x], p),
           Single(features) /\ Unsaved(s) => d
    PROVE  LET t == Among(s, ms, d)
           IN  /\ t \in Solutions /\ Fit(t, features) /\ Content(t) = Content(s)
               /\ t.root = s.root /\ t.name = s.name /\ t.dirty = d /\ t.members = ms
<1> DEFINE t == Among(s, ms, d)
           M == [path : Paths, type : Types, status : Statuses, id : Nat]
<1>1. s.members \in Seq(M) BY DEF Solutions
<1>2. ASSUME NEW x \in DOMAIN s.members
     PROVE ms[x] \in M /\ ms[x].path = s.members[x].path /\ ms[x].type = s.members[x].type
  <2>1. s.members[x] \in M
    <3> HIDE DEF M
    <3> QED BY <1>1
  <2>2. CASE ms[x] = s.members[x] BY <2>1, <2>2
  <2>3. CASE \E p : ms[x] = OpenedAt(s.members[x], p)
    <3>1. PICK p : ms[x] = OpenedAt(s.members[x], p) BY <2>3
    <3> QED BY <2>1, <3>1 DEF OpenedAt, Statuses
  <2> QED BY <2>2, <2>3
<1>3. ms \in Seq(M)
  <2>1. DOMAIN s.members = 1..Len(s.members) /\ Len(s.members) \in Nat BY <1>1
  <2> HIDE DEF M
  <2>2. ms \in [1..Len(s.members) -> M] BY <1>2, <2>1
  <2> QED BY <2>1, <2>2
<1>4. DOMAIN ms = DOMAIN s.members /\ \A x \in DOMAIN s.members : ms[x].path = s.members[x].path BY <1>2
<1>5. Refs(ms) = Refs(s.members) BY <1>2, <1>4 DEF Refs
<1>6. /\ t.members = ms /\ t.dirty = d /\ t.root = s.root /\ t.name = s.name
      /\ t.settings = s.settings /\ t.saved = s.saved
  BY DEF Solutions, Among
<1>7. t \in Solutions BY <1>3 DEF Solutions, Among
<1> HIDE DEF t
<1>8. Content(t) = Content(s) /\ (Unsaved(t) <=> Unsaved(s)) /\ (Untitled(t) <=> Untitled(s))
  BY <1>5, <1>6 DEF Content, Unsaved, Untitled
<1>9. PathsOnce(s.members) => PathsOnce(t.members) BY <1>4, <1>6 DEF PathsOnce
<1>10. Fit(t, features) BY <1>6, <1>8, <1>9 DEF Fit
<1>11. /\ t \in Solutions /\ Fit(t, features) /\ Content(t) = Content(s)
       /\ t.root = s.root /\ t.name = s.name /\ t.dirty = d /\ t.members = ms
  BY <1>6, <1>7, <1>8, <1>10
<1> QED BY <1>11 DEF t

(* The solution as a step of OpenMembers leaves it.                         *)
OneOpened(s) ==
    LET waiting == {j \in DOMAIN s.members : s.members[j].status = "unopened"}
        j == CHOOSE n \in waiting : \A x \in waiting : n <= x
    IN  IF waiting = {} THEN s ELSE [s EXCEPT !.members[j] = OpenedAt(@, JoinPosix(s.root, s.members[j].path))]

(* One step of OpenMembers; the last one leaves no member unopened.         *)
LEMMA OneOpenedFits ==
    ASSUME NEW s \in Solutions, Fit(s, features)
    PROVE  /\ OneOpened(s) \in Solutions /\ Fit(OneOpened(s), features) /\ Content(OneOpened(s)) = Content(s)
           /\ OneOpened(s).root = s.root /\ OneOpened(s).name = s.name /\ OneOpened(s).dirty = s.dirty
           /\ ~(Cardinality({j \in DOMAIN s.members : s.members[j].status = "unopened"}) > 1) =>
                \A j \in DOMAIN OneOpened(s).members : OneOpened(s).members[j].status # "unopened"
<1> DEFINE waiting == {j \in DOMAIN s.members : s.members[j].status = "unopened"}
           j == CHOOSE n \in waiting : \A x \in waiting : n <= x
<1>1. s.members \in Seq([path : Paths, type : Types, status : Statuses, id : Nat]) BY DEF Solutions
<1>2. DOMAIN s.members = 1..Len(s.members) /\ Len(s.members) \in Nat BY <1>1
<1>3. CASE waiting = {}
  <2>1. OneOpened(s) = s BY <1>3 DEF OneOpened
  <2> QED BY <1>3, <2>1
<1>4. CASE waiting # {}
  <2>1. waiting \in SUBSET Nat BY <1>2
  <2>2. j \in waiting
    <3>1. \E n \in waiting : \A x \in waiting : n <= x BY <1>4, <2>1, LeastNatural
    <3> HIDE DEF waiting
    <3> QED BY <3>1
  <2> DEFINE place == JoinPosix(s.root, s.members[j].path)
             ms == [s.members EXCEPT ![j] = OpenedAt(@, place)]
             t == Among(s, ms, s.dirty)
  <2>3. OneOpened(s) = [s EXCEPT !.members[j] = OpenedAt(@, JoinPosix(s.root, s.members[j].path))]
    BY <1>4 DEF OneOpened
  <2>4. j \in DOMAIN s.members BY <2>2
  <2> HIDE DEF j, place
  <2>5. OneOpened(s) = t
    <3>1. s = [name |-> s.name, root |-> s.root, dirty |-> s.dirty, settings |-> s.settings,
               saved |-> s.saved, members |-> s.members] BY DEF Solutions
    <3> QED BY <2>3, <3>1 DEF place, Among
  <2>6. ms = [x \in DOMAIN s.members |-> ms[x]] /\ ms[j] = OpenedAt(s.members[j], place)
        /\ \A x \in DOMAIN s.members : x # j => ms[x] = s.members[x]
    BY <2>4, <1>1
  <2> HIDE DEF ms
  <2>7. \A x \in DOMAIN s.members : ms[x] = s.members[x] \/ \E p : ms[x] = OpenedAt(s.members[x], p)
    BY <2>6
  <2>8. s.dirty \in BOOLEAN BY DEF Solutions
  <2>9. Single(features) /\ Unsaved(s) => s.dirty BY DEF Fit
  <2>10. /\ t \in Solutions /\ Fit(t, features) /\ Content(t) = Content(s)
         /\ t.root = s.root /\ t.name = s.name /\ t.dirty = s.dirty /\ t.members = ms
    BY <2>6, <2>7, <2>8, <2>9, Reopened
  <2> HIDE DEF t
  <2>11. ms[j].status # "unopened" 
    <3>1. s.members[j] \in [path : Paths, type : Types, status : Statuses, id : Nat]
      BY <2>4, <1>1, SeqItems
    <3> QED BY <2>6, <3>1 DEF OpenedAt
  <2>12. ASSUME ~(Cardinality(waiting) > 1) PROVE waiting = {j}
    <3>1. IsFiniteSet(1..Len(s.members)) BY <1>2, FS_Interval
    <3>2. waiting \subseteq 1..Len(s.members) BY <1>2
    <3>3. IsFiniteSet(waiting) BY <3>1, <3>2, FS_Subset
    <3> HIDE DEF waiting
    <3>4. Cardinality(waiting) \in Nat /\ Cardinality(waiting) <= 1 BY <2>12, <3>3, FS_CardinalityType
    <3>5. SUFFICES ASSUME NEW x \in waiting, x # j PROVE FALSE BY <2>2
    <3>6. Cardinality({x, j}) = 2 /\ {x, j} \subseteq waiting
      <4>1. IsFiniteSet({j}) /\ Cardinality({j}) = 1 BY FS_Singleton
      <4>0. x \notin {j} BY <3>5
      <4> HIDE DEF j
      <4>2. Cardinality({j} \cup {x}) = 1 + 1 BY <4>0, <4>1, FS_AddElement
      <4>3. {x, j} = {j} \cup {x} OBVIOUS
      <4> QED BY <4>2, <4>3, <2>2, <3>5
    <3>7. Cardinality({x, j}) <= Cardinality(waiting) BY <3>3, <3>6, FS_Subset
    <3> QED BY <3>4, <3>6, <3>7
  <2>13. ~(Cardinality(waiting) > 1) => \A x \in DOMAIN t.members : t.members[x].status # "unopened"
    BY <2>6, <2>10, <2>11, <2>12
  <2> QED BY <2>5, <2>10, <2>13
<1> QED BY <1>3, <1>4

(* A member opened; after the last one the solution is active.              *)
LEMMA OpenMemberKeeps ==
    ASSUME Managed, NEW c \in Calls, UNCHANGED features, OpenMember(c) PROVE Managed'
<1> DEFINE i == call[c].sol
           s == sols[i]
           t == OneOpened(s)
           waiting == {j \in DOMAIN s.members : s.members[j].status = "unopened"}
<1>1. call[c] # Idle /\ call[c].pc = "members" /\ call[c] \in CallStates BY Busy DEF OpenMember, At
<1>2. call[c].op \in {"open", "restore"} /\ i \in Slots /\ Holds(call[c], i) /\ call[c].folder \in Folders
      /\ call[c].agreed \in Agreed
  BY <1>1, Kinds
<1>3. s \in Solutions /\ Fit(s, features) BY <1>2, Busy
<1>4. /\ t \in Solutions /\ Fit(t, features) /\ Content(t) = Content(s)
      /\ t.root = s.root /\ t.name = s.name /\ t.dirty = s.dirty
  BY <1>3, OneOpenedFits
<1>5. IF Cardinality(waiting) > 1
        THEN Step(c, [sols EXCEPT ![i] = t], active, call[c]) /\ UNCHANGED <<recent, last>>
        ELSE Step(c, [sols EXCEPT ![i] = t], i, Idle) /\ PushRecent(call[c].folder)
  BY DEF OpenMember, OneOpened, SameSession
<1>6. UNCHANGED <<disk, stored, edits, started>> BY DEF OpenMember, Elsewhere
<1>7. i # None BY <1>2, NamesAssumption, BoundsAssumption, FS_CardinalityType DEF Slots
<1>8. active # None => sols[active] # None BY DEF Managed, Objects
<1> HIDE DEF t
<1>9. CASE Cardinality(waiting) > 1
  <2>1. Step(c, [sols EXCEPT ![i] = t], active, call[c]) /\ UNCHANGED <<recent, last>> BY <1>5, <1>9
  <2>2. Around(disk', recent', last', stored', edits', started') BY <1>6, <2>1, AroundKept
  <2>3. ~Writes(call[c]) BY <1>1, <1>2 DEF Writes
  <2>4. \A j \in Slots : Holds(call[c], j) => j = i BY DEF Holds
  <2> DEFINE ss == [sols EXCEPT ![i] = t]
  <2>5. ss[i] = t /\ (active # None => active \in Slots /\ ss[active].dirty = sols[active].dirty)
    BY <1>2, <1>4, Busy DEF Managed, Objects, Stores
  <2> HIDE DEF ss
  <2>6. Single(features) => CallFits(call[c], ss, active, disk', features)
    <3>1. Single(features) => CallFits(call[c], sols, active, disk, features) BY Busy
    <3> QED BY <3>1, <1>1, <1>2, <1>4, <1>6, <2>3, <2>5 DEF CallFits
  <2>7. Single(features) => DiskOnce(disk') /\ (started' /\ active = None => last' = None \/ Reopens(call[c]))
    BY <1>1, <1>6, <2>1, Busy
  <2>8. t.root = sols[i].root /\ active \in Agreed BY <1>4, Busy
  <2> HIDE DEF s, waiting
  <2> QED BY <1>1, <1>2, <1>4, <1>8, <2>1, <2>2, <2>3, <2>4, <2>6, <2>7, <2>8, Busy, StepPut DEF ss
<1>10. CASE ~(Cardinality(waiting) > 1)
  <2>1. Step(c, [sols EXCEPT ![i] = t], i, Idle) /\ PushRecent(call[c].folder) BY <1>5, <1>10
  <2>2. Around(disk', recent', last', stored', edits', started')
    <3>1. recent \in Seq(Folders) /\ Once(recent) BY AroundKept DEF Around, Remembers
    <3> QED BY <1>2, <1>6, <2>1, <3>1, Pushed, AroundKept DEF Around
  <2>3. i \in Agreed BY <1>2 DEF Agreed
  <2>4. Single(features) => DiskOnce(disk') BY <1>6, Busy
  <2>5. t.root = sols[i].root BY <1>4
  <2> HIDE DEF s, waiting
  <2> QED BY <1>1, <1>2, <1>4, <1>7, <2>1, <2>2, <2>3, <2>4, <2>5, Busy, IdleFits, StepPut
<1> QED BY <1>9, <1>10

-----------------------------------------------------------------------------
(* Loose projects.                                                          *)
LEMMA SlotIs == ASSUME NEW i \in Slots PROVE i # None /\ i \in Agreed
<1>1. i \in Nat BY BoundsAssumption, FS_CardinalityType DEF Slots
<1> QED BY <1>1, NamesAssumption DEF Agreed

(* OpenProject begins, with a solution created on demand.                   *)
LEMMA BeginOpenProjectKeeps ==
    ASSUME Managed, NEW c \in Calls, UNCHANGED features, NEW p \in Projects, BeginOpenProject(c, p) PROVE Managed'
<1> DEFINE i == IF active = None THEN FreeSlot ELSE active
           s == IF active = None THEN Solution(DefaultName, None) ELSE sols[active]
           path == MemberPath(s, p)
           k == [op |-> "openProject", pc |-> "manifest", sol |-> i, project |-> p, path |-> path]
           isMember == \E j \in DOMAIN s.members : s.members[j].path = path
           q == IF isMember THEN Idle ELSE k
<1>1. Step(c, [sols EXCEPT ![i] = s], i, q) /\ UNCHANGED <<disk, recent, last, stored, edits, started>>
  BY DEF BeginOpenProject, SameSession, Elsewhere
<1>2. call[c] = Idle /\ MayInterfere /\ "openProject" \in features BY DEF BeginOpenProject, MayBegin
<1>3. i \in Slots /\ s \in Solutions /\ Fit(s, features) /\ (sols[i] # None => s.root = sols[i].root)
  <2>1. CASE active = None
    <3>1. i \in Slots /\ sols[i] = None BY <2>1, SlotFree DEF Managed
    <3>2. s \in Solutions /\ Fit(s, features) BY <2>1, NewSolution, NamesAssumption
    <3> QED BY <3>1, <3>2
  <2>2. CASE active # None BY <2>2, Busy
  <2> QED BY <2>1, <2>2
<1> HIDE DEF i, s
<1>4. path \in Paths BY DEF MemberPath, Paths
<1> HIDE DEF path
<1>5. k \in CallStates BY <1>3, <1>4 DEF CallStates
<1>6. ~Writes(k) /\ (\A j \in Slots : Holds(k, j) => j = i) BY DEF Writes, Holds
<1> DEFINE ss == [sols EXCEPT ![i] = s]
<1>7. ss[i] = s BY <1>3 DEF Managed, Objects, Stores
<1> HIDE DEF ss
<1>8. ~isMember => CallFits(k, ss, i, disk', features) BY <1>2, <1>6, <1>7 DEF CallFits
<1>9. q \in CallStates /\ ~Writes(q) /\ (\A j \in Slots : Holds(q, j) => j = i) /\ CallFits(q, ss, i, disk', features)
  BY <1>5, <1>6, <1>8, IdleFits
<1>10. Around(disk', recent', last', stored', edits', started') BY <1>1, AroundKept
<1>11. Single(features) => DiskOnce(disk') BY <1>1, Busy
<1> HIDE DEF q
<1> QED BY <1>1, <1>2, <1>3, <1>9, <1>10, <1>11, SlotIs, Busy, StepPut DEF ss

(* A member more, under a path nobody has.                                  *)
WithMember(s, m) == [s EXCEPT !.members = Append(@, m), !.dirty = TRUE]

(* The solution with the member added is in order.                          *)
LEMMA Appended ==
    ASSUME NEW s \in Solutions, Fit(s, features), NEW path \in Paths, NEW type \in Types, NEW id \in Nat,
           Single(features) => \A j \in DOMAIN s.members : s.members[j].path # path
    PROVE  LET t == WithMember(s, Unopened([path |-> path, type |-> type], id))
           IN  t \in Solutions /\ Fit(t, features) /\ t.root = s.root
<1> DEFINE m == Unopened([path |-> path, type |-> type], id)
           t == WithMember(s, m)
           M == [path : Paths, type : Types, status : Statuses, id : Nat]
           ms == Append(s.members, m)
<1>1. m \in M /\ m.path = path BY DEF Unopened, Statuses
<1>2. s.members \in Seq(M) BY DEF Solutions
<1> HIDE DEF M, m
<1>3. /\ ms \in Seq(M) /\ Len(ms) = Len(s.members) + 1 /\ ms[Len(s.members) + 1] = m /\ Len(s.members) \in Nat
      /\ DOMAIN ms = 1..Len(s.members) + 1 /\ DOMAIN s.members = 1..Len(s.members)
      /\ \A j \in DOMAIN s.members : ms[j] = s.members[j]
  BY <1>1, <1>2
<1> HIDE DEF ms
<1>4. t = [s EXCEPT !.members = ms, !.dirty = TRUE] BY DEF ms, WithMember, Solutions
<1>5. t \in Solutions BY <1>3, <1>4 DEF Solutions, M
<1>6. t.members = ms /\ t.dirty = TRUE /\ t.root = s.root /\ t.settings = s.settings /\ t.saved = s.saved
  BY <1>4 DEF Solutions
<1> HIDE DEF t
<1>7. ASSUME Single(features) PROVE PathsOnce(ms)
  <2>1. SUFFICES ASSUME NEW x \in DOMAIN ms, NEW y \in DOMAIN ms, x # y PROVE ms[x].path # ms[y].path
    BY DEF PathsOnce
  <2>2. x \in DOMAIN s.members \/ x = Len(s.members) + 1 BY <1>3
  <2>3. y \in DOMAIN s.members \/ y = Len(s.members) + 1 BY <1>3
  <2>4. CASE x \in DOMAIN s.members /\ y \in DOMAIN s.members
    BY <2>1, <2>4, <1>3, <1>7 DEF Fit, PathsOnce
  <2>5. CASE x \in DOMAIN s.members /\ y = Len(s.members) + 1 BY <2>5, <1>1, <1>3, <1>7
  <2>6. CASE y \in DOMAIN s.members /\ x = Len(s.members) + 1 BY <2>6, <1>1, <1>3, <1>7
  <2> QED BY <2>1, <2>2, <2>3, <2>4, <2>5, <2>6
<1>8. Fit(t, features) BY <1>6, <1>7 DEF Fit, Untitled
<1> QED BY <1>5, <1>6, <1>8 DEF t, m

(* The project becomes a member.                                            *)
LEMMA AddKeeps ==
    ASSUME Managed, NEW c \in Calls, UNCHANGED features, AddProject(c) PROVE Managed'
<1> DEFINE i == call[c].sol
           s == sols[i]
           id == NewMemberId(s)
           t == WithMember(s, Unopened([path |-> call[c].path, type |-> TypeOf[call[c].project]], id))
           k == [op |-> "openProject", pc |-> "opening", sol |-> i, id |-> id, project |-> call[c].project]
<1>1. Step(c, [sols EXCEPT ![i] = t], active, k) /\ UNCHANGED <<disk, recent, last, stored, edits, started>>
      /\ Len(s.members) < MaxMembers
  BY DEF AddProject, SameSession, Elsewhere, WithMember
<1>2. call[c] # Idle /\ call[c].pc = "manifest" /\ call[c] \in CallStates BY Busy DEF AddProject, At
<1>3. call[c].op = "openProject" /\ i \in Slots /\ Holds(call[c], i) /\ call[c].project \in Projects /\ call[c].path \in Paths
  BY <1>2, Kinds
<1>4. s \in Solutions /\ Fit(s, features) BY <1>3, Busy
<1>5. id \in Nat BY <1>1, <1>4, MemberIdFree
<1>6. Single(features) => /\ i = active /\ "openProject" \in features
                          /\ \A j \in DOMAIN s.members : s.members[j].path # call[c].path
  <2>1. Single(features) => CallFits(call[c], sols, active, disk, features) BY Busy
  <2> QED BY <2>1, <1>2, <1>3 DEF CallFits
<1>7. TypeOf[call[c].project] \in Types BY <1>3 DEF Types
<1> HIDE DEF s, id
<1>8. t \in Solutions /\ Fit(t, features) /\ t.root = s.root BY <1>3, <1>4, <1>5, <1>6, <1>7, Appended
<1>9. k \in CallStates BY <1>3, <1>5 DEF CallStates
<1>10. ~Writes(k) /\ (\A j \in Slots : Holds(k, j) => j = i) BY DEF Writes, Holds
<1>11. \A ss : Single(features) => CallFits(k, ss, active, disk', features) BY <1>6, <1>10 DEF CallFits
<1>12. Around(disk', recent', last', stored', edits', started') BY <1>1, AroundKept
<1>13. active \in Agreed /\ (active # None => sols[active] # None) BY Busy DEF Managed, Objects
<1>14. Single(features) => DiskOnce(disk') /\ active # None BY <1>1, <1>3, <1>6, SlotIs, Busy
<1>15. t.root = sols[i].root BY <1>8 DEF s
<1> HIDE DEF t, k
<1> QED BY <1>1, <1>2, <1>3, <1>8, <1>9, <1>10, <1>11, <1>12, <1>13, <1>14, <1>15, Busy, StepPut

(* Opening and closing projects clears the mark of an untitled solution, so *)
(* only behaviours without edits combine the two, unless calls overlap.     *)
Apart == \A M \in Mixes : Single(M) /\ "edit" \in M => M \cap {"openProject", "closeProject"} = {}

(* The project is open.                                                     *)
LEMMA OpenedKeeps ==
    ASSUME Apart, Managed, NEW c \in Calls, UNCHANGED features, ProjectOpened(c) PROVE Managed'
<1> DEFINE i == call[c].sol
           s == sols[i]
           ms == [j \in DOMAIN s.members |->
                    IF s.members[j].id = call[c].id
                      THEN OpenedAt(s.members[j], MemberStorage(s, s.members[j].path))
                      ELSE s.members[j]]
           d == s.dirty /\ ~Untitled(s)
           t == Among(s, ms, d)
<1>1. Step(c, [sols EXCEPT ![i] = [s EXCEPT !.members = ms, !.dirty = @ /\ ~Untitled(s)]], active, Idle)
      /\ UNCHANGED <<disk, recent, last, stored, edits, started>>
  BY DEF ProjectOpened, SameSession, Elsewhere
<1>2. call[c] # Idle /\ call[c].pc = "opening" /\ call[c] \in CallStates BY Busy DEF ProjectOpened, At
<1>3. call[c].op = "openProject" /\ i \in Slots /\ Holds(call[c], i) BY <1>2, Kinds
<1>4. s \in Solutions /\ Fit(s, features) BY <1>3, Busy
<1>5. Single(features) => "edit" \notin features
  <2>1. Single(features) => CallFits(call[c], sols, active, disk, features) BY Busy
  <2>2. Single(features) => "openProject" \in features BY <2>1, <1>3 DEF CallFits
  <2> QED BY <2>2 DEF Apart, Managed
<1>6. ms = [x \in DOMAIN s.members |-> ms[x]]
      /\ \A x \in DOMAIN s.members : ms[x] = s.members[x] \/ \E p : ms[x] = OpenedAt(s.members[x], p)
  OBVIOUS
<1> HIDE DEF s, ms
<1>7. d \in BOOLEAN /\ [s EXCEPT !.members = ms, !.dirty = @ /\ ~Untitled(s)] = t
  BY <1>4 DEF Solutions, Among
<1>8. Single(features) /\ Unsaved(s) => d BY <1>4, <1>5 DEF Fit, Unsaved
<1> HIDE DEF d
<1>9. t \in Solutions /\ Fit(t, features) /\ t.root = s.root BY <1>4, <1>6, <1>7, <1>8, Reopened
<1>10. Step(c, [sols EXCEPT ![i] = t], active, Idle) BY <1>1, <1>7
<1>12. Around(disk', recent', last', stored', edits', started') BY <1>1, AroundKept
<1>13. active \in Agreed /\ (active # None => sols[active] # None) BY Busy DEF Managed, Objects
<1>14. Single(features) => DiskOnce(disk') /\ active # None
  <2>1. Single(features) => CallFits(call[c], sols, active, disk, features) BY Busy
  <2>2. Single(features) => i = active BY <2>1, <1>3 DEF CallFits
  <2> QED BY <1>1, <1>3, <2>2, SlotIs, Busy
<1>15. t.root = sols[i].root BY <1>9 DEF s
<1> HIDE DEF t
<1> QED BY <1>2, <1>3, <1>9, <1>10, <1>12, <1>13, <1>14, <1>15, IdleFits, Busy, StepPut

(* A step on the active solution that no call takes.                        *)
LEMMA ActivePut ==
    ASSUME Managed, UNCHANGED <<features, active, call, disk, recent, last, stored, started>>, edits' \in Nat,
           active # None, MayInterfere, NEW s \in Solutions, Fit(s, features), s.root = sols[active].root,
           sols' = [sols EXCEPT ![active] = s]
    PROVE  Managed'
<1>1. Objects(sols, active, call, features) BY DEF Managed
<1>2. active \in Slots /\ s # None BY <1>1, NamesAssumption DEF Objects, Agreed
<1>3. sols' \in Stores /\ sols'[active] = s /\ \A j \in Slots \ {active} : sols'[j] = sols[j]
  BY <1>1, <1>2 DEF Objects, Stores
<1>6. \A e \in Calls : Writes(call[e]) => call[e].sol \in Slots
  BY <1>1 DEF Objects, Writes, CallStates, Idle
<1>7. \A e \in Calls : Writes(call[e]) => sols'[call[e].sol].root \in Folders
  BY <1>1, <1>2, <1>3, <1>6 DEF Objects
<1>8. Objects(sols', active', call', features') BY <1>1, <1>2, <1>3, <1>7 DEF Objects
<1>9. ASSUME Single(features) PROVE Alone(sols', active', call', last', disk', started', features')
  <2>1. \A e \in Calls : call[e] = Idle BY <1>9 DEF MayInterfere, OneAtATime, Single
  <2>2. \A e \in Calls : CallFits(call'[e], sols', active', disk', features') BY <2>1, IdleFits
  <2>3. Alone(sols, active, call, last, disk, started, features) BY <1>9 DEF Managed
  <2> QED BY <2>1, <2>2, <2>3 DEF Alone
<1>10. Around(disk', recent', last', stored', edits', started') BY AroundKept DEF Around
<1> QED BY <1>8, <1>9, <1>10 DEF Managed

(* A project is closed.                                                     *)
LEMMA CloseProjectKeeps ==
    ASSUME Apart, Managed, UNCHANGED features, NEW n \in Nat, CloseProject(n) PROVE Managed'
<1> DEFINE s == sols[active]
           ms == RemoveAt(s.members, n)
           t == [s EXCEPT !.members = RemoveAt(@, n), !.dirty = ~Untitled(s)]
           M == [path : Paths, type : Types, status : Statuses, id : Nat]
<1>1. /\ "closeProject" \in features /\ active # None /\ MayInterfere /\ n \in DOMAIN s.members
      /\ sols' = [sols EXCEPT ![active] = t]
      /\ UNCHANGED <<active, call, disk, recent, last, stored, edits, started>>
  BY DEF CloseProject, SameSession, Elsewhere
<1>2. s \in Solutions /\ Fit(s, features) BY <1>1 DEF Managed, Objects, Stores, Agreed
<1> HIDE DEF s
<1>3. s.members \in Seq(M) BY <1>2 DEF Solutions
<1> HIDE DEF M
<1>4. /\ ms \in Seq(M) /\ DOMAIN ms = 1..Len(s.members) - 1 /\ DOMAIN s.members = 1..Len(s.members)
      /\ Len(s.members) \in Nat
      /\ \A x \in DOMAIN ms : ms[x] = s.members[IF x < n THEN x ELSE x + 1]
  <2> DEFINE N == Len(s.members)
             b == SubSeq(s.members, 1, n - 1)
             e == SubSeq(s.members, n + 1, N)
  <2>1. N \in Nat /\ DOMAIN s.members = 1..N /\ n \in 1..N /\ n - 1 \in Nat BY <1>1, <1>3
  <2>2. b \in Seq(M) /\ Len(b) = n - 1 /\ \A x \in 1..n - 1 : b[x] = s.members[x] BY <1>3, <2>1
  <2>3. e \in Seq(M) /\ Len(e) = N - n /\ \A x \in 1..N - n : e[x] = s.members[x + n] BY <1>3, <2>1
  <2>4. ms = b \o e BY DEF RemoveAt
  <2> HIDE DEF b, e, ms
  <2>8. Len(ms) = Len(b) + Len(e) /\ ms \in Seq(M)
    <3>1. b \in Seq(M) /\ e \in Seq(M) BY <2>2, <2>3
    <3>2. Len(b \o e) = Len(b) + Len(e) /\ b \o e \in Seq(M) BY <3>1
    <3> QED BY <2>4, <3>2
  <2>9. Len(ms) = N - 1 BY <2>1, <2>2, <2>3, <2>8
  <2>5. ms \in Seq(M) /\ DOMAIN ms = 1..N - 1 BY <2>8, <2>9
  <2>6. ASSUME NEW x \in 1..N - 1 PROVE ms[x] = s.members[IF x < n THEN x ELSE x + 1]
    <3>1. CASE x < n BY <3>1, <2>1, <2>2, <2>3, <2>4
    <3>2. CASE ~(x < n)
      <4>1. x - (n - 1) \in 1..N - n /\ x - (n - 1) + n = x + 1 BY <3>2, <2>1
      <4>2. ms[x] = e[x - (n - 1)] BY <3>2, <4>1, <2>1, <2>2, <2>3, <2>4
      <4>3. e[x - (n - 1)] = s.members[x - (n - 1) + n] BY <4>1, <2>3
      <4> QED BY <3>2, <4>1, <4>2, <4>3
    <3> QED BY <3>1, <3>2
  <2> HIDE DEF N
  <2>7. \A x \in DOMAIN ms : ms[x] = s.members[IF x < n THEN x ELSE x + 1] BY <2>5, <2>6
  <2> QED BY <2>1, <2>5, <2>7 DEF N
<1> HIDE DEF ms
<1>5. t = [s EXCEPT !.members = ms, !.dirty = ~Untitled(s)] BY <1>2 DEF Solutions, ms
<1>6. (~Untitled(s)) \in BOOLEAN BY DEF Untitled
<1>7. t \in Solutions BY <1>2, <1>4, <1>5, <1>6 DEF Solutions, M
<1>8. t.members = ms /\ t.dirty = ~Untitled(s) /\ t.root = s.root /\ t.settings = s.settings /\ t.saved = s.saved
  BY <1>2, <1>5 DEF Solutions
<1> HIDE DEF t
<1>9. ASSUME PathsOnce(s.members) PROVE PathsOnce(ms)
  <2>1. SUFFICES ASSUME NEW x \in DOMAIN ms, NEW y \in DOMAIN ms, x # y PROVE ms[x].path # ms[y].path
    BY DEF PathsOnce
  <2> DEFINE u == IF x < n THEN x ELSE x + 1
             v == IF y < n THEN y ELSE y + 1
  <2>2. u \in DOMAIN s.members /\ v \in DOMAIN s.members /\ u # v BY <1>1, <1>4, <2>1
  <2>3. ms[x] = s.members[u] /\ ms[y] = s.members[v] BY <1>4
  <2> QED BY <2>2, <2>3, <1>9 DEF PathsOnce
<1>10. "edit" \notin features \/ ~Single(features) BY <1>1 DEF Apart, Managed
<1>11. Fit(t, features) BY <1>2, <1>8, <1>9, <1>10 DEF Fit, Unsaved, Untitled
<1>12. t.root = sols[active].root /\ edits' \in Nat BY <1>1, <1>8, AroundKept DEF s, Around
<1> QED BY <1>1, <1>7, <1>11, <1>12, ActivePut

-----------------------------------------------------------------------------
(* Saving and renaming.                                                     *)
LEMMA DiskPut ==
    ASSUME IsDisk(disk), NEW f \in Folders, NEW g, g = [n \in DOMAIN g |-> g[n]],
           \A n \in DOMAIN g : n \in Names /\ g[n] \in Manifests,
           disk' = [disk EXCEPT ![f] = g]
    PROVE  /\ IsDisk(disk')
           /\ DiskOnce(disk) /\ (\A n \in DOMAIN g : PathsOnce(g[n].members)) => DiskOnce(disk')
<1>1. g \in [DOMAIN g -> Manifests] /\ DOMAIN g \subseteq Names OBVIOUS
<1>2. DOMAIN disk = Folders BY DEF IsDisk
<1>3. disk'[f] = g /\ \A h \in Folders \ {f} : disk'[h] = disk[h] BY <1>2
<1>4. disk' = [h \in Folders |-> disk'[h]] BY <1>2
<1>5. \A h \in Folders : DOMAIN disk'[h] \subseteq Names /\ disk'[h] \in [DOMAIN disk'[h] -> Manifests]
  BY <1>1, <1>3 DEF IsDisk
<1>6. IsDisk(disk') BY <1>4, <1>5 DEF IsDisk
<1>7. DiskOnce(disk) /\ (\A n \in DOMAIN g : PathsOnce(g[n].members)) => DiskOnce(disk')
  BY <1>3 DEF DiskOnce
<1> QED BY <1>6, <1>7

(* What would be saved of a solution is a manifest.                         *)
LEMMA ContentFits ==
    ASSUME NEW s \in Solutions
    PROVE  /\ Content(s) \in Manifests /\ Content(s).settings = s.settings
           /\ Content(s).members = Refs(s.members)
           /\ PathsOnce(s.members) => PathsOnce(Content(s).members)
<1> DEFINE M == [path : Paths, type : Types, status : Statuses, id : Nat]
           R == [path : Paths, type : Types]
           ms == s.members
           rs == Refs(ms)
<1>1. ms \in Seq(M) /\ s.settings \in Nat BY DEF Solutions
<1> HIDE DEF ms
<1>2. Len(ms) \in Nat /\ DOMAIN ms = 1..Len(ms) /\ \A j \in DOMAIN ms : ms[j] \in M
  <2> HIDE DEF M
  <2> QED BY <1>1, SeqItems
<1>3. DOMAIN rs = DOMAIN ms /\ \A j \in DOMAIN ms : rs[j] = [path |-> ms[j].path, type |-> ms[j].type]
  BY DEF Refs
<1>4. \A j \in DOMAIN ms : rs[j] \in R /\ rs[j].path = ms[j].path BY <1>2, <1>3
<1>5. rs \in Seq(R)
  <2>1. rs = [j \in 1..Len(ms) |-> rs[j]] BY <1>2 DEF Refs
  <2>2. \A j \in 1..Len(ms) : rs[j] \in R BY <1>2, <1>4
  <2> HIDE DEF rs, R
  <2> QED BY <1>2, <2>1, <2>2, SeqMade
<1> HIDE DEF rs
<1>6. Content(s) = [members |-> rs, settings |-> s.settings] BY DEF Content, rs, ms
<1>7. Content(s) \in Manifests BY <1>1, <1>5, <1>6 DEF Manifests
<1>8. PathsOnce(ms) => PathsOnce(rs) BY <1>3, <1>4 DEF PathsOnce
<1> QED BY <1>6, <1>7, <1>8 DEF rs, ms

(* The call leaves the objects as they are and goes on, or ends.            *)
LEMMA GoesOn ==
    ASSUME Managed, NEW c \in Calls, UNCHANGED features,
           (call[c] = Idle /\ MayInterfere) \/ (call[c] # Idle /\ ~Reopens(call[c])),
           UNCHANGED <<disk, recent, last, stored, edits, started>>,
           NEW k \in CallStates, Step(c, sols, active, k),
           \A j \in Slots : Holds(k, j) => sols[j] # None, Writes(k) => sols[k.sol].root \in Folders,
           Single(features) => CallFits(k, sols, active, disk, features)
    PROVE  Managed'
<1>1. Around(disk', recent', last', stored', edits', started') BY AroundKept
<1>2. Single(features) => /\ CallFits(k, sols, active, disk', features) /\ DiskOnce(disk')
                          /\ started' /\ active = None => last' = None
  BY Busy
<1>3. Single(features) => \A e \in Calls \ {c} : call[e] = Idle BY Busy
<1> QED BY <1>1, <1>2, <1>3, StepSame

(* Save begins: with the manifest as it is, or by asking for a folder.      *)
LEMMA BeginSaveKeeps == ASSUME Managed, NEW c \in Calls, UNCHANGED features, BeginSave(c) PROVE Managed'
<1> DEFINE s == sols[active]
           p == [op |-> "save", pc |-> "pick"]
           w == [op |-> "save", pc |-> "write", sol |-> active, file |-> s.name, content |-> Content(s)]
<1>1. /\ call[c] = Idle /\ MayInterfere /\ active # None
      /\ Step(c, sols, active, IF Untitled(s) THEN p ELSE w)
      /\ UNCHANGED <<disk, recent, last, stored, edits, started>>
  BY DEF BeginSave, MayBegin, SameSession, Elsewhere
<1>2. active \in Slots /\ s \in Solutions BY <1>1, Busy
<1>3. CASE Untitled(s)
  <2>1. p \in CallStates /\ ~Writes(p) /\ \A j \in Slots : ~Holds(p, j) BY DEF CallStates, Writes, Holds
  <2>2. CallFits(p, sols, active, disk, features) BY <2>1 DEF CallFits
  <2>3. Step(c, sols, active, p) BY <1>1, <1>3
  <2> HIDE DEF p
  <2> QED BY <1>1, <2>1, <2>2, <2>3, GoesOn
<1>4. CASE ~Untitled(s)
  <2>1. s.root \in Folders BY <1>2, <1>4 DEF Solutions, Untitled
  <2>2. w \in CallStates
    <3>1. Content(s) \in Manifests /\ s.name \in Names BY <1>2, ContentFits DEF Solutions
    <3> HIDE DEF s
    <3> QED BY <1>2, <3>1 DEF CallStates
  <2>3. \A j \in Slots : Holds(w, j) => sols[j] # None BY <1>2, NamesAssumption DEF Holds
  <2>4. CallFits(w, sols, active, disk, features) BY DEF CallFits
  <2>5. w.sol = active /\ Step(c, sols, active, w) BY <1>1, <1>4
  <2> HIDE DEF w
  <2> QED BY <1>1, <2>1, <2>2, <2>3, <2>4, <2>5, GoesOn
<1> QED BY <1>3, <1>4

(* The object once its manifest was written.                                *)
LEMMA SavedFits ==
    ASSUME NEW s \in Solutions, Fit(s, features), s.root \in Folders, NEW m \in Manifests,
           Single(features) => m = Content(s)
    PROVE  LET t == [s EXCEPT !.dirty = FALSE, !.saved = m]
           IN  t \in Solutions /\ Fit(t, features) /\ t.root = s.root
<1> DEFINE t == [s EXCEPT !.dirty = FALSE, !.saved = m]
<1>1. /\ t \in Solutions /\ t.root = s.root /\ t.members = s.members /\ t.settings = s.settings
      /\ t.dirty = FALSE /\ t.saved = m
  BY DEF Solutions
<1>2. ~Untitled(t) BY <1>1, NamesAssumption DEF Untitled
<1> HIDE DEF t
<1>3. Single(features) => ~Unsaved(t) BY <1>1, ContentFits DEF Unsaved
<1>4. Fit(t, features) BY <1>1, <1>2, <1>3 DEF Fit
<1> QED BY <1>1, <1>4 DEF t

(* The manifest was written.                                                *)
LEMMA SaveWrittenKeeps ==
    ASSUME Managed, NEW c \in Calls, UNCHANGED features, SaveWritten(c)
    PROVE Managed'
<1> DEFINE i == call[c].sol
           s == sols[i]
           m == call[c].content
           t == [s EXCEPT !.dirty = FALSE, !.saved = m]
           g == Written(disk[s.root], call[c].file, m)
<1>1. /\ disk' = [disk EXCEPT ![s.root] = g]
      /\ Step(c, [sols EXCEPT ![i] = t], active, Idle)
      /\ PushRecent(s.root) /\ UNCHANGED <<stored, edits, started>>
  <2>1. disk' = [disk EXCEPT ![s.root] = Written(@, call[c].file, m)] BY DEF SaveWritten
  <2>2. disk' = [disk EXCEPT ![s.root] = g] BY <2>1
  <2> QED BY <2>2 DEF SaveWritten
<1>2. call[c] # Idle /\ call[c].pc = "write" /\ call[c] \in CallStates BY Busy DEF SaveWritten, At
<1>3. call[c].op = "save" /\ Writes(call[c]) /\ i \in Slots /\ Holds(call[c], i) /\ call[c].file \in Names /\ m \in Manifests
  BY <1>2, Kinds
<1>4. s \in Solutions /\ Fit(s, features) /\ s.root \in Folders BY <1>3, Busy
<1>5. Single(features) => i = active /\ m = Content(s)
  <2>1. Single(features) => CallFits(call[c], sols, active, disk, features) BY Busy
  <2> QED BY <2>1, <1>2, <1>3 DEF CallFits
<1>6. IsDisk(disk) BY AroundKept DEF Around
<1>7. /\ g = [n \in DOMAIN g |-> g[n]]
      /\ \A n \in DOMAIN g : (n = call[c].file /\ g[n] = m) \/ (n \in DOMAIN disk[s.root] /\ g[n] = disk[s.root][n])
  BY DEF Written
<1> HIDE DEF g, m, s
<1>8. \A n \in DOMAIN g : n \in Names /\ g[n] \in Manifests BY <1>3, <1>4, <1>6, <1>7 DEF IsDisk
<1>9. Single(features) => DiskOnce(disk) /\ \A n \in DOMAIN g : PathsOnce(g[n].members)
  <2>1. ASSUME Single(features) PROVE DiskOnce(disk) /\ PathsOnce(m.members)
    <3>1. PathsOnce(s.members) BY <2>1, <1>4 DEF Fit
    <3> QED BY <2>1, <3>1, <1>4, <1>5, ContentFits, Busy
  <2> QED BY <2>1, <1>4, <1>7 DEF DiskOnce
<1>10. IsDisk(disk') /\ (Single(features) => DiskOnce(disk'))
  BY <1>1, <1>4, <1>6, <1>7, <1>8, <1>9, DiskPut
<1>11. t \in Solutions /\ Fit(t, features) /\ t.root = s.root BY <1>3, <1>4, <1>5, SavedFits
<1>12. Around(disk', recent', last', stored', edits', started')
  <2>1. recent \in Seq(Folders) /\ Once(recent) BY AroundKept DEF Around, Remembers
  <2> QED BY <1>1, <1>4, <1>10, <2>1, Pushed, AroundKept DEF Around
<1>13. active \in Agreed /\ (active # None => sols[active] # None) BY Busy DEF Managed, Objects
<1>14. Single(features) => active # None BY <1>3, <1>5, SlotIs
<1>15. t.root = sols[i].root BY <1>11 DEF s
<1> HIDE DEF t
<1> QED BY <1>1, <1>2, <1>3, <1>10, <1>11, <1>12, <1>13, <1>14, <1>15, IdleFits, Busy, StepPut

(* SaveAs takes what is active along.                                       *)
LEMMA SaveAsToKeeps ==
    ASSUME Managed, NEW c \in Calls, UNCHANGED features,
           (call[c] = Idle /\ MayInterfere) \/ (call[c] # Idle /\ ~Reopens(call[c])),
           UNCHANGED <<disk, recent, last, stored, edits, started>>, NEW f \in Folders, SaveAsTo(c, f)
    PROVE  Managed'
<1> DEFINE s == sols[active]
           w == [op |-> "saveAs", pc |-> "writeAs", sol |-> active, folder |-> f, file |-> s.name, content |-> Content(s)]
<1>1. CASE active = None
  <2>1. Step(c, sols, active, Idle) BY <1>1 DEF SaveAsTo
  <2> QED BY <2>1, IdleFits, GoesOn
<1>2. CASE active # None
  <2>1. active \in Slots /\ s \in Solutions BY <1>2, Busy
  <2>2. w \in CallStates
    <3>1. Content(s) \in Manifests /\ s.name \in Names BY <2>1, ContentFits DEF Solutions
    <3> HIDE DEF s
    <3> QED BY <2>1, <3>1 DEF CallStates
  <2>3. (\A j \in Slots : Holds(w, j) => sols[j] # None) /\ ~Writes(w)
    BY <2>1, NamesAssumption DEF Holds, Writes
  <2>4. CallFits(w, sols, active, disk, features) BY <2>3 DEF CallFits
  <2>5. Step(c, sols, active, w) BY <1>2 DEF SaveAsTo
  <2> HIDE DEF w
  <2> QED BY <2>2, <2>3, <2>4, <2>5, GoesOn
<1> QED BY <1>1, <1>2

(* SaveAs begins.                                                           *)
LEMMA BeginSaveAsKeeps ==
    ASSUME Managed, NEW c \in Calls, UNCHANGED features, NEW f \in Folders, BeginSaveAs(c, f) PROVE Managed'
BY SaveAsToKeeps DEF BeginSaveAs, MayBegin, SameSession, Elsewhere

(* The user picks a folder, or cancels.                                     *)
LEMMA PickKeeps == ASSUME Managed, NEW c \in Calls, UNCHANGED features, Pick(c) PROVE Managed'
<1>1. call[c] # Idle /\ call[c].pc = "pick" /\ call[c] \in CallStates BY Busy DEF Pick, At
<1>2. ~Reopens(call[c]) BY <1>1, Kinds DEF Reopens
<1>3. UNCHANGED <<disk, recent, last, stored, edits, started>> BY DEF Pick, SameSession, Elsewhere
<1>4. CASE \E f \in Folders : SaveAsTo(c, f) BY <1>1, <1>2, <1>3, <1>4, SaveAsToKeeps
<1>5. CASE Step(c, sols, active, Idle) BY <1>1, <1>2, <1>3, <1>5, IdleFits, GoesOn
<1> QED BY <1>4, <1>5 DEF Pick

(* The manifest was written at the new place, where another object stands   *)
(* for it.                                                                  *)
LEMMA SaveAsWrittenKeeps ==
    ASSUME Managed, NEW c \in Calls, UNCHANGED features, SaveAsWritten(c)
    PROVE Managed'
<1> DEFINE s == sols[call[c].sol]
           f == call[c].folder
           m == call[c].content
           t == AsRead(s.name, f, s.members, s.settings, m)
           g == Written(disk[f], call[c].file, m)
<1>1. /\ disk' = [disk EXCEPT ![f] = g]
      /\ Step(c, [sols EXCEPT ![FreeSlot] = t], FreeSlot, Idle)
      /\ PushRecent(f) /\ UNCHANGED <<stored, edits, started>>
  <2>1. disk' = [disk EXCEPT ![f] = Written(@, call[c].file, m)] BY DEF SaveAsWritten
  <2>2. disk' = [disk EXCEPT ![f] = g] BY <2>1
  <2> QED BY <2>2 DEF SaveAsWritten, AsRead
<1>2. call[c] # Idle /\ call[c].pc = "writeAs" /\ call[c] \in CallStates BY Busy DEF SaveAsWritten, At
<1>3. call[c].op = "saveAs" /\ call[c].sol \in Slots /\ Holds(call[c], call[c].sol) /\ f \in Folders
      /\ call[c].file \in Names /\ m \in Manifests
  BY <1>2, Kinds
<1>4. s \in Solutions /\ Fit(s, features) BY <1>3, Busy
<1>5. Single(features) => m = Content(s)
  <2>1. Single(features) => CallFits(call[c], sols, active, disk, features) BY Busy
  <2> QED BY <2>1, <1>2, <1>3 DEF CallFits
<1>6. IsDisk(disk) BY AroundKept DEF Around
<1>7. /\ g = [n \in DOMAIN g |-> g[n]]
      /\ \A n \in DOMAIN g : (n = call[c].file /\ g[n] = m) \/ (n \in DOMAIN disk[f] /\ g[n] = disk[f][n])
  BY DEF Written
<1> HIDE DEF g, m, s, f
<1>8. \A n \in DOMAIN g : n \in Names /\ g[n] \in Manifests BY <1>3, <1>6, <1>7 DEF IsDisk
<1>9. Single(features) => DiskOnce(disk) /\ (\A n \in DOMAIN g : PathsOnce(g[n].members)) /\ PathsOnce(s.members)
  <2>1. ASSUME Single(features) PROVE DiskOnce(disk) /\ PathsOnce(m.members) /\ PathsOnce(s.members)
    <3>1. PathsOnce(s.members) BY <2>1, <1>4 DEF Fit
    <3> QED BY <2>1, <3>1, <1>4, <1>5, ContentFits, Busy
  <2> QED BY <2>1, <1>3, <1>7 DEF DiskOnce
<1>10. IsDisk(disk') /\ (Single(features) => DiskOnce(disk'))
  BY <1>1, <1>3, <1>6, <1>7, <1>8, <1>9, DiskPut
<1>11. s.name \in Names /\ Readable(s.members, s.settings, m, features)
  <2> DEFINE M == [path : Paths, type : Types, status : Statuses, id : Nat]
  <2>1. s.members \in Seq(M) /\ s.settings \in Nat /\ s.name \in Names BY <1>4 DEF Solutions
  <2>2. Len(s.members) \in Nat /\ DOMAIN s.members = 1..Len(s.members) /\ \A j \in DOMAIN s.members : s.members[j] \in M
    <3> HIDE DEF M
    <3> QED BY <2>1, SeqItems
  <2>3. \A j \in DOMAIN s.members : s.members[j].path \in Paths /\ s.members[j].type \in Types BY <2>2
  <2>4. Single(features) => Refs(s.members) = m.members /\ s.settings = m.settings
    BY <1>4, <1>5, ContentFits
  <2> QED BY <1>3, <1>9, <2>1, <2>2, <2>3, <2>4 DEF Readable
<1>12. t \in Solutions /\ Fit(t, features) BY <1>3, <1>11, Reread
<1>13. Around(disk', recent', last', stored', edits', started')
  <2>1. recent \in Seq(Folders) /\ Once(recent) BY AroundKept DEF Around, Remembers
  <2> QED BY <1>1, <1>3, <1>10, <2>1, Pushed, AroundKept DEF Around
<1> HIDE DEF t
<1> QED BY <1>1, <1>2, <1>10, <1>12, <1>13, ReplacedKeeps

(* A renamed object is in order.                                            *)
LEMMA RenamedFits ==
    ASSUME NEW s \in Solutions, Fit(s, features), NEW n \in Names
    PROVE  Renamed(s, n) \in Solutions /\ Fit(Renamed(s, n), features) /\ Renamed(s, n).root = s.root
<1> DEFINE t == Renamed(s, n)
<1>1. /\ t \in Solutions /\ t.root = s.root /\ t.members = s.members /\ t.settings = s.settings
      /\ t.dirty = TRUE /\ t.saved = s.saved
  BY DEF Solutions, Renamed
<1> HIDE DEF t
<1>2. Fit(t, features) BY <1>1 DEF Fit, Untitled
<1> QED BY <1>1, <1>2 DEF t

(* A rename ends: the object has the new name, the disk is in order.        *)
LEMMA RenameEnds ==
    ASSUME Managed, NEW c \in Calls, UNCHANGED features,
           (call[c] = Idle /\ MayInterfere) \/ (call[c] # Idle /\ ~Reopens(call[c])),
           NEW i \in Slots, sols[i] \in Solutions, Fit(sols[i], features), NEW n \in Names, active # None \/ ~Single(features),
           Step(c, [sols EXCEPT ![i] = Renamed(sols[i], n)], active, Idle),
           Around(disk', recent', last', stored', edits', started'), Single(features) => DiskOnce(disk')
    PROVE  Managed'
<1> DEFINE t == Renamed(sols[i], n)
<1>1. t \in Solutions /\ Fit(t, features) /\ t.root = sols[i].root BY RenamedFits
<1>2. active \in Agreed /\ (active # None => sols[active] # None) BY Busy DEF Managed, Objects
<1>3. Single(features) => \A e \in Calls \ {c} : call[e] = Idle BY Busy
<1>4. Step(c, [sols EXCEPT ![i] = t], active, Idle) OBVIOUS
<1> HIDE DEF t
<1> QED BY <1>1, <1>2, <1>3, <1>4, IdleFits, StepPut

(* Rename begins; an untitled solution is renamed at once.                  *)
LEMMA BeginRenameKeeps ==
    ASSUME Managed, NEW c \in Calls, UNCHANGED features, NEW n \in Names, BeginRename(c, n) PROVE Managed'
<1> DEFINE s == sols[active]
           k == [op |-> "rename", pc |-> "exists", sol |-> active, from |-> s.name, to |-> n]
<1>1. /\ call[c] = Idle /\ MayInterfere /\ active # None
      /\ IF Untitled(s) THEN Step(c, [sols EXCEPT ![active] = Renamed(s, n)], active, Idle)
         ELSE Step(c, sols, active, k)
      /\ UNCHANGED <<disk, recent, last, stored, edits, started>>
  BY DEF BeginRename, MayBegin, SameSession, Elsewhere
<1>2. active \in Slots /\ s \in Solutions /\ Fit(s, features) BY <1>1, Busy
<1>3. CASE Untitled(s)
  <2>1. Around(disk', recent', last', stored', edits', started') /\ (Single(features) => DiskOnce(disk'))
    BY <1>1, AroundKept, Busy
  <2> QED BY <1>1, <1>2, <1>3, <2>1, RenameEnds
<1>4. CASE ~Untitled(s)
  <2>1. s.root \in Folders /\ s.name \in Names BY <1>2, <1>4 DEF Solutions, Untitled
  <2>2. k \in CallStates
    <3> HIDE DEF s
    <3> QED BY <1>2, <2>1 DEF CallStates
  <2>3. \A j \in Slots : Holds(k, j) => sols[j] # None BY <1>2, NamesAssumption DEF Holds
  <2>4. CallFits(k, sols, active, disk, features) BY DEF CallFits
  <2>5. k.sol = active /\ Step(c, sols, active, k) BY <1>1, <1>4
  <2> HIDE DEF k
  <2> QED BY <1>1, <2>1, <2>2, <2>3, <2>4, <2>5, GoesOn
<1> QED BY <1>3, <1>4

(* The storage answered whether there is an old manifest.                   *)
LEMMA ExistsKeeps ==
    ASSUME Managed, NEW c \in Calls, UNCHANGED features, OldManifestExists(c)
    PROVE Managed'
<1> DEFINE k == call[c]
           s == sols[k.sol]
           q == [k EXCEPT !.pc = "move"]
<1>1. k # Idle /\ k.pc = "exists" /\ k \in CallStates BY Busy DEF OldManifestExists, At
<1>2. k.op = "rename" /\ Writes(k) /\ k.sol \in Slots /\ Holds(k, k.sol) /\ k.from \in Names /\ k.to \in Names /\ q \in CallStates
  BY <1>1, Kinds
<1>3. s \in Solutions /\ Fit(s, features) /\ s.root \in Folders BY <1>2, Busy
<1>4. Single(features) => k.sol = active
  <2>1. Single(features) => CallFits(k, sols, active, disk, features) BY Busy
  <2> QED BY <2>1, <1>2 DEF CallFits
<1>5. UNCHANGED <<disk, recent, last, stored, edits, started>> /\ ~Reopens(k)
  BY <1>2 DEF OldManifestExists, SameSession, Elsewhere, Reopens
<1>6. CASE k.from \in DOMAIN disk[s.root]
  <2>1. Step(c, sols, active, q) BY <1>6 DEF OldManifestExists
  <2>2. q.op = "rename" /\ q.sol = k.sol /\ q.pc = "move" BY <1>1, <1>2 DEF CallStates, Idle
  <2> HIDE DEF q
  <2>3. \A j \in Slots : Holds(q, j) => j = k.sol BY <2>2 DEF Holds
  <2>4. Single(features) => CallFits(q, sols, active, disk, features) BY <1>4, <2>2 DEF CallFits
  <2>5. sols[k.sol] # None BY <1>3, NamesAssumption
  <2> QED BY <1>1, <1>2, <1>3, <1>5, <2>1, <2>2, <2>3, <2>4, <2>5, GoesOn
<1>7. CASE k.from \notin DOMAIN disk[s.root]
  <2>1. Step(c, [sols EXCEPT ![k.sol] = Renamed(sols[k.sol], k.to)], active, Idle)
    BY <1>7 DEF OldManifestExists
  <2>2. Around(disk', recent', last', stored', edits', started') /\ (Single(features) => DiskOnce(disk'))
    BY <1>5, AroundKept, Busy
  <2>3. active # None \/ ~Single(features) BY <1>2, <1>4, SlotIs
  <2> QED BY <1>1, <1>2, <1>3, <1>5, <2>1, <2>2, <2>3, RenameEnds
<1> QED BY <1>6, <1>7

(* The manifest moved, or was gone.                                         *)
LEMMA MovedKeeps == ASSUME Managed, NEW c \in Calls, UNCHANGED features, ManifestMoved(c) PROVE Managed'
<1> DEFINE k == call[c]
           s == sols[k.sol]
           old == disk[s.root]
           g == [n \in (DOMAIN old \ {k.from}) \cup {k.to} |-> IF n = k.to THEN old[k.from] ELSE old[n]]
<1>1. k # Idle /\ k.pc = "move" /\ k \in CallStates BY Busy DEF ManifestMoved, At
<1>2. k.op = "rename" /\ Writes(k) /\ k.sol \in Slots /\ Holds(k, k.sol) /\ k.from \in Names /\ k.to \in Names
  BY <1>1, Kinds
<1>3. s \in Solutions /\ Fit(s, features) /\ s.root \in Folders BY <1>2, Busy
<1>4. Single(features) => k.sol = active
  <2>1. Single(features) => CallFits(k, sols, active, disk, features) BY Busy
  <2> QED BY <2>1, <1>2 DEF CallFits
<1>5. UNCHANGED <<recent, last, stored, edits, started>> /\ ~Reopens(k)
  BY <1>2 DEF ManifestMoved, SameSession, Reopens
<1>6. CASE k.from \notin DOMAIN old
  <2>1. Step(c, sols, active, Idle) /\ disk' = disk BY <1>6 DEF ManifestMoved
  <2> QED BY <1>1, <1>5, <2>1, IdleFits, GoesOn
<1>7. CASE k.from \in DOMAIN old
  <2>1. Step(c, [sols EXCEPT ![k.sol] = Renamed(sols[k.sol], k.to)], active, Idle) /\ disk' = [disk EXCEPT ![s.root] = g]
    BY <1>7 DEF ManifestMoved
  <2>2. IsDisk(disk) BY AroundKept DEF Around
  <2>3. g = [n \in DOMAIN g |-> g[n]] /\ \A n \in DOMAIN g : (n = k.to \/ n \in DOMAIN old)
        /\ \E x \in DOMAIN old : g[n] = old[x]
    BY <1>7
  <2> HIDE DEF g
  <2>4. DOMAIN old \subseteq Names /\ \A x \in DOMAIN old : old[x] \in Manifests BY <1>3, <2>2 DEF IsDisk
  <2>5. \A n \in DOMAIN g : n \in Names /\ g[n] \in Manifests BY <1>2, <2>3, <2>4
  <2>6. Single(features) => DiskOnce(disk) /\ \A n \in DOMAIN g : PathsOnce(g[n].members)
    BY <1>3, <2>3, Busy DEF DiskOnce
  <2> HIDE DEF s
  <2>7. IsDisk(disk') /\ (Single(features) => DiskOnce(disk'))
    <3> HIDE DEF k
    <3> QED BY <1>3, <2>1, <2>2, <2>3, <2>5, <2>6, DiskPut
  <2>8. Around(disk', recent', last', stored', edits', started') BY <1>5, <2>7, AroundKept DEF Around
  <2>9. active # None \/ ~Single(features) BY <1>2, <1>4, SlotIs
  <2>10. sols[k.sol] \in Solutions /\ Fit(sols[k.sol], features) BY <1>3 DEF s
  <2> QED BY <1>1, <1>2, <1>5, <2>1, <2>7, <2>8, <2>9, <2>10, RenameEnds
<1> QED BY <1>6, <1>7

(* A setting is edited.                                                     *)
LEMMA EditKeeps == ASSUME Managed, UNCHANGED features, Edit PROVE Managed'
<1> DEFINE s == sols[active]
           t == [s EXCEPT !.settings = edits', !.dirty = TRUE]
<1>1. /\ "edit" \in features /\ active # None /\ MayInterfere /\ edits' = edits + 1
      /\ sols' = [sols EXCEPT ![active] = t]
      /\ UNCHANGED <<disk, active, call, recent, last, stored, started>>
  BY DEF Edit
<1>2. s \in Solutions /\ Fit(s, features) BY <1>1 DEF Managed, Objects, Stores, Agreed
<1>3. edits' \in Nat BY <1>1, AroundKept DEF Around
<1> HIDE DEF s
<1>4. t \in Solutions /\ t.members = s.members /\ t.dirty = TRUE /\ t.root = s.root /\ t.saved = s.saved
  BY <1>2, <1>3 DEF Solutions
<1> HIDE DEF t
<1>5. Fit(t, features) BY <1>1, <1>2, <1>4 DEF Fit
<1>6. t.root = sols[active].root BY <1>4 DEF s
<1> QED BY <1>1, <1>3, <1>4, <1>5, <1>6, ActivePut

(* The session store saved the slice.                                       *)
LEMMA StoreKeeps == ASSUME Managed, UNCHANGED features, StoreSession PROVE Managed'
<1>1. stored' = <<recent, last>> /\ UNCHANGED <<disk, sols, active, call, recent, last, edits, started>>
  BY DEF StoreSession
<1>2. Around(disk', recent', last', stored', edits', started') BY <1>1, AroundKept DEF Around, Sessions
<1> QED BY <1>1, <1>2 DEF Managed

(* The program ended and started again.                                     *)
LEMMA RestartKeeps == ASSUME Managed, UNCHANGED features, Restart PROVE Managed'
<1>1. /\ sols' = [i \in Slots |-> None] /\ active' = None /\ call' = [c \in Calls |-> Idle]
      /\ recent' = stored[1] /\ last' = stored[2] /\ started' = FALSE /\ UNCHANGED <<disk, stored, edits>>
  BY DEF Restart
<1>2. Objects(sols', active', call', features') BY <1>1, IdleFits DEF Objects, Stores, Agreed
<1>3. Around(disk', recent', last', stored', edits', started')
  BY <1>1, AroundKept DEF Around, Sessions, Remembers
<1>4. Single(features) => Alone(sols', active', call', last', disk', started', features')
  BY <1>1, IdleFits DEF Alone, Managed
<1> QED BY <1>2, <1>3, <1>4 DEF Managed

(* The invariant holds when the program starts.                             *)
LEMMA InitManaged == Init => Managed
<1> SUFFICES ASSUME Init PROVE Managed OBVIOUS
<1> USE DEF Init
<1>1. Objects(sols, active, call, features) BY IdleFits DEF Objects, Stores, Agreed
<1>2. Around(disk, recent, last, stored, edits, started)
  <2>1. IsDisk(disk) BY DEF IsDisk
  <2>2. << >> \in Seq(Folders) OBVIOUS
  <2>3. Once(<< >>) BY DEF Once
  <2> QED BY <2>1, <2>2, <2>3 DEF Around, Sessions, Remembers
<1>3. Alone(sols, active, call, last, disk, started, features)
  <2>1. DiskOnce(disk) BY DEF DiskOnce
  <2>2. \A c \in Calls : CallFits(call[c], sols, active, disk, features) BY IdleFits
  <2> QED BY <2>1, <2>2 DEF Alone
<1> QED BY <1>1, <1>2, <1>3 DEF Managed

(* Every step keeps the invariant.                                          *)
LEMMA NextManaged == ASSUME Apart, Managed, Next PROVE Managed'
<1>1. UNCHANGED features BY DEF Next
<1>2. ASSUME NEW c \in Calls, Begin(c) \/ \E yes \in BOOLEAN : Answer(c, yes) PROVE Managed'
  BY <1>1, <1>2, BeginKeeps, AnswerKeeps
<1>3. ASSUME NEW c \in Calls, SetActiveNew(c) \/ SetActiveUntitled(c) \/ CloseSolution(c) PROVE Managed'
  BY <1>1, <1>3, NewKeeps, UntitledKeeps, CloseKeeps
<1>4. ASSUME NEW c \in Calls, FindManifest(c) \/ ReadManifest(c) \/ OpenMember(c) PROVE Managed'
  BY <1>1, <1>4, FindKeeps, ReadKeeps, OpenMemberKeeps
<1>5. ASSUME NEW c \in Calls, (\E p \in Projects : BeginOpenProject(c, p)) \/ AddProject(c) \/ ProjectOpened(c)
     PROVE Managed'
  BY <1>1, <1>5, BeginOpenProjectKeeps, AddKeeps, OpenedKeeps
<1>6. ASSUME NEW c \in Calls,
             BeginSave(c) \/ SaveWritten(c) \/ Pick(c) \/ (\E f \in Folders : BeginSaveAs(c, f)) \/ SaveAsWritten(c)
      PROVE  Managed'
  BY <1>1, <1>6, BeginSaveKeeps, SaveWrittenKeeps, PickKeeps, BeginSaveAsKeeps, SaveAsWrittenKeeps
<1>7. ASSUME NEW c \in Calls, (\E n \in Names : BeginRename(c, n)) \/ OldManifestExists(c) \/ ManifestMoved(c)
     PROVE Managed'
  BY <1>1, <1>7, BeginRenameKeeps, ExistsKeeps, MovedKeeps
<1>8. ASSUME NEW j \in 1 .. MaxMembers, CloseProject(j) PROVE Managed'
  BY <1>1, <1>8, BoundsAssumption, CloseProjectKeeps
<1>9. CASE Edit \/ StoreSession \/ Restart BY <1>1, <1>9, EditKeeps, StoreKeeps, RestartKeeps
<1>10. Calling BY DEF Next
<1> QED BY <1>2, <1>3, <1>4, <1>5, <1>6, <1>7, <1>8, <1>9, <1>10 DEF Calling

-----------------------------------------------------------------------------
(* The workspace.                                                           *)
LEMMA SolutionsStep ==
    ASSUME subject = "solutions", WorkspaceNext PROVE Next /\ subject' = subject
BY DEF WorkspaceNext, Manage, Watch, Operate, Keep, Live

(* A behaviour about another part leaves the solutions alone.               *)
LEMMA OtherStep ==
    ASSUME subject # "solutions", WorkspaceNext PROVE UNCHANGED <<subject, vars>>
BY DEF WorkspaceNext, Manage, Watch, Operate, Keep, Live

(* The invariant holds in every behaviour of the workspace.                 *)
LEMMA WorkspaceManaged == ASSUME Apart PROVE WorkspaceSpec => []SolutionsInv
<1>1. WorkspaceInit => SolutionsInv BY InitManaged DEF WorkspaceInit, SolutionsInv
<1>2. SolutionsInv /\ [WorkspaceNext]_everything => SolutionsInv'
  <2> SUFFICES ASSUME SolutionsInv, [WorkspaceNext]_everything, subject' = "solutions" PROVE Managed'
    BY DEF SolutionsInv
  <2>1. CASE WorkspaceNext
    <3>1. subject = "solutions" BY <2>1, OtherStep
    <3> QED BY <2>1, <3>1, SolutionsStep, NextManaged DEF SolutionsInv
  <2>2. CASE UNCHANGED everything BY <2>2 DEF everything, vars, SolutionsInv, Managed
  <2> QED BY <2>1, <2>2
<1>3. WorkspaceSpec => WorkspaceInit /\ [][WorkspaceNext]_everything BY DEF WorkspaceSpec, everything
<1> QED BY <1>1, <1>2, <1>3, PTL

(* Whatever calls overlap, the remembered solution heads a recent list      *)
(* without repetitions; with one call at a time, a closed solution is not   *)
(* reopened, a project is a member once and unsaved content is marked       *)
(* dirty: for any folders, projects, names, calls and bounds.               *)
THEOREM SessionKept == ASSUME Apart PROVE WorkspaceSpec => []SessionSound
<1>1. SolutionsInv => SessionSound
  <2> SUFFICES ASSUME SolutionsInv, subject = "solutions"
               PROVE  RecentAgrees /\ ClosedIsForgotten /\ MembersOnce /\ UnsavedIsDirty
    BY DEF SessionSound
  <2>0. Managed BY DEF SolutionsInv
  <2>1. RecentAgrees
    <3>1. recent \in Seq(Folders) /\ Remembers(<<recent, last>>) BY <2>0 DEF Managed, Around
    <3> QED BY <3>1 DEF Remembers, Once, RecentAgrees
  <2>2. ClosedIsForgotten
    BY <2>0, IdleFits DEF Managed, Alone, ClosedIsForgotten, OneAtATime, Single, Quiet
  <2>3. \A i \in Open : Fit(sols[i], features) BY <2>0 DEF Managed, Objects, Open
  <2>4. MembersOnce BY <2>3 DEF MembersOnce, Fit, PathsOnce, OneAtATime, Single
  <2>5. UnsavedIsDirty BY <2>3 DEF UnsavedIsDirty, Fit, OneAtATime, Single
  <2> QED BY <2>1, <2>2, <2>4, <2>5
<1> QED BY <1>1, WorkspaceManaged, PTL

-----------------------------------------------------------------------------
(* What a replacement keeps.                                                *)
Kept ==
    LET s == sols[active]
        kept == /\ active' # None
                /\ sols'[active'].settings = s.settings
                /\ Refs(sols'[active'].members) = Refs(s.members)
        agreed == \E c \in Calls : call[c] # Idle /\ call'[c] = Idle
                     /\ "agreed" \in DOMAIN call[c] /\ call[c].agreed = active
    IN  OneAtATime /\ active # None /\ active' # active /\ started' /\ Unsaved(s) => kept \/ agreed
(* A solution opens as its manifest has it, with every member opened.       *)
AsSaved ==
    \A c \in Calls : OneAtATime /\ OpenMember(c) /\ active' = call[c].sol /\ active' # active =>
         LET s == sols'[active'] IN
         /\ s.name \in DOMAIN disk[s.root] /\ Content(s) = disk[s.root][s.name]
         /\ ~s.dirty /\ \A j \in DOMAIN s.members : s.members[j].status # "unopened"
(* A project opens into the solution that is active.                        *)
IntoActive == \A c \in Calls : OneAtATime /\ ProjectOpened(c) => call[c].sol = active

(* A call with another solution ready to take its place was agreed to.      *)
LEMMA AgreedTo ==
    ASSUME Managed, Single(features), NEW c \in Calls, call[c] # Idle,
           call[c].op \in {"new", "untitled", "close", "open", "restore"}, call[c].pc \in {"go", "members"},
           active # None, Unsaved(sols[active])
    PROVE  "agreed" \in DOMAIN call[c] /\ call[c].agreed = active
<1>1. CallFits(call[c], sols, active, disk, features) /\ call[c] \in CallStates /\ sols[active].dirty
  BY Busy DEF Fit
<1>2. "agreed" \in DOMAIN call[c] BY <1>1 DEF CallStates, Idle
<1> QED BY <1>1, <1>2 DEF CallFits

(* Every step that replaces the active solution.                            *)
LEMMA ReplacementKeeps == ASSUME Managed, Next PROVE Kept
<1> SUFFICES ASSUME OneAtATime, active # None, active' # active, started', Unsaved(sols[active])
             PROVE  \/ /\ active' # None
                       /\ sols'[active'].settings = sols[active].settings
                       /\ Refs(sols'[active'].members) = Refs(sols[active].members)
                    \/ \E c \in Calls : call[c] # Idle /\ call'[c] = Idle
                         /\ "agreed" \in DOMAIN call[c] /\ call[c].agreed = active
  BY DEF Kept
<1>0. Single(features) /\ Objects(sols, active, call, features) BY DEF OneAtATime, Single, Managed
<1>1. \A c \in Calls : \A ss, a, k : Step(c, ss, a, k) => active' = a /\ call'[c] = k BY <1>0, StepIs
<1>2. ASSUME NEW c \in Calls, SetActiveNew(c) \/ SetActiveUntitled(c) \/ CloseSolution(c)
      PROVE  call[c] # Idle /\ call'[c] = Idle /\ "agreed" \in DOMAIN call[c] /\ call[c].agreed = active
  <2>1. call[c] # Idle /\ call[c].pc = "go" /\ call'[c] = Idle
    BY <1>1, <1>2 DEF SetActiveNew, SetActiveUntitled, CloseSolution, At
  <2>2. call[c].op \in {"new", "untitled", "close", "open", "restore"} BY <2>1, Busy, Kinds
  <2> QED BY <1>0, <2>1, <2>2, AgreedTo
<1>3. ASSUME NEW c \in Calls, OpenMember(c)
      PROVE  call[c] # Idle /\ call'[c] = Idle /\ "agreed" \in DOMAIN call[c] /\ call[c].agreed = active
  <2>1. call[c] # Idle /\ call[c].pc = "members" BY <1>3 DEF OpenMember, At
  <2>2. call[c].op \in {"new", "untitled", "close", "open", "restore"} BY <2>1, Busy, Kinds
  <2>3. call'[c] = Idle
    <3> DEFINE i == call[c].sol
               ss == [sols EXCEPT ![i] = OneOpened(sols[i])]
    <3>1. Step(c, ss, active, call[c]) \/ Step(c, ss, i, Idle) BY <1>3 DEF OpenMember, OneOpened
    <3> HIDE DEF ss
    <3> QED BY <1>1, <3>1
  <2> QED BY <1>0, <2>1, <2>2, <2>3, AgreedTo
<1>4. ASSUME NEW c \in Calls, SaveAsWritten(c)
      PROVE  /\ active' # None
             /\ sols'[active'].settings = sols[active].settings
             /\ Refs(sols'[active'].members) = Refs(sols[active].members)
  <2> DEFINE s == sols[call[c].sol]
             t == AsRead(s.name, call[c].folder, s.members, s.settings, call[c].content)
             ss == [sols EXCEPT ![FreeSlot] = t]
  <2>1. call[c] # Idle /\ call[c].pc = "writeAs" /\ call[c] \in CallStates
    BY <1>4, Busy DEF SaveAsWritten, At
  <2>2. call[c].op = "saveAs" BY <2>1, Kinds
  <2>3. call[c].sol = active BY <1>0, <2>2, Busy DEF CallFits
  <2>4. Step(c, ss, FreeSlot, Idle) BY <1>4 DEF SaveAsWritten, AsRead
  <2>5. FreeSlot \in Slots BY <1>0, SlotFree
  <2>6. t.settings = s.settings /\ t.members = [j \in DOMAIN s.members |-> Unopened(s.members[j], j)]
    BY DEF AsRead, Solution
  <2> HIDE DEF t, s
  <2>7. Refs(t.members) = Refs(s.members)
    <3> DEFINE ms == t.members
    <3>1. ms = [j \in DOMAIN s.members |-> Unopened(s.members[j], j)] BY <2>6
    <3> HIDE DEF ms
    <3>2. DOMAIN ms = DOMAIN s.members
          /\ \A j \in DOMAIN ms : ms[j].path = s.members[j].path /\ ms[j].type = s.members[j].type
      BY <3>1 DEF Unopened
    <3>3. Refs(ms) = Refs(s.members) BY <3>2 DEF Refs
    <3> QED BY <3>3 DEF ms
  <2>8. active' = FreeSlot /\ sols'[FreeSlot] = t
    <3>1. ss[FreeSlot] = t BY <1>0, <2>5 DEF Objects, Stores
    <3> HIDE DEF ss
    <3>2. active' = FreeSlot
          /\ sols' = [i \in Slots |-> IF i = FreeSlot \/ \E e \in Calls : Holds(call'[e], i) THEN ss[i] ELSE None]
      BY <1>0, <2>4, StepIs
    <3> QED BY <2>5, <3>1, <3>2
  <2> QED BY <2>3, <2>5, <2>6, <2>7, <2>8, SlotIs DEF s
<1>5. ASSUME NEW c \in Calls,
             \/ Begin(c) \/ \E yes \in BOOLEAN : Answer(c, yes)
             \/ FindManifest(c) \/ ReadManifest(c)
             \/ \E p \in Projects : BeginOpenProject(c, p)
             \/ AddProject(c) \/ ProjectOpened(c)
             \/ BeginSave(c) \/ SaveWritten(c) \/ Pick(c)
             \/ \E f \in Folders : BeginSaveAs(c, f)
             \/ \E n \in Names : BeginRename(c, n)
             \/ OldManifestExists(c) \/ ManifestMoved(c)
      PROVE  FALSE
  <2>1. CASE Begin(c) BY <1>1, <2>1 DEF Begin, BeginReplace, CanReplace
  <2>2. CASE \E yes \in BOOLEAN : Answer(c, yes) BY <1>1, <2>2 DEF Answer
  <2>3. CASE FindManifest(c) \/ ReadManifest(c)
    BY <1>1, <2>3 DEF FindManifest, ReadManifest, OpenFails, CanReplace
  <2>4. CASE (\E p \in Projects : BeginOpenProject(c, p)) \/ AddProject(c) \/ ProjectOpened(c)
    BY <1>1, <2>4 DEF BeginOpenProject, AddProject, ProjectOpened
  <2>5. CASE BeginSave(c) \/ SaveWritten(c) \/ Pick(c) \/ \E f \in Folders : BeginSaveAs(c, f)
    BY <1>1, <2>5 DEF BeginSave, SaveWritten, Pick, BeginSaveAs, SaveAsTo
  <2>6. CASE (\E n \in Names : BeginRename(c, n)) \/ OldManifestExists(c) \/ ManifestMoved(c)
    BY <1>1, <2>6 DEF BeginRename, OldManifestExists, ManifestMoved
  <2> QED BY <1>5, <2>1, <2>2, <2>3, <2>4, <2>5, <2>6
<1>6. ~(\E j \in 1 .. MaxMembers : CloseProject(j)) /\ ~Edit /\ ~StoreSession /\ ~Restart
  BY DEF CloseProject, Edit, StoreSession, Restart
<1> QED BY <1>2, <1>3, <1>4, <1>5, <1>6 DEF Next, Calling

(* The step that opens the last member.                                     *)
LEMMA OpeningKeeps == ASSUME Managed PROVE AsSaved
<1> SUFFICES ASSUME NEW c \in Calls, OneAtATime, OpenMember(c), active' = call[c].sol, active' # active
             PROVE  LET s == sols'[active'] IN
                    /\ s.name \in DOMAIN disk[s.root] /\ Content(s) = disk[s.root][s.name]
                    /\ ~s.dirty /\ \A j \in DOMAIN s.members : s.members[j].status # "unopened"
  BY DEF AsSaved
<1> DEFINE i == call[c].sol
           s == sols[i]
           t == OneOpened(s)
           waiting == {j \in DOMAIN s.members : s.members[j].status = "unopened"}
           ss == [sols EXCEPT ![i] = t]
<1>0. Single(features) /\ Objects(sols, active, call, features) BY DEF OneAtATime, Single, Managed
<1>1. call[c] # Idle /\ call[c].pc = "members" /\ call[c] \in CallStates BY Busy DEF OpenMember, At
<1>2. call[c].op \in {"open", "restore"} /\ i \in Slots /\ Holds(call[c], i) BY <1>1, Kinds
<1>3. s \in Solutions /\ Fit(s, features) BY <1>2, Busy
<1>4. IF Cardinality(waiting) > 1 THEN Step(c, ss, active, call[c]) ELSE Step(c, ss, i, Idle)
  BY DEF OpenMember, OneOpened
<1>5. s.name \in DOMAIN disk[s.root] /\ Content(s) = disk[s.root][s.name] /\ ~s.dirty
  BY <1>0, <1>1, <1>2, Busy DEF CallFits
<1>6. /\ Content(t) = Content(s) /\ t.root = s.root /\ t.name = s.name /\ t.dirty = s.dirty
      /\ ~(Cardinality(waiting) > 1) => \A j \in DOMAIN t.members : t.members[j].status # "unopened"
  BY <1>3, OneOpenedFits
<1>7. ss[i] = t BY <1>0, <1>2 DEF Objects, Stores
<1> HIDE DEF ss, t, waiting
<1>8. ~(Cardinality(waiting) > 1) BY <1>0, <1>4, StepIs
<1>9. active' = i /\ sols' = [x \in Slots |-> IF x = i \/ \E e \in Calls : Holds(call'[e], x) THEN ss[x] ELSE None]
  BY <1>0, <1>4, <1>8, StepIs
<1>10. sols'[active'] = t BY <1>2, <1>7, <1>9
<1> QED BY <1>5, <1>6, <1>8, <1>10

(* The step that opens a project.                                           *)
LEMMA OpenedInto == ASSUME Managed PROVE IntoActive
<1> SUFFICES ASSUME NEW c \in Calls, OneAtATime, ProjectOpened(c) PROVE call[c].sol = active BY DEF IntoActive
<1>1. call[c] # Idle /\ call[c].pc = "opening" BY DEF ProjectOpened, At
<1>2. call[c].op = "openProject" BY <1>1, Busy, Kinds
<1> QED BY <1>2, Busy DEF OneAtATime, Single, CallFits

(* With one call at a time, unsaved content goes only with the agreement of *)
(* the user or into the solution that takes its place, a solution opens as  *)
(* it was saved, and a project opens into the active solution (canReplace,  *)
(* OpenSolution, OpenProject).                                              *)
THEOREM SolutionsAreKept == ASSUME Apart PROVE WorkspaceSpec => SolutionsKept
<1>1. SolutionsInv /\ [WorkspaceNext]_everything => [Kept]_vars /\ [AsSaved]_vars /\ [IntoActive]_vars
  <2> SUFFICES ASSUME SolutionsInv, [WorkspaceNext]_everything, vars' # vars PROVE Kept /\ AsSaved /\ IntoActive
    OBVIOUS
  <2>1. WorkspaceNext /\ subject = "solutions" BY OtherStep DEF everything
  <2>2. Managed /\ Next BY <2>1, SolutionsStep DEF SolutionsInv
  <2> QED BY <2>2, ReplacementKeeps, OpeningKeeps, OpenedInto
<1>2. WorkspaceSpec => [][WorkspaceNext]_everything BY DEF WorkspaceSpec, everything
<1>3. WorkspaceSpec => [][Kept]_vars /\ [][AsSaved]_vars /\ [][IntoActive]_vars
  BY <1>1, <1>2, WorkspaceManaged, PTL
<1> QED BY <1>3 DEF SolutionsKept, NothingLostUnasked, OpenedAsSaved, OpenedIntoActive, Kept, AsSaved, IntoActive
=============================================================================
