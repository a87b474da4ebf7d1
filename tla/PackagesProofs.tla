---------------------------- MODULE PackagesProofs ----------------------------
(***************************************************************************)
(* What holds of the composed graph of domain.ts for any packages,         *)
(* dependencies, seeds, callers and bounds: its shape, the cycle guard,    *)
(* the order of finalization, the registration and the counts of what is   *)
(* imported, and the types of the heap.                                    *)
(***************************************************************************)
EXTENDS MCPackages, FiniteSetTheorems, SequenceTheorems, WellFoundedInduction, TLAPS

Frame == [at : {"pin", "resolve", "deps", "returned"}, ref : Ref,
          manifest : Manifests \cup {None}, deps : Seq(Package), got : Package \cup {None}]

(* A frame whose package is registered: its dependencies load.              *)
Live(f) == f.at \in {"deps", "returned"}

(* What a frame holds at each await.                                        *)
FrameOK(f) ==
    /\ f.at \in {"pin", "resolve"} => f.deps = <<>>
    /\ f.at = "resolve" => f.got \in Package /\ f.got = Pinned(f.ref)
    /\ Live(f) => f.manifest \in Manifests /\ f.manifest.id = Pinned(f.ref)
    /\ f.at = "returned" => f.got \in Package

StackOK(s) ==
    /\ s \in Seq(Frame)
    /\ \A i \in DOMAIN s : FrameOK(s[i]) /\ (i < Len(s) => s[i].at = "deps")

HeapOK(h) == \A n \in DOMAIN h : [id |-> n, type |-> h[n].type, class |-> h[n].class] \in Node

Shape ==
    /\ byIdentity \in [Package -> Manifests \cup {None}]
    /\ \A p \in Package : byIdentity[p] # None => byIdentity[p].id = p
    /\ order \in Seq(Manifests)
    /\ refcount \in [Package -> Nat]
    /\ depsOf \in [Package -> Seq(Package) \cup {None}]
    /\ HeapOK(heap)
    /\ DOMAIN stack = Callers /\ \A e \in Callers : StackOK(stack[e])
    /\ todo \in [Callers -> Seq(Ref)]
    /\ diagnostics \in [Callers -> SUBSET Ref]
    /\ overlap \in Overlaps

(* What is imported, or being loaded, is registered in B.                    *)
StackRegistered(s, B) ==
    \A i \in DOMAIN s :
        /\ Live(s[i]) => B[s[i].manifest.id] # None
        /\ \A k \in DOMAIN s[i].deps : B[s[i].deps[k]] # None
        /\ s[i].at = "returned" => B[s[i].got] # None

Registered ==
    /\ \A e \in Callers : StackRegistered(stack[e], byIdentity)
    /\ \A p \in Package : depsOf[p] # None =>
          /\ byIdentity[p] # None
          /\ \A k \in DOMAIN depsOf[p] : byIdentity[depsOf[p][k]] # None

(* One recursion resolves a package once.                                   *)
Distinct(s) ==
    \A i, j \in DOMAIN s : i # j /\ Live(s[i]) =>
        /\ Live(s[j]) => s[i].manifest.id # s[j].manifest.id
        /\ s[j].at = "resolve" => s[i].manifest.id # s[j].got

(* Each frame is for a dependency of the one below it.                      *)
Chained(s) ==
    \A i, j \in DOMAIN s :
        i < j /\ Pinned(s[j].ref) # None => Reaches(Pinned(s[i].ref), Pinned(s[j].ref))

(* What is being loaded is the registered object, not finalized yet.         *)
StackAlone(s, D, B) ==
    \A i \in DOMAIN s :
        /\ Live(s[i]) => D[s[i].manifest.id] = None /\ B[s[i].manifest.id] = s[i].manifest
        /\ s[i].at = "resolve" => B[s[i].got] = None

(* One caller at a time.                                                    *)
Alone ==
    /\ \A e, f \in Busy : e = f
    /\ \A e \in Callers : StackAlone(stack[e], depsOf, byIdentity)

(* An import that no load finalizes any more.                               *)
Lost(d) == Husk(d) /\ \A e \in Callers : \A i \in DOMAIN stack[e] :
                          Live(stack[e][i]) => stack[e][i].manifest.id # d

Earlier(s, i, d) == \E j \in DOMAIN s : j < i /\ s[j].id = d

(* The finalized manifests, dependencies first.                             *)
Ordered ==
    /\ \A i \in DOMAIN order : /\ byIdentity[order[i].id] = order[i]
                               /\ depsOf[order[i].id] # None
    /\ \A i, j \in DOMAIN order : order[i].id = order[j].id => i = j
    /\ \A i \in DOMAIN order : \A k \in DOMAIN depsOf[order[i].id] :
          LET d == depsOf[order[i].id][k]
          IN  Earlier(order, i, d) \/ Reaches(d, order[i].id) \/ Lost(d)

Guarded ==
    "unload" \notin overlap =>
        /\ Registered
        /\ \A e \in Callers : Distinct(stack[e])
        /\ "loads" \notin overlap => Alone /\ Ordered

(* The places that hold a dependency d: <<p, 0, i>>, the i-th import of a    *)
(* finalized package p, and <<e, k, i>>, the i-th of frame k of caller e.    *)
Slot == (Package \cup Callers) \X Nat \X Nat
Finalizes(D, p, i, d) == p \in Package /\ D[p] # None /\ i \in DOMAIN D[p] /\ D[p][i] = d
Awaits(s, k, i, d) == k \in DOMAIN s /\ i \in DOMAIN s[k].deps /\ s[k].deps[i] = d
Slots(D, K, d) ==
    {s \in Slot : IF s[2] = 0 THEN Finalizes(D, s[1], s[3], d)
                  ELSE s[1] \in Callers /\ Awaits(K[s[1]], s[2], s[3], d)}

(* Every place is counted, and nothing else unless a load threw.            *)
Exact == ~threw /\ "loads" \notin overlap /\ "unload" \notin overlap
Counts ==
    \A d \in Package :
        /\ IsFiniteSet(Slots(depsOf, stack, d))
        /\ Cardinality(Slots(depsOf, stack, d)) <= refcount[d]
        /\ Exact => Cardinality(Slots(depsOf, stack, d)) = refcount[d]

DomainInv ==
    /\ Shape /\ Guarded /\ Counts /\ HeapReflects
    /\ \A e \in Callers : Chained(stack[e])

-----------------------------------------------------------------------------
(* Numbers, sequences and sets.                                             *)

(* A set of natural numbers has a least one.                                *)
LEMMA LeastNatural == ASSUME NEW S \in SUBSET Nat, S # {} PROVE \E x \in S : \A y \in S : x <= y
<1> DEFINE W == {0..n : n \in S}
<1>1. W # {} /\ W \subseteq FiniteSubsetsOf(Nat)
  <2>1. PICK n \in S : TRUE OBVIOUS
  <2>2. 0..n \in W BY <2>1
  <2>3. ASSUME NEW w \in W PROVE w \in FiniteSubsetsOf(Nat)
    <3>1. PICK i \in S : w = 0..i OBVIOUS
    <3>2. IsFiniteSet(0..i) BY FS_Interval
    <3>3. 0..i \in SUBSET Nat OBVIOUS
    <3> QED BY <3>1, <3>2, <3>3 DEF FiniteSubsetsOf
  <2> QED BY <2>2, <2>3
<1>2. PICK X \in W : \A Y \in W : <<Y, X>> \notin StrictSubsetOrdering(Nat)
  <2> HIDE DEF W
  <2> QED BY <1>1, FS_StrictSubsetOrderingWellFounded, WFMin
<1>3. PICK x \in S : X = 0..x OBVIOUS
<1>4. ASSUME NEW y \in S PROVE x <= y
  <2>1. <<0..y, 0..x>> \notin StrictSubsetOrdering(Nat) BY <1>2, <1>3
  <2>2. SUFFICES ASSUME y < x PROVE FALSE OBVIOUS
  <2>3. 0..y \subseteq 0..x /\ x \in 0..x /\ x \notin 0..y /\ 0..x \subseteq Nat BY <2>2
  <2> QED BY <2>1, <2>3 DEF StrictSubsetOrdering
<1> QED BY <1>4

LEMMA MinIs ==
    ASSUME NEW S \in SUBSET Nat, S # {}
    PROVE  Min(S) \in S /\ \A y \in S : Min(S) <= y
  BY LeastNatural DEF Min

(* A non-empty set of the indices of a sequence has a greatest one.          *)
LEMMA MaxIs ==
    ASSUME NEW n \in Nat, NEW S \in SUBSET (1..n), S # {}
    PROVE  Max(S) \in S /\ \A y \in S : y <= Max(S)
<1> DEFINE R == {n - y : y \in S}
<1>0. \A y \in S : y \in Nat /\ y <= n BY SMT
<1>1. R \in SUBSET Nat /\ R # {}
  <2>1. \A y \in S : n - y \in Nat BY <1>0
  <2>2. PICK y \in S : TRUE OBVIOUS
  <2>3. n - y \in R BY <2>2
  <2> QED BY <2>1, <2>3
<1>2. PICK r \in R : \A q \in R : r <= q
  <2> HIDE DEF R
  <2> QED BY <1>1, LeastNatural
<1>3. PICK x \in S : r = n - x OBVIOUS
<1>4. ASSUME NEW y \in S PROVE x >= y
  <2>1. n - y \in R OBVIOUS
  <2>2. n - x <= n - y BY <1>2, <1>3, <2>1
  <2> QED BY <1>0, <2>2
<1>5. \E m \in S : \A y \in S : m >= y BY <1>4
<1>6. Max(S) \in S /\ \A y \in S : Max(S) >= y BY <1>5 DEF Max
<1> QED BY <1>0, <1>6

(* A sequence without its last item, with another one, or without one.       *)
LEMMA FrontIs ==
    ASSUME NEW S, NEW s \in Seq(S), s # <<>>
    PROVE  /\ Len(s) \in Nat /\ Len(s) >= 1 /\ DOMAIN s = 1..Len(s) /\ Last(s) = s[Len(s)] /\ Last(s) \in S
           /\ Front(s) \in Seq(S) /\ Len(Front(s)) = Len(s) - 1 /\ DOMAIN Front(s) = 1..(Len(s) - 1)
           /\ \A i \in 1..(Len(s) - 1) : Front(s)[i] = s[i]
<1>1. Len(s) \in Nat /\ Len(s) >= 1 /\ DOMAIN s = 1..Len(s) OBVIOUS
<1>2. Front(s) \in Seq(S) /\ Len(Front(s)) = Len(s) - 1 BY <1>1, SubSeqProperties DEF Front
<1>3. \A i \in 1..(Len(s) - 1) : Front(s)[i] = s[i] BY <1>1, SubSeqProperties DEF Front
<1> QED BY <1>1, <1>2, <1>3 DEF Last

LEMMA AppendIs ==
    ASSUME NEW S, NEW s \in Seq(S), NEW x \in S
    PROVE  LET t == Append(s, x)
           IN  /\ t \in Seq(S) /\ Len(t) = Len(s) + 1 /\ DOMAIN t = 1..(Len(s) + 1)
               /\ t[Len(s) + 1] = x /\ \A i \in 1..Len(s) : t[i] = s[i]
  OBVIOUS

(* A sequence without the item at k: the others keep their order.           *)
LEMMA RemoveAtIs ==
    ASSUME NEW S, NEW s \in Seq(S), NEW k \in 1..Len(s)
    PROVE  LET t == RemoveAt(s, k)
           IN  /\ t \in Seq(S) /\ Len(t) = Len(s) - 1 /\ DOMAIN t = 1..(Len(s) - 1)
               /\ \A i \in DOMAIN t : t[i] = s[IF i < k THEN i ELSE i + 1]
<1> DEFINE u == SubSeq(s, 1, k - 1)
           v == SubSeq(s, k + 1, Len(s))
           N == Len(s)
<1>0. N \in Nat /\ k \in 1..N /\ DOMAIN s = 1..N OBVIOUS
<1>1. u \in Seq(S) /\ Len(u) = k - 1 /\ \A i \in 1..(k - 1) : u[i] = s[i] BY <1>0, SubSeqProperties
<1>2. v \in Seq(S) /\ Len(v) = N - k /\ \A i \in 1..(N - k) : v[i] = s[k + i]
  <2>1. k + 1 \in 1..(N + 1) /\ N \in k..N BY <1>0
  <2>5. v \in Seq(S) /\ Len(v) = IF k + 1 <= N THEN N - (k + 1) + 1 ELSE 0 BY <1>0, <2>1, SubSeqProperties
  <2>2. v \in Seq(S) /\ Len(v) = N - k
    <3> HIDE DEF v, N
    <3> QED BY <1>0, <2>5
  <2>3. \A i \in 1..N - (k + 1) + 1 : v[i] = s[(k + 1) + i - 1] BY <1>0, SubSeqProperties
  <2>4. \A i \in 1..(N - k) : (k + 1) + i - 1 = k + i /\ i \in 1..N - (k + 1) + 1 BY <1>0
  <2> QED BY <2>2, <2>3, <2>4
<1>3. RemoveAt(s, k) = u \o v BY DEF RemoveAt
<1> HIDE DEF u, v, N
<1>4. u \o v \in Seq(S) /\ Len(u \o v) = N - 1 /\ DOMAIN (u \o v) = 1..(N - 1)
  <2>1. u \o v \in Seq(S) /\ Len(u \o v) = Len(u) + Len(v) BY <1>1, <1>2, ConcatProperties
  <2>2. Len(u \o v) = N - 1 BY <1>0, <1>1, <1>2, <2>1
  <2> QED BY <2>1, <2>2
<1>5. ASSUME NEW i \in 1..(N - 1) PROVE (u \o v)[i] = s[IF i < k THEN i ELSE i + 1]
  <2>1. CASE i < k
    <3>1. i \in 1..(k - 1) BY <1>0, <2>1
    <3> QED BY <1>1, <1>2, <2>1, <3>1
  <2>2. CASE ~(i < k)
    <3>1. (u \o v)[i] = v[i - (k - 1)] BY <1>0, <1>1, <1>2, <2>2
    <3>2. i - (k - 1) \in 1..(N - k) /\ k + (i - (k - 1)) = i + 1 BY <1>0, <2>2
    <3> QED BY <1>2, <2>2, <3>1, <3>2
  <2> QED BY <2>1, <2>2
<1> QED BY <1>3, <1>4, <1>5 DEF N

-----------------------------------------------------------------------------
(* The frames of a load.                                                    *)

LEMMA ManifestIs == ASSUME NEW m \in Manifests PROVE m.id \in Package /\ m # None
  BY DomainAssumption DEF Manifests

LEMMA PinnedIn == ASSUME NEW ref \in Ref PROVE Pinned(ref) \in Package \cup {None}
  BY DomainAssumption DEF Ref, Pinned

LEMMA NewFrameIs ==
    ASSUME NEW ref \in Ref
    PROVE  /\ NewFrame(ref) \in Frame /\ FrameOK(NewFrame(ref)) /\ ~Live(NewFrame(ref))
           /\ NewFrame(ref).at = "pin" /\ NewFrame(ref).deps = <<>> /\ NewFrame(ref).ref = ref
  BY DEF NewFrame, Frame, FrameOK, Live

(* The frame that awaits its next dependency.                               *)
LEMMA AwaitingIs ==
    ASSUME NEW f \in Frame, NEW m \in Manifests, m.id = Pinned(f.ref), NEW deps \in Seq(Package)
    PROVE  LET g == [f EXCEPT !.at = "deps", !.manifest = m, !.deps = deps]
           IN  /\ g \in Frame /\ FrameOK(g) /\ Live(g)
               /\ g.at = "deps" /\ g.manifest = m /\ g.deps = deps /\ g.ref = f.ref
  BY DEF Frame, FrameOK, Live

LEMMA ReturnedIs ==
    ASSUME NEW f \in Frame, FrameOK(f), f.at = "deps", NEW id \in Package
    PROVE  LET g == [f EXCEPT !.at = "returned", !.got = id]
           IN  /\ g \in Frame /\ FrameOK(g) /\ Live(g)
               /\ g.at = "returned" /\ g.manifest = f.manifest /\ g.deps = f.deps /\ g.got = id
               /\ g.ref = f.ref
  BY DEF Frame, FrameOK, Live

LEMMA ResolvingIs ==
    ASSUME NEW f \in Frame, f.deps = <<>>, NEW id \in Package, id = Pinned(f.ref)
    PROVE  LET g == [f EXCEPT !.at = "resolve", !.got = id]
           IN  /\ g \in Frame /\ FrameOK(g) /\ ~Live(g) /\ g.at = "resolve" /\ g.deps = <<>>
               /\ g.got = id /\ g.ref = f.ref
  BY DEF Frame, FrameOK, Live

LEMMA EmptyStack == StackOK(<<>>) /\ Len(<<>>) = 0 /\ DOMAIN <<>> = {}
<1>1. <<>> \in Seq(Frame) /\ Len(<<>>) = 0 /\ DOMAIN <<>> = {} OBVIOUS
<1> QED BY <1>1 DEF StackOK

(* The top of a stack, and what is below it.                                *)
LEMMA TopIs ==
    ASSUME NEW s, StackOK(s), s # <<>>
    PROVE  LET n == Len(s)
           IN  /\ n \in Nat /\ n >= 1 /\ DOMAIN s = 1..n /\ n \in DOMAIN s /\ 1 \in DOMAIN s
               /\ Last(s) = s[n] /\ s[n] \in Frame /\ FrameOK(s[n]) /\ s[1] \in Frame
               /\ \A i \in DOMAIN s : /\ s[i] \in Frame /\ FrameOK(s[i])
                                      /\ i # n => i < n /\ s[i].at = "deps" /\ Live(s[i])
<1> DEFINE n == Len(s)
<1>1. s \in Seq(Frame) BY DEF StackOK
<1>2. n \in Nat /\ n >= 1 /\ DOMAIN s = 1..n /\ Last(s) = s[n] BY <1>1, FrontIs
<1>3. \A i \in DOMAIN s : s[i] \in Frame /\ FrameOK(s[i]) BY <1>1 DEF StackOK
<1>4. ASSUME NEW i \in DOMAIN s, i # n PROVE i < n /\ s[i].at = "deps" /\ Live(s[i])
  <2>1. i < n BY <1>2, <1>4
  <2> QED BY <2>1 DEF StackOK, Live
<1>5. n \in DOMAIN s /\ 1 \in DOMAIN s BY <1>2
<1> QED BY <1>2, <1>3, <1>4, <1>5

(* load() returns to the frame below.                                       *)
LEMMA ReturnIs ==
    ASSUME NEW e \in Callers, StackOK(stack[e]), stack[e] # <<>>, NEW id \in Package
    PROVE  LET s == stack[e]
               t == Return(e, id)
           IN  /\ StackOK(t) /\ Len(t) = Len(s) - 1 /\ DOMAIN t = 1..(Len(s) - 1)
               /\ \A i \in DOMAIN t :
                    /\ i \in DOMAIN s /\ i < Len(s) /\ Live(s[i]) /\ Live(t[i])
                    /\ t[i].manifest = s[i].manifest /\ t[i].deps = s[i].deps /\ t[i].ref = s[i].ref
                    /\ t[i].at = "returned" => t[i].got = id
<1> DEFINE s == stack[e]
           N == Len(s)
           below == Front(s)
<1>1. /\ s \in Seq(Frame) /\ N \in Nat /\ N >= 1 /\ DOMAIN s = 1..N
      /\ below \in Seq(Frame) /\ Len(below) = N - 1 /\ DOMAIN below = 1..(N - 1)
      /\ \A i \in 1..(N - 1) : below[i] = s[i]
  BY FrontIs DEF StackOK
<1>2. \A i \in 1..(N - 1) : FrameOK(s[i]) /\ s[i].at = "deps" /\ s[i] \in Frame BY <1>1 DEF StackOK
<1>3. CASE N = 1
  <2>1. below = <<>> BY <1>1, <1>3
  <2>2. Return(e, id) = <<>> BY <2>1 DEF Return
  <2>3. DOMAIN <<>> = 1..0 OBVIOUS
  <2> QED BY <1>3, <2>2, <2>3, EmptyStack
<1>4. CASE N # 1
  <2> DEFINE low == Front(below)
             f == below[N - 1]
             g == [f EXCEPT !.at = "returned", !.got = id]
             t == Append(low, g)
  <2>0. N - 1 >= 1 /\ N - 1 \in 1..(N - 1) /\ \A i \in 1..(N - 1) : i # N - 1 => i \in 1..(N - 2)
    <3> HIDE DEF N
    <3> QED BY <1>1, <1>4
  <2>1. below # <<>>
    <3>1. Len(below) # 0 BY <1>1, <2>0
    <3> QED BY <3>1
  <2>2. /\ Last(below) = f /\ low \in Seq(Frame) /\ Len(low) = N - 2
        /\ \A i \in 1..(N - 2) : low[i] = below[i]
    <3>1. /\ Last(below) = below[Len(below)] /\ low \in Seq(Frame) /\ Len(low) = Len(below) - 1
          /\ \A i \in 1..(Len(below) - 1) : low[i] = below[i]
      BY <1>1, <2>1, FrontIs
    <3>2. Len(below) - 1 = N - 2 BY <1>1
    <3> QED BY <1>1, <3>1, <3>2
  <2>3. Return(e, id) = t BY <2>1, <2>2 DEF Return
  <2>4. N - 1 \in 1..(N - 1) /\ f = s[N - 1] BY <1>1, <2>0
  <2>5. f \in Frame /\ FrameOK(f) /\ f.at = "deps" BY <1>2, <2>4
  <2>6. /\ g \in Frame /\ FrameOK(g) /\ Live(g)
        /\ g.at = "returned" /\ g.manifest = f.manifest /\ g.deps = f.deps /\ g.got = id /\ g.ref = f.ref
    BY <2>5, ReturnedIs
  <2> HIDE DEF g, low
  <2>7. /\ t \in Seq(Frame) /\ Len(t) = N - 1 /\ DOMAIN t = 1..(N - 1)
        /\ t[N - 1] = g /\ \A i \in 1..(N - 2) : t[i] = low[i]
    <3>1. /\ t \in Seq(Frame) /\ Len(t) = Len(low) + 1 /\ DOMAIN t = 1..(Len(low) + 1)
          /\ t[Len(low) + 1] = g /\ \A i \in 1..Len(low) : t[i] = low[i]
      BY <2>2, <2>6, AppendIs
    <3>2. Len(low) + 1 = N - 1 BY <1>1, <2>2
    <3> QED BY <2>2, <3>1, <3>2
  <2> HIDE DEF t, s, f, below
  <2>8. ASSUME NEW i \in 1..(N - 1), i # N - 1 PROVE t[i] = s[i] /\ s[i].at = "deps" /\ FrameOK(s[i])
    <3>1. i \in 1..(N - 2) BY <2>0, <2>8
    <3> QED BY <1>1, <1>2, <2>2, <2>7, <3>1
  <2>9. StackOK(t)
    <3>1. ASSUME NEW i \in DOMAIN t PROVE FrameOK(t[i]) /\ (i < Len(t) => t[i].at = "deps")
      <4>1. CASE i = N - 1 BY <1>1, <2>6, <2>7, <4>1
      <4>2. CASE i # N - 1 BY <2>7, <2>8, <4>2
      <4> QED BY <4>1, <4>2
    <3> QED BY <2>7, <3>1 DEF StackOK
  <2>10. ASSUME NEW i \in DOMAIN t
         PROVE  /\ i \in DOMAIN s /\ i < N /\ Live(s[i]) /\ Live(t[i])
                /\ t[i].manifest = s[i].manifest /\ t[i].deps = s[i].deps /\ t[i].ref = s[i].ref
                /\ t[i].at = "returned" => t[i].got = id
    <3>1. i \in 1..(N - 1) /\ i \in DOMAIN s /\ i < N BY <1>1, <2>7
    <3>2. Live(s[i]) BY <1>2, <3>1 DEF Live
    <3>3. CASE i = N - 1 BY <2>4, <2>6, <2>7, <3>1, <3>2, <3>3
    <3>4. CASE i # N - 1 BY <2>8, <3>1, <3>2, <3>4
    <3> QED BY <3>3, <3>4
  <2> QED BY <2>3, <2>7, <2>9, <2>10 DEF s, N
<1> QED BY <1>3, <1>4

(* The top frame becomes another that stays on top.                         *)
LEMMA ReplaceIs ==
    ASSUME NEW s, StackOK(s), s # <<>>, NEW g \in Frame, FrameOK(g)
    PROVE  LET t == Append(Front(s), g)
           IN  /\ StackOK(t) /\ Len(t) = Len(s) /\ DOMAIN t = DOMAIN s /\ t[Len(s)] = g
               /\ \A i \in DOMAIN s : i # Len(s) => t[i] = s[i]
<1> DEFINE N == Len(s)
           low == Front(s)
           t == Append(low, g)
<1>1. /\ s \in Seq(Frame) /\ N \in Nat /\ N >= 1 /\ DOMAIN s = 1..N
      /\ low \in Seq(Frame) /\ Len(low) = N - 1 /\ \A i \in 1..(N - 1) : low[i] = s[i]
  BY FrontIs DEF StackOK
<1> HIDE DEF low
<1>2. t \in Seq(Frame) /\ Len(t) = N /\ DOMAIN t = 1..N /\ t[N] = g /\ \A i \in 1..(N - 1) : t[i] = low[i]
  <2>1. /\ t \in Seq(Frame) /\ Len(t) = Len(low) + 1 /\ DOMAIN t = 1..(Len(low) + 1)
        /\ t[Len(low) + 1] = g /\ \A i \in 1..Len(low) : t[i] = low[i]
    <3>1. low \in Seq(Frame) BY <1>1
    <3> QED BY <3>1, AppendIs
  <2>2. Len(low) + 1 = N BY <1>1
  <2> QED BY <1>1, <2>1, <2>2
<1> HIDE DEF t
<1>3. ASSUME NEW i \in 1..N, i # N PROVE t[i] = s[i] /\ i < N
  <2>1. i \in 1..(N - 1) /\ i < N
    <3> HIDE DEF N
    <3> QED BY <1>1, <1>3
  <2> QED BY <1>1, <1>2, <2>1
<1>4. ASSUME NEW i \in 1..N PROVE FrameOK(t[i]) /\ (i < N => t[i].at = "deps")
  <2>1. CASE i = N BY <1>1, <1>2, <2>1
  <2>2. CASE i # N BY <1>1, <1>3, <2>2 DEF StackOK
  <2> QED BY <2>1, <2>2
<1>5. StackOK(t) BY <1>2, <1>4 DEF StackOK
<1> QED BY <1>1, <1>2, <1>3, <1>5 DEF t, low

(* The top frame awaits a load that starts.                                 *)
LEMMA PushIs ==
    ASSUME NEW s, StackOK(s), s # <<>>, NEW g \in Frame, FrameOK(g), g.at = "deps", NEW ref \in Ref
    PROVE  LET t == Append(Append(Front(s), g), NewFrame(ref))
               N == Len(s)
           IN  /\ StackOK(t) /\ Len(t) = N + 1 /\ DOMAIN t = 1..(N + 1) /\ t[N] = g
               /\ t[N + 1] = NewFrame(ref) /\ \A i \in DOMAIN s : i # N => t[i] = s[i]
<1> DEFINE N == Len(s)
           u == Append(Front(s), g)
           h == NewFrame(ref)
           t == Append(u, h)
<1>1. s \in Seq(Frame) /\ N \in Nat /\ N >= 1 /\ DOMAIN s = 1..N
  BY FrontIs DEF StackOK
<1>2. /\ StackOK(u) /\ Len(u) = N /\ DOMAIN u = 1..N /\ u[N] = g
      /\ \A i \in 1..N : i # N => u[i] = s[i]
  <2>1. /\ StackOK(u) /\ Len(u) = Len(s) /\ DOMAIN u = DOMAIN s /\ u[Len(s)] = g
        /\ \A i \in DOMAIN s : i # Len(s) => u[i] = s[i]
    BY ReplaceIs
  <2> HIDE DEF u
  <2> QED BY <1>1, <2>1
<1>3. h \in Frame /\ FrameOK(h) BY NewFrameIs
<1> HIDE DEF u, h
<1>4. /\ t \in Seq(Frame) /\ Len(t) = N + 1 /\ DOMAIN t = 1..(N + 1) /\ t[N + 1] = h
      /\ \A i \in 1..N : t[i] = u[i]
  <2>1. /\ t \in Seq(Frame) /\ Len(t) = Len(u) + 1 /\ DOMAIN t = 1..(Len(u) + 1) /\ t[Len(u) + 1] = h
        /\ \A i \in 1..Len(u) : t[i] = u[i]
    <3>1. u \in Seq(Frame) BY <1>2 DEF StackOK
    <3> QED BY <1>3, <3>1, AppendIs
  <2> QED BY <1>2, <2>1
<1> HIDE DEF t
<1>5. ASSUME NEW i \in 1..(N + 1) PROVE FrameOK(t[i]) /\ (i < N + 1 => t[i].at = "deps")
  <2>1. CASE i = N + 1 BY <1>1, <1>3, <1>4, <2>1
  <2>2. CASE i # N + 1
    <3>1. i \in 1..N /\ t[i] = u[i] BY <1>1, <1>4, <2>2
    <3>2. CASE i = N BY <1>2, <3>1, <3>2
    <3>3. CASE i # N
      <4>1. i < N
        <5> HIDE DEF N
        <5> QED BY <1>1, <3>1, <3>3
      <4> QED BY <1>2, <3>1, <4>1 DEF StackOK
    <3> QED BY <3>2, <3>3
  <2> QED BY <2>1, <2>2
<1>6. StackOK(t) BY <1>4, <1>5 DEF StackOK
<1>7. N \in 1..N BY <1>1
<1> QED BY <1>1, <1>2, <1>4, <1>6, <1>7 DEF t, u, h

-----------------------------------------------------------------------------
(* Nodes and manifests.                                                     *)

LEMMA NodeIs == ASSUME NEW n \in Node PROVE [id |-> n.id, type |-> n.type, class |-> n.class] \in Node
<1>1. n = [id |-> n.id, type |-> n.type, class |-> n.class] BY DomainAssumption
<1> QED BY <1>1

(* Only nodes of a type that a manifest defines are bound.                   *)
LEMMA BindableIs ==
    ASSUME NEW nodes \in Seq(Node), NEW ms
    PROVE  LET b == Bindable(nodes, ms)
           IN  b \in Seq(Node) /\ \A i \in DOMAIN b : Owned(ms, b[i].type)
<1> DEFINE bad == {i \in DOMAIN nodes : ~Owned(ms, nodes[i].type)}
<1>1. CASE bad = {}
  <2>1. Bindable(nodes, ms) = nodes BY <1>1 DEF Bindable
  <2>2. \A i \in DOMAIN nodes : Owned(ms, nodes[i].type) BY <1>1
  <2> QED BY <2>1, <2>2
<1>2. CASE bad # {}
  <2> DEFINE m == Min(bad)
             b == SubSeq(nodes, 1, m - 1)
  <2>1. Bindable(nodes, ms) = b BY <1>2 DEF Bindable
  <2>2. DOMAIN nodes = 1..Len(nodes) /\ Len(nodes) \in Nat OBVIOUS
  <2>3. m \in bad /\ \A y \in bad : m <= y
    <3>1. bad \in SUBSET Nat BY <2>2
    <3> QED BY <1>2, <3>1, MinIs
  <2>4. m \in 1..Len(nodes) BY <2>2, <2>3
  <2> HIDE DEF m, bad
  <2>5. b \in Seq(Node) /\ Len(b) = m - 1 /\ \A i \in 1..(m - 1) : b[i] = nodes[i]
    BY <2>2, <2>4, SubSeqProperties
  <2>6. ASSUME NEW i \in DOMAIN b PROVE Owned(ms, b[i].type)
    <3>1. i \in 1..(m - 1) /\ b[i] = nodes[i] BY <2>5
    <3>2. i \in DOMAIN nodes /\ ~(m <= i) BY <2>2, <2>4, <3>1
    <3>3. i \notin bad BY <2>3, <3>2
    <3> QED BY <3>1, <3>2, <3>3 DEF bad
  <2> QED BY <2>1, <2>5, <2>6
<1> QED BY <1>1, <1>2

(* What the heap holds after nodes were bound.                               *)
LEMMA BoundIs ==
    ASSUME NEW nodes \in Seq(Node), HeapOK(heap), NEW origin
    PROVE  LET h == Bound(nodes, origin)
           IN  /\ HeapOK(h)
               /\ \A n \in DOMAIN h : \/ n \in DOMAIN heap /\ h[n] = heap[n]
                                      \/ \E i \in DOMAIN nodes : h[n].type = nodes[i].type
<1> DEFINE ids == {nodes[i].id : i \in DOMAIN nodes}
           at(n) == Max({i \in DOMAIN nodes : nodes[i].id = n})
           of(n) == [type |-> nodes[at(n)].type, class |-> nodes[at(n)].class, origin |-> origin]
           h == [n \in ids \cup DOMAIN heap |-> IF n \in ids THEN of(n) ELSE heap[n]]
<1>1. Bound(nodes, origin) = h BY DEF Bound
<1>2. ASSUME NEW n \in ids PROVE at(n) \in DOMAIN nodes /\ nodes[at(n)].id = n
  <2> DEFINE S == {i \in DOMAIN nodes : nodes[i].id = n}
  <2>1. S # {} /\ S \in SUBSET (1..Len(nodes)) /\ Len(nodes) \in Nat OBVIOUS
  <2>2. Max(S) \in S
    <3> HIDE DEF S
    <3> QED BY <2>1, MaxIs
  <2> QED BY <2>2
<1>3. ASSUME NEW n \in DOMAIN h
      PROVE  /\ [id |-> n, type |-> h[n].type, class |-> h[n].class] \in Node
             /\ \/ n \in DOMAIN heap /\ h[n] = heap[n]
                \/ \E i \in DOMAIN nodes : h[n].type = nodes[i].type
  <2>1. CASE n \in ids
    <3> DEFINE m == nodes[at(n)]
    <3>1. h[n] = of(n) BY <2>1
    <3>2. at(n) \in DOMAIN nodes /\ m.id = n BY <1>2, <2>1
    <3> HIDE DEF at
    <3>3. m \in Node BY <3>2
    <3>4. h[n].type = m.type /\ h[n].class = m.class BY <3>1
    <3> HIDE DEF h
    <3>5. [id |-> m.id, type |-> m.type, class |-> m.class] \in Node BY <3>3, NodeIs
    <3> QED BY <3>2, <3>4, <3>5
  <2>2. CASE n \notin ids
    <3>1. n \in DOMAIN heap /\ h[n] = heap[n] BY <1>3, <2>2
    <3> QED BY <3>1 DEF HeapOK
  <2> QED BY <2>1, <2>2
<1> HIDE DEF h
<1>4. HeapOK(h) BY <1>3 DEF HeapOK
<1> QED BY <1>1, <1>3, <1>4

(* The items of a sequence and the values of a function of a finite domain   *)
(* are finitely many.                                                        *)
LEMMA RangeFinite == ASSUME NEW f, IsFiniteSet(DOMAIN f) PROVE IsFiniteSet({f[x] : x \in DOMAIN f})
<1> DEFINE R == {f[x] : x \in DOMAIN f}
           g == [x \in DOMAIN f |-> f[x]]
<1>1. g \in Surjection(DOMAIN f, R) BY DEF Surjection
<1> HIDE DEF g, R
<1>2. IsFiniteSet(R) BY <1>1, FS_Surjection
<1> QED BY <1>2 DEF R

LEMMA SeqFinite == ASSUME NEW S, NEW s \in Seq(S) PROVE IsFiniteSet(DOMAIN s) /\ IsFiniteSet(Range(s))
<1>1. DOMAIN s = 1..Len(s) /\ Len(s) \in Int OBVIOUS
<1>2. IsFiniteSet(DOMAIN s) BY <1>1, FS_Interval
<1> QED BY <1>2, RangeFinite DEF Range

(* There is always an unused object for a package.                           *)
LEMMA FreshIs ==
    ASSUME Shape, NEW id \in Package
    PROVE  Fresh(id) \in Manifests /\ Fresh(id).id = id
<1> DEFINE held(e) == {f.manifest : f \in Range(stack[e])}
           used == {byIdentity[id]} \cup Range(order) \cup UNION {held(e) : e \in Callers}
           N == Cardinality(used)
           obj(n) == [id |-> id, no |-> n]
           Objs == {obj(n) : n \in 1 .. N + 1}
<1>1. IsFiniteSet(used) /\ N \in Nat
  <2>1. IsFiniteSet(Range(order)) BY SeqFinite DEF Shape
  <2>2. ASSUME NEW e \in Callers PROVE IsFiniteSet(held(e))
    <3> DEFINE s == stack[e]
               f == [i \in DOMAIN s |-> s[i].manifest]
    <3>1. IsFiniteSet(DOMAIN s) BY SeqFinite DEF Shape, StackOK
    <3>2. held(e) = {f[i] : i \in DOMAIN f} BY DEF Range
    <3>3. IsFiniteSet({f[i] : i \in DOMAIN f}) 
      <4>1. DOMAIN f = DOMAIN s OBVIOUS
      <4> HIDE DEF f, s
      <4> QED BY <3>1, <4>1, RangeFinite
    <3> QED BY <3>2, <3>3
  <2>3. IsFiniteSet({held(e) : e \in Callers})
    <3> DEFINE f == [e \in Callers |-> held(e)]
    <3>1. IsFiniteSet(DOMAIN f) BY DomainAssumption
    <3>2. {held(e) : e \in Callers} = {f[e] : e \in DOMAIN f} OBVIOUS
    <3> HIDE DEF f, held
    <3> QED BY <3>1, <3>2, RangeFinite
  <2>4. IsFiniteSet(UNION {held(e) : e \in Callers})
    <3> HIDE DEF held
    <3> QED BY <2>2, <2>3, FS_UNION
  <2>5. IsFiniteSet({byIdentity[id]} \cup Range(order)) BY <2>1, FS_Singleton, FS_Union
  <2>6. IsFiniteSet(used)
    <3> HIDE DEF held
    <3> QED BY <2>4, <2>5, FS_Union
  <2> HIDE DEF used
  <2> QED BY <2>6, FS_CardinalityType
<1> HIDE DEF used
<1> DEFINE Out == {n \in 1 .. N + 1 : obj(n) \notin used}
<1>2. Out # {}
  <2>1. SUFFICES ASSUME Out = {} PROVE FALSE OBVIOUS
  <2> DEFINE f == [n \in 1 .. N + 1 |-> obj(n)]
  <2>2. f \in [1 .. N + 1 -> used] BY <2>1
  <2>3. IsFiniteSet(1 .. N + 1) /\ Cardinality(1 .. N + 1) = N + 1
    <3> HIDE DEF N
    <3> QED BY <1>1, FS_Interval
  <2>4. Cardinality(used) < Cardinality(1 .. N + 1) BY <1>1, <2>3
  <2>5. \E x, y \in 1 .. N + 1 : x # y /\ f[x] = f[y]
    <3> HIDE DEF f, N
    <3> QED BY <1>1, <2>2, <2>3, <2>4, FS_PigeonHole
  <2> QED BY <2>5
<1>3. PICK n \in Out : \A k \in Out : n <= k
  <2>1. Out \in SUBSET Nat BY <1>1
  <2> HIDE DEF Out
  <2> QED BY <1>2, <2>1, LeastNatural
<1>4. obj(n) \in Objs /\ obj(n) \notin used /\ \A k \in 1 .. obj(n).no - 1 : [id |-> id, no |-> k] \in used
  <2>1. n \in 1 .. N + 1 /\ obj(n) \notin used OBVIOUS
  <2>2. ASSUME NEW k \in 1 .. n - 1 PROVE obj(k) \in used
    <3>1. k \in 1 .. N + 1 /\ ~(n <= k)
      <4> HIDE DEF N, Out
      <4> QED BY <1>1, <2>1
    <3>2. k \notin Out BY <1>3, <3>1
    <3> QED BY <3>1, <3>2
  <2> QED BY <2>1, <2>2
<1>5. Fresh(id) = CHOOSE m \in Objs : m \notin used /\ \A k \in 1 .. m.no - 1 : [id |-> id, no |-> k] \in used
  BY DEF Fresh, used
<1>6. Fresh(id) \in Objs
  <2> HIDE DEF Objs
  <2> QED BY <1>4, <1>5
<1> QED BY <1>1, <1>6 DEF Manifests

(* The manifest that getManifest finds.                                      *)
LEMMA GetManifestIs ==
    ASSUME Shape, NEW ref \in Ref, GetManifest(ref) # None
    PROVE  GetManifest(ref) \in Manifests
<1>1. CASE ref \in Package BY <1>1 DEF Shape, GetManifest
<1>2. CASE ref \notin Package
  <2> DEFINE mine == {i \in DOMAIN order : ModelOf[order[i].id] = ref}
  <2>1. GetManifest(ref) = order[Max(mine)] /\ mine # {} BY <1>2 DEF GetManifest
  <2>2. DOMAIN order = 1..Len(order) /\ Len(order) \in Nat /\ order \in Seq(Manifests) BY DEF Shape
  <2>3. mine \in SUBSET (1..Len(order)) BY <2>2
  <2>4. Max(mine) \in mine
    <3> HIDE DEF mine
    <3> QED BY <2>1, <2>2, <2>3, MaxIs
  <2>5. Max(mine) \in DOMAIN order BY <2>4
  <2> QED BY <2>1, <2>2, <2>5
<1> QED BY <1>1, <1>2

(* Chains of dependencies.                                                  *)
LEMMA ReachesEdge ==
    ASSUME NEW p \in Package, NEW q \in Package, Reaches(p, q), NEW i \in DOMAIN Needs[q],
           Pinned(Needs[q][i]) # None
    PROVE  Reaches(p, Pinned(Needs[q][i]))
  BY DEF Reaches, Closed

LEMMA ReachesSelf == ASSUME NEW p PROVE Reaches(p, p)
  BY DEF Reaches

-----------------------------------------------------------------------------
(* What becomes of a stack.                                                  *)

(* The top frame, or every frame, is gone.                                   *)
Pops(s, t, id) ==
    /\ StackOK(t)
    /\ \A i \in DOMAIN t :
          /\ i \in DOMAIN s /\ i < Len(s) /\ Live(s[i]) /\ Live(t[i])
          /\ t[i].manifest = s[i].manifest /\ t[i].deps = s[i].deps /\ t[i].ref = s[i].ref
          /\ t[i].at = "returned" => t[i].got = id

(* The top frame awaits another one.                                         *)
Pushes(s, t, m, deps) ==
    LET n == Len(s) IN
    /\ StackOK(t) /\ DOMAIN t = 1..(n + 1)
    /\ Live(t[n]) /\ t[n].at = "deps" /\ t[n].manifest = m /\ t[n].deps = deps /\ t[n].ref = s[n].ref
    /\ ~Live(t[n + 1]) /\ t[n + 1].at = "pin" /\ t[n + 1].deps = <<>>
    /\ \E i \in DOMAIN Needs[m.id] : t[n + 1].ref = Needs[m.id][i]
    /\ \A i \in DOMAIN s : i # n => t[i] = s[i]

LEMMA PopsNone == ASSUME NEW s, NEW id PROVE Pops(s, <<>>, id)
  BY EmptyStack DEF Pops

LEMMA EmptyKeeps ==
    ASSUME NEW B, NEW D
    PROVE  Chained(<<>>) /\ Distinct(<<>>) /\ StackRegistered(<<>>, B) /\ StackAlone(<<>>, D, B)
  BY EmptyStack DEF Chained, Distinct, StackRegistered, StackAlone

LEMMA PopsKeeps ==
    ASSUME NEW s, NEW t, NEW id, Pops(s, t, id), NEW B
    PROVE  /\ Chained(s) => Chained(t)
           /\ Distinct(s) => Distinct(t)
           /\ StackRegistered(s, B) /\ B[id] # None => StackRegistered(t, B)
<1>1. ASSUME Chained(s) PROVE Chained(t) BY <1>1 DEF Chained, Pops
<1>2. ASSUME Distinct(s) PROVE Distinct(t)
  <2>1. ASSUME NEW i \in DOMAIN t PROVE i \in DOMAIN s /\ Live(s[i]) /\ t[i].manifest = s[i].manifest /\ t[i].at # "resolve"
    BY DEF Pops, Live
  <2> QED BY <1>2, <2>1 DEF Distinct
<1>3. ASSUME StackRegistered(s, B), B[id] # None PROVE StackRegistered(t, B)
  BY <1>3 DEF StackRegistered, Pops
<1> QED BY <1>1, <1>2, <1>3

LEMMA PopsAlone ==
    ASSUME NEW s, NEW t, NEW id, Pops(s, t, id), NEW D, NEW B,
           \A i \in DOMAIN s : i < Len(s) => D[s[i].manifest.id] = None /\ B[s[i].manifest.id] = s[i].manifest
    PROVE  StackAlone(t, D, B)
  BY DEF StackAlone, Pops, Live

LEMMA PushesFrames ==
    ASSUME NEW s, StackOK(s), s # <<>>, NEW t, NEW m, NEW deps, Pushes(s, t, m, deps), NEW i \in DOMAIN t
    PROVE  LET n == Len(s)
           IN  \/ i \in DOMAIN s /\ i < n /\ t[i] = s[i] /\ Live(s[i]) /\ s[i].at = "deps"
               \/ i = n /\ i \in DOMAIN s
               \/ i = n + 1 /\ n \in Nat
<1>1. Len(s) \in Nat /\ Len(s) >= 1 /\ DOMAIN s = 1..Len(s) /\ DOMAIN t = 1..(Len(s) + 1)
  BY TopIs DEF Pushes
<1>2. \A k \in DOMAIN s : k # Len(s) => k < Len(s) /\ s[k].at = "deps" /\ Live(s[k]) BY TopIs
<1>3. \A k \in DOMAIN s : k # Len(s) => t[k] = s[k] BY DEF Pushes
<1>4. i \in DOMAIN s \/ i = Len(s) + 1 BY <1>1
<1> QED BY <1>1, <1>2, <1>3, <1>4

LEMMA PushesKeeps ==
    ASSUME NEW s, StackOK(s), s # <<>>, NEW t, NEW m, NEW deps, Pushes(s, t, m, deps), NEW B
    PROVE  /\ (\A i \in DOMAIN s : i < Len(s) => s[i].manifest.id # m.id) => (Distinct(s) => Distinct(t))
           /\ /\ StackRegistered(s, B) /\ B[m.id] # None
              /\ \A k \in DOMAIN deps : B[deps[k]] # None
              => StackRegistered(t, B)
<1> DEFINE n == Len(s)
<1>1. /\ Live(t[n]) /\ t[n].at = "deps" /\ t[n].manifest = m /\ t[n].deps = deps /\ ~Live(t[n + 1]) /\ t[n + 1].at = "pin"
      /\ t[n + 1].deps = <<>>
  BY DEF Pushes
<1>2. \A i \in DOMAIN t : \/ i \in DOMAIN s /\ i < n /\ t[i] = s[i] /\ Live(s[i]) /\ s[i].at = "deps"
                          \/ i = n
                          \/ i = n + 1
  BY PushesFrames
<1>3. ASSUME \A i \in DOMAIN s : i < n => s[i].manifest.id # m.id, Distinct(s) PROVE Distinct(t)
  <2> SUFFICES ASSUME NEW i \in DOMAIN t, NEW j \in DOMAIN t, i # j, Live(t[i])
               PROVE  /\ Live(t[j]) => t[i].manifest.id # t[j].manifest.id
                      /\ t[j].at = "resolve" => t[i].manifest.id # t[j].got
    BY DEF Distinct
  <2>1. t[j].at # "resolve" BY <1>1, <1>2
  <2>2. CASE i = n \/ j = n BY <1>1, <1>2, <1>3, <2>2
  <2>3. CASE i # n /\ j # n BY <1>1, <1>2, <1>3, <2>3 DEF Distinct
  <2> QED BY <2>1, <2>2, <2>3
<1>4. ASSUME StackRegistered(s, B), B[m.id] # None, \A k \in DOMAIN deps : B[deps[k]] # None
      PROVE  StackRegistered(t, B)
  <2> SUFFICES ASSUME NEW i \in DOMAIN t
               PROVE  /\ Live(t[i]) => B[t[i].manifest.id] # None
                      /\ \A k \in DOMAIN t[i].deps : B[t[i].deps[k]] # None
                      /\ t[i].at = "returned" => B[t[i].got] # None
    BY DEF StackRegistered
  <2>1. CASE i = n BY <1>1, <1>4, <2>1
  <2>2. CASE i = n + 1 BY <1>1, <2>2, EmptyStack
  <2>3. CASE i \in DOMAIN s /\ t[i] = s[i] BY <1>4, <2>3 DEF StackRegistered
  <2> QED BY <1>2, <2>1, <2>2, <2>3
<1> QED BY <1>3, <1>4

LEMMA PushesAlone ==
    ASSUME NEW s, StackOK(s), s # <<>>, NEW t, NEW m, NEW deps, Pushes(s, t, m, deps), NEW D, NEW B,
           \A i \in DOMAIN s : i < Len(s) => D[s[i].manifest.id] = None /\ B[s[i].manifest.id] = s[i].manifest,
           D[m.id] = None, B[m.id] = m
    PROVE  StackAlone(t, D, B)
<1> DEFINE n == Len(s)
<1>1. /\ t[n].at = "deps" /\ t[n].manifest = m /\ ~Live(t[n + 1]) /\ t[n + 1].at = "pin"
  BY DEF Pushes
<1>2. \A i \in DOMAIN t : \/ i \in DOMAIN s /\ i < n /\ t[i] = s[i] /\ Live(s[i]) /\ s[i].at = "deps"
                          \/ i = n
                          \/ i = n + 1
  BY PushesFrames
<1> HIDE DEF n
<1>3. ASSUME NEW i \in DOMAIN t
      PROVE  /\ Live(t[i]) => D[t[i].manifest.id] = None /\ B[t[i].manifest.id] = t[i].manifest
             /\ t[i].at = "resolve" => B[t[i].got] = None
  <2>1. CASE i = n BY <1>1, <2>1
  <2>2. CASE i = n + 1 BY <1>1, <2>2
  <2>3. CASE i \in DOMAIN s /\ i < n /\ t[i] = s[i] /\ s[i].at = "deps" BY <2>3 DEF n
  <2> QED BY <1>2, <2>1, <2>2, <2>3
<1> QED BY <1>3 DEF StackAlone

LEMMA PushesChained ==
    ASSUME NEW s, StackOK(s), s # <<>>, NEW t, NEW m \in Manifests, NEW deps, Pushes(s, t, m, deps),
           m.id = Pinned(s[Len(s)].ref), Chained(s)
    PROVE  Chained(t)
<1> DEFINE n == Len(s)
<1>1. t[n].ref = s[n].ref BY DEF Pushes
<1>2. PICK k \in DOMAIN Needs[m.id] : t[n + 1].ref = Needs[m.id][k] BY DEF Pushes
<1>3. \A i \in DOMAIN t : \/ i \in DOMAIN s /\ i < n /\ t[i] = s[i] /\ Live(s[i])
                          \/ i = n /\ i \in DOMAIN s
                          \/ i = n + 1 /\ n \in Nat
  BY PushesFrames
<1>4. m.id \in Package /\ n \in Nat BY ManifestIs, TopIs
<1>5. \A i \in DOMAIN s : i # n => s[i] \in Frame /\ FrameOK(s[i]) /\ Live(s[i]) BY TopIs
<1>6. \A i \in DOMAIN s : i # n => Pinned(s[i].ref) \in Package BY <1>5, ManifestIs DEF FrameOK
<1>7. DOMAIN s \subseteq Nat /\ \A i \in DOMAIN s : i <= n BY <1>4, TopIs
<1> HIDE DEF n
<1>8. ASSUME NEW i \in DOMAIN t, NEW j \in DOMAIN t, i < j, Pinned(t[j].ref) # None
      PROVE  Reaches(Pinned(t[i].ref), Pinned(t[j].ref))
  <2>1. CASE j = n + 1
    <3>1. CASE i = n BY <1>1, <1>2, <1>4, <1>8, <2>1, <3>1, ReachesSelf, ReachesEdge DEF n
    <3>2. CASE i \in DOMAIN s /\ i < n /\ t[i] = s[i]
      <4>1. n \in DOMAIN s BY TopIs DEF n
      <4>2. Pinned(s[n].ref) # None
        <5>1. Pinned(s[n].ref) = m.id BY DEF n
        <5> QED BY <1>4, <5>1, DomainAssumption
      <4>3. Reaches(Pinned(s[i].ref), m.id) BY <3>2, <4>1, <4>2 DEF Chained, n
      <4>4. Pinned(s[i].ref) \in Package BY <1>6, <1>4, <1>7, <3>2
      <4> QED BY <1>2, <1>4, <1>8, <2>1, <3>2, <4>3, <4>4, ReachesEdge
    <3>3. i # n + 1 BY <1>4, <1>8, <2>1
    <3> QED BY <1>3, <3>1, <3>2, <3>3
  <2>2. CASE j # n + 1
    <3>1. j \in DOMAIN s /\ t[j].ref = s[j].ref /\ j <= n BY <1>1, <1>3, <1>7, <2>2
    <3>2. i # n /\ i # n + 1 BY <1>4, <1>7, <1>8, <3>1
    <3>3. i \in DOMAIN s /\ t[i] = s[i] BY <1>3, <3>2
    <3> QED BY <1>8, <3>1, <3>3 DEF Chained
  <2> QED BY <2>1, <2>2
<1> QED BY <1>8 DEF Chained

-----------------------------------------------------------------------------
(* What a step does to the stacks.                                          *)

Only(c) == DOMAIN stack' = Callers /\ \A e \in Callers : e # c => stack'[e] = stack[e]

LEMMA StackChange ==
    ASSUME DOMAIN stack = Callers, NEW c \in Callers, NEW t, stack' = [stack EXCEPT ![c] = t]
    PROVE  Only(c) /\ stack'[c] = t
  BY DEF Only

LEMMA ReturnPops ==
    ASSUME Shape, NEW e \in Callers, stack[e] # <<>>, NEW id \in Package
    PROVE  Pops(stack[e], Return(e, id), id) /\ DOMAIN Return(e, id) = 1..(Len(stack[e]) - 1)
<1> DEFINE s == stack[e]
           t == Return(e, id)
<1>1. StackOK(s) BY DEF Shape
<1>2. StackOK(t) /\ DOMAIN t = 1..(Len(s) - 1) BY <1>1, ReturnIs
<1>3. ASSUME NEW i \in DOMAIN t
      PROVE  /\ i \in DOMAIN s /\ i < Len(s) /\ Live(s[i]) /\ Live(t[i])
             /\ t[i].manifest = s[i].manifest /\ t[i].deps = s[i].deps /\ t[i].ref = s[i].ref
             /\ t[i].at = "returned" => t[i].got = id
  BY <1>1, ReturnIs
<1> HIDE DEF t
<1>4. Pops(s, t, id) BY <1>2, <1>3 DEF Pops
<1> QED BY <1>2, <1>4 DEF t

(* An exception empties the stack, and names a member.                       *)
LEMMA ThrowIs ==
    ASSUME Shape, NEW c \in Callers, stack[c] # <<>>, Throw(c, stack[c][1].ref)
    PROVE  /\ Only(c) /\ stack'[c] = <<>> /\ threw' = TRUE
           /\ diagnostics' \in [Callers -> SUBSET Ref]
<1>1. stack[c][1] \in Frame BY TopIs DEF Shape
<1>2. stack[c][1].ref \in Ref BY <1>1 DEF Frame
<1>3. Only(c) /\ stack'[c] = <<>> BY StackChange DEF Throw, Shape
<1>4. diagnostics' \in [Callers -> SUBSET Ref] BY <1>2 DEF Throw, Shape
<1> QED BY <1>3, <1>4 DEF Throw

(* A load whose manifest m was read and whose dependencies so far are deps.  *)
Ready(c, m, deps) ==
    /\ c \in Callers /\ stack[c] # <<>> /\ m \in Manifests /\ m.id = Pinned(Top(c).ref)
    /\ deps \in Seq(Package)
    /\ byIdentity' \in [Package -> Manifests \cup {None}]
    /\ \A p \in Package : byIdentity'[p] # None => byIdentity'[p].id = p
    /\ refcount' \in [Package -> Nat]
    /\ UNCHANGED <<todo, overlap>>

(* The load ends, with or without an exception.                             *)
Finishes(c, m, deps) ==
    /\ Pops(stack[c], stack'[c], m.id)
    /\ depsOf' = [depsOf EXCEPT ![m.id] = deps]
    /\ order' = Append(order, m)
    /\ heap' = Bound(Bindable(Seed[m.id], Append(order, m)), m.id)
    /\ diagnostics' \in [Callers -> SUBSET Ref]
    /\ \/ threw' = threw /\ DOMAIN stack'[c] = 1..(Len(stack[c]) - 1)
       \/ threw' = TRUE

LEMMA ContinueStack ==
    ASSUME Shape, NEW c, NEW m, NEW deps, Ready(c, m, deps), Continue(c, m, deps)
    PROVE  /\ Only(c)
           /\ \/ Pushes(stack[c], stack'[c], m, deps) /\ UNCHANGED <<order, depsOf, heap, diagnostics, threw>>
              \/ Finishes(c, m, deps)
<1> DEFINE s == stack[c]
           n == Len(s)
<1>1. c \in Callers /\ s # <<>> /\ StackOK(s) /\ DOMAIN stack = Callers /\ m \in Manifests /\ m.id \in Package
  BY ManifestIs DEF Ready, Shape
<1>2. Top(c) = s[n] /\ s[n] \in Frame /\ n \in DOMAIN s BY <1>1, TopIs DEF Top
<1>3. deps \in Seq(Package) /\ m.id = Pinned(s[n].ref) BY <1>2 DEF Ready
<1>4. CASE Len(deps) < Len(Needs[m.id])
  <2> DEFINE g == [Top(c) EXCEPT !.at = "deps", !.manifest = m, !.deps = deps]
             ref == Needs[m.id][Len(deps) + 1]
             t == Append(Append(Front(s), g), NewFrame(ref))
  <2>1. stack' = [stack EXCEPT ![c] = t] /\ UNCHANGED <<order, depsOf, heap, diagnostics, threw>>
    BY <1>4 DEF Continue
  <2>2. Only(c) /\ stack'[c] = t
    <3> HIDE DEF t
    <3> QED BY <1>1, <2>1, StackChange
  <2>3. Len(deps) + 1 \in DOMAIN Needs[m.id] /\ ref \in Ref
    <3>1. Needs[m.id] \in Seq(Ref) BY <1>1, DomainAssumption
    <3>2. Len(deps) \in Nat BY <1>3
    <3>3. Len(deps) + 1 \in DOMAIN Needs[m.id] BY <1>4, <3>1, <3>2
    <3> QED BY <3>1, <3>3
  <2>4. /\ g \in Frame /\ FrameOK(g) /\ Live(g)
        /\ g.at = "deps" /\ g.manifest = m /\ g.deps = deps /\ g.ref = s[n].ref
    <3> DEFINE f == s[n]
    <3>1. g = [f EXCEPT !.at = "deps", !.manifest = m, !.deps = deps] BY <1>2
    <3>2. f \in Frame /\ m \in Manifests /\ m.id = Pinned(f.ref) BY <1>1, <1>2, <1>3
    <3> HIDE DEF f, g
    <3>3. /\ g \in Frame /\ FrameOK(g) /\ Live(g)
          /\ g.at = "deps" /\ g.manifest = m /\ g.deps = deps /\ g.ref = f.ref
      BY <1>3, <3>1, <3>2 DEF Frame, FrameOK, Live
    <3> QED BY <3>3 DEF f
  <2>5. /\ ~Live(NewFrame(ref)) /\ NewFrame(ref).at = "pin" /\ NewFrame(ref).deps = <<>> /\ NewFrame(ref).ref = ref
    BY <2>3, NewFrameIs
  <2> HIDE DEF g, ref
  <2>6. /\ StackOK(t) /\ DOMAIN t = 1..(n + 1) /\ t[n] = g
        /\ t[n + 1] = NewFrame(ref) /\ \A i \in DOMAIN s : i # n => t[i] = s[i]
    BY <1>1, <2>3, <2>4, PushIs
  <2> HIDE DEF t
  <2>7. ref = Needs[m.id][Len(deps) + 1] BY DEF ref
  <2>8. Pushes(s, t, m, deps) BY <2>3, <2>4, <2>5, <2>6, <2>7 DEF Pushes
  <2> QED BY <2>1, <2>2, <2>8
<1>5. CASE ~(Len(deps) < Len(Needs[m.id]))
  <2>1. Finish(c, m, deps) BY <1>5 DEF Continue
  <2>2. /\ depsOf' = [depsOf EXCEPT ![m.id] = deps] /\ order' = Append(order, m)
        /\ heap' = Bound(Bindable(Seed[m.id], Append(order, m)), m.id)
    BY <2>1 DEF Finish, Finalized
  <2>3. \/ stack' = [stack EXCEPT ![c] = Return(c, m.id)] /\ UNCHANGED <<diagnostics, threw>>
        \/ Throw(c, stack[c][1].ref)
    BY <2>1 DEF Finish
  <2>4. CASE stack' = [stack EXCEPT ![c] = Return(c, m.id)] /\ UNCHANGED <<diagnostics, threw>>
    <3>1. Only(c) /\ stack'[c] = Return(c, m.id) BY <1>1, <2>4, StackChange
    <3>2. Pops(s, stack'[c], m.id) /\ DOMAIN stack'[c] = 1..(n - 1) BY <1>1, <3>1, ReturnPops
    <3>3. diagnostics' \in [Callers -> SUBSET Ref] BY <2>4 DEF Shape
    <3> QED BY <2>2, <2>4, <3>1, <3>2, <3>3 DEF Finishes
  <2>5. CASE Throw(c, stack[c][1].ref)
    <3>1. Only(c) /\ stack'[c] = <<>> /\ threw' = TRUE /\ diagnostics' \in [Callers -> SUBSET Ref]
      BY <1>1, <2>5, ThrowIs
    <3> QED BY <2>2, <3>1, PopsNone DEF Finishes
  <2> QED BY <2>3, <2>4, <2>5
<1> QED BY <1>4, <1>5

LEMMA ContinueShape ==
    ASSUME Shape, NEW c, NEW m, NEW deps, Ready(c, m, deps), Continue(c, m, deps)
    PROVE  Shape'
<1>1. c \in Callers /\ m \in Manifests /\ m.id \in Package /\ deps \in Seq(Package)
  BY ManifestIs DEF Ready
<1>2. /\ Only(c)
      /\ \/ Pushes(stack[c], stack'[c], m, deps) /\ UNCHANGED <<order, depsOf, heap, diagnostics, threw>>
         \/ Finishes(c, m, deps)
  BY ContinueStack
<1>3. DOMAIN stack' = Callers /\ \A e \in Callers : StackOK(stack'[e])
  <2>1. StackOK(stack'[c]) BY <1>2 DEF Pushes, Pops, Finishes
  <2> QED BY <1>2, <2>1 DEF Only, Shape
<1>4. /\ order' \in Seq(Manifests) /\ depsOf' \in [Package -> Seq(Package) \cup {None}]
      /\ HeapOK(heap') /\ diagnostics' \in [Callers -> SUBSET Ref]
  <2>1. CASE UNCHANGED <<order, depsOf, heap, diagnostics, threw>> BY <2>1 DEF Shape
  <2>2. CASE Finishes(c, m, deps)
    <3>1. order' \in Seq(Manifests) BY <1>1, <2>2 DEF Finishes, Shape
    <3>2. depsOf' \in [Package -> Seq(Package) \cup {None}] BY <1>1, <2>2 DEF Finishes, Shape
    <3>3. HeapOK(heap')
      <4> DEFINE b == Bindable(Seed[m.id], Append(order, m))
      <4>1. Seed[m.id] \in Seq(Node) BY <1>1, DomainAssumption
      <4>2. b \in Seq(Node) BY <4>1, BindableIs
      <4>3. heap' = Bound(b, m.id) BY <2>2 DEF Finishes
      <4> HIDE DEF b
      <4> QED BY <4>2, <4>3, BoundIs DEF Shape
    <3> QED BY <2>2, <3>1, <3>2, <3>3 DEF Finishes
  <2> QED BY <1>2, <2>1, <2>2
<1>5. /\ byIdentity' \in [Package -> Manifests \cup {None}] /\ refcount' \in [Package -> Nat]
      /\ \A p \in Package : byIdentity'[p] # None => byIdentity'[p].id = p
      /\ todo' \in [Callers -> Seq(Ref)] /\ overlap' \in Overlaps
  BY DEF Ready, Shape
<1> QED BY <1>3, <1>4, <1>5 DEF Shape

(* Every node in the heap is of a type that a manifest of the order defines. *)
LEMMA OwnedLater ==
    ASSUME NEW ms \in Seq(Manifests), NEW m \in Manifests, NEW type, Owned(ms, type)
    PROVE  Owned(Append(ms, m), type)
<1>1. PICK i \in DOMAIN ms : type \in Defines[ms[i].id] BY DEF Owned
<1>2. i \in DOMAIN Append(ms, m) /\ Append(ms, m)[i] = ms[i] OBVIOUS
<1> QED BY <1>1, <1>2 DEF Owned

LEMMA BoundReflects ==
    ASSUME HeapOK(heap), NEW ms, \A n \in DOMAIN heap : Owned(ms, heap[n].type),
           NEW nodes \in Seq(Node), NEW origin
    PROVE  LET h == Bound(Bindable(nodes, ms), origin)
           IN  \A n \in DOMAIN h : Owned(ms, h[n].type)
<1> DEFINE b == Bindable(nodes, ms)
           h == Bound(b, origin)
<1>1. b \in Seq(Node) /\ \A i \in DOMAIN b : Owned(ms, b[i].type) BY BindableIs
<1> HIDE DEF b
<1>2. \A n \in DOMAIN h : (n \in DOMAIN heap /\ h[n] = heap[n]) \/ \E i \in DOMAIN b : h[n].type = b[i].type
  BY <1>1, BoundIs
<1> QED BY <1>1, <1>2 DEF b

LEMMA ContinueHeap ==
    ASSUME Shape, HeapReflects, NEW c, NEW m, NEW deps, Ready(c, m, deps), Continue(c, m, deps)
    PROVE  HeapReflects'
<1>1. m \in Manifests /\ m.id \in Package BY ManifestIs DEF Ready
<1>2. CASE UNCHANGED <<order, heap>> BY <1>2 DEF HeapReflects
<1>3. CASE Finishes(c, m, deps)
  <2> DEFINE ms == Append(order, m)
  <2>1. Seed[m.id] \in Seq(Node) BY <1>1, DomainAssumption
  <2>2. \A n \in DOMAIN heap : Owned(ms, heap[n].type) BY <1>1, OwnedLater DEF HeapReflects, Shape
  <2>3. order' = ms /\ heap' = Bound(Bindable(Seed[m.id], ms), m.id) BY <1>3 DEF Finishes
  <2> HIDE DEF ms
  <2>4. \A n \in DOMAIN heap' : Owned(ms, heap'[n].type) BY <2>1, <2>2, <2>3, BoundReflects DEF Shape
  <2> QED BY <2>3, <2>4 DEF HeapReflects
<1> QED BY <1>2, <1>3, ContinueStack

-----------------------------------------------------------------------------
(* The guards, when a load goes on.                                         *)

(* What a resolved or a resumed load finds.                                  *)
Prepared(c, m, deps) ==
    /\ \A p \in Package : byIdentity[p] # None => byIdentity'[p] # None
    /\ byIdentity'[m.id] # None
    /\ \A k \in DOMAIN deps : byIdentity'[deps[k]] # None
    /\ \A i \in DOMAIN stack[c] : i < Len(stack[c]) => stack[c][i].manifest.id # m.id
    /\ "loads" \notin overlap =>
          /\ byIdentity'[m.id] = m /\ depsOf[m.id] = None /\ ~Lost(m.id)
          /\ \A p \in Package : p # m.id => byIdentity'[p] = byIdentity[p]

LEMMA RegisteredLater ==
    ASSUME NEW s, StackOK(s), NEW B, NEW C, \A p \in Package : B[p] # None => C[p] # None,
           StackRegistered(s, B)
    PROVE  StackRegistered(s, C)
<1>1. ASSUME NEW i \in DOMAIN s
      PROVE  /\ Live(s[i]) => s[i].manifest.id \in Package
             /\ \A k \in DOMAIN s[i].deps : s[i].deps[k] \in Package
             /\ s[i].at = "returned" => s[i].got \in Package
  <2>1. s[i] \in Frame /\ FrameOK(s[i]) BY DEF StackOK
  <2>2. Live(s[i]) => s[i].manifest.id \in Package BY <2>1, ManifestIs DEF FrameOK
  <2>3. s[i].deps \in Seq(Package) BY <2>1 DEF Frame
  <2> QED BY <2>1, <2>2, <2>3 DEF FrameOK
<1> QED BY <1>1 DEF StackRegistered

LEMMA ContinueRegistered ==
    ASSUME Shape, Registered, NEW c, NEW m, NEW deps, Ready(c, m, deps), Continue(c, m, deps),
           Prepared(c, m, deps)
    PROVE  Registered'
<1>1. c \in Callers /\ stack[c] # <<>> /\ m.id \in Package /\ StackOK(stack[c])
  BY ManifestIs DEF Ready, Shape
<1>2. /\ Only(c)
      /\ \/ Pushes(stack[c], stack'[c], m, deps) /\ UNCHANGED <<order, depsOf, heap, diagnostics, threw>>
         \/ Finishes(c, m, deps)
  BY ContinueStack
<1>3. \A e \in Callers : StackRegistered(stack[e], byIdentity')
  BY RegisteredLater DEF Registered, Prepared, Shape
<1>4. ASSUME NEW e \in Callers PROVE StackRegistered(stack'[e], byIdentity')
  <2>1. CASE e # c BY <1>2, <1>3, <2>1 DEF Only
  <2>2. CASE e = c
    <3>1. CASE Pushes(stack[c], stack'[c], m, deps) BY <1>1, <1>3, <2>2, <3>1, PushesKeeps DEF Prepared
    <3>2. CASE Finishes(c, m, deps) BY <1>1, <1>3, <2>2, <3>2, PopsKeeps DEF Finishes, Prepared
    <3> QED BY <1>2, <3>1, <3>2
  <2> QED BY <2>1, <2>2
<1>5. ASSUME NEW p \in Package, depsOf'[p] # None
      PROVE  byIdentity'[p] # None /\ \A k \in DOMAIN depsOf'[p] : byIdentity'[depsOf'[p][k]] # None
  <2>1. CASE depsOf'[p] = depsOf[p]
    <3>1. \A k \in DOMAIN depsOf[p] : depsOf[p][k] \in Package BY <1>5, <2>1 DEF Shape
    <3> QED BY <1>5, <2>1, <3>1 DEF Registered, Prepared
  <2>2. CASE depsOf'[p] # depsOf[p]
    <3>1. Finishes(c, m, deps) BY <1>2, <2>2
    <3>2. p = m.id /\ depsOf'[p] = deps BY <1>1, <2>2, <3>1 DEF Finishes, Shape
    <3> QED BY <3>2 DEF Prepared
  <2> QED BY <2>1, <2>2
<1> QED BY <1>4, <1>5 DEF Registered

LEMMA ContinueDistinct ==
    ASSUME Shape, \A e \in Callers : Distinct(stack[e]),
           NEW c, NEW m, NEW deps, Ready(c, m, deps), Continue(c, m, deps), Prepared(c, m, deps)
    PROVE  \A e \in Callers : Distinct(stack'[e])
<1>1. c \in Callers /\ stack[c] # <<>> /\ StackOK(stack[c]) BY DEF Ready, Shape
<1>2. Only(c) /\ (Pushes(stack[c], stack'[c], m, deps) \/ Finishes(c, m, deps)) BY ContinueStack
<1>3. Distinct(stack'[c])
  <2>1. CASE Pushes(stack[c], stack'[c], m, deps) BY <1>1, <2>1, PushesKeeps DEF Prepared
  <2>2. CASE Finishes(c, m, deps) BY <1>1, <2>2, PopsKeeps DEF Finishes
  <2> QED BY <1>2, <2>1, <2>2
<1> QED BY <1>2, <1>3 DEF Only

LEMMA ContinueChained ==
    ASSUME Shape, \A e \in Callers : Chained(stack[e]),
           NEW c, NEW m, NEW deps, Ready(c, m, deps), Continue(c, m, deps)
    PROVE  \A e \in Callers : Chained(stack'[e])
<1>1. c \in Callers /\ stack[c] # <<>> /\ StackOK(stack[c]) /\ m \in Manifests BY DEF Ready, Shape
<1>2. Only(c) /\ (Pushes(stack[c], stack'[c], m, deps) \/ Finishes(c, m, deps)) BY ContinueStack
<1>3. Chained(stack'[c])
  <2>1. m.id = Pinned(stack[c][Len(stack[c])].ref) BY <1>1, TopIs DEF Ready, Top
  <2>2. CASE Pushes(stack[c], stack'[c], m, deps) BY <1>1, <2>1, <2>2, PushesChained
  <2>3. CASE Finishes(c, m, deps) BY <1>1, <2>3, PopsKeeps DEF Finishes
  <2> QED BY <1>2, <2>2, <2>3
<1> QED BY <1>2, <1>3 DEF Only

(* No other caller has a load under way.                                     *)
LEMMA AloneIs ==
    ASSUME Alone, NEW c \in Callers, stack[c] # <<>>, NEW e \in Callers, e # c
    PROVE  stack[e] = <<>>
  BY DEF Alone, Busy

LEMMA AloneLater ==
    ASSUME Alone, NEW c \in Callers, stack[c] # <<>>, Only(c), todo' = todo,
           StackAlone(stack'[c], depsOf', byIdentity')
    PROVE  Alone'
<1>1. Busy' \subseteq Busy BY DEF Busy, Only
<1>2. \A e \in Callers : e # c => stack'[e] = <<>> BY AloneIs DEF Only
<1>3. \A e \in Callers : StackAlone(stack'[e], depsOf', byIdentity') BY <1>2, EmptyKeeps
<1> QED BY <1>1, <1>3 DEF Alone

LEMMA ContinueAlone ==
    ASSUME Shape, Alone, \A e \in Callers : Distinct(stack[e]), "loads" \notin overlap,
           NEW c, NEW m, NEW deps, Ready(c, m, deps), Continue(c, m, deps), Prepared(c, m, deps)
    PROVE  Alone'
<1> DEFINE s == stack[c]
           n == Len(s)
<1>1. c \in Callers /\ s # <<>> /\ StackOK(s) /\ m.id \in Package /\ m \in Manifests /\ todo' = todo
  BY ManifestIs DEF Ready, Shape
<1>2. /\ Only(c)
      /\ \/ Pushes(s, stack'[c], m, deps) /\ UNCHANGED <<order, depsOf, heap, diagnostics, threw>>
         \/ Finishes(c, m, deps)
  BY ContinueStack
<1>3. ASSUME NEW i \in DOMAIN s, i < n
      PROVE  depsOf'[s[i].manifest.id] = None /\ byIdentity'[s[i].manifest.id] = s[i].manifest
  <2>1. s[i] \in Frame /\ FrameOK(s[i]) /\ Live(s[i]) BY <1>1, <1>3, TopIs
  <2>2. s[i].manifest \in Manifests /\ s[i].manifest.id \in Package BY <2>1, ManifestIs DEF FrameOK
  <2>3. s[i].manifest.id # m.id BY <1>3 DEF Prepared
  <2>4. depsOf[s[i].manifest.id] = None /\ byIdentity[s[i].manifest.id] = s[i].manifest
    BY <1>1, <2>1 DEF Alone, StackAlone
  <2>5. byIdentity'[s[i].manifest.id] = byIdentity[s[i].manifest.id] BY <2>2, <2>3 DEF Prepared
  <2>6. depsOf'[s[i].manifest.id] = depsOf[s[i].manifest.id]
    BY <1>1, <1>2, <2>2, <2>3 DEF Finishes, Shape
  <2> QED BY <2>4, <2>5, <2>6
<1>4. StackAlone(stack'[c], depsOf', byIdentity')
  <2>1. CASE Pushes(s, stack'[c], m, deps) /\ UNCHANGED <<order, depsOf, heap, diagnostics, threw>>
    <3>1. depsOf'[m.id] = None /\ byIdentity'[m.id] = m BY <2>1 DEF Prepared
    <3> HIDE DEF s
    <3> QED BY <1>1, <1>3, <2>1, <3>1, PushesAlone
  <2>2. CASE Finishes(c, m, deps)
    <3>1. Pops(s, stack'[c], m.id) BY <2>2 DEF Finishes
    <3> HIDE DEF s
    <3> QED BY <1>3, <3>1, PopsAlone
  <2> QED BY <1>2, <2>1, <2>2
<1> QED BY <1>1, <1>2, <1>4, AloneLater

-----------------------------------------------------------------------------
(* The order of finalization, when a load goes on.                           *)

LEMMA ContinueLost ==
    ASSUME Shape, "loads" \notin overlap, NEW c, NEW m, NEW deps, Ready(c, m, deps),
           Continue(c, m, deps), Prepared(c, m, deps), NEW d \in Package, Lost(d)
    PROVE  Lost(d)'
<1> DEFINE s == stack[c]
           n == Len(s)
<1>1. c \in Callers /\ s # <<>> /\ StackOK(s) /\ m.id \in Package BY ManifestIs DEF Ready, Shape
<1>2. /\ Only(c)
      /\ \/ Pushes(s, stack'[c], m, deps) /\ UNCHANGED <<order, depsOf, heap, diagnostics, threw>>
         \/ Finishes(c, m, deps)
  BY ContinueStack
<1>3. d # m.id BY DEF Prepared
<1>4. byIdentity'[d] = byIdentity[d] BY <1>3 DEF Prepared
<1>5. byIdentity[d] # None /\ byIdentity[d] \notin Range(order) /\ byIdentity[d].id = d
  BY DEF Lost, Husk, Shape
<1>6. Range(order') \subseteq Range(order) \cup {m}
  <2>1. order' = order \/ order' = Append(order, m) BY <1>2 DEF Finishes
  <2>2. order \in Seq(Manifests) /\ m \in Manifests BY DEF Shape, Ready
  <2> QED BY <2>1, <2>2 DEF Range
<1>7. Husk(d)' BY <1>3, <1>4, <1>5, <1>6 DEF Husk
<1>8. ASSUME NEW e \in Callers, NEW i \in DOMAIN stack'[e], Live(stack'[e][i])
      PROVE  stack'[e][i].manifest.id # d
  <2>1. CASE e # c BY <1>2, <1>8, <2>1 DEF Lost, Only
  <2>2. CASE e = c
    <3> DEFINE t == stack'[c]
    <3>1. CASE Pushes(s, t, m, deps)
      <4>1. \/ i \in DOMAIN s /\ t[i] = s[i]
            \/ i = n
            \/ i = n + 1
        <5> HIDE DEF t, s
        <5> QED BY <1>1, <1>8, <2>2, <3>1, PushesFrames DEF t
      <4>2. t[n].manifest = m /\ ~Live(t[n + 1]) BY <3>1 DEF Pushes
      <4>3. CASE i \in DOMAIN s /\ t[i] = s[i] BY <1>1, <1>8, <2>2, <4>3 DEF Lost
      <4> QED BY <1>3, <1>8, <2>2, <4>1, <4>2, <4>3
    <3>2. CASE Finishes(c, m, deps)
      <4>1. i \in DOMAIN s /\ Live(s[i]) /\ t[i].manifest = s[i].manifest
        BY <1>8, <2>2, <3>2 DEF Finishes, Pops
      <4> QED BY <1>1, <2>2, <4>1 DEF Lost
    <3> QED BY <1>2, <3>1, <3>2
  <2> QED BY <2>1, <2>2
<1> QED BY <1>7, <1>8 DEF Lost

LEMMA ContinueOrdered ==
    ASSUME Shape, Registered, Alone, Ordered, "loads" \notin overlap, \A e \in Callers : Chained(stack[e]),
           NEW c, NEW m, NEW deps, Ready(c, m, deps), Continue(c, m, deps), Prepared(c, m, deps)
    PROVE  Ordered'
<1> DEFINE s == stack[c]
           n == Len(s)
           N == Len(order)
<1>1. /\ c \in Callers /\ s # <<>> /\ StackOK(s) /\ m.id \in Package /\ m \in Manifests
      /\ deps \in Seq(Package)
  BY ManifestIs DEF Ready, Shape
<1>2. /\ Only(c)
      /\ \/ Pushes(s, stack'[c], m, deps) /\ UNCHANGED <<order, depsOf, heap, diagnostics, threw>>
         \/ Finishes(c, m, deps)
  BY ContinueStack
<1>3. N \in Nat /\ DOMAIN order = 1..N /\ order \in Seq(Manifests) BY DEF Shape
<1>4. \A i \in DOMAIN order : order[i].id \in Package /\ order[i].id # m.id
  BY <1>1, <1>3, ManifestIs DEF Ordered, Prepared
<1>5. \A i \in DOMAIN order : /\ byIdentity'[order[i].id] = order[i]
                              /\ depsOf'[order[i].id] = depsOf[order[i].id]
                              /\ depsOf[order[i].id] # None
                              /\ depsOf[order[i].id] \in Seq(Package)
  <2>1. ASSUME NEW i \in DOMAIN order PROVE byIdentity'[order[i].id] = order[i]
    BY <1>4 DEF Ordered, Prepared
  <2>2. ASSUME NEW i \in DOMAIN order PROVE depsOf'[order[i].id] = depsOf[order[i].id]
    BY <1>1, <1>2, <1>4 DEF Finishes, Shape
  <2>3. ASSUME NEW i \in DOMAIN order
        PROVE  depsOf[order[i].id] # None /\ depsOf[order[i].id] \in Seq(Package)
    BY <1>4 DEF Ordered, Shape
  <2> QED BY <2>1, <2>2, <2>3
<1>6. CASE UNCHANGED <<order, depsOf>>
  <2>1. ASSUME NEW i \in DOMAIN order, NEW k \in DOMAIN depsOf[order[i].id],
               NEW d \in Package, d = depsOf[order[i].id][k]
        PROVE  Earlier(order, i, d) \/ Reaches(d, order[i].id) \/ Lost(d)'
    <3>1. Lost(d) => Lost(d)' BY ContinueLost
    <3> QED BY <2>1, <3>1 DEF Ordered
  <2>2. \A i \in DOMAIN order : \A k \in DOMAIN depsOf[order[i].id] : depsOf[order[i].id][k] \in Package BY <1>5
  <2>3. /\ \A i \in DOMAIN order : byIdentity'[order[i].id] = order[i] /\ depsOf[order[i].id] # None
        /\ \A i, j \in DOMAIN order : order[i].id = order[j].id => i = j
    BY <1>5 DEF Ordered
  <2>4. ASSUME NEW i \in DOMAIN order', NEW k \in DOMAIN depsOf'[order'[i].id]
        PROVE  LET d == depsOf[order[i].id][k]
               IN  (Earlier(order, i, d) \/ Reaches(d, order[i].id) \/ Lost(d))'
    <3>1. PICK d \in Package : d = depsOf[order[i].id][k] BY <1>6, <2>2
    <3>2. Earlier(order, i, d) \/ Reaches(d, order[i].id) \/ Lost(d)' BY <1>6, <2>1, <3>1
    <3>3. d = depsOf'[order'[i].id][k] BY <1>6, <3>1
    <3> QED BY <1>6, <3>2, <3>3 DEF Lost, Husk, Earlier
  <2> QED BY <1>6, <2>3, <2>4 DEF Ordered
<1>7. CASE Finishes(c, m, deps)
  <2>1. order' = Append(order, m) /\ depsOf' = [depsOf EXCEPT ![m.id] = deps] BY <1>7 DEF Finishes
  <2>2. /\ DOMAIN order' = 1..(N + 1) /\ order'[N + 1] = m /\ \A i \in 1..N : order'[i] = order[i]
        /\ \A i \in 1..(N + 1) : i = N + 1 \/ i \in 1..N
    BY <1>1, <1>3, <2>1
  <2>3. depsOf'[m.id] = deps BY <1>1, <2>1 DEF Shape
  <2>4. byIdentity'[m.id] = m BY DEF Prepared
  <2>5. m.id # None /\ deps # None /\ depsOf'[m.id] # None BY <1>1, <2>3, DomainAssumption
  <2>6. ASSUME NEW i \in DOMAIN order' PROVE byIdentity'[order'[i].id] = order'[i] /\ depsOf'[order'[i].id] # None
    BY <1>3, <1>5, <2>2, <2>4, <2>5
  <2>7. ASSUME NEW i \in DOMAIN order', NEW j \in DOMAIN order', order'[i].id = order'[j].id PROVE i = j
    <3>1. CASE i \in 1..N /\ j \in 1..N BY <1>3, <2>2, <2>7, <3>1 DEF Ordered
    <3>2. CASE i = N + 1 /\ j \in 1..N BY <1>3, <1>4, <2>2, <2>7, <3>2
    <3>3. CASE j = N + 1 /\ i \in 1..N BY <1>3, <1>4, <2>2, <2>7, <3>3
    <3> QED BY <2>2, <3>1, <3>2, <3>3
  <2>8. ASSUME NEW i \in 1..N, NEW k \in DOMAIN depsOf'[order'[i].id],
               NEW d \in Package, d = depsOf'[order'[i].id][k]
        PROVE  Earlier(order', i, d) \/ Reaches(d, order'[i].id) \/ Lost(d)'
    <3>1. order'[i] = order[i] /\ depsOf'[order'[i].id] = depsOf[order[i].id] /\ i \in DOMAIN order BY <1>3, <1>5, <2>2
    <3>2. k \in DOMAIN depsOf[order[i].id] /\ d = depsOf[order[i].id][k] BY <2>8, <3>1
    <3>3. Lost(d) => Lost(d)' BY ContinueLost
    <3>4. Earlier(order, i, d) \/ Reaches(d, order[i].id) \/ Lost(d) BY <3>1, <3>2 DEF Ordered
    <3>5. Earlier(order, i, d) => Earlier(order', i, d)
      <4>1. ASSUME NEW j \in DOMAIN order PROVE j \in DOMAIN order' /\ order'[j] = order[j] BY <1>3, <2>2
      <4> QED BY <4>1 DEF Earlier
    <3> QED BY <3>1, <3>3, <3>4, <3>5
  <2>9. ASSUME NEW k \in DOMAIN deps
        PROVE  Earlier(order', N + 1, deps[k]) \/ Reaches(deps[k], m.id) \/ Lost(deps[k])'
    <3> DEFINE d == deps[k]
    <3>1. d \in Package /\ byIdentity'[d] # None BY <1>1 DEF Prepared
    <3>2. CASE d = m.id BY <3>2, ReachesSelf
    <3>3. CASE d # m.id /\ \E i \in DOMAIN s : i < n /\ s[i].manifest.id = d
      <4>1. PICK i \in DOMAIN s : i < n /\ s[i].manifest.id = d BY <3>3
      <4>2. s[i] \in Frame /\ FrameOK(s[i]) /\ Live(s[i]) BY <1>1, <4>1, TopIs
      <4>3. Pinned(s[i].ref) = d BY <4>1, <4>2 DEF FrameOK
      <4>4. n \in DOMAIN s /\ Pinned(s[n].ref) = m.id
        <5>1. n \in DOMAIN s /\ Top(c) = s[n] BY <1>1, TopIs DEF Top
        <5> QED BY <5>1 DEF Ready
      <4>5. m.id # None BY <1>1, DomainAssumption
      <4>6. Chained(s) BY <1>1
      <4>7. Reaches(Pinned(s[i].ref), Pinned(s[n].ref))
        <5> HIDE DEF s, n
        <5> QED BY <4>1, <4>4, <4>5, <4>6 DEF Chained
      <4> QED BY <4>3, <4>4, <4>7
    <3>4. CASE d # m.id /\ ~\E i \in DOMAIN s : i < n /\ s[i].manifest.id = d
      <4>1. CASE byIdentity'[d] \in Range(order)
        <5>1. PICK j \in DOMAIN order : byIdentity'[d] = order[j] BY <4>1 DEF Range
        <5>2. order[j].id = d BY <3>1, <5>1 DEF Ready
        <5>3. j \in DOMAIN order' /\ order'[j].id = d /\ j < N + 1 BY <1>3, <2>2, <5>2
        <5> QED BY <5>3 DEF Earlier
      <4>2. CASE byIdentity'[d] \notin Range(order)
        <5>1. Range(order') \subseteq Range(order) \cup {m} BY <1>3, <2>2 DEF Range
        <5>2. byIdentity'[d] # m BY <3>1, <3>4 DEF Ready
        <5>3. Husk(d)' BY <3>1, <4>2, <5>1, <5>2 DEF Husk
        <5>4. ASSUME NEW e \in Callers, NEW i \in DOMAIN stack'[e], Live(stack'[e][i])
              PROVE  stack'[e][i].manifest.id # d
          <6>1. CASE e # c
            <7>1. stack'[e] = <<>> BY <1>1, <1>2, <6>1, AloneIs DEF Only
            <7> QED BY <5>4, <7>1, EmptyStack
          <6>2. CASE e = c
            <7>1. i \in DOMAIN s /\ i < n /\ stack'[c][i].manifest = s[i].manifest
              BY <1>7, <5>4, <6>2 DEF Finishes, Pops
            <7> QED BY <3>4, <6>2, <7>1
          <6> QED BY <6>1, <6>2
        <5> QED BY <5>3, <5>4 DEF Lost
      <4> QED BY <4>1, <4>2
    <3> QED BY <3>2, <3>3, <3>4
  <2>10. ASSUME NEW i \in DOMAIN order', NEW k \in DOMAIN depsOf'[order'[i].id]
         PROVE  LET d == depsOf[order[i].id][k]
                IN  (Earlier(order, i, d) \/ Reaches(d, order[i].id) \/ Lost(d))'
    <3>1. PICK d \in Package : d = depsOf'[order'[i].id][k]
      <4>1. CASE i \in 1..N BY <1>3, <1>5, <2>2, <2>10, <4>1
      <4>2. CASE i = N + 1 BY <1>1, <2>2, <2>3, <2>10, <4>2
      <4> QED BY <2>2, <4>1, <4>2
    <3>2. Earlier(order', i, d) \/ Reaches(d, order'[i].id) \/ Lost(d)'
      <4>1. CASE i \in 1..N BY <2>8, <2>10, <3>1, <4>1
      <4>2. CASE i = N + 1 BY <2>2, <2>3, <2>9, <2>10, <3>1, <4>2
      <4> QED BY <2>2, <4>1, <4>2
    <3> QED BY <3>1, <3>2 DEF Lost, Husk
  <2> QED BY <2>6, <2>7, <2>10 DEF Ordered
<1> QED BY <1>2, <1>6, <1>7

-----------------------------------------------------------------------------
(* The counts, when a load goes on.                                          *)

LEMMA SlotIs ==
    ASSUME NEW s \in Slot
    PROVE  s = <<s[1], s[2], s[3]>> /\ s[1] \in Package \cup Callers /\ s[2] \in Nat /\ s[3] \in Nat
  BY DEF Slot

LEMMA SlotsSame ==
    ASSUME NEW D, NEW K, NEW L, NEW d,
           \A e \in Callers : \A k, i \in Nat : Awaits(K[e], k, i, d) <=> Awaits(L[e], k, i, d)
    PROVE  Slots(D, K, d) = Slots(D, L, d)
<1>1. ASSUME NEW s \in Slot
      PROVE  s \in Slots(D, K, d) <=> s \in Slots(D, L, d)
  <2>1. s[2] \in Nat /\ s[3] \in Nat BY SlotIs
  <2>2. s[1] \in Callers => (Awaits(K[s[1]], s[2], s[3], d) <=> Awaits(L[s[1]], s[2], s[3], d)) BY <2>1
  <2> QED BY <2>2 DEF Slots
<1> QED BY <1>1 DEF Slots

(* The places when the top frame of c has the dependencies deps.             *)
Mid(c, deps, d) ==
    {s \in Slot : IF s[2] = 0 THEN Finalizes(depsOf, s[1], s[3], d)
                  ELSE /\ s[1] \in Callers
                       /\ IF s[1] = c /\ s[2] = Len(stack[c])
                          THEN s[3] \in DOMAIN deps /\ deps[s[3]] = d
                          ELSE Awaits(stack[s[1]], s[2], s[3], d)}

LEMMA MidSame ==
    ASSUME NEW c \in Callers, StackOK(stack[c]), stack[c] # <<>>, NEW d
    PROVE  Mid(c, stack[c][Len(stack[c])].deps, d) = Slots(depsOf, stack, d)
<1>1. Len(stack[c]) \in DOMAIN stack[c] BY TopIs
<1> QED BY <1>1 DEF Mid, Slots, Awaits

LEMMA MidNext ==
    ASSUME NEW c \in Callers, StackOK(stack[c]), stack[c] # <<>>, NEW d \in Package, NEW got \in Package
    PROVE  LET n == Len(stack[c])
               old == stack[c][n].deps
               new == <<c, n, Len(old) + 1>>
               M == Mid(c, Append(old, got), d)
               S == Slots(depsOf, stack, d)
           IN  /\ d = got => new \notin S /\ M = S \cup {new}
               /\ d # got => M = S
<1> DEFINE n == Len(stack[c])
           old == stack[c][n].deps
           longer == Append(old, got)
           new == <<c, n, Len(old) + 1>>
           M == Mid(c, longer, d)
           S == Slots(depsOf, stack, d)
<1>1. n \in DOMAIN stack[c] /\ n \in Nat /\ n >= 1 /\ stack[c][n] \in Frame BY TopIs
<1>2. old \in Seq(Package) BY <1>1 DEF Frame
<1>3. /\ Len(old) \in Nat /\ DOMAIN old = 1..Len(old) /\ DOMAIN longer = 1..(Len(old) + 1)
      /\ longer[Len(old) + 1] = got /\ \A i \in 1..Len(old) : longer[i] = old[i]
  BY <1>2
<1> HIDE DEF longer
<1>4. \A i \in Nat : i \in DOMAIN longer <=> i \in DOMAIN old \/ i = Len(old) + 1
  <2> DEFINE l == Len(old)
  <2>1. l \in Nat /\ DOMAIN old = 1..l /\ DOMAIN longer = 1..(l + 1) BY <1>3
  <2> HIDE DEF l, old
  <2> QED BY <2>1 DEF l
<1>5. new \in Slot /\ new[1] = c /\ new[2] = n /\ new[3] = Len(old) + 1 BY <1>1, <1>3 DEF Slot
<1>6. Len(old) + 1 \notin DOMAIN old BY <1>3
<1> HIDE DEF n
<1>7. new \notin S
  <2> SUFFICES ASSUME new \in S PROVE FALSE OBVIOUS
  <2>1. n # 0 BY <1>1
  <2>2. Awaits(stack[c], n, Len(old) + 1, d) BY <1>5, <2>1 DEF Slots
  <2> QED BY <1>6, <2>2 DEF Awaits
<1>8. ASSUME NEW s \in Slot
      PROVE  s \in M <=> s \in S \/ (d = got /\ s = new)
  <2>1. s = <<s[1], s[2], s[3]>> /\ s[3] \in Nat BY SlotIs
  <2>2. CASE s[2] # 0 /\ s[1] = c /\ s[2] = n
    <3>1. s \in M <=> s[3] \in DOMAIN longer /\ longer[s[3]] = d BY <2>2 DEF Mid, n
    <3>2. s \in S <=> s[3] \in DOMAIN old /\ old[s[3]] = d BY <1>1, <2>2 DEF Slots, Awaits
    <3>3. s = new <=> s[3] = Len(old) + 1 BY <2>1, <2>2
    <3>4. s[3] \in DOMAIN old => longer[s[3]] = old[s[3]] BY <1>3
    <3> HIDE DEF M, S, new, old
    <3> QED BY <1>3, <1>4, <1>6, <2>1, <3>1, <3>2, <3>3, <3>4
  <2>3. CASE s[2] = 0 \/ ~(s[1] = c /\ s[2] = n)
    <3>1. s # new BY <1>1, <1>5, <2>3
    <3> HIDE DEF new
    <3> QED BY <2>3, <3>1 DEF Mid, Slots, n
  <2> QED BY <2>2, <2>3
<1>9. M \subseteq Slot /\ S \subseteq Slot BY DEF Mid, Slots
<1> HIDE DEF M, S, new
<1>10. d = got => M = S \cup {new} BY <1>5, <1>8, <1>9
<1>11. d # got => M = S BY <1>8, <1>9
<1> QED BY <1>7, <1>10, <1>11 DEF M, S, new, longer, n

LEMMA MidPush ==
    ASSUME NEW c \in Callers, StackOK(stack[c]), stack[c] # <<>>, Only(c), depsOf' = depsOf,
           NEW m, NEW deps, Pushes(stack[c], stack'[c], m, deps), NEW d
    PROVE  Slots(depsOf', stack', d) = Mid(c, deps, d)
<1> DEFINE s == stack[c]
           t == stack'[c]
           n == Len(s)
<1>1. n \in Nat /\ n >= 1 /\ DOMAIN s = 1..n BY TopIs
<1>2. /\ DOMAIN t = 1..(n + 1) /\ t[n].deps = deps /\ t[n + 1].deps = <<>>
      /\ \A i \in DOMAIN s : i # n => t[i] = s[i]
  BY DEF Pushes
<1>3. ASSUME NEW k \in Nat, NEW i \in Nat
      PROVE  Awaits(t, k, i, d) <=> IF k = n THEN i \in DOMAIN deps /\ deps[i] = d ELSE Awaits(s, k, i, d)
  <2> HIDE DEF s, t, n
  <2>1. CASE k = n BY <1>1, <1>2, <2>1 DEF Awaits
  <2>2. CASE k = n + 1 BY <1>1, <1>2, <2>2, EmptyStack DEF Awaits
  <2>3. CASE k # n /\ k # n + 1
    <3>1. k \in DOMAIN t <=> k \in DOMAIN s BY <1>1, <1>2, <2>3
    <3> QED BY <1>2, <2>3, <3>1 DEF Awaits
  <2> QED BY <2>1, <2>2, <2>3
<1>4. ASSUME NEW x \in Slot
      PROVE  x \in Slots(depsOf', stack', d) <=> x \in Mid(c, deps, d)
  <2>1. x[2] \in Nat /\ x[3] \in Nat BY SlotIs
  <2>2. CASE x[2] = 0 BY <2>2 DEF Slots, Mid
  <2>3. CASE x[2] # 0 /\ x[1] = c BY <1>3, <2>1, <2>3 DEF Slots, Mid
  <2>4. CASE x[2] # 0 /\ x[1] # c BY <2>4 DEF Slots, Mid, Only
  <2> QED BY <2>2, <2>3, <2>4
<1>5. Slots(depsOf', stack', d) \subseteq Slot /\ Mid(c, deps, d) \subseteq Slot BY DEF Slots, Mid
<1> QED BY <1>4, <1>5

(* Finalization moves the places of the top frame to the finalized package.  *)
LEMMA MidFinish ==
    ASSUME Shape, NEW c \in Callers, stack[c] # <<>>, Only(c), NEW m \in Manifests,
           NEW deps \in Seq(Package), Finishes(c, m, deps), NEW d, IsFiniteSet(Mid(c, deps, d))
    PROVE  /\ IsFiniteSet(Slots(depsOf', stack', d))
           /\ Cardinality(Slots(depsOf', stack', d)) <= Cardinality(Mid(c, deps, d))
           /\ depsOf[m.id] = None /\ DOMAIN stack'[c] = 1..(Len(stack[c]) - 1)
              => Cardinality(Slots(depsOf', stack', d)) = Cardinality(Mid(c, deps, d))
<1> DEFINE s == stack[c]
           t == stack'[c]
           n == Len(s)
           id == m.id
           S == Slots(depsOf', stack', d)
           M == Mid(c, deps, d)
           to(x) == IF x[1] = id /\ x[2] = 0 THEN <<c, n, x[3]>> ELSE x
           g == [x \in S |-> to(x)]
<1>1. n \in Nat /\ n >= 1 /\ DOMAIN s = 1..n /\ id \in Package /\ id # None
  BY TopIs, ManifestIs, DomainAssumption DEF Shape
<1>2. depsOf'[id] = deps /\ \A p \in Package : p # id => depsOf'[p] = depsOf[p]
  BY <1>1 DEF Finishes, Shape
<1>3. deps # None BY DomainAssumption
<1>4. \A k \in DOMAIN t : k \in DOMAIN s /\ k < n /\ t[k].deps = s[k].deps BY DEF Finishes, Pops
<1> HIDE DEF s, t, n, id
<1>5. ASSUME NEW x \in S
      PROVE  /\ x \in Slot /\ to(x) \in M
             /\ x[1] = id /\ x[2] = 0 => to(x) = <<c, n, x[3]>> /\ x = <<id, 0, x[3]>>
             /\ ~(x[1] = id /\ x[2] = 0) => to(x) = x /\ ~(x[1] = c /\ x[2] = n)
  <2>1. x \in Slot /\ x = <<x[1], x[2], x[3]>> /\ x[2] \in Nat /\ x[3] \in Nat BY SlotIs DEF Slots
  <2>2. CASE x[1] = id /\ x[2] = 0
    <3>1. x[3] \in DOMAIN deps /\ deps[x[3]] = d BY <1>2, <2>2 DEF Slots, Finalizes
    <3>2. <<c, n, x[3]>> \in Slot BY <1>1, <2>1 DEF Slot
    <3>3. <<c, n, x[3]>> \in M BY <1>1, <3>1, <3>2 DEF Mid, n, s
    <3> QED BY <2>1, <2>2, <3>3
  <2>3. CASE x[1] # id /\ x[2] = 0
    <3>1. Finalizes(depsOf', x[1], x[3], d) BY <2>3 DEF Slots
    <3>2. Finalizes(depsOf, x[1], x[3], d) BY <1>2, <2>3, <3>1 DEF Finalizes
    <3>3. x \in M BY <2>1, <2>3, <3>2 DEF Mid
    <3> QED BY <1>1, <2>1, <2>3, <3>3
  <2>4. CASE x[2] # 0
    <3>1. x[1] \in Callers /\ Awaits(stack'[x[1]], x[2], x[3], d) BY <2>4 DEF Slots
    <3>2. ~(x[1] = c /\ x[2] = n) BY <1>1, <1>4, <3>1 DEF Awaits, t
    <3>3. Awaits(stack[x[1]], x[2], x[3], d)
      <4>1. CASE x[1] = c BY <1>4, <3>1, <4>1 DEF Awaits, t, s
      <4>2. CASE x[1] # c BY <3>1, <4>2 DEF Only
      <4> QED BY <4>1, <4>2
    <3>4. x \in M BY <2>1, <2>4, <3>1, <3>2, <3>3 DEF Mid, n, s
    <3> QED BY <2>1, <2>4, <3>2, <3>4
  <2> QED BY <2>2, <2>3, <2>4
<1>6. g \in Injection(S, M)
  <2>1. g \in [S -> M] BY <1>5
  <2>2. ASSUME NEW x \in S, NEW y \in S, to(x) = to(y) PROVE x = y
    <3>1. \A i, j : <<c, n, i>>[1] = c /\ <<c, n, i>>[2] = n /\ (<<c, n, i>> = <<c, n, j>> => i = j) OBVIOUS
    <3> HIDE DEF S, M, to
    <3> QED BY <1>5, <2>2, <3>1
  <2>3. \A x \in S : g[x] = to(x) OBVIOUS
  <2> HIDE DEF g, to, S, M
  <2> QED BY <2>1, <2>2, <2>3 DEF Injection, IsInjective
<1>7. ASSUME depsOf[id] = None, DOMAIN t = 1..(n - 1)
      PROVE  g \in Surjection(S, M)
  <2>1. ASSUME NEW y \in M PROVE \E x \in S : to(x) = y
    <3>1. y \in Slot /\ y = <<y[1], y[2], y[3]>> /\ y[2] \in Nat /\ y[3] \in Nat BY SlotIs DEF Mid
    <3>2. CASE y[2] = 0
      <4>1. Finalizes(depsOf, y[1], y[3], d) BY <3>2 DEF Mid
      <4>2. y[1] # id BY <1>7, <4>1 DEF Finalizes
      <4>3. Finalizes(depsOf', y[1], y[3], d) BY <1>2, <4>1, <4>2 DEF Finalizes
      <4>4. y \in S BY <3>1, <3>2, <4>3 DEF Slots
      <4> QED BY <4>2, <4>4
    <3>3. CASE y[2] # 0 /\ y[1] = c /\ y[2] = n
      <4> DEFINE x == <<id, 0, y[3]>>
      <4>1. y[3] \in DOMAIN deps /\ deps[y[3]] = d BY <3>3 DEF Mid, n, s
      <4>2. x \in Slot /\ x[1] = id /\ x[2] = 0 /\ x[3] = y[3] BY <1>1, <3>1 DEF Slot
      <4> HIDE DEF x
      <4>3. Finalizes(depsOf', x[1], x[3], d) BY <1>1, <1>2, <1>3, <4>1, <4>2 DEF Finalizes
      <4>4. x \in S BY <4>2, <4>3 DEF Slots
      <4>5. to(x) = y BY <3>1, <3>3, <4>2
      <4> QED BY <4>4, <4>5
    <3>4. CASE y[2] # 0 /\ ~(y[1] = c /\ y[2] = n)
      <4>1. y[1] \in Callers /\ Awaits(stack[y[1]], y[2], y[3], d) BY <3>4 DEF Mid, n, s
      <4>2. Awaits(stack'[y[1]], y[2], y[3], d)
        <5>1. CASE y[1] = c
          <6>1. y[2] \in DOMAIN s BY <4>1, <5>1 DEF Awaits, s
          <6>2. y[2] \in DOMAIN t BY <1>1, <1>7, <3>4, <5>1, <6>1
          <6> QED BY <1>4, <4>1, <5>1, <6>2 DEF Awaits, t, s
        <5>2. CASE y[1] # c BY <4>1, <5>2 DEF Only
        <5> QED BY <5>1, <5>2
      <4>3. y \in S BY <3>1, <3>4, <4>1, <4>2 DEF Slots
      <4> QED BY <3>4, <4>3
    <3> QED BY <3>2, <3>3, <3>4
  <2>2. g \in [S -> M] BY <1>5
  <2>3. \A x \in S : g[x] = to(x) OBVIOUS
  <2> HIDE DEF g, to, S, M
  <2> QED BY <2>1, <2>2, <2>3 DEF Surjection
<1> HIDE DEF g, S, M
<1>8. IsFiniteSet(M) BY DEF M
<1>9. IsFiniteSet(S) /\ Cardinality(S) <= Cardinality(M) BY <1>6, <1>8, FS_Injection
<1>10. g \in Surjection(S, M) => Cardinality(S) = Cardinality(M) BY <1>6, <1>8, FS_Injection
<1> QED BY <1>7, <1>9, <1>10 DEF S, M, t, n, s, id

LEMMA ContinueCounts ==
    ASSUME Shape, NEW c, NEW m, NEW deps, Ready(c, m, deps), Continue(c, m, deps),
           \A d \in Package : /\ IsFiniteSet(Mid(c, deps, d))
                              /\ Cardinality(Mid(c, deps, d)) <= refcount'[d]
                              /\ Exact => Cardinality(Mid(c, deps, d)) = refcount'[d],
           Exact => depsOf[m.id] = None
    PROVE  Counts'
<1>1. /\ c \in Callers /\ stack[c] # <<>> /\ StackOK(stack[c]) /\ m \in Manifests
      /\ deps \in Seq(Package) /\ overlap' = overlap
  BY DEF Ready, Shape
<1>2. /\ Only(c)
      /\ \/ Pushes(stack[c], stack'[c], m, deps) /\ UNCHANGED <<order, depsOf, heap, diagnostics, threw>>
         \/ Finishes(c, m, deps)
  BY ContinueStack
<1>3. CASE Pushes(stack[c], stack'[c], m, deps) /\ UNCHANGED <<order, depsOf, heap, diagnostics, threw>>
  <2>1. \A d \in Package : Slots(depsOf', stack', d) = Mid(c, deps, d) BY <1>1, <1>2, <1>3, MidPush
  <2>2. Exact' => Exact BY <1>1, <1>3 DEF Exact
  <2> QED BY <2>1, <2>2 DEF Counts
<1>4. CASE Finishes(c, m, deps)
  <2>1. Exact' => Exact /\ DOMAIN stack'[c] = 1..(Len(stack[c]) - 1) BY <1>1, <1>4 DEF Exact, Finishes
  <2>2. ASSUME NEW d \in Package
        PROVE  /\ IsFiniteSet(Slots(depsOf', stack', d))
               /\ Cardinality(Slots(depsOf', stack', d)) <= refcount'[d]
               /\ Exact' => Cardinality(Slots(depsOf', stack', d)) = refcount'[d]
    <3> DEFINE S == Slots(depsOf', stack', d)
               M == Mid(c, deps, d)
    <3>1. IsFiniteSet(M) /\ Cardinality(M) <= refcount'[d] /\ (Exact => Cardinality(M) = refcount'[d])
      OBVIOUS
    <3>2. /\ IsFiniteSet(S) /\ Cardinality(S) <= Cardinality(M)
          /\ depsOf[m.id] = None /\ DOMAIN stack'[c] = 1..(Len(stack[c]) - 1) => Cardinality(S) = Cardinality(M)
      BY <1>1, <1>2, <1>4, <3>1, MidFinish
    <3>3. Cardinality(S) \in Nat /\ Cardinality(M) \in Nat /\ refcount'[d] \in Nat
      BY <3>1, <3>2, FS_CardinalityType DEF Ready
    <3> HIDE DEF S, M
    <3>4. Cardinality(S) <= refcount'[d] BY <3>1, <3>2, <3>3
    <3>5. Exact' => Cardinality(S) = refcount'[d] BY <2>1, <3>1, <3>2
    <3> QED BY <3>2, <3>4, <3>5 DEF S
  <2> QED BY <2>2 DEF Counts
<1> QED BY <1>2, <1>3, <1>4

-----------------------------------------------------------------------------
(* A load that resolves, and one that resumes.                               *)

LEMMA GuardedIs ==
    ASSUME Shape, Guarded, \A e \in Callers : Chained(stack[e]),
           NEW c, NEW m, NEW deps, Ready(c, m, deps), Continue(c, m, deps),
           "unload" \notin overlap => Prepared(c, m, deps)
    PROVE  Guarded'
<1>1. overlap' = overlap BY DEF Ready
<1>2. SUFFICES ASSUME "unload" \notin overlap
               PROVE  /\ Registered' /\ \A e \in Callers : Distinct(stack'[e])
                      /\ "loads" \notin overlap => Alone' /\ Ordered'
  BY <1>1 DEF Guarded
<1>3. Registered /\ (\A e \in Callers : Distinct(stack[e])) /\ ("loads" \notin overlap => Alone /\ Ordered)
  BY <1>2 DEF Guarded
<1>4. Prepared(c, m, deps) BY <1>2
<1>5. Registered' BY <1>3, <1>4, ContinueRegistered
<1>6. \A e \in Callers : Distinct(stack'[e]) BY <1>3, <1>4, ContinueDistinct
<1>7. ASSUME "loads" \notin overlap PROVE Alone' /\ Ordered'
  BY <1>3, <1>4, <1>7, ContinueAlone, ContinueOrdered
<1> QED BY <1>5, <1>6, <1>7

LEMMA ResolveKeeps ==
    ASSUME DomainInv, NEW c \in Callers, Resolve(c)
    PROVE  DomainInv'
<1> DEFINE s == stack[c]
           n == Len(s)
           f == s[n]
           m == Fresh(f.got)
<1>1. s # <<>> /\ StackOK(s) /\ Top(c) = f /\ f.at = "resolve" BY TopIs DEF Resolve, At, Top, DomainInv, Shape
<1>2. n \in DOMAIN s /\ f \in Frame /\ FrameOK(f) BY <1>1, TopIs
<1>3. f.got \in Package /\ f.got = Pinned(f.ref) /\ f.deps = <<>> BY <1>1, <1>2 DEF FrameOK
<1>4. Shape BY DEF DomainInv
<1>5. m \in Manifests /\ m.id = f.got /\ m # None BY <1>3, <1>4, FreshIs, ManifestIs
<1>6. /\ byIdentity' = [byIdentity EXCEPT ![m.id] = m] /\ Continue(c, m, <<>>)
      /\ UNCHANGED <<refcount, todo, runs, overlap>>
  BY <1>1 DEF Resolve, PreRegistered
<1> HIDE DEF m, f, s, n
<1>7. Ready(c, m, <<>>)
  <2>1. byIdentity' \in [Package -> Manifests \cup {None}] BY <1>3, <1>4, <1>5, <1>6 DEF Shape
  <2>2. \A p \in Package : byIdentity'[p] # None => byIdentity'[p].id = p BY <1>3, <1>4, <1>5, <1>6 DEF Shape
  <2>3. refcount' \in [Package -> Nat] BY <1>4, <1>6 DEF Shape
  <2>4. <<>> \in Seq(Package) OBVIOUS
  <2> QED BY <1>1, <1>3, <1>5, <1>6, <2>1, <2>2, <2>3, <2>4 DEF Ready, s
<1>8. byIdentity'[m.id] = m /\ \A p \in Package : p # m.id => byIdentity'[p] = byIdentity[p]
  BY <1>3, <1>4, <1>5, <1>6 DEF Shape
<1>9. ASSUME "unload" \notin overlap PROVE Prepared(c, m, <<>>)
  <2>1. Registered /\ Distinct(s) /\ ("loads" \notin overlap => Alone /\ Ordered)
    BY <1>9 DEF DomainInv, Guarded, s
  <2>2. \A p \in Package : byIdentity[p] # None => byIdentity'[p] # None BY <1>5, <1>8
  <2>3. ASSUME NEW i \in DOMAIN s, i < n PROVE s[i].manifest.id # m.id
    <3>1. i # n /\ Live(s[i])
      <4>1. n \in Nat /\ DOMAIN s = 1..n BY <1>1, TopIs DEF n
      <4>2. i # n BY <2>3, <4>1
      <4> QED BY <1>1, <4>2, TopIs DEF n
    <3>2. s[n].at = "resolve" /\ s[n].got = m.id BY <1>1, <1>5 DEF f
    <3> QED BY <1>2, <2>1, <3>1, <3>2 DEF Distinct
  <2>4. ASSUME "loads" \notin overlap PROVE depsOf[m.id] = None /\ ~Lost(m.id)
    <3>1. byIdentity[m.id] = None BY <1>1, <1>2, <1>5, <2>1, <2>4 DEF Alone, StackAlone, f, s
    <3>2. depsOf[m.id] = None BY <1>3, <1>5, <2>1, <3>1 DEF Registered
    <3> QED BY <3>1, <3>2 DEF Lost, Husk
  <2> QED BY <1>5, <1>8, <2>2, <2>3, <2>4, EmptyStack DEF Prepared, s, n
<1>10. Shape' BY <1>4, <1>6, <1>7, ContinueShape
<1>11. Guarded' BY <1>4, <1>6, <1>7, <1>9, GuardedIs DEF DomainInv
<1>12. HeapReflects' BY <1>4, <1>6, <1>7, ContinueHeap DEF DomainInv
<1>13. (\A e \in Callers : Chained(stack[e]))' BY <1>4, <1>6, <1>7, ContinueChained DEF DomainInv
<1>14. Counts'
  <2>1. \A d \in Package : Mid(c, <<>>, d) = Slots(depsOf, stack, d) BY <1>1, <1>3, MidSame DEF s, n, f
  <2>2. Exact => depsOf[m.id] = None BY <1>9 DEF Exact, Prepared
  <2> QED BY <1>4, <1>6, <1>7, <2>1, <2>2, ContinueCounts DEF DomainInv, Counts
<1> QED BY <1>10, <1>11, <1>12, <1>13, <1>14 DEF DomainInv

LEMMA ResumeKeeps ==
    ASSUME DomainInv, NEW c \in Callers, Resume(c)
    PROVE  DomainInv'
<1> DEFINE s == stack[c]
           n == Len(s)
           f == s[n]
           m == f.manifest
           got == f.got
           deps == Append(f.deps, got)
<1>1. s # <<>> /\ StackOK(s) /\ Top(c) = f /\ f.at = "returned" BY TopIs DEF Resume, At, Top, DomainInv, Shape
<1>2. n \in DOMAIN s /\ f \in Frame /\ FrameOK(f) /\ Live(f) BY <1>1, TopIs DEF Live
<1>3. got \in Package /\ m \in Manifests /\ m.id = Pinned(f.ref) /\ f.deps \in Seq(Package)
  BY <1>1, <1>2 DEF FrameOK, Frame
<1>4. Shape BY DEF DomainInv
<1>5. m.id \in Package /\ m # None BY <1>3, ManifestIs
<1>6. /\ refcount' = [refcount EXCEPT ![got] = @ + 1] /\ Continue(c, m, deps)
      /\ UNCHANGED <<byIdentity, todo, runs, overlap>>
  BY <1>1 DEF Resume, Counted
<1>7. /\ deps \in Seq(Package) /\ DOMAIN deps = 1..(Len(f.deps) + 1) /\ Len(f.deps) \in Nat
      /\ deps[Len(f.deps) + 1] = got /\ DOMAIN f.deps = 1..Len(f.deps)
      /\ \A k \in DOMAIN f.deps : deps[k] = f.deps[k]
  <2> DEFINE old == f.deps
             id == f.got
  <2>1. old \in Seq(Package) /\ id \in Package BY <1>3
  <2> HIDE DEF old, id
  <2>2. LET t == Append(old, id)
        IN  /\ t \in Seq(Package) /\ DOMAIN t = 1..(Len(old) + 1) /\ Len(old) \in Nat
            /\ t[Len(old) + 1] = id /\ DOMAIN old = 1..Len(old)
            /\ \A k \in DOMAIN old : t[k] = old[k]
    BY <2>1
  <2> QED BY <2>2 DEF old, id
<1>8. \A k \in DOMAIN deps : k \in DOMAIN f.deps \/ k = Len(f.deps) + 1
  <2> DEFINE l == Len(f.deps)
  <2>1. l \in Nat /\ DOMAIN deps = 1..(l + 1) /\ DOMAIN f.deps = 1..l BY <1>7
  <2> HIDE DEF l, deps, f
  <2> QED BY <2>1 DEF l
<1>9. Mid(c, deps, got) = Mid(c, Append(f.deps, got), got) OBVIOUS
<1> DEFINE S(d) == Slots(depsOf, stack, d)
           M(d) == Mid(c, deps, d)
<1>10. ASSUME NEW d \in Package
       PROVE  /\ IsFiniteSet(M(d)) /\ Cardinality(M(d)) <= refcount'[d]
              /\ Exact => Cardinality(M(d)) = refcount'[d]
  <2> DEFINE new == <<c, n, Len(f.deps) + 1>>
  <2>1. /\ d = got => new \notin S(d) /\ M(d) = S(d) \cup {new}
        /\ d # got => M(d) = S(d)
    BY <1>1, <1>3, MidNext
  <2>2. /\ IsFiniteSet(S(d)) /\ Cardinality(S(d)) <= refcount[d]
        /\ Exact => Cardinality(S(d)) = refcount[d]
    BY DEF DomainInv, Counts
  <2>3. Cardinality(S(d)) \in Nat /\ refcount[d] \in Nat BY <1>4, <2>2, FS_CardinalityType DEF Shape
  <2>4. refcount'[d] = IF d = got THEN refcount[d] + 1 ELSE refcount[d] BY <1>3, <1>4, <1>6 DEF Shape
  <2> HIDE DEF S, M, new, got
  <2>5. CASE d = got
    <3>1. IsFiniteSet(M(d)) /\ Cardinality(M(d)) = Cardinality(S(d)) + 1 BY <2>1, <2>2, <2>5, FS_AddElement
    <3>2. refcount'[d] = refcount[d] + 1 BY <2>4, <2>5
    <3> QED BY <2>2, <2>3, <3>1, <3>2
  <2>6. CASE d # got BY <2>1, <2>2, <2>4, <2>6
  <2> QED BY <2>5, <2>6
<1> HIDE DEF m, f, s, n, deps, got
<1>11. Ready(c, m, deps)
  <2>1. refcount' \in [Package -> Nat] BY <1>3, <1>4, <1>6 DEF Shape
  <2>2. /\ byIdentity' \in [Package -> Manifests \cup {None}]
        /\ \A p \in Package : byIdentity'[p] # None => byIdentity'[p].id = p
    BY <1>4, <1>6 DEF Shape
  <2> QED BY <1>1, <1>3, <1>6, <1>7, <2>1, <2>2 DEF Ready, s
<1>12. ASSUME "unload" \notin overlap PROVE Prepared(c, m, deps)
  <2>1. Registered /\ Distinct(s) /\ ("loads" \notin overlap => Alone /\ Ordered)
    BY <1>12 DEF DomainInv, Guarded, s
  <2>2. StackRegistered(s, byIdentity) BY <2>1 DEF Registered, s
  <2>3. byIdentity[m.id] # None /\ byIdentity[got] # None /\ \A k \in DOMAIN f.deps : byIdentity[f.deps[k]] # None
    BY <1>1, <1>2, <2>2 DEF StackRegistered, f, m, got
  <2>4. \A k \in DOMAIN deps : byIdentity[deps[k]] # None BY <1>7, <1>8, <2>3
  <2>5. ASSUME NEW i \in DOMAIN s, i < n PROVE s[i].manifest.id # m.id
    <3>1. i # n /\ Live(s[i])
      <4>1. n \in Nat /\ DOMAIN s = 1..n BY <1>1, TopIs DEF n
      <4>2. i # n BY <2>5, <4>1
      <4> QED BY <1>1, <4>2, TopIs DEF n
    <3>2. Live(s[n]) /\ s[n].manifest = m BY <1>2 DEF f, m
    <3> QED BY <1>2, <2>1, <3>1, <3>2 DEF Distinct
  <2>6. ASSUME "loads" \notin overlap PROVE byIdentity[m.id] = m /\ depsOf[m.id] = None /\ ~Lost(m.id)
    <3>1. Live(s[n]) /\ s[n].manifest = m /\ n \in DOMAIN s BY <1>2 DEF f, m
    <3>2. StackAlone(s, depsOf, byIdentity) BY <2>1, <2>6 DEF Alone, s
    <3>3. byIdentity[m.id] = m /\ depsOf[m.id] = None BY <3>1, <3>2 DEF StackAlone
    <3>4. ~Lost(m.id) BY <3>1 DEF Lost, s
    <3> QED BY <3>3, <3>4
  <2> QED BY <1>6, <2>3, <2>4, <2>5, <2>6 DEF Prepared, s, n
<1>13. Shape' BY <1>4, <1>6, <1>11, ContinueShape
<1>14. Guarded' BY <1>4, <1>6, <1>11, <1>12, GuardedIs DEF DomainInv
<1>15. HeapReflects' BY <1>4, <1>6, <1>11, ContinueHeap DEF DomainInv
<1>16. (\A e \in Callers : Chained(stack[e]))' BY <1>4, <1>6, <1>11, ContinueChained DEF DomainInv
<1>17. Counts'
  <2>1. Exact => depsOf[m.id] = None BY <1>12 DEF Exact, Prepared
  <2> QED BY <1>4, <1>6, <1>10, <1>11, <2>1, ContinueCounts
<1> QED BY <1>13, <1>14, <1>15, <1>16, <1>17 DEF DomainInv

-----------------------------------------------------------------------------
(* The other steps of a composition.                                        *)

LEMMA ComposeKeeps ==
    ASSUME DomainInv, NEW c \in Callers, NEW members \in Composes, Compose(c, members)
    PROVE  DomainInv'
<1>1. /\ UNCHANGED <<byIdentity, order, refcount, depsOf, heap, stack, threw, overlap>>
      /\ todo' = [todo EXCEPT ![c] = members] /\ diagnostics' = [diagnostics EXCEPT ![c] = {}]
      /\ c \notin Busy /\ ("loads" \in overlap \/ Busy = {})
  BY DEF Compose, registry
<1>2. members \in Seq(Ref) BY DomainAssumption
<1>3. Shape' BY <1>1, <1>2 DEF DomainInv, Shape
<1>4. "loads" \notin overlap => Busy' \subseteq {c} BY <1>1 DEF Busy, DomainInv, Shape
<1>5. Guarded'
  <2>1. Alone /\ "loads" \notin overlap => Alone' BY <1>1, <1>4 DEF Alone
  <2>2. Registered => Registered' BY <1>1 DEF Registered
  <2>3. Ordered => Ordered' BY <1>1 DEF Ordered, Lost, Husk
  <2> QED BY <1>1, <2>1, <2>2, <2>3 DEF DomainInv, Guarded
<1>6. Counts' BY <1>1 DEF DomainInv, Counts, Exact
<1>7. HeapReflects' /\ (\A e \in Callers : Chained(stack[e]))' BY <1>1 DEF DomainInv, HeapReflects
<1> QED BY <1>3, <1>5, <1>6, <1>7 DEF DomainInv

(* A step that leaves the registry and the heap, and the places of c.        *)
LEMMA LoadingKeeps ==
    ASSUME DomainInv, NEW c \in Callers, Only(c), StackOK(stack'[c]), c \in Busy,
           UNCHANGED <<byIdentity, order, refcount, depsOf, heap, runs, overlap>>,
           todo' \in [Callers -> Seq(Ref)], \A e \in Callers : e # c => todo'[e] = todo[e],
           diagnostics' \in [Callers -> SUBSET Ref],
           Chained(stack'[c]),
           "unload" \notin overlap =>
               /\ StackRegistered(stack'[c], byIdentity)
               /\ Distinct(stack'[c])
               /\ "loads" \notin overlap => StackAlone(stack'[c], depsOf, byIdentity),
           \A i \in DOMAIN stack'[c] : Live(stack'[c][i]) =>
               \E j \in DOMAIN stack[c] : Live(stack[c][j]) /\ stack'[c][i].manifest = stack[c][j].manifest,
           \A d \in Package : \/ threw' = TRUE /\ Slots(depsOf, stack', d) \subseteq Slots(depsOf, stack, d)
                              \/ threw' = threw /\ Slots(depsOf, stack', d) = Slots(depsOf, stack, d)
    PROVE  DomainInv'
<1>1. Shape'
  <2>1. \A e \in Callers : StackOK(stack'[e]) BY DEF Only, DomainInv, Shape
  <2> QED BY <2>1 DEF Only, DomainInv, Shape
<1>2. \A e \in Callers : Chained(stack'[e]) BY DEF Only, DomainInv
<1>3. HeapReflects' BY DEF HeapReflects, DomainInv
<1>4. Counts'
  <2>1. ASSUME NEW d \in Package
        PROVE  /\ IsFiniteSet(Slots(depsOf', stack', d))
               /\ Cardinality(Slots(depsOf', stack', d)) <= refcount'[d]
               /\ Exact' => Cardinality(Slots(depsOf', stack', d)) = refcount'[d]
    <3> DEFINE S == Slots(depsOf, stack, d)
               T == Slots(depsOf, stack', d)
    <3>1. /\ IsFiniteSet(S) /\ Cardinality(S) <= refcount[d] /\ (Exact => Cardinality(S) = refcount[d])
          /\ refcount[d] \in Nat
      BY DEF DomainInv, Counts, Shape
    <3>2. (threw' = TRUE /\ T \subseteq S) \/ (threw' = threw /\ T = S) BY Zenon
    <3>3. depsOf' = depsOf /\ refcount' = refcount /\ overlap' = overlap OBVIOUS
    <3> HIDE DEF S, T
    <3>4. CASE T = S /\ threw' = threw BY <3>1, <3>3, <3>4 DEF Exact, T
    <3>5. CASE threw' = TRUE /\ T \subseteq S
      <4>1. IsFiniteSet(T) /\ Cardinality(T) <= Cardinality(S) BY <3>1, <3>5, FS_Subset
      <4>2. Cardinality(T) \in Nat /\ Cardinality(S) \in Nat BY <3>1, <4>1, FS_CardinalityType
      <4> QED BY <3>1, <3>3, <3>5, <4>1, <4>2 DEF Exact, T
    <3> QED BY <3>2, <3>4, <3>5
  <2> QED BY <2>1 DEF Counts
<1>5. ASSUME "unload" \notin overlap
      PROVE  /\ Registered' /\ \A e \in Callers : Distinct(stack'[e])
             /\ "loads" \notin overlap => Alone' /\ Ordered'
  <2>1. Registered /\ (\A e \in Callers : Distinct(stack[e])) /\ ("loads" \notin overlap => Alone /\ Ordered)
    BY <1>5 DEF DomainInv, Guarded
  <2>2. Registered' BY <1>5, <2>1 DEF Registered, Only
  <2>3. \A e \in Callers : Distinct(stack'[e]) BY <1>5, <2>1 DEF Only
  <2>4. ASSUME "loads" \notin overlap PROVE Alone'
    <3>1. Busy' \subseteq Busy BY DEF Busy, Only
    <3>2. \A e \in Callers : StackAlone(stack'[e], depsOf, byIdentity) BY <1>5, <2>1, <2>4 DEF Only, Alone
    <3> QED BY <2>1, <2>4, <3>1, <3>2 DEF Alone
  <2>5. ASSUME "loads" \notin overlap PROVE Ordered'
    <3>1. ASSUME NEW d \in Package, Lost(d) PROVE Lost(d)'
      <4>1. ASSUME NEW e \in Callers, NEW i \in DOMAIN stack'[e], Live(stack'[e][i])
            PROVE  stack'[e][i].manifest.id # d
        <5>1. CASE e # c BY <3>1, <4>1, <5>1 DEF Only, Lost
        <5>2. CASE e = c
          <6>1. PICK j \in DOMAIN stack[c] : Live(stack[c][j]) /\ stack'[c][i].manifest = stack[c][j].manifest
            BY <4>1, <5>2
          <6>2. stack[c][j].manifest.id # d BY <3>1, <6>1 DEF Lost
          <6> QED BY <5>2, <6>1, <6>2
        <5> QED BY <5>1, <5>2
      <4> QED BY <3>1, <4>1 DEF Lost, Husk
    <3>2. \A i \in DOMAIN order : \A k \in DOMAIN depsOf[order[i].id] : depsOf[order[i].id][k] \in Package
      <4>1. \A i \in DOMAIN order : order[i].id \in Package BY ManifestIs DEF DomainInv, Shape
      <4>2. \A i \in DOMAIN order : depsOf[order[i].id] \in Seq(Package) BY <2>1, <2>5, <4>1 DEF Ordered, DomainInv, Shape
      <4> QED BY <4>2
    <3>3. ASSUME NEW i \in DOMAIN order', NEW k \in DOMAIN depsOf'[order'[i].id]
          PROVE  LET d == depsOf[order[i].id][k]
                 IN  (Earlier(order, i, d) \/ Reaches(d, order[i].id) \/ Lost(d))'
      <4>1. PICK d \in Package : d = depsOf[order[i].id][k] BY <3>2
      <4>2. Earlier(order, i, d) \/ Reaches(d, order[i].id) \/ Lost(d) BY <2>1, <2>5, <4>1 DEF Ordered
      <4>3. Earlier(order, i, d) \/ Reaches(d, order[i].id) \/ Lost(d)' BY <3>1, <4>2
      <4> QED BY <4>1, <4>3 DEF Lost, Husk, Earlier
    <3> QED BY <2>1, <2>5, <3>3 DEF Ordered
  <2> QED BY <2>2, <2>3, <2>4, <2>5
<1>6. Guarded' BY <1>5 DEF Guarded
<1> QED BY <1>1, <1>2, <1>3, <1>4, <1>6 DEF DomainInv

LEMMA SingleIs ==
    ASSUME NEW ref \in Ref, NEW B, NEW D
    PROVE  LET t == <<NewFrame(ref)>>
           IN  /\ StackOK(t) /\ Chained(t) /\ StackRegistered(t, B) /\ Distinct(t) /\ StackAlone(t, D, B)
               /\ DOMAIN t = {1} /\ ~Live(t[1]) /\ t[1].deps = <<>>
<1> DEFINE f == NewFrame(ref)
           t == <<f>>
<1>1. f \in Frame /\ FrameOK(f) /\ ~Live(f) /\ f.at = "pin" /\ f.deps = <<>> BY NewFrameIs
<1> HIDE DEF f
<1>2. t \in Seq(Frame) /\ Len(t) = 1 /\ DOMAIN t = {1} /\ t[1] = f BY <1>1
<1> HIDE DEF t
<1>3. StackOK(t) BY <1>1, <1>2 DEF StackOK
<1>4. Chained(t) BY <1>2 DEF Chained
<1>5. StackRegistered(t, B) BY <1>1, <1>2, EmptyStack DEF StackRegistered
<1>6. Distinct(t) /\ StackAlone(t, D, B) BY <1>1, <1>2 DEF Distinct, StackAlone
<1> QED BY <1>1, <1>2, <1>3, <1>4, <1>5, <1>6 DEF t, f

LEMMA LoadKeeps ==
    ASSUME DomainInv, NEW c \in Callers, Load(c)
    PROVE  DomainInv'
<1> DEFINE ref == Head(todo[c])
           t == <<NewFrame(ref)>>
<1>1. /\ stack[c] = <<>> /\ todo[c] # <<>> /\ stack' = [stack EXCEPT ![c] = t]
      /\ todo' = [todo EXCEPT ![c] = Tail(@)]
      /\ UNCHANGED <<byIdentity, order, refcount, depsOf, heap, diagnostics, runs, threw, overlap>>
  BY DEF Load, registry
<1>2. todo \in [Callers -> Seq(Ref)] /\ DOMAIN stack = Callers /\ diagnostics \in [Callers -> SUBSET Ref]
  BY DEF DomainInv, Shape
<1>3. ref \in Ref /\ todo' \in [Callers -> Seq(Ref)] /\ (\A e \in Callers : e # c => todo'[e] = todo[e])
  <2>1. todo[c] \in Seq(Ref) BY <1>2
  <2>2. ref \in Ref /\ Tail(todo[c]) \in Seq(Ref) BY <1>1, <2>1
  <2> QED BY <1>1, <1>2, <2>2
<1>4. Only(c) /\ stack'[c] = t
  <2> HIDE DEF t
  <2> QED BY <1>1, <1>2, StackChange
<1>5. /\ StackOK(t) /\ Chained(t) /\ StackRegistered(t, byIdentity) /\ Distinct(t)
      /\ StackAlone(t, depsOf, byIdentity) /\ DOMAIN t = {1} /\ ~Live(t[1]) /\ t[1].deps = <<>>
  BY <1>3, SingleIs
<1> HIDE DEF t, ref
<1>6. c \in Busy BY <1>1 DEF Busy
<1>7. ASSUME NEW d \in Package PROVE Slots(depsOf, stack', d) = Slots(depsOf, stack, d)
  <2>1. ASSUME NEW e \in Callers, NEW k \in Nat, NEW i \in Nat
        PROVE  Awaits(stack'[e], k, i, d) <=> Awaits(stack[e], k, i, d)
    <3>1. CASE e = c BY <1>1, <1>4, <1>5, <3>1, EmptyStack DEF Awaits
    <3>2. CASE e # c BY <1>4, <3>2 DEF Only
    <3> QED BY <3>1, <3>2
  <2> QED BY <2>1, SlotsSame
<1>8. \A i \in DOMAIN stack'[c] : ~Live(stack'[c][i]) BY <1>4, <1>5
<1>9. diagnostics' \in [Callers -> SUBSET Ref] /\ threw' = threw BY <1>1, <1>2
<1>10. UNCHANGED <<byIdentity, order, refcount, depsOf, heap, runs, overlap>> BY <1>1
<1> QED BY <1>3, <1>4, <1>5, <1>6, <1>7, <1>8, <1>9, <1>10, LoadingKeeps

LEMMA SlotsThrown ==
    ASSUME NEW c \in Callers, Only(c), stack'[c] = <<>>, NEW d
    PROVE  Slots(depsOf, stack', d) \subseteq Slots(depsOf, stack, d)
<1>1. ASSUME NEW x \in Slots(depsOf, stack', d) PROVE x \in Slots(depsOf, stack, d)
  <2>1. CASE x[2] = 0 BY <2>1 DEF Slots
  <2>2. CASE x[2] # 0
    <3>1. x[1] \in Callers /\ Awaits(stack'[x[1]], x[2], x[3], d) BY <2>2 DEF Slots
    <3>2. x[1] # c BY <3>1, EmptyStack DEF Awaits
    <3> QED BY <2>2, <3>1, <3>2 DEF Slots, Only
  <2> QED BY <2>1, <2>2
<1> QED BY <1>1

LEMMA ThrowKeeps ==
    ASSUME DomainInv, NEW c \in Callers, stack[c] # <<>>, Throw(c, stack[c][1].ref),
           UNCHANGED <<registry, heap, todo, runs, overlap>>
    PROVE  DomainInv'
<1>1. Only(c) /\ stack'[c] = <<>> /\ threw' = TRUE /\ diagnostics' \in [Callers -> SUBSET Ref]
  BY ThrowIs DEF DomainInv
<1>2. UNCHANGED <<byIdentity, order, refcount, depsOf, heap, runs, overlap>> BY DEF registry
<1>3. todo' \in [Callers -> Seq(Ref)] /\ (\A e \in Callers : e # c => todo'[e] = todo[e]) BY DEF DomainInv, Shape
<1>4. c \in Busy BY DEF Busy
<1>5. /\ Chained(stack'[c]) /\ Distinct(stack'[c]) /\ StackRegistered(stack'[c], byIdentity)
      /\ StackAlone(stack'[c], depsOf, byIdentity) /\ StackOK(stack'[c]) /\ DOMAIN stack'[c] = {}
  BY <1>1, EmptyKeeps, EmptyStack
<1>6. \A d \in Package : Slots(depsOf, stack', d) \subseteq Slots(depsOf, stack, d) BY <1>1, SlotsThrown
<1> QED BY <1>1, <1>2, <1>3, <1>4, <1>5, <1>6, LoadingKeeps

LEMMA RejectKeeps ==
    ASSUME DomainInv, NEW c \in Callers, Reject(c)
    PROVE  DomainInv'
  BY ThrowKeeps DEF Reject, At

LEMMA PinKeeps ==
    ASSUME DomainInv, NEW c \in Callers, Pin(c)
    PROVE  DomainInv'
<1> DEFINE s == stack[c]
           n == Len(s)
           f == s[n]
           id == Pinned(f.ref)
<1>1. s # <<>> /\ StackOK(s) /\ Top(c) = f /\ f.at = "pin" BY TopIs DEF Pin, At, Top, DomainInv, Shape
<1>2. n \in DOMAIN s /\ f \in Frame /\ FrameOK(f) /\ n \in Nat /\ DOMAIN s = 1..n BY <1>1, TopIs
<1>3. f.deps = <<>> /\ ~Live(f) /\ f.ref \in Ref /\ id \in Package \cup {None}
  BY <1>1, <1>2, PinnedIn DEF FrameOK, Live, Frame
<1>4. \A i \in DOMAIN s : i # n => i < n /\ Live(s[i]) /\ s[i] \in Frame /\ FrameOK(s[i]) BY <1>1, TopIs
<1>5. UNCHANGED <<registry, heap, todo, runs, overlap>> BY DEF Pin
<1>6. \/ id = None /\ Throw(c, s[1].ref)
      \/ id # None /\ stack' = [stack EXCEPT ![c] = IF Existing(id) THEN Return(c, id)
                                  ELSE Append(Front(@), [f EXCEPT !.at = "resolve", !.got = id])]
         /\ UNCHANGED <<diagnostics, threw>>
  BY <1>1 DEF Pin
<1> HIDE DEF f, n, id
<1>7. CASE id = None /\ Throw(c, s[1].ref) BY <1>1, <1>5, <1>7, ThrowKeeps
<1>8. CASE id # None /\ UNCHANGED <<diagnostics, threw>> /\ DOMAIN stack = Callers
           /\ \E t : /\ stack' = [stack EXCEPT ![c] = t]
                     /\ \/ Existing(id) /\ t = Return(c, id)
                        \/ ~Existing(id) /\ t = Append(Front(s), [f EXCEPT !.at = "resolve", !.got = id])
  <2>1. PICK t : /\ stack' = [stack EXCEPT ![c] = t]
                 /\ \/ Existing(id) /\ t = Return(c, id)
                    \/ ~Existing(id) /\ t = Append(Front(s), [f EXCEPT !.at = "resolve", !.got = id])
    BY <1>8
  <2>2. Only(c) /\ stack'[c] = t BY <1>8, <2>1, StackChange
  <2>3. id \in Package BY <1>3, <1>8
  <2>4. UNCHANGED <<byIdentity, order, refcount, depsOf, heap, runs, overlap>> /\ todo' = todo
    BY <1>5 DEF registry
  <2>5. "unload" \notin overlap =>
           /\ StackRegistered(s, byIdentity) /\ Distinct(s)
           /\ "loads" \notin overlap => StackAlone(s, depsOf, byIdentity)
    BY DEF DomainInv, Guarded, Registered, Alone
  <2>6. Chained(s) BY DEF DomainInv
  <2>7. /\ StackOK(t) /\ Chained(t)
        /\ "unload" \notin overlap =>
              /\ StackRegistered(t, byIdentity) /\ Distinct(t)
              /\ "loads" \notin overlap => StackAlone(t, depsOf, byIdentity)
        /\ \A i \in DOMAIN t : Live(t[i]) => \E j \in DOMAIN s : Live(s[j]) /\ t[i].manifest = s[j].manifest
        /\ \A k, i \in Nat : \A d : Awaits(t, k, i, d) <=> Awaits(s, k, i, d)
    <3>1. CASE Existing(id) /\ t = Return(c, id)
      <4>1. Pops(s, t, id) /\ DOMAIN t = 1..(n - 1)
        <5>1. Shape BY DEF DomainInv
        <5>2. Pops(s, Return(c, id), id) /\ DOMAIN Return(c, id) = 1..(Len(s) - 1) BY <1>1, <2>3, <5>1, ReturnPops
        <5> QED BY <3>1, <5>2 DEF n
      <4>2. byIdentity[id] # None BY <3>1 DEF Existing
      <4>3. StackOK(t) /\ Chained(t) BY <2>6, <4>1, PopsKeeps DEF Pops
      <4>4. "unload" \notin overlap => StackRegistered(t, byIdentity) /\ Distinct(t)
        BY <2>5, <4>1, <4>2, PopsKeeps
      <4>5. ASSUME "unload" \notin overlap, "loads" \notin overlap PROVE StackAlone(t, depsOf, byIdentity)
        <5>1. \A i \in DOMAIN s : i < n => depsOf[s[i].manifest.id] = None /\ byIdentity[s[i].manifest.id] = s[i].manifest
          <6>1. ASSUME NEW i \in DOMAIN s, i < n PROVE Live(s[i])
            <7>1. i # n BY <1>2, <6>1
            <7> QED BY <1>4, <7>1
          <6> QED BY <2>5, <4>5, <6>1 DEF StackAlone
        <5> HIDE DEF s
        <5> QED BY <4>1, <5>1, PopsAlone DEF n
      <4>6. \A i \in DOMAIN t : i \in DOMAIN s /\ Live(s[i]) /\ t[i].manifest = s[i].manifest /\ t[i].deps = s[i].deps
        BY <4>1 DEF Pops
      <4>7. ASSUME NEW k \in Nat, NEW i \in Nat, NEW d PROVE Awaits(t, k, i, d) <=> Awaits(s, k, i, d)
        <5>1. CASE k = n BY <1>2, <1>3, <4>1, <5>1, EmptyStack DEF Awaits, f
        <5>2. CASE k # n
          <6>1. k \in DOMAIN t <=> k \in DOMAIN s BY <1>2, <4>1, <5>2
          <6> QED BY <4>6, <6>1 DEF Awaits
        <5> QED BY <5>1, <5>2
      <4> QED BY <4>3, <4>4, <4>5, <4>6, <4>7
    <3>2. CASE ~Existing(id) /\ t = Append(Front(s), [f EXCEPT !.at = "resolve", !.got = id])
      <4> DEFINE g == [f EXCEPT !.at = "resolve", !.got = id]
      <4>1. /\ g \in Frame /\ FrameOK(g) /\ ~Live(g) /\ g.at = "resolve" /\ g.deps = <<>>
            /\ g.got = id /\ g.ref = f.ref
        <5>1. id = Pinned(f.ref) BY DEF id
        <5> QED BY <1>2, <1>3, <2>3, <5>1, ResolvingIs
      <4> HIDE DEF g
      <4>2. StackOK(t) /\ DOMAIN t = DOMAIN s /\ t[n] = g /\ \A i \in DOMAIN s : i # n => t[i] = s[i]
        <5>1. t = Append(Front(s), g) BY <3>2 DEF g
        <5> QED BY <1>1, <4>1, <5>1, ReplaceIs DEF n
      <4>3. byIdentity[id] = None BY <3>2 DEF Existing
      <4>4. Chained(t)
        <5>1. \A i \in DOMAIN s : t[i].ref = s[i].ref BY <4>1, <4>2 DEF f
        <5> QED BY <2>6, <4>2, <5>1 DEF Chained
      <4>5. \A i \in DOMAIN t : Live(t[i]) => i # n /\ t[i] = s[i] /\ i \in DOMAIN s BY <4>1, <4>2
      <4>6. \A i \in DOMAIN t : t[i].at = "resolve" => i = n
        <5>1. \A i \in DOMAIN s : i # n => s[i].at # "resolve" BY <1>4 DEF Live
        <5> QED BY <4>2, <5>1
      <4>7. ASSUME "unload" \notin overlap
            PROVE  /\ StackRegistered(t, byIdentity) /\ Distinct(t)
                   /\ "loads" \notin overlap => StackAlone(t, depsOf, byIdentity)
        <5>1. StackRegistered(t, byIdentity)
          <6>1. ASSUME NEW i \in DOMAIN t
                PROVE  /\ Live(t[i]) => byIdentity[t[i].manifest.id] # None
                       /\ \A k \in DOMAIN t[i].deps : byIdentity[t[i].deps[k]] # None
                       /\ t[i].at = "returned" => byIdentity[t[i].got] # None
            <7>1. CASE i = n BY <4>1, <4>2, <7>1, EmptyStack
            <7>2. CASE i # n BY <2>5, <4>2, <4>7, <7>2 DEF StackRegistered
            <7> QED BY <7>1, <7>2
          <6> QED BY <6>1 DEF StackRegistered
        <5>2. Distinct(t)
          <6> SUFFICES ASSUME NEW i \in DOMAIN t, NEW j \in DOMAIN t, i # j, Live(t[i])
                       PROVE  /\ Live(t[j]) => t[i].manifest.id # t[j].manifest.id
                              /\ t[j].at = "resolve" => t[i].manifest.id # t[j].got
            BY DEF Distinct
          <6>1. i # n /\ t[i] = s[i] /\ i \in DOMAIN s /\ Live(s[i]) BY <4>5
          <6>2. byIdentity[t[i].manifest.id] # None BY <5>1 DEF StackRegistered
          <6>3. t[j].at = "resolve" => t[i].manifest.id # t[j].got BY <4>1, <4>2, <4>3, <4>6, <6>2
          <6>4. Live(t[j]) => t[i].manifest.id # t[j].manifest.id BY <2>5, <4>5, <4>7, <6>1 DEF Distinct
          <6> QED BY <6>3, <6>4
        <5>3. "loads" \notin overlap => StackAlone(t, depsOf, byIdentity)
          BY <2>5, <4>1, <4>2, <4>3, <4>5, <4>6, <4>7 DEF StackAlone
        <5> QED BY <5>1, <5>2, <5>3
      <4>8. ASSUME NEW k \in Nat, NEW i \in Nat, NEW d PROVE Awaits(t, k, i, d) <=> Awaits(s, k, i, d)
        <5>1. CASE k = n BY <1>2, <1>3, <4>1, <4>2, <5>1, EmptyStack DEF Awaits, f
        <5>2. CASE k # n BY <4>2, <5>2 DEF Awaits
        <5> QED BY <5>1, <5>2
      <4> QED BY <4>2, <4>4, <4>5, <4>7, <4>8
    <3> QED BY <2>1, <3>1, <3>2
  <2>8. ASSUME NEW d \in Package PROVE Slots(depsOf, stack', d) = Slots(depsOf, stack, d)
    <3>1. ASSUME NEW e \in Callers, NEW k \in Nat, NEW i \in Nat
          PROVE  Awaits(stack'[e], k, i, d) <=> Awaits(stack[e], k, i, d)
      <4>1. CASE e = c BY <2>2, <2>7, <4>1
      <4>2. CASE e # c BY <2>2, <4>2 DEF Only
      <4> QED BY <4>1, <4>2
    <3> QED BY <3>1, SlotsSame
  <2>9. diagnostics' \in [Callers -> SUBSET Ref] /\ threw' = threw /\ todo' \in [Callers -> Seq(Ref)]
    BY <1>8, <2>4 DEF DomainInv, Shape
  <2>10. c \in Busy BY <1>1 DEF Busy
  <2>11. \A e \in Callers : e # c => todo'[e] = todo[e] BY <2>4
  <2> QED BY <2>2, <2>4, <2>7, <2>8, <2>9, <2>10, <2>11, LoadingKeeps
<1>9. DOMAIN stack = Callers BY DEF DomainInv, Shape
<1> QED BY <1>6, <1>7, <1>8, <1>9

-----------------------------------------------------------------------------
(* The application's own nodes.                                              *)

LEMMA BindKeeps ==
    ASSUME DomainInv, NEW seed \in HostSeeds, BindGraph(seed)
    PROVE  DomainInv'
<1>1. /\ heap' = Bound(Bindable(seed.nodes, order), seed.boundTo)
      /\ UNCHANGED <<byIdentity, order, refcount, depsOf, stack, todo, diagnostics, runs, threw, overlap>>
  BY DEF BindGraph, registry
<1>2. seed.nodes \in Seq(Node) BY DomainAssumption
<1>3. HeapOK(heap) /\ \A n \in DOMAIN heap : Owned(order, heap[n].type)
  BY DEF DomainInv, Shape, HeapReflects
<1>4. HeapOK(heap')
  <2> DEFINE b == Bindable(seed.nodes, order)
  <2>1. b \in Seq(Node) BY <1>2, BindableIs
  <2> HIDE DEF b
  <2>2. heap' = Bound(b, seed.boundTo) BY <1>1 DEF b
  <2> QED BY <1>3, <2>1, <2>2, BoundIs
<1>5. \A n \in DOMAIN heap' : Owned(order, heap'[n].type) BY <1>1, <1>2, <1>3, BoundReflects
<1>6. Shape' BY <1>1, <1>4 DEF DomainInv, Shape
<1>7. HeapReflects' BY <1>1, <1>5 DEF HeapReflects
<1>8. Guarded'
  <2>1. Alone => Alone' BY <1>1 DEF Alone, Busy
  <2>2. Registered => Registered' BY <1>1 DEF Registered
  <2>3. Ordered => Ordered' BY <1>1 DEF Ordered, Lost, Husk
  <2> QED BY <1>1, <2>1, <2>2, <2>3 DEF DomainInv, Guarded
<1>9. Counts' BY <1>1 DEF DomainInv, Counts, Exact
<1>10. (\A e \in Callers : Chained(stack[e]))' BY <1>1 DEF DomainInv
<1> QED BY <1>6, <1>7, <1>8, <1>9, <1>10 DEF DomainInv

-----------------------------------------------------------------------------
(* Unloading.                                                               *)

(* Unloading p frees the places that p holds.                                *)
LEMMA UnloadCounts ==
    ASSUME Shape, Counts, NEW p \in Package, UNCHANGED <<stack, threw, overlap>>,
           refcount' = IF depsOf[p] = None THEN refcount ELSE Released(depsOf[p]),
           depsOf' = [depsOf EXCEPT ![p] = None]
    PROVE  Counts' /\ refcount' \in [Package -> Nat]
<1>1. depsOf \in [Package -> Seq(Package) \cup {None}] /\ refcount \in [Package -> Nat] BY DEF Shape
<1>2. depsOf'[p] = None /\ \A q \in Package : q # p => depsOf'[q] = depsOf[q] BY <1>1
<1>3. CASE depsOf[p] = None
  <2>1. depsOf' = depsOf BY <1>1, <1>3
  <2> QED BY <1>1, <1>3, <2>1 DEF Counts, Exact
<1>4. CASE depsOf[p] # None
  <2> DEFINE deps == depsOf[p]
             uses(d) == {i \in DOMAIN deps : deps[i] = d}
             S(d) == Slots(depsOf, stack, d)
             T(d) == Slots(depsOf', stack', d)
             mine(d) == {<<p, 0, i>> : i \in uses(d)}
  <2>1. deps \in Seq(Package) /\ DOMAIN deps = 1..Len(deps) /\ Len(deps) \in Nat BY <1>1, <1>4
  <2>2. \A d \in Package : refcount'[d] = IF refcount[d] < Cardinality(uses(d)) THEN 0
                                           ELSE refcount[d] - Cardinality(uses(d))
    BY <1>4 DEF Released
  <2>3. ASSUME NEW d \in Package
        PROVE  /\ IsFiniteSet(T(d)) /\ refcount'[d] \in Nat
               /\ Cardinality(T(d)) <= refcount'[d]
               /\ Exact => Cardinality(T(d)) = refcount'[d]
    <3> HIDE DEF deps
    <3>1. IsFiniteSet(uses(d)) /\ Cardinality(uses(d)) \in Nat
      <4>1. IsFiniteSet(DOMAIN deps) BY <2>1, SeqFinite
      <4>2. uses(d) \subseteq DOMAIN deps OBVIOUS
      <4> HIDE DEF uses
      <4> QED BY <4>1, <4>2, FS_Subset, FS_CardinalityType
    <3>2. IsFiniteSet(mine(d)) /\ Cardinality(mine(d)) = Cardinality(uses(d))
      <4> DEFINE U == uses(d)
                 V == mine(d)
                 g == [i \in U |-> <<p, 0, i>>]
      <4>1. g \in [U -> V] /\ (\A i \in U : g[i] = <<p, 0, i>>) /\ (\A v \in V : \E i \in U : v = <<p, 0, i>>) OBVIOUS
      <4>2. \A i, j : <<p, 0, i>> = <<p, 0, j>> => i = j OBVIOUS
      <4> HIDE DEF g, U, V
      <4>3. g \in Bijection(U, V) BY <4>1, <4>2 DEF Bijection, Injection, Surjection, IsInjective
      <4>4. ExistsBijection(U, V) BY <4>3 DEF ExistsBijection
      <4> QED BY <3>1, <4>4, FS_Bijection DEF U, V
    <3>3. mine(d) \subseteq S(d)
      <4> SUFFICES ASSUME NEW i \in uses(d) PROVE <<p, 0, i>> \in S(d) OBVIOUS
      <4>1. i \in DOMAIN deps /\ deps[i] = d /\ i \in Nat BY <2>1
      <4> DEFINE x == <<p, 0, i>>
      <4>2. x \in Slot /\ x[1] = p /\ x[2] = 0 /\ x[3] = i BY <4>1 DEF Slot
      <4> HIDE DEF x
      <4>3. Finalizes(depsOf, p, i, d) BY <1>4, <4>1 DEF Finalizes, deps
      <4>4. x \in S(d) BY <4>2, <4>3 DEF Slots
      <4> QED BY <4>4 DEF x
    <3>4. T(d) = S(d) \ mine(d)
      <4>1. ASSUME NEW x \in Slot PROVE x \in T(d) <=> x \in S(d) /\ x \notin mine(d)
        <5>1. x = <<x[1], x[2], x[3]>> BY SlotIs
        <5>2. CASE x[2] # 0
          <6>1. x \notin mine(d) BY <5>2
          <6> QED BY <5>2, <6>1 DEF Slots
        <5>3. CASE x[2] = 0 /\ x[1] # p
          <6>1. x \notin mine(d) BY <5>3
          <6>2. Finalizes(depsOf', x[1], x[3], d) <=> Finalizes(depsOf, x[1], x[3], d) BY <1>2, <5>3 DEF Finalizes
          <6> QED BY <5>3, <6>1, <6>2 DEF Slots
        <5>4. CASE x[2] = 0 /\ x[1] = p
          <6>1. x \notin T(d) BY <1>2, <5>4 DEF Slots, Finalizes
          <6>2. x \in S(d) => x[3] \in uses(d) BY <5>4 DEF Slots, Finalizes, deps
          <6>3. x[3] \in uses(d) => x \in mine(d) BY <5>1, <5>4
          <6> QED BY <6>1, <6>2, <6>3
        <5> QED BY <5>2, <5>3, <5>4
      <4>2. S(d) \subseteq Slot /\ T(d) \subseteq Slot BY DEF Slots
      <4> HIDE DEF S, T, mine
      <4> QED BY <4>1, <4>2
    <3>5. /\ IsFiniteSet(S(d)) /\ Cardinality(S(d)) <= refcount[d]
          /\ Exact => Cardinality(S(d)) = refcount[d]
      BY DEF Counts
    <3>6. S(d) \cap mine(d) = mine(d) BY <3>3
    <3> HIDE DEF S, T, mine, uses
    <3>7. IsFiniteSet(T(d)) /\ Cardinality(T(d)) = Cardinality(S(d)) - Cardinality(uses(d))
      <4>1. /\ IsFiniteSet(S(d) \ mine(d))
            /\ Cardinality(S(d) \ mine(d)) = Cardinality(S(d)) - Cardinality(S(d) \cap mine(d))
        BY <3>5, FS_Difference
      <4> QED BY <3>2, <3>4, <3>6, <4>1
    <3>8. Cardinality(T(d)) \in Nat /\ Cardinality(S(d)) \in Nat /\ refcount[d] \in Nat
      BY <1>1, <3>5, <3>7, FS_CardinalityType
    <3>9. refcount'[d] = IF refcount[d] < Cardinality(uses(d)) THEN 0 ELSE refcount[d] - Cardinality(uses(d))
      BY <2>2
    <3> QED BY <3>1, <3>5, <3>7, <3>8, <3>9
  <2>4. DOMAIN refcount' = Package /\ refcount' = [d \in Package |-> refcount'[d]] BY <1>4 DEF Released
  <2>5. refcount' \in [Package -> Nat] BY <2>3, <2>4
  <2>6. Exact' => Exact BY DEF Exact
  <2> QED BY <2>3, <2>5, <2>6 DEF Counts
<1> QED BY <1>3, <1>4

(* A counted package is imported by something, an uncounted one by nothing.   *)
LEMMA Unimported ==
    ASSUME Shape, Counts, NEW d \in Package, ~Imported(d), NEW p \in Package, depsOf[p] # None,
           NEW k \in DOMAIN depsOf[p]
    PROVE  depsOf[p][k] # d
<1> DEFINE S == Slots(depsOf, stack, d)
           x == <<p, 0, k>>
<1>1. IsFiniteSet(S) /\ Cardinality(S) = 0
  <2>1. IsFiniteSet(S) /\ Cardinality(S) <= refcount[d] BY DEF Counts
  <2>2. Cardinality(S) \in Nat /\ refcount[d] \in Nat BY <2>1, FS_CardinalityType DEF Shape
  <2>3. ~(refcount[d] > 0) BY DEF Imported
  <2> HIDE DEF S
  <2> QED BY <2>1, <2>2, <2>3
<1>2. S = {} BY <1>1, FS_EmptySet
<1>3. SUFFICES ASSUME depsOf[p][k] = d PROVE FALSE OBVIOUS
<1>4. k \in Nat BY DEF Shape
<1>5. x \in Slot /\ x[1] = p /\ x[2] = 0 /\ x[3] = k BY <1>4 DEF Slot
<1> HIDE DEF x
<1>6. Finalizes(depsOf, p, k, d) BY <1>3 DEF Finalizes
<1>7. x \in S BY <1>5, <1>6 DEF Slots
<1> QED BY <1>2, <1>7

LEMMA UnloadKeeps ==
    ASSUME DomainInv, NEW ref \in Ref, TryUnload(ref)
    PROVE  DomainInv'
<1> DEFINE p == GetManifest(ref).id
<1>1. Shape /\ Counts BY DEF DomainInv
<1>2. p \in Package /\ p # None BY <1>1, GetManifestIs, ManifestIs, DomainAssumption DEF TryUnload
<1>3. /\ ~Imported(p) /\ ~ForeignBound(p) /\ heap' = Evicted(p)
      /\ refcount' = IF depsOf[p] = None THEN refcount ELSE Released(depsOf[p])
      /\ depsOf' = [depsOf EXCEPT ![p] = None]
      /\ order' = IF byIdentity[p] = None THEN order ELSE Deregistered(p)
      /\ byIdentity' = [byIdentity EXCEPT ![p] = None]
      /\ UNCHANGED <<stack, todo, diagnostics, runs, threw, overlap>>
      /\ "unload" \in overlap \/ Busy = {}
  BY DEF TryUnload
<1> HIDE DEF p
<1>4. Counts' /\ refcount' \in [Package -> Nat] BY <1>1, <1>2, <1>3, UnloadCounts
<1>5. order \in Seq(Manifests) /\ DOMAIN order = 1..Len(order) /\ Len(order) \in Nat BY <1>1 DEF Shape
(* The order loses at most one entry, and one of p.                          *)
<1>6. \/ order' = order /\ (byIdentity[p] # None => \A i \in DOMAIN order : order[i] # byIdentity[p])
      \/ /\ byIdentity[p] # None
         /\ \E k \in DOMAIN order : order[k] = byIdentity[p] /\ order' = RemoveAt(order, k)
  <2> DEFINE gone == {i \in DOMAIN order : order[i] = byIdentity[p]}
  <2>1. CASE byIdentity[p] = None BY <1>3, <2>1
  <2>2. CASE byIdentity[p] # None /\ gone = {} BY <1>3, <2>2 DEF Deregistered
  <2>3. CASE byIdentity[p] # None /\ gone # {}
    <3>1. gone \in SUBSET Nat BY <1>5
    <3>2. Min(gone) \in gone
      <4> HIDE DEF gone
      <4> QED BY <2>3, <3>1, MinIs
    <3>3. order' = RemoveAt(order, Min(gone)) BY <1>3, <2>3 DEF Deregistered
    <3> QED BY <2>3, <3>2, <3>3
  <2> QED BY <2>1, <2>2, <2>3
<1>7. /\ order' \in Seq(Manifests)
      /\ \A i \in DOMAIN order' : \E j \in DOMAIN order : order'[i] = order[j]
      /\ \A j \in DOMAIN order : order[j].id # p => \E i \in DOMAIN order' : order'[i] = order[j]
  <2>1. CASE order' = order BY <1>5, <2>1
  <2>2. CASE byIdentity[p] # None /\ \E k \in DOMAIN order : order[k] = byIdentity[p] /\ order' = RemoveAt(order, k)
    <3>1. PICK k \in DOMAIN order : order[k] = byIdentity[p] /\ order' = RemoveAt(order, k) BY <2>2
    <3> DEFINE N == Len(order)
    <3>2. k \in 1..N /\ N \in Nat /\ DOMAIN order = 1..N BY <1>5
    <3>3. /\ order' \in Seq(Manifests) /\ DOMAIN order' = 1..(N - 1)
          /\ \A i \in DOMAIN order' : order'[i] = order[IF i < k THEN i ELSE i + 1]
      BY <1>5, <3>1, <3>2, RemoveAtIs
    <3> HIDE DEF N
    <3>4. ASSUME NEW i \in DOMAIN order' PROVE \E j \in DOMAIN order : order'[i] = order[j]
      <4>1. (IF i < k THEN i ELSE i + 1) \in 1..N BY <3>2, <3>3
      <4> QED BY <3>2, <3>3, <4>1
    <3>5. ASSUME NEW j \in DOMAIN order, order[j].id # p PROVE \E i \in DOMAIN order' : order'[i] = order[j]
      <4>1. byIdentity[p].id = p BY <1>1, <1>2, <2>2 DEF Shape
      <4>2. j # k BY <3>1, <3>5, <4>1
      <4>3. CASE j < k
        <5>1. j \in DOMAIN order' BY <3>2, <3>3, <4>3
        <5> QED BY <3>3, <4>3, <5>1
      <4>4. CASE j > k
        <5>1. j - 1 \in DOMAIN order' /\ ~(j - 1 < k) /\ (j - 1) + 1 = j BY <3>2, <3>3, <4>4
        <5> QED BY <3>3, <5>1
      <4> QED BY <3>2, <4>2, <4>3, <4>4
    <3> QED BY <3>3, <3>4, <3>5
  <2> QED BY <1>6, <2>1, <2>2
<1>8. DOMAIN heap' \subseteq DOMAIN heap /\ \A n \in DOMAIN heap' : heap'[n] = heap[n] /\ heap[n].origin # p
  BY <1>3 DEF Evicted, Restrict
<1>9. Shape'
  <2>1. HeapOK(heap') BY <1>1, <1>8 DEF Shape, HeapOK
  <2>2. byIdentity' \in [Package -> Manifests \cup {None}] /\ depsOf' \in [Package -> Seq(Package) \cup {None}]
    BY <1>1, <1>2, <1>3 DEF Shape
  <2>3. \A q \in Package : byIdentity'[q] # None => byIdentity'[q].id = q BY <1>1, <1>2, <1>3 DEF Shape
  <2> QED BY <1>1, <1>3, <1>4, <1>7, <2>1, <2>2, <2>3 DEF Shape
<1>10. HeapReflects'
  <2>1. ASSUME NEW n \in DOMAIN heap' PROVE Owned(order', heap'[n].type)
    <3>1. n \in DOMAIN heap /\ heap'[n] = heap[n] /\ heap[n].type \notin Defines[p]
      BY <1>3, <1>8 DEF ForeignBound, Binds
    <3>2. PICK j \in DOMAIN order : heap[n].type \in Defines[order[j].id] BY <3>1 DEF DomainInv, HeapReflects, Owned
    <3>3. order[j].id # p BY <3>1, <3>2
    <3> QED BY <1>7, <3>1, <3>2, <3>3 DEF Owned
  <2> QED BY <2>1 DEF HeapReflects
<1>11. ASSUME "unload" \notin overlap
       PROVE  /\ Registered' /\ \A e \in Callers : Distinct(stack'[e])
              /\ "loads" \notin overlap => Alone' /\ Ordered'
  <2>1. Registered /\ ("loads" \notin overlap => Alone /\ Ordered) BY <1>11 DEF DomainInv, Guarded
  <2>2. Busy = {} /\ \A e \in Callers : stack'[e] = <<>> BY <1>3, <1>11 DEF Busy
  <2>3. \A q \in Package : q # p => byIdentity'[q] = byIdentity[q] /\ depsOf'[q] = depsOf[q]
    BY <1>1, <1>2, <1>3 DEF Shape
  <2>4. depsOf'[p] = None /\ byIdentity'[p] = None BY <1>1, <1>2, <1>3 DEF Shape
  <2>5. \A q \in Package : depsOf[q] # None => \A k \in DOMAIN depsOf[q] : depsOf[q][k] # p
    BY <1>1, <1>2, <1>3, Unimported
  <2>6. Registered'
    <3>1. ASSUME NEW q \in Package, depsOf'[q] # None
          PROVE  byIdentity'[q] # None /\ \A k \in DOMAIN depsOf'[q] : byIdentity'[depsOf'[q][k]] # None
      <4>1. q # p /\ depsOf'[q] = depsOf[q] BY <2>3, <2>4, <3>1
      <4>2. depsOf[q] \in Seq(Package) BY <1>1, <3>1, <4>1 DEF Shape
      <4>3. \A k \in DOMAIN depsOf[q] : depsOf[q][k] \in Package BY <4>2
      <4> QED BY <2>1, <2>3, <2>5, <3>1, <4>1, <4>3 DEF Registered
    <3>2. \A e \in Callers : StackRegistered(stack'[e], byIdentity') BY <2>2, EmptyKeeps
    <3> QED BY <3>1, <3>2 DEF Registered
  <2>7. \A e \in Callers : Distinct(stack'[e]) BY <2>2, EmptyKeeps
  <2>8. Alone'
    <3>1. Busy' = {} BY <1>3, <2>2 DEF Busy
    <3>2. \A e \in Callers : StackAlone(stack'[e], depsOf', byIdentity') BY <2>2, EmptyKeeps
    <3> QED BY <3>1, <3>2 DEF Alone
  <2>9. ASSUME "loads" \notin overlap PROVE Ordered'
    <3> DEFINE N == Len(order)
               shift(k, i) == IF i < k THEN i ELSE i + 1
    <3>0. Ordered BY <2>1, <2>9
    <3>1. \A i \in DOMAIN order : order[i].id = p => byIdentity[p] = order[i] BY <3>0 DEF Ordered
    (* A strictly increasing renumbering of what stays.                     *)
    <3>2. \E at \in [DOMAIN order' -> DOMAIN order] :
              /\ \A i \in DOMAIN order' : order'[i] = order[at[i]] /\ order'[i].id # p
              /\ \A i, j \in DOMAIN order' : i < j <=> at[i] < at[j]
              /\ \A j \in DOMAIN order : order[j].id # p => \E i \in DOMAIN order' : at[i] = j
      <4>1. CASE order' = order /\ (byIdentity[p] # None => \A i \in DOMAIN order : order[i] # byIdentity[p])
        <5> DEFINE at == [i \in DOMAIN order |-> i]
        <5>1. \A i \in DOMAIN order : order[i].id # p
          <6>1. ASSUME NEW i \in DOMAIN order, order[i].id = p PROVE FALSE
            <7>1. byIdentity[p] = order[i] /\ order[i] \in Manifests BY <1>5, <3>1, <6>1
            <7> QED BY <4>1, <7>1, ManifestIs
          <6> QED BY <6>1
        <5>2. at \in [DOMAIN order' -> DOMAIN order] BY <4>1
        <5>3. \A i \in DOMAIN order' : at[i] = i BY <4>1
        <5> HIDE DEF at
        <5> QED BY <4>1, <5>1, <5>2, <5>3
      <4>2. CASE byIdentity[p] # None /\ \E k \in DOMAIN order : order[k] = byIdentity[p] /\ order' = RemoveAt(order, k)
        <5>1. PICK k \in DOMAIN order : order[k] = byIdentity[p] /\ order' = RemoveAt(order, k) BY <4>2
        <5>2. k \in 1..N /\ N \in Nat /\ DOMAIN order = 1..N BY <1>5
        <5>3. DOMAIN order' = 1..(N - 1) /\ \A i \in DOMAIN order' : order'[i] = order[shift(k, i)]
          BY <1>5, <5>1, <5>2, RemoveAtIs
        <5> HIDE DEF N
        <5> DEFINE at == [i \in DOMAIN order' |-> shift(k, i)]
        <5>4. \A i \in DOMAIN order' : shift(k, i) \in DOMAIN order /\ shift(k, i) # k BY <5>2, <5>3
        <5>5. order[k].id = p BY <1>1, <1>2, <4>2, <5>1 DEF Shape
        <5>6. \A j \in DOMAIN order : j # k => order[j].id # p BY <3>0, <5>5 DEF Ordered
        <5>7. \A i \in DOMAIN order' : order'[i] = order[shift(k, i)] /\ order'[i].id # p BY <5>3, <5>4, <5>6
        <5>8. \A i, j \in DOMAIN order' : i < j <=> shift(k, i) < shift(k, j) BY <5>2, <5>3
        <5>9. ASSUME NEW j \in DOMAIN order, order[j].id # p PROVE \E i \in DOMAIN order' : shift(k, i) = j
          <6>1. j # k /\ j \in 1..N BY <5>2, <5>5, <5>9
          <6>2. CASE j < k
            <7>1. j \in DOMAIN order' /\ shift(k, j) = j BY <5>2, <5>3, <6>1, <6>2
            <7> QED BY <7>1
          <6>3. CASE ~(j < k)
            <7>1. j - 1 \in DOMAIN order' /\ shift(k, j - 1) = j BY <5>2, <5>3, <6>1, <6>3
            <7> QED BY <7>1
          <6> QED BY <6>2, <6>3
        <5>10. at \in [DOMAIN order' -> DOMAIN order] /\ \A i \in DOMAIN order' : at[i] = shift(k, i) BY <5>4
        <5> HIDE DEF at, shift
        <5> QED BY <5>7, <5>8, <5>9, <5>10
      <4> QED BY <1>6, <4>1, <4>2
    <3>3. PICK at \in [DOMAIN order' -> DOMAIN order] :
              /\ \A i \in DOMAIN order' : order'[i] = order[at[i]] /\ order'[i].id # p
              /\ \A i, j \in DOMAIN order' : i < j <=> at[i] < at[j]
              /\ \A j \in DOMAIN order : order[j].id # p => \E i \in DOMAIN order' : at[i] = j
      BY <3>2
    <3>4. \A i \in DOMAIN order' : at[i] \in DOMAIN order /\ order'[i].id \in Package /\ i \in Nat /\ at[i] \in Nat
      <4>1. \A i \in DOMAIN order' : at[i] \in DOMAIN order BY <3>3
      <4>2. \A i \in DOMAIN order' : order'[i] \in Manifests /\ i \in Nat BY <1>7
      <4> QED BY <1>5, <4>1, <4>2, ManifestIs
    <3>5. \A i \in DOMAIN order' : byIdentity'[order'[i].id] = order'[i] /\ depsOf'[order'[i].id] = depsOf[order'[i].id]
                                   /\ depsOf[order'[i].id] # None
      BY <2>3, <3>0, <3>3, <3>4 DEF Ordered
    <3>6. ASSUME NEW i \in DOMAIN order', NEW j \in DOMAIN order', order'[i].id = order'[j].id PROVE i = j
      <4>1. at[i] = at[j] BY <3>0, <3>3, <3>4, <3>6 DEF Ordered
      <4>2. ~(i < j) /\ ~(j < i) BY <3>3, <3>4, <4>1
      <4> QED BY <3>4, <4>2
    <3>7. ASSUME NEW i \in DOMAIN order', NEW k \in DOMAIN depsOf'[order'[i].id]
          PROVE  LET d == depsOf[order[i].id][k]
                 IN  (Earlier(order, i, d) \/ Reaches(d, order[i].id) \/ Lost(d))'
      <4>1. PICK d \in Package : d = depsOf[order[at[i]].id][k] /\ k \in DOMAIN depsOf[order[at[i]].id]
        <5>1. depsOf'[order'[i].id] = depsOf[order[at[i]].id] BY <3>3, <3>5
        <5>2. depsOf[order[at[i]].id] \in Seq(Package) BY <1>1, <3>3, <3>4, <3>5 DEF Shape
        <5> QED BY <3>7, <5>1, <5>2
      <4>2. d = depsOf'[order'[i].id][k] /\ d # p BY <2>5, <3>3, <3>4, <3>5, <4>1
      <4>3. Earlier(order, at[i], d) \/ Reaches(d, order[at[i]].id) \/ Lost(d) BY <3>0, <3>4, <4>1 DEF Ordered
      <4>4. Earlier(order, at[i], d) => Earlier(order', i, d)
        <5>1. SUFFICES ASSUME NEW j \in DOMAIN order, j < at[i], order[j].id = d PROVE Earlier(order', i, d)
          BY DEF Earlier
        <5>2. PICK h \in DOMAIN order' : at[h] = j BY <3>3, <4>2, <5>1
        <5>3. h < i /\ order'[h].id = d BY <3>3, <5>1, <5>2
        <5> QED BY <5>3 DEF Earlier
      <4>5. Lost(d) => Lost(d)'
        <5>1. ASSUME Husk(d) PROVE Husk(d)'
          <6>1. byIdentity'[d] = byIdentity[d] /\ byIdentity[d] # None /\ byIdentity[d] \notin Range(order)
            BY <2>3, <4>2, <5>1 DEF Husk
          <6>2. Range(order') \subseteq Range(order) BY <1>7 DEF Range
          <6> QED BY <6>1, <6>2 DEF Husk
        <5>2. \A e \in Callers : DOMAIN stack'[e] = {} BY <2>2, EmptyStack
        <5> QED BY <5>1, <5>2 DEF Lost
      <4>6. Earlier(order', i, d) \/ Reaches(d, order'[i].id) \/ Lost(d)' BY <3>3, <4>3, <4>4, <4>5
      <4> QED BY <4>2, <4>6 DEF Lost, Husk, Earlier
    <3> QED BY <3>5, <3>6, <3>7 DEF Ordered
  <2> QED BY <2>6, <2>7, <2>8, <2>9
<1>12. Guarded' BY <1>3, <1>11 DEF Guarded
<1>13. (\A e \in Callers : Chained(stack[e]))' BY <1>3 DEF DomainInv
<1> QED BY <1>4, <1>9, <1>10, <1>12, <1>13 DEF DomainInv

-----------------------------------------------------------------------------
(* Every behaviour.                                                          *)

LEMMA DomainStarts == ASSUME Init PROVE DomainInv
<1>1. /\ byIdentity = [p \in Package |-> None] /\ order = <<>> /\ refcount = [p \in Package |-> 0]
      /\ depsOf = [p \in Package |-> None] /\ heap = <<>> /\ stack = [c \in Callers |-> <<>>]
      /\ todo = [c \in Callers |-> <<>>] /\ diagnostics = [c \in Callers |-> {}] /\ overlap \in Overlaps
  BY DEF Init
<1>2. DOMAIN order = {} /\ DOMAIN heap = {} BY <1>1, EmptyStack
<1>3. Shape
  <2>1. HeapOK(heap) BY <1>2 DEF HeapOK
  <2>2. order \in Seq(Manifests) /\ \A e \in Callers : StackOK(stack[e]) BY <1>1, EmptyStack
  <2>3. todo \in [Callers -> Seq(Ref)] BY <1>1
  <2> QED BY <1>1, <2>1, <2>2, <2>3 DEF Shape
<1>4. \A e \in Callers : stack[e] = <<>> /\ todo[e] = <<>> BY <1>1
<1>5. Guarded
  <2>1. Registered BY <1>1, <1>4, EmptyKeeps DEF Registered
  <2>2. \A e \in Callers : Distinct(stack[e]) BY <1>4, EmptyKeeps
  <2>3. Alone BY <1>4, EmptyKeeps DEF Alone, Busy
  <2>4. Ordered BY <1>2 DEF Ordered
  <2> QED BY <2>1, <2>2, <2>3, <2>4 DEF Guarded
<1>6. Counts
  <2>1. ASSUME NEW d \in Package PROVE Slots(depsOf, stack, d) = {}
    <3>1. ASSUME NEW x \in Slots(depsOf, stack, d) PROVE FALSE
      <4>1. x[2] # 0 BY <1>1 DEF Slots, Finalizes
      <4>2. x[1] \in Callers /\ x[2] \in DOMAIN stack[x[1]] BY <4>1 DEF Slots, Awaits
      <4> QED BY <1>4, <4>2, EmptyStack
    <3> QED BY <3>1
  <2>2. \A d \in Package : refcount[d] = 0 BY <1>1
  <2>3. IsFiniteSet({}) /\ Cardinality({}) = 0 BY FS_EmptySet
  <2> QED BY <2>1, <2>2, <2>3 DEF Counts
<1>7. HeapReflects /\ \A e \in Callers : Chained(stack[e]) BY <1>2, <1>4, EmptyKeeps DEF HeapReflects
<1> QED BY <1>3, <1>5, <1>6, <1>7 DEF DomainInv

LEMMA DomainStutters == ASSUME DomainInv, UNCHANGED vars PROVE DomainInv'
<1>1. UNCHANGED <<byIdentity, order, refcount, depsOf, heap, stack, todo, diagnostics, threw, overlap>>
  BY DEF vars, registry
<1>2. Shape' BY <1>1 DEF DomainInv, Shape
<1>3. Guarded'
  <2>1. Alone => Alone' BY <1>1 DEF Alone, Busy
  <2>2. Registered => Registered' BY <1>1 DEF Registered
  <2>3. Ordered => Ordered' BY <1>1 DEF Ordered, Lost, Husk
  <2> QED BY <1>1, <2>1, <2>2, <2>3 DEF DomainInv, Guarded
<1>4. Counts' BY <1>1 DEF DomainInv, Counts, Exact
<1>5. HeapReflects' /\ (\A e \in Callers : Chained(stack[e]))' BY <1>1 DEF DomainInv, HeapReflects
<1> QED BY <1>2, <1>3, <1>4, <1>5 DEF DomainInv

LEMMA DomainSteps == ASSUME DomainInv, [Next]_vars PROVE DomainInv'
<1>1. ASSUME NEW c \in Callers, NEW members \in Composes, Compose(c, members) PROVE DomainInv' BY <1>1, ComposeKeeps
<1>2. ASSUME NEW c \in Callers, Load(c) PROVE DomainInv' BY <1>2, LoadKeeps
<1>3. ASSUME NEW c \in Callers, Pin(c) PROVE DomainInv' BY <1>3, PinKeeps
<1>4. ASSUME NEW c \in Callers, Reject(c) PROVE DomainInv' BY <1>4, RejectKeeps
<1>5. ASSUME NEW c \in Callers, Resolve(c) PROVE DomainInv' BY <1>5, ResolveKeeps
<1>6. ASSUME NEW c \in Callers, Resume(c) PROVE DomainInv' BY <1>6, ResumeKeeps
<1>7. ASSUME NEW ref \in Ref, TryUnload(ref) PROVE DomainInv' BY <1>7, UnloadKeeps
<1>8. ASSUME NEW seed \in HostSeeds, BindGraph(seed) PROVE DomainInv' BY <1>8, BindKeeps
<1>9. ASSUME UNCHANGED vars PROVE DomainInv' BY <1>9, DomainStutters
<1> QED BY <1>1, <1>2, <1>3, <1>4, <1>5, <1>6, <1>7, <1>8, <1>9 DEF Next

(* What the invariant says of each property.                                 *)
LEMMA TypesFollow == ASSUME DomainInv PROVE TypeOK
<1>1. Shape BY DEF DomainInv
<1>2. ASSUME NEW p \in Package, depsOf[p] # None PROVE Range(depsOf[p]) \subseteq Package
  <2>1. depsOf[p] \in Seq(Package) BY <1>1, <1>2 DEF Shape
  <2> QED BY <2>1 DEF Range
<1>3. ASSUME NEW c \in Callers, NEW i \in DOMAIN stack[c]
      PROVE  /\ stack[c][i].at \in {"pin", "resolve", "deps", "returned"}
             /\ i < Len(stack[c]) => stack[c][i].at = "deps"
  <2>1. StackOK(stack[c]) BY <1>1 DEF Shape
  <2>2. stack[c][i] \in Frame BY <2>1 DEF StackOK
  <2> QED BY <2>1, <2>2 DEF StackOK, Frame
<1>4. \A i \in DOMAIN order : order[i] \in Manifests BY <1>1 DEF Shape
<1>5. \A c \in Callers : diagnostics[c] \subseteq Ref BY <1>1 DEF Shape
<1> QED BY <1>1, <1>2, <1>3, <1>4, <1>5 DEF Shape, TypeOK, HeapOK

LEMMA OrderFollows == ASSUME DomainInv, "unload" \notin overlap PROVE DepsFirst
<1> SUFFICES ASSUME "loads" \notin overlap, NEW i \in DOMAIN order, NEW d \in Range(depsOf[order[i].id])
             PROVE  \/ \E j \in 1 .. i - 1 : order[j].id = d
                    \/ Reaches(d, order[i].id)
                    \/ Husk(d)
  BY DEF DepsFirst
<1>1. Ordered BY DEF DomainInv, Guarded
<1>2. PICK k \in DOMAIN depsOf[order[i].id] : d = depsOf[order[i].id][k] BY DEF Range
<1>3. Earlier(order, i, d) \/ Reaches(d, order[i].id) \/ Lost(d) BY <1>1, <1>2 DEF Ordered
<1>4. ASSUME Earlier(order, i, d) PROVE \E j \in 1 .. i - 1 : order[j].id = d
  <2>1. PICK j \in DOMAIN order : j < i /\ order[j].id = d BY <1>4 DEF Earlier
  <2>2. DOMAIN order = 1..Len(order) /\ Len(order) \in Nat BY DEF DomainInv, Shape
  <2>3. j \in 1 .. i - 1 BY <2>1, <2>2
  <2> QED BY <2>1, <2>3
<1> QED BY <1>3, <1>4 DEF Lost

LEMMA KeptFollows == ASSUME DomainInv, "unload" \notin overlap PROVE DependentsKept
  BY DEF DomainInv, Guarded, Registered, DependentsKept, Range

LEMMA CycleFollows == ASSUME DomainInv, "unload" \notin overlap PROVE CycleGuarded
  BY DEF DomainInv, Guarded, Distinct, Live, CycleGuarded

(* While nothing loads, the places are the imports.                          *)
LEMMA ImportsAre ==
    ASSUME Shape, Loading = {}, NEW d \in Package, IsFiniteSet(Slots(depsOf, stack, d))
    PROVE  IsFiniteSet(Imports(d)) /\ Cardinality(Imports(d)) = Cardinality(Slots(depsOf, stack, d))
<1> DEFINE S == Slots(depsOf, stack, d)
           I == Imports(d)
           g == [x \in S |-> <<x[1], x[3]>>]
<1>1. \A e \in Callers : stack[e] = <<>> BY DEF Loading
<1>2. ASSUME NEW x \in S
      PROVE  x = <<x[1], 0, x[3]>> /\ x[1] \in Package /\ depsOf[x[1]] # None
             /\ x[3] \in DOMAIN depsOf[x[1]] /\ depsOf[x[1]][x[3]] = d
  <2>1. x \in Slot /\ x = <<x[1], x[2], x[3]>> BY SlotIs DEF Slots
  <2>2. x[2] = 0
    <3>1. ASSUME x[2] # 0 PROVE FALSE
      <4>1. x[1] \in Callers /\ x[2] \in DOMAIN stack[x[1]] BY <3>1 DEF Slots, Awaits
      <4> QED BY <1>1, <4>1, EmptyStack
    <3> QED BY <3>1
  <2> QED BY <2>1, <2>2 DEF Slots, Finalizes
<1>3. ASSUME NEW x \in S PROVE <<x[1], x[3]>> \in I BY <1>2 DEF Imports
<1>4. ASSUME NEW y \in I PROVE \E x \in S : <<x[1], x[3]>> = y
  <2>1. PICK p \in Package : \E i \in DOMAIN depsOf[p] : depsOf[p] # None /\ depsOf[p][i] = d /\ y = <<p, i>>
    BY DEF Imports
  <2>2. PICK i \in DOMAIN depsOf[p] : depsOf[p] # None /\ depsOf[p][i] = d /\ y = <<p, i>> BY <2>1
  <2>3. i \in Nat BY <2>2 DEF Shape
  <2> DEFINE x == <<p, 0, i>>
  <2>4. x \in Slot /\ x[1] = p /\ x[2] = 0 /\ x[3] = i BY <2>3 DEF Slot
  <2> HIDE DEF x
  <2>5. x \in S BY <2>2, <2>4 DEF Slots, Finalizes
  <2> QED BY <2>2, <2>4, <2>5
<1>5. g \in Bijection(S, I)
  <2>1. g \in [S -> I] /\ \A x \in S : g[x] = <<x[1], x[3]>> BY <1>3
  <2>2. ASSUME NEW x \in S, NEW y \in S, <<x[1], x[3]>> = <<y[1], y[3]>> PROVE x = y
    <3>1. x[1] = y[1] /\ x[3] = y[3] BY <2>2
    <3> QED BY <1>2, <3>1
  <2> HIDE DEF g, S, I
  <2> QED BY <1>4, <2>1, <2>2 DEF Bijection, Injection, Surjection, IsInjective
<1> HIDE DEF g, S, I
<1>6. ExistsBijection(S, I) BY <1>5 DEF ExistsBijection
<1> QED BY <1>6, FS_Bijection DEF S, I

LEMMA CountsFollow == ASSUME DomainInv, "unload" \notin overlap PROVE RefcountsHonest
<1> SUFFICES ASSUME Loading = {}, NEW d \in Package
             PROVE  /\ refcount[d] >= Cardinality(Imports(d))
                    /\ ~threw /\ "loads" \notin overlap => refcount[d] = Cardinality(Imports(d))
  BY DEF RefcountsHonest
<1> DEFINE S == Slots(depsOf, stack, d)
<1>1. IsFiniteSet(S) /\ Cardinality(S) <= refcount[d] /\ (Exact => Cardinality(S) = refcount[d])
  BY DEF DomainInv, Counts
<1>2. Cardinality(Imports(d)) = Cardinality(S) BY <1>1, ImportsAre DEF DomainInv
<1>3. Cardinality(S) \in Nat /\ refcount[d] \in Nat BY <1>1, FS_CardinalityType DEF DomainInv, Shape
<1> HIDE DEF S
<1> QED BY <1>1, <1>2, <1>3 DEF Exact

everything == <<subject, vars, resolverVars, buildVars, serviceVars, archive>>
Composed == subject = "domain" => DomainInv

LEMMA DomainAlways == PackagesSpec => []Composed
<1>1. PackagesInit => Composed BY DomainStarts DEF PackagesInit, Composed
<1>2. Composed /\ [PackagesNext]_everything => Composed'
  <2> SUFFICES ASSUME Composed, [PackagesNext]_everything, subject' = "domain" PROVE DomainInv'
    BY DEF Composed
  <2>1. subject = "domain" /\ [Next]_vars
    BY DEF PackagesNext, Composing, Resolving, Producing, Serving, everything
  <2> QED BY <2>1, DomainSteps DEF Composed
<1>3. PackagesSpec => PackagesInit /\ [][PackagesNext]_everything BY DEF PackagesSpec, everything
<1> QED BY <1>1, <1>2, <1>3, PTL

(* Every part of the registry, the heap and the loads under way keeps its     *)
(* type, every node in the heap is of a type that a finalized manifest        *)
(* defines, and while nothing loads a count is never less than the imports    *)
(* it counts: whatever loads and unloads overlap, for any packages, seeds,    *)
(* callers and bounds (graph.ts, domain.ts).                                *)
THEOREM DomainHolds ==
    PackagesSpec => [](subject = "domain" =>
        /\ TypeOK /\ HeapReflects
        /\ Loading = {} => \A d \in Package : refcount[d] >= Cardinality(Imports(d)))
<1> DEFINE Held == subject = "domain" =>
               /\ TypeOK /\ HeapReflects
               /\ Loading = {} => \A d \in Package : refcount[d] >= Cardinality(Imports(d))
<1>1. Composed => Held
  <2> SUFFICES ASSUME DomainInv, Loading = {}, NEW d \in Package PROVE refcount[d] >= Cardinality(Imports(d))
    BY TypesFollow DEF Composed, DomainInv
  <2> DEFINE S == Slots(depsOf, stack, d)
  <2>1. IsFiniteSet(S) /\ Cardinality(S) <= refcount[d] BY DEF DomainInv, Counts
  <2>2. Cardinality(Imports(d)) = Cardinality(S) BY <2>1, ImportsAre DEF DomainInv
  <2>3. Cardinality(S) \in Nat /\ refcount[d] \in Nat BY <2>1, FS_CardinalityType DEF DomainInv, Shape
  <2> HIDE DEF S
  <2> QED BY <2>1, <2>2, <2>3
<1>2. PackagesSpec => []Held BY <1>1, DomainAlways, PTL
<1> QED BY <1>2

(* When no unload lands inside a load: manifests are finalized dependencies   *)
(* first, stay registered while a loaded one imports them, are counted        *)
(* exactly unless a load threw or loads overlapped, cover the types of the    *)
(* heap, and one recursion never resolves a package twice, for any packages,  *)
(* dependencies, seeds, callers and bounds.                                 *)
THEOREM DomainIsSound ==
    ASSUME \A o \in Overlaps : "unload" \notin o
    PROVE  PackagesSpec => []DomainSound
<1>1. Composed => DomainSound
  <2> SUFFICES ASSUME DomainInv
               PROVE  DepsFirst /\ DependentsKept /\ RefcountsHonest /\ HeapReflects /\ CycleGuarded
    BY DEF Composed, DomainSound
  <2>1. "unload" \notin overlap BY DEF DomainInv, Shape
  <2>2. DepsFirst /\ DependentsKept /\ CycleGuarded BY <2>1, OrderFollows, KeptFollows, CycleFollows
  <2>3. RefcountsHonest /\ HeapReflects BY <2>1, CountsFollow DEF DomainInv
  <2> QED BY <2>2, <2>3
<1> QED BY <1>1, DomainAlways, PTL

(***************************************************************************)
(* The registries among the parts: the service's own theorems, with its      *)
(* constants as they are given here.                                       *)
(***************************************************************************)

Reg == INSTANCE PublishingProofs
            WITH Order <- <<"dir", "web">>, Backend <- BackendOf,
                 Tokens <- {"typed", "retyped"}, EnvToken <- "env",
                 Packages <- Publishable, LexRank <- StringOrder,
                 RootSets <- {{"core"}, {"app"}, {"lib", "app", "left-pad"}},
                 Overlaps <- {}, MaxEdits <- MaxChanges,
                 Solutions <- Requests, Actions <- Pipeline, order <- plan

LEMMA SameStart == Service!RegistriesInit <=> Reg!RegistriesInit
  BY DEF Service!RegistriesInit, Reg!RegistriesInit, Service!Listed, Reg!Listed, Service!ToSet, Reg!ToSet

LEMMA SameChanges ==
    ASSUME NEW id, NEW source, NEW token
    PROVE  /\ Service!AddConnection(id, source, token) <=> Reg!AddConnection(id, source, token)
           /\ Service!UpdateConnection(id, source) <=> Reg!UpdateConnection(id, source)
           /\ Service!SetToken(id, token) <=> Reg!SetToken(id, token)
           /\ Service!UseEnvToken(id) <=> Reg!UseEnvToken(id)
           /\ Service!RemoveConnection(id) <=> Reg!RemoveConnection(id)
           /\ Service!SetDefault(id) <=> Reg!SetDefault(id)
<1> USE DEF Service!NextRev, Reg!NextRev, Service!Start, Reg!Start, Service!Edit, Reg!Edit,
            Service!Free, Reg!Free, Service!shelfVars, Reg!shelfVars
<1>1. Service!AddConnection(id, source, token) <=> Reg!AddConnection(id, source, token)
  BY DEF Service!AddConnection, Reg!AddConnection
<1>2. Service!UpdateConnection(id, source) <=> Reg!UpdateConnection(id, source)
  BY DEF Service!UpdateConnection, Reg!UpdateConnection
<1>3. Service!SetToken(id, token) <=> Reg!SetToken(id, token)
  BY DEF Service!SetToken, Reg!SetToken
<1>4. Service!UseEnvToken(id) <=> Reg!UseEnvToken(id)
  BY DEF Service!UseEnvToken, Reg!UseEnvToken
<1>5. Service!RemoveConnection(id) <=> Reg!RemoveConnection(id)
  BY DEF Service!RemoveConnection, Reg!RemoveConnection
<1>6. Service!SetDefault(id) <=> Reg!SetDefault(id)
  BY DEF Service!SetDefault, Reg!SetDefault
<1> QED BY <1>1, <1>2, <1>3, <1>4, <1>5, <1>6

LEMMA SameSteps ==
    ASSUME NEW e
    PROVE  /\ Service!StepEdit(e) <=> Reg!StepEdit(e)
           /\ Service!EditFails(e) <=> Reg!EditFails(e)
           /\ Service!RegistryFor(e) <=> Reg!RegistryFor(e)
           /\ Service!ReadSpec(e) <=> Reg!ReadSpec(e)
           /\ Service!CacheClient(e) <=> Reg!CacheClient(e)
<1> USE DEF Service!Having, Reg!Having, Service!Without, Reg!Without, Service!shelfVars, Reg!shelfVars
<1>1. Service!StepEdit(e) <=> Reg!StepEdit(e)
  BY DEF Service!StepEdit, Reg!StepEdit, Service!Advance, Reg!Advance
<1>2. Service!EditFails(e) <=> Reg!EditFails(e)
  BY DEF Service!EditFails, Reg!EditFails
<1>3. Service!RegistryFor(e) <=> Reg!RegistryFor(e)
  BY DEF Service!RegistryFor, Reg!RegistryFor, Service!Listed, Reg!Listed, Service!ToSet, Reg!ToSet
<1>4. Service!ReadSpec(e) <=> Reg!ReadSpec(e)
  BY DEF Service!ReadSpec, Reg!ReadSpec
<1>5. Service!CacheClient(e) <=> Reg!CacheClient(e)
  BY DEF Service!CacheClient, Reg!CacheClient, Service!ResolveSecret, Reg!ResolveSecret
<1> QED BY <1>1, <1>2, <1>3, <1>4, <1>5

LEMMA SameShelf ==
    ASSUME NEW id, NEW pkg
    PROVE  /\ Service!PublishHttp(id, pkg) <=> Reg!PublishHttp(id, pkg)
           /\ Service!PublishLocal(id, pkg) <=> Reg!PublishLocal(id, pkg)
           /\ Service!Upload(pkg) <=> Reg!Upload(pkg)
           /\ Service!UploadStops(pkg) <=> Reg!UploadStops(pkg)
           /\ Service!DeleteVersion(id, pkg.name, pkg.version)
                <=> Reg!DeleteVersion(id, pkg.name, pkg.version)
           /\ Service!RegisterLocal(pkg) <=> Reg!RegisterLocal(pkg)
<1> USE DEF Service!At, Reg!At, Service!connectionVars, Reg!connectionVars
<1>1. Service!PublishHttp(id, pkg) <=> Reg!PublishHttp(id, pkg)
  BY DEF Service!PublishHttp, Reg!PublishHttp, Service!Having, Reg!Having
<1>2. Service!PublishLocal(id, pkg) <=> Reg!PublishLocal(id, pkg)
  BY DEF Service!PublishLocal, Reg!PublishLocal
<1>3. Service!Upload(pkg) <=> Reg!Upload(pkg)
  BY DEF Service!Upload, Reg!Upload
<1>4. Service!UploadStops(pkg) <=> Reg!UploadStops(pkg)
  BY DEF Service!UploadStops, Reg!UploadStops
<1>5. Service!DeleteVersion(id, pkg.name, pkg.version)
        <=> Reg!DeleteVersion(id, pkg.name, pkg.version)
  BY DEF Service!DeleteVersion, Reg!DeleteVersion, Service!Without, Reg!Without
<1>6. Service!RegisterLocal(pkg) <=> Reg!RegisterLocal(pkg)
  BY DEF Service!RegisterLocal, Reg!RegisterLocal
<1> QED BY <1>1, <1>2, <1>3, <1>4, <1>5, <1>6

LEMMA SameNext == Service!RegistriesNext <=> Reg!RegistriesNext
<1>1. Service!Listed = Reg!Listed BY DEF Service!Listed, Reg!Listed, Service!ToSet, Reg!ToSet
<1>2. \A e : (Service!StepEdit(e) <=> Reg!StepEdit(e)) /\ (Service!EditFails(e) <=> Reg!EditFails(e))
  BY SameSteps
<1>3. \A b : (Service!ReadSpec(b) <=> Reg!ReadSpec(b)) /\ (Service!CacheClient(b) <=> Reg!CacheClient(b))
  BY SameSteps
<1>4. \A id : Service!RegistryFor(id) <=> Reg!RegistryFor(id) BY SameSteps
<1>5. \A id, source, token : Service!AddConnection(id, source, token) <=> Reg!AddConnection(id, source, token)
  BY SameChanges
<1>6. \A id, source : Service!UpdateConnection(id, source) <=> Reg!UpdateConnection(id, source)
  BY SameChanges
<1>7. \A id, token : Service!SetToken(id, token) <=> Reg!SetToken(id, token) BY SameChanges
<1>8. \A id : /\ Service!UseEnvToken(id) <=> Reg!UseEnvToken(id)
              /\ Service!RemoveConnection(id) <=> Reg!RemoveConnection(id)
              /\ Service!SetDefault(id) <=> Reg!SetDefault(id)
  BY SameChanges
<1>9. \A id, pkg :
        /\ Service!PublishHttp(id, pkg) <=> Reg!PublishHttp(id, pkg)
        /\ Service!PublishLocal(id, pkg) <=> Reg!PublishLocal(id, pkg)
        /\ Service!DeleteVersion(id, pkg.name, pkg.version)
              <=> Reg!DeleteVersion(id, pkg.name, pkg.version)
  BY SameShelf
<1>10. \A u : (Service!Upload(u) <=> Reg!Upload(u)) /\ (Service!UploadStops(u) <=> Reg!UploadStops(u))
  BY SameShelf
<1>11. \A pkg : Service!RegisterLocal(pkg) <=> Reg!RegisterLocal(pkg) BY SameShelf
<1> QED
  BY <1>1, <1>2, <1>3, <1>4, <1>5, <1>6, <1>7, <1>8, <1>9, <1>10, <1>11, Zenon
  DEF Service!RegistriesNext, Reg!RegistriesNext

LEMMA SameCurrent == Service!CacheCurrent <=> Reg!CacheCurrent
  BY DEF Service!CacheCurrent, Reg!CacheCurrent, Service!ResolveSecret, Reg!ResolveSecret

LEMMA SameTypes == Service!RegistriesTypeOK <=> Reg!RegistriesTypeOK
  BY DEF Service!RegistriesTypeOK, Reg!RegistriesTypeOK, Service!Listed, Reg!Listed, Service!ToSet, Reg!ToSet

Served == subject = "service"
NotServed == subject # "service"

(* A behaviour of the parts that starts as the registries stays one of them.  *)
LEMMA RegistriesBehave == PackagesSpec /\ Served => Reg!RegistriesSpec /\ []Served
<1>1. PackagesInit /\ Served => Reg!RegistriesInit BY SameStart DEF PackagesInit, Served
<1>2. Served /\ [PackagesNext]_everything =>
        Served' /\ [Reg!RegistriesNext]_<<Reg!connectionVars, Reg!shelfVars>>
  BY SameNext
  DEF PackagesNext, Composing, Resolving, Producing, Serving, everything, serviceVars, Served,
      Reg!connectionVars, Reg!shelfVars
<1>3. PackagesSpec => PackagesInit /\ [][PackagesNext]_everything BY DEF PackagesSpec, everything
<1> QED BY <1>1, <1>2, <1>3, PTL DEF Reg!RegistriesSpec

(* A behaviour of another part never becomes one of the registries.          *)
LEMMA OthersStay == PackagesSpec /\ NotServed => []NotServed
<1>1. NotServed /\ [PackagesNext]_everything => NotServed'
  BY DEF PackagesNext, Composing, Resolving, Producing, Serving, everything, NotServed
<1>2. PackagesSpec => PackagesInit /\ [][PackagesNext]_everything BY DEF PackagesSpec, everything
<1> QED BY <1>1, <1>2, PTL

(* A cached registry client has the settings and the secret its connection    *)
(* has now: here clients are not built while their connection changes        *)
(* (package-manager-service.ts).                                           *)
THEOREM CachesStayCurrent == PackagesSpec => []CacheCurrent
<1>1. Reg!RegistriesSpec => []Reg!CacheCurrent
  BY RevisionsAssumption, Reg!ClientsAreCurrent
  DEF Service!RegistriesAssumption, Reg!RegistriesAssumption
<1>2. Reg!CacheCurrent => CacheCurrent BY SameCurrent DEF CacheCurrent
<1>3. NotServed => CacheCurrent BY DEF CacheCurrent, NotServed
<1>4. Served \/ NotServed BY DEF Served, NotServed
<1> QED BY <1>1, <1>2, <1>3, <1>4, RegistriesBehave, OthersStay, PTL

(***************************************************************************)
(* The base resolver among the parts.                                       *)
(***************************************************************************)

(* A compile on the stack of a call, and a call with its answer.             *)
Compile == [id : Members, queue : Seq(Members), visited : SUBSET Members, found : SUBSET Bases!Packages,
            missing : BOOLEAN]
Answer == Bases!Packages \cup {None}
Call == [stack : Seq(Compile), ask : Members \cup {None}, at : {"idle", "look", "sources", "done"},
         answer : Answer]
CallOK(tk) ==
    /\ tk \in Call
    /\ tk.at \in {"idle", "done"} => tk.stack = <<>>
    /\ tk.at = "look" => tk.ask # None
    /\ tk.at = "sources" => tk.stack # <<>>

Workspaced ==
    /\ open \subseteq Members /\ broken \subseteq Members /\ resolving \subseteq Members /\ notices \subseteq Members
    /\ baseEdits \in 0..MaxEdits /\ overlapping \in BOOLEAN
    /\ binds \in [Members -> Seq(Members)] /\ version \in [Members -> Nat]
    /\ store \in [Members -> Seq(Members) \cup {None}]
    /\ cache \in [Members -> Answer] /\ baseIdsOf \in [Members -> SUBSET Members]
Called == DOMAIN task = Requesters /\ \A t \in Requesters : CallOK(task[t])

(* The compiles under way are of distinct members, and these are the marked. *)
On(K, t, k, i) == t \in Requesters /\ k \in DOMAIN K[t].stack /\ K[t].stack[k].id = i
Marked(K, R) == \A i : i \in R <=> \E t, k : On(K, t, k, i)
OnceEach(K) == \A i, t, k, u, l : On(K, t, k, i) /\ On(K, u, l, i) => t = u /\ k = l

Resolved == Workspaced /\ Called /\ Marked(task, resolving) /\ OnceEach(task)

-----------------------------------------------------------------------------
(* The walk of one call.                                                    *)

LEMMA EarliestIs ==
    ASSUME NEW S \in SUBSET Nat, S # {}
    PROVE  Bases!Min(S) \in S /\ \A y \in S : Bases!Min(S) <= y
  BY LeastNatural DEF Bases!Min

LEMMA LowerIs ==
    ASSUME NEW S, NEW s \in Seq(S), s # <<>>
    PROVE  /\ Len(s) \in Nat /\ Len(s) >= 1 /\ DOMAIN s = 1..Len(s) /\ Bases!Last(s) = s[Len(s)] /\ Bases!Last(s) \in S
           /\ Bases!Front(s) \in Seq(S) /\ Len(Bases!Front(s)) = Len(s) - 1 /\ DOMAIN Bases!Front(s) = 1..(Len(s) - 1)
           /\ \A i \in 1..(Len(s) - 1) : Bases!Front(s)[i] = s[i]
<1>1. Len(s) \in Nat /\ Len(s) >= 1 /\ DOMAIN s = 1..Len(s) OBVIOUS
<1>2. Bases!Front(s) \in Seq(S) /\ Len(Bases!Front(s)) = Len(s) - 1 BY <1>1, SubSeqProperties DEF Bases!Front
<1>3. \A i \in 1..(Len(s) - 1) : Bases!Front(s)[i] = s[i] BY <1>1, SubSeqProperties DEF Bases!Front
<1> QED BY <1>1, <1>2, <1>3 DEF Bases!Last

(* Another compile in the place of the top one keeps the members.            *)
SameIds(s, r) == Len(r) = Len(s) /\ \A k \in DOMAIN s : r[k].id = s[k].id

LEMMA TopReplaced ==
    ASSUME NEW s \in Seq(Compile), s # <<>>, NEW g \in Compile, g.id = Bases!Last(s).id
    PROVE  LET r == Append(Bases!Front(s), g)
           IN r \in Seq(Compile) /\ r # <<>> /\ Bases!Last(r) = g /\ Bases!Front(r) = Bases!Front(s) /\ SameIds(s, r)
<1> DEFINE low == Bases!Front(s)
           r == Append(low, g)
<1>1. /\ Len(s) \in Nat /\ Len(s) >= 1 /\ DOMAIN s = 1..Len(s) /\ Bases!Last(s) = s[Len(s)]
      /\ Bases!Front(s) \in Seq(Compile) /\ Len(Bases!Front(s)) = Len(s) - 1
      /\ \A i \in 1..(Len(s) - 1) : Bases!Front(s)[i] = s[i]
  BY LowerIs
<1>2. r \in Seq(Compile) /\ Len(r) = Len(s) /\ r[Len(s)] = g /\ \A i \in 1..(Len(s) - 1) : r[i] = Bases!Front(s)[i]
  <2>0. low \in Seq(Compile) BY <1>1
  <2>1. /\ r \in Seq(Compile) /\ Len(r) = Len(low) + 1 /\ r[Len(low) + 1] = g
        /\ \A i \in 1..Len(low) : r[i] = low[i]
    <3> HIDE DEF low
    <3> QED BY <2>0, AppendIs
  <2>2. Len(Bases!Front(s)) + 1 = Len(s) BY <1>1
  <2> HIDE DEF r
  <2> QED BY <1>1, <2>1, <2>2
<1>3. r # <<>> BY <1>1, <1>2
<1>4. Bases!Last(r) = g BY <1>2 DEF Bases!Last
<1>5. Bases!Front(r) = Bases!Front(s)
  <2>1. Bases!Front(r) \in Seq(Compile) /\ Len(Bases!Front(r)) = Len(s) - 1 /\ \A i \in 1..(Len(s) - 1) : Bases!Front(r)[i] = r[i]
    <3> HIDE DEF r
    <3> QED BY <1>2, <1>3, LowerIs
  <2>2. \A i \in 1..(Len(s) - 1) : Bases!Front(r)[i] = Bases!Front(s)[i] BY <1>2, <2>1
  <2> HIDE DEF r
  <2> QED BY <1>1, <2>1, <2>2, SeqEqual
<1>6. ASSUME NEW k \in DOMAIN s PROVE r[k].id = s[k].id
  <2>1. CASE k = Len(s) BY <1>1, <1>2, <2>1
  <2>2. CASE k # Len(s)
    <3>1. k \in 1..(Len(s) - 1) BY <1>1, <2>2
    <3> QED BY <1>1, <1>2, <3>1
  <2> QED BY <2>1, <2>2
<1> QED BY <1>2, <1>3, <1>4, <1>5, <1>6 DEF SameIds

LEMMA GoIs ==
    ASSUME NEW tk \in Call, NEW s \in Seq(Compile), NEW p \in Answer, Bases!BasesAssumption
    PROVE  CallOK(Bases!Go(tk, s, p)) /\ SameIds(s, Bases!Go(tk, s, p).stack)
<1>1. CASE s = <<>>
  <2>1. Bases!Go(tk, s, p) = [tk EXCEPT !.stack = <<>>, !.at = "done", !.answer = p] BY <1>1 DEF Bases!Go
  <2> QED BY <1>1, <2>1 DEF Call, CallOK, SameIds
<1>2. CASE s # <<>>
  <2> DEFINE f == Bases!Last(s)
             k == Bases!Min(Bases!Unvisited(f))
             g == [f EXCEPT !.queue = <<>>]
             h == [f EXCEPT !.queue = SubSeq(@, k + 1, Len(@)), !.visited = @ \cup {f.queue[k]}]
  <2>1. f \in Compile BY <1>2, LowerIs
  <2>2. CASE Bases!Unvisited(f) = {}
    <3>1. Bases!Go(tk, s, p) = [tk EXCEPT !.stack = Append(Bases!Front(s), g), !.at = "sources"] BY <1>2, <2>2 DEF Bases!Go
    <3>2. g \in Compile /\ g.id = f.id
      <4>1. <<>> \in Seq(Members) OBVIOUS
      <4> HIDE DEF f
      <4> QED BY <2>1, <4>1 DEF Compile
    <3>3. LET r == Append(Bases!Front(s), g) IN r \in Seq(Compile) /\ r # <<>> /\ SameIds(s, r)
      <4> HIDE DEF g
      <4> QED BY <1>2, <3>2, TopReplaced
    <3> HIDE DEF g
    <3> QED BY <3>1, <3>3 DEF Call, CallOK
  <2>3. CASE Bases!Unvisited(f) # {}
    <3>1. Bases!Go(tk, s, p) = [tk EXCEPT !.at = "look", !.ask = f.queue[k], !.stack = Append(Bases!Front(s), h)]
      BY <1>2, <2>3 DEF Bases!Go
    <3>2. f.queue \in Seq(Members) /\ f.visited \subseteq Members BY <2>1 DEF Compile
    <3>3. k \in DOMAIN f.queue
      <4>1. Bases!Unvisited(f) \in SUBSET Nat /\ Bases!Unvisited(f) \subseteq DOMAIN f.queue BY <3>2 DEF Bases!Unvisited
      <4> HIDE DEF f
      <4> QED BY <2>3, <4>1, EarliestIs
    <3>4. f.queue[k] \in Members /\ SubSeq(f.queue, k + 1, Len(f.queue)) \in Seq(Members)
      <4> DEFINE q == f.queue
      <4>0. q \in Seq(Members) /\ k \in DOMAIN q BY <3>2, <3>3
      <4>1. q[k] \in Members /\ k + 1 \in 1..Len(q) + 1 /\ Len(q) \in k..Len(q)
        <5> HIDE DEF k, q
        <5> QED BY <4>0
      <4> HIDE DEF k, q
      <4>2. SubSeq(q, k + 1, Len(q)) \in Seq(Members) BY <4>0, <4>1, SubSeqProperties
      <4> QED BY <4>1, <4>2 DEF q
    <3>5. h \in Compile /\ h.id = f.id
      <4> HIDE DEF k
      <4> QED BY <2>1, <3>2, <3>4 DEF Compile
    <3>6. LET r == Append(Bases!Front(s), h) IN r \in Seq(Compile) /\ r # <<>> /\ SameIds(s, r)
      <4> HIDE DEF h
      <4> QED BY <1>2, <3>5, TopReplaced
    <3>7. f.queue[k] # None BY <3>4 DEF Bases!BasesAssumption
    <3> HIDE DEF h, k, f
    <3> QED BY <3>1, <3>4, <3>6, <3>7 DEF Call, CallOK
  <2> QED BY <2>2, <2>3
<1> QED BY <1>1, <1>2

LEMMA AnswersIs ==
    ASSUME NEW tk \in Call, NEW s \in Seq(Compile), NEW p \in Answer, Bases!BasesAssumption
    PROVE  CallOK(Bases!Returned(tk, s, p)) /\ SameIds(s, Bases!Returned(tk, s, p).stack)
<1>1. CASE s = <<>> BY <1>1, GoIs DEF Bases!Returned
<1>2. CASE s # <<>>
  <2> DEFINE f == Bases!Last(s)
             g == IF p = None THEN [f EXCEPT !.missing = TRUE]
                  ELSE [f EXCEPT !.found = @ \cup {p}, !.queue = @ \o p.deps]
             r == Append(Bases!Front(s), g)
  <2>1. Bases!Returned(tk, s, p) = Bases!Go(tk, r, p) BY <1>2 DEF Bases!Returned
  <2>2. f \in Compile BY <1>2, LowerIs
  <2>3. g \in Compile /\ g.id = f.id
    <3>1. CASE p = None BY <2>2, <3>1 DEF Compile
    <3>2. CASE p # None
      <4>1. p \in Bases!Packages /\ p.deps \in Seq(Members) /\ f.queue \in Seq(Members) /\ f.found \subseteq Bases!Packages
        BY <2>2, <3>2 DEF Answer, Bases!Packages, Compile
      <4>2. f.queue \o p.deps \in Seq(Members) BY <4>1
      <4> QED BY <2>2, <3>2, <4>1, <4>2 DEF Compile
    <3> QED BY <3>1, <3>2
  <2>4. r \in Seq(Compile) /\ SameIds(s, r)
    <3> HIDE DEF g
    <3> QED BY <1>2, <2>3, TopReplaced
  <2>5. CallOK(Bases!Go(tk, r, p)) /\ SameIds(r, Bases!Go(tk, r, p).stack)
    <3> HIDE DEF r
    <3> QED BY <2>4, GoIs
  <2>6. DOMAIN r = DOMAIN s
    <3> HIDE DEF r
    <3> QED BY <2>4 DEF SameIds
  <2> HIDE DEF r, g
  <2> QED BY <2>1, <2>4, <2>5, <2>6 DEF SameIds
<1> QED BY <1>1, <1>2

-----------------------------------------------------------------------------
(* The stacks of all calls.                                                 *)

(* Call t goes on as r.                                                     *)
Goes(K, t, r) == K = [task EXCEPT ![t] = r]

LEMMA OnIs ==
    ASSUME Called, NEW t \in Requesters, NEW r, NEW K, Goes(K, t, r), NEW u, NEW k, NEW i
    PROVE  On(K, u, k, i) <=>
             IF u = t THEN k \in DOMAIN r.stack /\ r.stack[k].id = i ELSE On(task, u, k, i)
  BY DEF On, Goes, Called

LEMMA CalledGoes ==
    ASSUME Called, NEW t \in Requesters, NEW r, CallOK(r), NEW K, Goes(K, t, r)
    PROVE  DOMAIN K = Requesters /\ \A u \in Requesters : CallOK(K[u])
  BY DEF Goes, Called

LEMMA Keeps ==
    ASSUME Called, NEW R, Marked(task, R), OnceEach(task), NEW t \in Requesters, NEW r, NEW K,
           Goes(K, t, r), SameIds(task[t].stack, r.stack), r.stack \in Seq(Compile)
    PROVE  Marked(K, R) /\ OnceEach(K)
<1>1. task[t].stack \in Seq(Compile) BY DEF Called, CallOK, Call
<1>2. DOMAIN r.stack = DOMAIN task[t].stack BY <1>1 DEF SameIds
<1>3. ASSUME NEW u, NEW k, NEW i PROVE On(K, u, k, i) <=> On(task, u, k, i)
  <2>1. On(K, u, k, i) <=>
          IF u = t THEN k \in DOMAIN r.stack /\ r.stack[k].id = i ELSE On(task, u, k, i)
    BY OnIs
  <2>2. On(task, t, k, i) <=> k \in DOMAIN task[t].stack /\ task[t].stack[k].id = i BY DEF On
  <2> QED BY <1>2, <2>1, <2>2 DEF SameIds
<1> QED BY <1>3 DEF Marked, OnceEach

LEMMA PushesOn ==
    ASSUME Called, NEW R, Marked(task, R), OnceEach(task), NEW t \in Requesters, NEW r, NEW K,
           Goes(K, t, r), NEW c \in Compile, c.id \notin R,
           SameIds(Append(task[t].stack, c), r.stack), r.stack \in Seq(Compile)
    PROVE  Marked(K, R \cup {c.id}) /\ OnceEach(K)
<1> DEFINE s == task[t].stack
           n == Len(s) + 1
<1>1. s \in Seq(Compile) /\ Len(s) \in Nat /\ DOMAIN s = 1..Len(s) BY DEF Called, CallOK, Call
<1>2. /\ Len(Append(s, c)) = n /\ DOMAIN Append(s, c) = 1..n
      /\ Append(s, c)[n] = c /\ \A i \in 1..Len(s) : Append(s, c)[i] = s[i]
  BY <1>1, AppendIs
<1>3. DOMAIN r.stack = 1..n /\ r.stack[n].id = c.id /\ \A i \in DOMAIN s : r.stack[i].id = s[i].id
  <2>1. Len(r.stack) = n /\ n \in Nat BY <1>1, <1>2 DEF SameIds
  <2>2. DOMAIN r.stack = 1..n BY <2>1
  <2>3. n \in 1..n /\ \A i \in DOMAIN s : i \in 1..n BY <1>1
  <2> QED BY <1>1, <1>2, <2>2, <2>3 DEF SameIds
<1>4. \A k : k \in 1..n <=> k = n \/ k \in DOMAIN s BY <1>1
<1>5. n \notin DOMAIN s BY <1>1
<1>6. ASSUME NEW u, NEW k, NEW i
      PROVE  On(K, u, k, i) <=> On(task, u, k, i) \/ (u = t /\ k = n /\ i = c.id)
  <2>1. On(K, u, k, i) <=>
          IF u = t THEN k \in DOMAIN r.stack /\ r.stack[k].id = i ELSE On(task, u, k, i)
    BY OnIs
  <2>2. On(task, t, k, i) <=> k \in DOMAIN s /\ s[k].id = i BY DEF On
  <2> HIDE DEF s, n
  <2> QED BY <1>3, <1>4, <1>5, <2>1, <2>2
<1> HIDE DEF s, n
<1>7. \A u, k : ~On(task, u, k, c.id) BY DEF Marked
<1> QED BY <1>6, <1>7 DEF Marked, OnceEach

LEMMA PopsOn ==
    ASSUME Called, NEW R, Marked(task, R), OnceEach(task), NEW t \in Requesters, NEW r, NEW K,
           Goes(K, t, r), task[t].stack # <<>>,
           SameIds(Bases!Front(task[t].stack), r.stack), r.stack \in Seq(Compile)
    PROVE  Marked(K, R \ {Bases!Last(task[t].stack).id}) /\ OnceEach(K)
<1> DEFINE s == task[t].stack
           n == Len(s)
<1>1. s \in Seq(Compile) BY DEF Called, CallOK, Call
<1>2. /\ n \in Nat /\ n >= 1 /\ DOMAIN s = 1..n /\ Bases!Last(s) = s[n]
      /\ Len(Bases!Front(s)) = n - 1 /\ DOMAIN Bases!Front(s) = 1..(n - 1)
      /\ \A i \in 1..(n - 1) : Bases!Front(s)[i] = s[i]
  BY <1>1, LowerIs
<1>3. DOMAIN r.stack = 1..(n - 1) /\ \A i \in 1..(n - 1) : r.stack[i].id = s[i].id
  <2>1. Len(r.stack) = n - 1 BY <1>2 DEF SameIds
  <2>2. DOMAIN r.stack = 1..(n - 1) BY <1>2, <2>1
  <2> QED BY <1>2, <2>2 DEF SameIds
<1>4. \A k : k \in 1..(n - 1) <=> k \in 1..n /\ k # n BY <1>2
<1>5. On(task, t, n, Bases!Last(s).id) BY <1>2 DEF On
<1>6. ASSUME NEW u, NEW k, NEW i
      PROVE  On(K, u, k, i) <=> On(task, u, k, i) /\ ~(u = t /\ k = n)
  <2>1. On(K, u, k, i) <=>
          IF u = t THEN k \in DOMAIN r.stack /\ r.stack[k].id = i ELSE On(task, u, k, i)
    BY OnIs
  <2>2. On(task, t, k, i) <=> k \in DOMAIN s /\ s[k].id = i BY DEF On
  <2> HIDE DEF s, n
  <2> QED BY <1>2, <1>3, <1>4, <2>1, <2>2
<1>7. ASSUME NEW u, NEW k, NEW i, On(task, u, k, i)
      PROVE  u = t /\ k = n <=> i = Bases!Last(s).id
  <2>1. i = Bases!Last(s).id => u = t /\ k = n BY <1>5, <1>7 DEF OnceEach
  <2>2. u = t /\ k = n => i = Bases!Last(s).id BY <1>2, <1>7 DEF On
  <2> QED BY <2>1, <2>2
<1> HIDE DEF s, n
<1> QED BY <1>6, <1>7 DEF Marked, OnceEach, s

LEMMA ClearsOn ==
    ASSUME Called, NEW R, Marked(task, R), OnceEach(task), NEW t \in Requesters, NEW r, NEW K,
           Goes(K, t, r), r.stack = <<>>
    PROVE  /\ Marked(K, R \ {task[t].stack[k].id : k \in DOMAIN task[t].stack})
           /\ OnceEach(K)
<1>1. DOMAIN r.stack = {} OBVIOUS
<1>2. \A u, k, i : On(K, u, k, i) <=> On(task, u, k, i) /\ u # t BY <1>1, OnIs
<1>3. \A u, k, i : On(task, u, k, i) =>
        (u = t <=> i \in {task[t].stack[j].id : j \in DOMAIN task[t].stack})
  BY DEF OnceEach, On
<1> QED BY <1>2, <1>3 DEF Marked, OnceEach

-----------------------------------------------------------------------------
(* The steps.                                                               *)

LEMMA InnerIs == ASSUME Workspaced, NEW i \in Members PROVE Bases!Inner(i) \in Answer
<1>1. CASE store[i] = None BY <1>1 DEF Bases!Inner, Answer
<1>2. CASE store[i] # None
  <2>1. store[i] \in Seq(Members) BY <1>2 DEF Workspaced
  <2>2. {<<i, Bases!Published>>} \in SUBSET (Members \X Nat) BY DEF Bases!Published
  <2>3. Bases!Inner(i) = [id |-> i, deps |-> store[i], made |-> {<<i, Bases!Published>>}] BY <1>2 DEF Bases!Inner
  <2>4. Bases!Inner(i) \in Bases!Packages BY <2>1, <2>2, <2>3 DEF Bases!Packages
  <2> QED BY <2>4 DEF Answer
<1> QED BY <1>1, <1>2

(* The call asks the source behind the resolver, takes what is cached, or    *)
(* compiles.                                                                *)
LEMMA FoundHolds == ASSUME Bases!BasesAssumption, Resolved, NEW t \in Requesters, Bases!Found(t) PROVE Resolved'
<1> DEFINE tk == task[t]
           i == tk.ask
           s == tk.stack
<1>1. tk \in Call /\ i \in Members /\ s \in Seq(Compile)
  <2>1. CallOK(tk) /\ tk.at = "look" BY DEF Resolved, Called, Bases!Found
  <2> QED BY <2>1 DEF CallOK, Call
<1>2. UNCHANGED <<Bases!workspace, cache, notices, baseEdits, overlapping>> BY DEF Bases!Found
<1>3. ASSUME NEW p \in Answer, task' = [task EXCEPT ![t] = Bases!Returned(tk, s, p)],
             UNCHANGED <<baseIdsOf, resolving>>
      PROVE  Resolved'
  <2> DEFINE r == Bases!Returned(tk, s, p)
  <2>1. CallOK(r) /\ SameIds(s, r.stack) BY <1>1, AnswersIs
  <2>2. r.stack \in Seq(Compile) BY <2>1 DEF CallOK, Call
  <2>3. Goes(task', t, r) BY <1>3 DEF Goes
  <2> HIDE DEF r
  <2>4. DOMAIN task' = Requesters /\ \A u \in Requesters : CallOK(task'[u]) BY <2>1, <2>3, CalledGoes DEF Resolved
  <2>5. Marked(task', resolving) /\ OnceEach(task') BY <2>1, <2>2, <2>3, Keeps DEF Resolved
  <2>6. Workspaced' BY <1>2, <1>3 DEF Resolved, Workspaced, Bases!workspace
  <2>7. Called' BY <2>4 DEF Called
  <2> QED BY <1>3, <2>5, <2>6, <2>7 DEF Resolved, Marked, OnceEach, On
<1>4. CASE i \notin open \/ i \in resolving
  <2>1. Bases!Inner(i) \in Answer BY <1>1, InnerIs DEF Resolved
  <2> QED BY <1>3, <1>4, <2>1 DEF Bases!Found
<1>5. CASE ~(i \notin open \/ i \in resolving) /\ cache[i] # None
  <2>1. cache[i] \in Answer BY <1>1 DEF Resolved, Workspaced
  <2> QED BY <1>3, <1>5, <2>1 DEF Bases!Found
<1>6. CASE ~(i \notin open \/ i \in resolving) /\ cache[i] = None
  <2> DEFINE c == Bases!Frame(i)
             w == Append(s, c)
             r == Bases!Go(tk, w, None)
  <2>1. /\ task' = [task EXCEPT ![t] = r] /\ resolving' = resolving \cup {i}
        /\ baseIdsOf' = [baseIdsOf EXCEPT ![i] = Bases!ToSet(binds[i])]
    BY <1>6 DEF Bases!Found
  <2>2. binds[i] \in Seq(Members) /\ Bases!ToSet(binds[i]) \subseteq Members
    <3>1. binds[i] \in Seq(Members) BY <1>1 DEF Resolved, Workspaced
    <3> QED BY <3>1 DEF Bases!ToSet
  <2>3. c \in Compile /\ c.id = i BY <1>1, <2>2 DEF Bases!Frame, Compile
  <2>4. w \in Seq(Compile) BY <1>1, <2>3
  <2>5. CallOK(r) /\ SameIds(w, r.stack)
    <3> HIDE DEF w
    <3> QED BY <1>1, <2>4, GoIs DEF Answer
  <2>6. r.stack \in Seq(Compile) BY <2>5 DEF CallOK, Call
  <2>7. Goes(task', t, r) BY <2>1 DEF Goes
  <2>8. c.id \notin resolving BY <1>6, <2>3
  <2> HIDE DEF r, c
  <2>9. DOMAIN task' = Requesters /\ \A u \in Requesters : CallOK(task'[u]) BY <2>5, <2>7, CalledGoes DEF Resolved
  <2>10. Marked(task', resolving \cup {c.id}) /\ OnceEach(task')
    BY <2>3, <2>5, <2>6, <2>7, <2>8, PushesOn DEF Resolved
  <2>11. Workspaced' BY <1>1, <1>2, <2>1, <2>2 DEF Resolved, Workspaced, Bases!workspace
  <2>12. Called' BY <2>9 DEF Called
  <2> QED BY <2>1, <2>3, <2>10, <2>11, <2>12 DEF Resolved, Marked, OnceEach, On
<1> QED BY <1>4, <1>5, <1>6

LEMMA CompiledHolds == ASSUME Bases!BasesAssumption, Resolved, NEW t \in Requesters, Bases!Compiled(t) PROVE Resolved'
<1> DEFINE tk == task[t]
           s == tk.stack
           f == Bases!Last(s)
           i == f.id
           p == [id |-> i, deps |-> binds[i],
                 made |-> {<<i, version[i]>>} \cup UNION {q.made : q \in f.found}]
<1>1. tk \in Call /\ s \in Seq(Compile) /\ s # <<>>
  <2>1. CallOK(tk) /\ tk.at = "sources" BY DEF Resolved, Called, Bases!Compiled
  <2> QED BY <2>1 DEF CallOK, Call
<1>2. UNCHANGED <<Bases!workspace, baseIdsOf, notices, baseEdits, overlapping>> BY DEF Bases!Compiled
<1>3. f \in Compile /\ Bases!Front(s) \in Seq(Compile) BY <1>1, LowerIs
<1>4. i \in Members /\ f.found \subseteq Bases!Packages BY <1>3 DEF Compile
<1>5. p \in Bases!Packages
  <2>1. binds[i] \in Seq(Members) /\ version[i] \in Nat BY <1>4 DEF Resolved, Workspaced
  <2>2. \A q \in f.found : q.made \subseteq Members \X Nat BY <1>4 DEF Bases!Packages
  <2>3. {<<i, version[i]>>} \cup UNION {q.made : q \in f.found} \in SUBSET (Members \X Nat)
    BY <1>4, <2>1, <2>2
  <2> QED BY <1>4, <2>1, <2>3 DEF Bases!Packages
<1>6. ASSUME NEW a \in Answer, task' = [task EXCEPT ![t] = Bases!Returned(tk, Bases!Front(s), a)],
             resolving' = Bases!Cleared({i}), Workspaced'
      PROVE  Resolved'
  <2> DEFINE r == Bases!Returned(tk, Bases!Front(s), a)
  <2>1. CallOK(r) /\ SameIds(Bases!Front(s), r.stack) BY <1>1, <1>3, AnswersIs
  <2>2. r.stack \in Seq(Compile) BY <2>1 DEF CallOK, Call
  <2>3. Goes(task', t, r) BY <1>6 DEF Goes
  <2> HIDE DEF r
  <2>4. DOMAIN task' = Requesters /\ \A u \in Requesters : CallOK(task'[u]) BY <2>1, <2>3, CalledGoes DEF Resolved
  <2>5. Marked(task', resolving \ {i}) /\ OnceEach(task')
    BY <1>1, <2>1, <2>2, <2>3, PopsOn DEF Resolved
  <2>6. Called' BY <2>4 DEF Called
  <2> QED BY <1>6, <2>5, <2>6 DEF Resolved, Marked, OnceEach, On, Bases!Cleared
<1>7. ASSUME UNCHANGED cache, resolving' \subseteq resolving PROVE Workspaced'
  BY <1>2, <1>7 DEF Resolved, Workspaced, Bases!workspace
<1>8. CASE f.missing \/ (~Bases!Throws(i, f.found) /\ i \in broken)
  <2>1. Bases!Inner(i) \in Answer BY <1>4, InnerIs DEF Resolved
  <2>2. /\ task' = [task EXCEPT ![t] = Bases!Returned(tk, Bases!Front(s), Bases!Inner(i))]
        /\ resolving' = Bases!Cleared({i}) /\ UNCHANGED cache
    BY <1>8 DEF Bases!Compiled
  <2>3. Workspaced' BY <1>7, <2>2 DEF Bases!Cleared
  <2> QED BY <1>6, <2>1, <2>2, <2>3
<1>9. CASE ~f.missing /\ Bases!Throws(i, f.found)
  <2> DEFINE r == [Bases!Idle EXCEPT !.at = "done"]
             gone == {s[k].id : k \in DOMAIN s}
  <2>1. task' = [task EXCEPT ![t] = r] /\ resolving' = Bases!Cleared(gone) /\ UNCHANGED cache
    BY <1>9 DEF Bases!Compiled
  <2>2. r = [stack |-> <<>>, ask |-> None, at |-> "done", answer |-> None] BY DEF Bases!Idle
  <2>3. CallOK(r) /\ r.stack = <<>>
    <3> HIDE DEF r
    <3> QED BY <2>2 DEF CallOK, Call, Answer
  <2>4. Goes(task', t, r) BY <2>1 DEF Goes
  <2> HIDE DEF r
  <2>5. DOMAIN task' = Requesters /\ \A u \in Requesters : CallOK(task'[u]) BY <2>3, <2>4, CalledGoes DEF Resolved
  <2>6. Marked(task', resolving \ gone) /\ OnceEach(task') BY <2>3, <2>4, ClearsOn DEF Resolved
  <2>7. Workspaced' BY <1>7, <2>1 DEF Bases!Cleared
  <2>8. Called' BY <2>5 DEF Called
  <2> HIDE DEF gone
  <2> QED BY <2>1, <2>6, <2>7, <2>8 DEF Resolved, Marked, OnceEach, On, Bases!Cleared
<1>10. CASE ~f.missing /\ ~Bases!Throws(i, f.found) /\ i \notin broken
  <2>1. /\ cache' = [cache EXCEPT ![i] = p] /\ resolving' = Bases!Cleared({i})
        /\ task' = [task EXCEPT ![t] = Bases!Returned(tk, Bases!Front(s), p)]
    BY <1>10 DEF Bases!Compiled
  <2>2. p \in Answer BY <1>5 DEF Answer
  <2> HIDE DEF p
  <2>3. Workspaced' BY <1>2, <1>4, <2>1, <2>2 DEF Resolved, Workspaced, Bases!workspace, Bases!Cleared
  <2> QED BY <1>6, <2>1, <2>2, <2>3
<1> QED BY <1>8, <1>9, <1>10

(* A call begins or ends without a compile of its own.                      *)
LEMMA BareHolds ==
    ASSUME Resolved, NEW t \in Requesters, task[t].stack = <<>>, NEW r, CallOK(r), r.stack = <<>>,
           task' = [task EXCEPT ![t] = r],
           UNCHANGED <<Bases!workspace, cache, baseIdsOf, resolving, notices, baseEdits, overlapping>>
    PROVE  Resolved'
<1>1. Goes(task', t, r) BY DEF Goes
<1>2. DOMAIN task' = Requesters /\ \A u \in Requesters : CallOK(task'[u]) BY <1>1, CalledGoes DEF Resolved
<1>3. SameIds(task[t].stack, r.stack) /\ r.stack \in Seq(Compile) BY DEF SameIds
<1>4. Marked(task', resolving) /\ OnceEach(task') BY <1>1, <1>3, Keeps DEF Resolved
<1>5. Workspaced' BY DEF Resolved, Workspaced, Bases!workspace
<1>6. Called' BY <1>2 DEF Called
<1> QED BY <1>4, <1>5, <1>6 DEF Resolved, Marked, OnceEach, On

LEMMA TryGetHolds ==
    ASSUME Bases!BasesAssumption, Resolved, NEW t \in Requesters, NEW i \in Members, Bases!TryGet(t, i) PROVE Resolved'
<1> DEFINE r == [Bases!Idle EXCEPT !.ask = i, !.at = "look"]
<1>1. r = [stack |-> <<>>, ask |-> i, at |-> "look", answer |-> None]
  <2> DEFINE e == [Bases!Idle EXCEPT !.ask = i]
  <2>1. e = [stack |-> <<>>, ask |-> i, at |-> "idle", answer |-> None] BY DEF Bases!Idle
  <2>2. r = [e EXCEPT !.at = "look"] OBVIOUS
  <2> HIDE DEF e, r
  <2> QED BY <2>1, <2>2
<1>2. CallOK(r) /\ r.stack = <<>>
  <2> HIDE DEF r
  <2> QED BY <1>1 DEF CallOK, Call, Answer, Bases!BasesAssumption
<1>3. task[t].stack = <<>> BY DEF Resolved, Called, CallOK, Bases!TryGet
<1> QED BY <1>2, <1>3, BareHolds DEF Bases!TryGet

LEMMA TakenHolds == ASSUME Resolved, NEW t \in Requesters, Bases!Taken(t) PROVE Resolved'
<1>1. CallOK(Bases!Idle) /\ Bases!Idle.stack = <<>> BY DEF Bases!Idle, CallOK, Call, Answer
<1>2. task[t].stack = <<>> BY DEF Resolved, Called, CallOK, Bases!Taken
<1> QED BY <1>1, <1>2, BareHolds DEF Bases!Taken

(* The workspace changes beside the calls.                                  *)
LEMMA ChangesHold ==
    ASSUME Bases!BasesAssumption, Resolved,
           \/ \E i \in Members : Bases!Edit(i) \/ Bases!OpenOrClose(i) \/ Bases!Invalidate(i)
           \/ Bases!SwitchSolution
    PROVE  Resolved'
<1>1. UNCHANGED <<task, resolving>> BY DEF Bases!Edit, Bases!OpenOrClose, Bases!Invalidate, Bases!SwitchSolution
<1>2. Workspaced'
  <2>1. ASSUME NEW i \in Members, Bases!Edit(i) PROVE Workspaced'
    <3>1. PICK b \in Rebindings \cup {binds[i]}, x \in BOOLEAN :
            /\ binds' = [binds EXCEPT ![i] = b]
            /\ broken' = IF x THEN broken \cup {i} ELSE broken \ {i}
      BY <2>1 DEF Bases!Edit
    <3>2. b \in Seq(Members) BY DEF Bases!BasesAssumption, Resolved, Workspaced
    <3>3. baseEdits' \in 0..MaxEdits BY <2>1 DEF Bases!Edit, Bases!MayChange, Resolved, Workspaced, Bases!BasesAssumption
    <3> QED BY <2>1, <3>1, <3>2, <3>3 DEF Bases!Edit, Resolved, Workspaced
  <2>2. ASSUME NEW i \in Members, Bases!OpenOrClose(i) PROVE Workspaced'
    <3>1. baseEdits' \in 0..MaxEdits
      BY <2>2 DEF Bases!OpenOrClose, Bases!MayChange, Resolved, Workspaced, Bases!BasesAssumption
    <3> QED BY <2>2, <3>1 DEF Bases!OpenOrClose, Resolved, Workspaced
  <2>3. ASSUME NEW i \in Members, Bases!Invalidate(i) PROVE Workspaced'
    BY <2>3 DEF Bases!Invalidate, Resolved, Workspaced, Answer, Bases!workspace
  <2>4. ASSUME Bases!SwitchSolution PROVE Workspaced'
    <3>1. baseEdits' \in 0..MaxEdits
      BY <2>4 DEF Bases!SwitchSolution, Bases!MayChange, Resolved, Workspaced, Bases!BasesAssumption
    <3> QED BY <2>4, <3>1 DEF Bases!SwitchSolution, Resolved, Workspaced, Answer, Bases!BasesAssumption
  <2> QED BY <2>1, <2>2, <2>3, <2>4
<1> QED BY <1>1, <1>2 DEF Resolved, Called, Marked, OnceEach, On

LEMMA BasesStart == ASSUME Bases!BasesAssumption, Bases!Init PROVE Resolved
<1>1. CallOK(Bases!Idle) BY DEF Bases!Idle, CallOK, Call, Answer
<1>2. Called BY <1>1 DEF Bases!Init, Called
<1>3. Workspaced BY DEF Bases!Init, Workspaced, Bases!BasesAssumption, Answer
<1>4. \A u, k, i : ~On(task, u, k, i) BY DEF Bases!Init, On, Bases!Idle
<1>5. resolving = {} BY DEF Bases!Init
<1> QED BY <1>2, <1>3, <1>4, <1>5 DEF Resolved, Marked, OnceEach

LEMMA BasesStep == ASSUME Bases!BasesAssumption, Resolved, Bases!Next PROVE Resolved'
<1>1. ASSUME NEW t \in Requesters, Bases!Step(t) PROVE Resolved'
  BY <1>1, FoundHolds, CompiledHolds, TakenHolds DEF Bases!Step
<1>2. ASSUME NEW t \in Requesters, NEW i \in Members, Bases!TryGet(t, i) PROVE Resolved' BY <1>2, TryGetHolds
<1> QED BY <1>1, <1>2, ChangesHold DEF Bases!Next

LEMMA BasesStutter == ASSUME Resolved, UNCHANGED resolverVars PROVE Resolved'
  BY DEF Resolved, Workspaced, Called, Marked, OnceEach, On, resolverVars, Bases!workspace

-----------------------------------------------------------------------------

LEMMA ResolvedTyped == ASSUME Resolved PROVE Bases!TypeOK
  BY DEF Resolved, Workspaced, Called, CallOK, Call, Answer, Bases!TypeOK

LEMMA MembersCounted ==
    ASSUME Bases!BasesAssumption
    PROVE  IsFiniteSet(Members) /\ Bases!Cardinality(Members) = Cardinality(Members)
<1>1. IsFiniteSet(Members) BY DEF Bases!BasesAssumption, Bases!IsFiniteSet, IsFiniteSet
<1>2. Bases!Cardinality(Members) = Cardinality(Members)
  BY DEF Bases!Cardinality, Cardinality, Bases!IsFiniteSet, IsFiniteSet
<1> QED BY <1>1, <1>2

(* No call is deeper than there are members.                                *)
LEMMA Shallow ==
    ASSUME Bases!BasesAssumption, Resolved, NEW t \in Requesters
    PROVE  Len(task[t].stack) <= Cardinality(Members)
<1> DEFINE s == task[t].stack
           n == Len(s)
<1>1. s \in Seq(Compile) BY DEF Resolved, Called, CallOK, Call
<1>2. n \in Nat /\ DOMAIN s = 1..n /\ \A k \in 1..n : s[k].id \in Members
  <2>1. n \in Nat /\ DOMAIN s = 1..n /\ \A k \in 1..n : s[k] \in Compile BY <1>1
  <2> QED BY <2>1 DEF Compile
<1>3. ASSUME NEW k \in 1..n, NEW l \in 1..n, s[k].id = s[l].id PROVE k = l
  <2>1. On(task, t, k, s[k].id) /\ On(task, t, l, s[k].id) BY <1>2, <1>3 DEF On
  <2> QED BY <2>1 DEF Resolved, OnceEach
<1>4. IsFiniteSet(1..n) /\ Cardinality(1..n) = n
  <2> HIDE DEF n
  <2> QED BY <1>2, FS_Interval
<1> DEFINE at == [k \in 1..n |-> s[k].id]
<1>5. at \in Injection(1..n, Members) BY <1>2, <1>3 DEF Injection, IsInjective
<1> HIDE DEF at, n
<1>6. Cardinality(1..n) <= Cardinality(Members)
  BY <1>4, <1>5, FS_Injection, MembersCounted
<1> QED BY <1>4, <1>6 DEF n

LEMMA ResolvedOnce == ASSUME Bases!BasesAssumption, Resolved PROVE Bases!CompilesOnce
<1> DEFINE under == {w \in Requesters \X (1..Cardinality(Members)) : w[2] <= Len(task[w[1]].stack)}
           IdAt(x) == task[x[1]].stack[x[2]].id
<1>1. Cardinality(Members) \in Nat BY FS_CardinalityType, MembersCounted
<1>2. \A t \in Requesters : task[t].stack \in Seq(Compile) BY DEF Resolved, Called, CallOK, Call
<1>3. \A t, k, i : On(task, t, k, i) <=> <<t, k>> \in under /\ IdAt(<<t, k>>) = i
  <2> TAKE t, k, i
  <2>1. CASE t \notin Requesters BY <2>1 DEF On
  <2>2. CASE t \in Requesters
    <3>1. Len(task[t].stack) <= Cardinality(Members) BY <2>2, Shallow
    <3>2. k \in DOMAIN task[t].stack <=> k \in 1..Cardinality(Members) /\ k <= Len(task[t].stack)
      BY <1>1, <1>2, <2>2, <3>1
    <3> QED BY <2>2, <3>2 DEF On
  <2> QED BY <2>1, <2>2
<1>4. \A x \in under : x = <<x[1], x[2]>> OBVIOUS
<1> HIDE DEF under, IdAt
<1>5. ASSUME NEW i PROVE i \in resolving <=> i \in {IdAt(x) : x \in under}
  <2>1. i \in resolving <=> \E t, k : On(task, t, k, i) BY DEF Resolved, Marked
  <2>2. ASSUME NEW t, NEW k, On(task, t, k, i) PROVE i \in {IdAt(x) : x \in under}
    <3>1. <<t, k>> \in under /\ IdAt(<<t, k>>) = i BY <1>3, <2>2
    <3> QED BY <3>1
  <2>3. ASSUME NEW x \in under, IdAt(x) = i PROVE \E t, k : On(task, t, k, i)
    <3>1. IdAt(<<x[1], x[2]>>) = i /\ <<x[1], x[2]>> \in under BY <1>4, <2>3
    <3>2. On(task, x[1], x[2], i) BY <1>3, <3>1
    <3> QED BY <3>2
  <2> QED BY <2>1, <2>2, <2>3
<1>6. ASSUME NEW x \in under, NEW y \in under, IdAt(x) = IdAt(y) PROVE x = y
  <2>1. On(task, x[1], x[2], IdAt(x)) /\ On(task, y[1], y[2], IdAt(x)) BY <1>3, <1>4, <1>6
  <2>2. x[1] = y[1] /\ x[2] = y[2] BY <2>1 DEF Resolved, OnceEach
  <2> QED BY <1>4, <2>2
<1>7. Bases!Cardinality(Members) = Cardinality(Members) BY MembersCounted
<1> QED BY <1>5, <1>6, <1>7 DEF Bases!CompilesOnce, under, IdAt

RightlyResolved == subject = "bases" => Resolved

LEMMA BasesAlways == PackagesSpec => []RightlyResolved
<1>1. PackagesInit => RightlyResolved
  BY WorkspacesAssumption, BasesStart DEF PackagesInit, RightlyResolved
<1>2. RightlyResolved /\ [PackagesNext]_everything => RightlyResolved'
  <2> SUFFICES ASSUME RightlyResolved, [PackagesNext]_everything, subject' = "bases" PROVE Resolved'
    BY DEF RightlyResolved
  <2>1. subject = "bases" /\ (Bases!Next \/ UNCHANGED resolverVars)
    BY DEF PackagesNext, Composing, Resolving, Producing, Serving, everything
  <2> QED BY <2>1, WorkspacesAssumption, BasesStep, BasesStutter DEF RightlyResolved
<1>3. PackagesSpec => PackagesInit /\ [][PackagesNext]_everything BY DEF PackagesSpec, everything
<1> QED BY <1>1, <1>2, <1>3, PTL

(* The base resolver compiles a member once at a time: no two requests, and   *)
(* no two levels of one, are ever inside the same member's compile, whatever  *)
(* the members bind and however they change meanwhile, and what is marked as  *)
(* being compiled is what is (solution-base-resolver.ts).                   *)
THEOREM CompilesAreSingle == PackagesSpec => [](subject = "bases" => Bases!CompilesOnce)
<1>1. RightlyResolved => (subject = "bases" => Bases!CompilesOnce)
  BY WorkspacesAssumption, ResolvedOnce DEF RightlyResolved
<1> QED BY <1>1, BasesAlways, PTL

(***************************************************************************)
(* The build among the parts, the same way.                                 *)
(***************************************************************************)

LEMMA SameProjects ==
    /\ Build!Ids = Reg!Ids
    /\ \A p : Build!Ref(p) = Reg!Ref(p) /\ Build!Deps(p) = Reg!Deps(p)
              /\ Build!Siblings(p) = Reg!Siblings(p)
    /\ \A S : Build!Closure(S) = Reg!Closure(S)
<1>1. Build!Ids = Reg!Ids
  BY DEF Build!Ids, Reg!Ids, Build!Projects, Reg!Projects, Build!ToSet, Reg!ToSet
<1>2. \A p : Build!Ref(p) = Reg!Ref(p) BY DEF Build!Ref, Reg!Ref
<1>3. \A p : Build!Deps(p) = Reg!Deps(p) BY <1>1 DEF Build!Deps, Reg!Deps
<1>4. \A p : Build!Siblings(p) = Reg!Siblings(p)
  BY <1>1, <1>2 DEF Build!Siblings, Reg!Siblings, Build!ToSet, Reg!ToSet
<1>5. \A S : Build!Closure(S) = Reg!Closure(S) BY <1>1, <1>3 DEF Build!Closure, Reg!Closure
<1> QED BY <1>1, <1>2, <1>3, <1>4, <1>5

LEMMA SameOrder == Build!OrderOf(Build!Projects) = Reg!OrderOf(Reg!Projects)
<1>1. Build!Visit = Reg!Visit
  BY Zenon
  DEF Build!Visit, Reg!Visit, Build!Below, Reg!Below, Build!Walks, Reg!Walks, Build!Edges, Reg!Edges,
      Build!Deps, Reg!Deps, Build!Loop, Reg!Loop, Build!Ids, Reg!Ids, Build!Projects, Reg!Projects,
      Build!ToSet, Reg!ToSet
<1>2. Build!Walks = Reg!Walks BY SameProjects DEF Build!Walks, Reg!Walks
<1> QED
  BY <1>1, <1>2 DEF Build!OrderOf, Reg!OrderOf, Build!Projects, Reg!Projects, Build!Loop, Reg!Loop

LEMMA SamePlan == Build!Plan <=> Reg!Plan
<1>1. \A p : Build!Selected(p) <=> Reg!Selected(p) BY SameProjects DEF Build!Selected, Reg!Selected
<1>2. \A s, S : Build!Only(s, S) = Reg!Only(s, S)
  BY SameProjects DEF Build!Only, Reg!Only, Build!Loop, Reg!Loop
<1> QED BY <1>1, <1>2, SameOrder DEF Build!Plan, Reg!Plan

LEMMA SameAction == Build!Execute <=> Reg!Execute
<1>1. Build!Current = Reg!Current /\ Build!Project = Reg!Project
  BY DEF Build!Current, Reg!Current, Build!Project, Reg!Project
<1>2. \A r : Build!Source(r) = Reg!Source(r)
  BY DEF Build!Source, Reg!Source, Build!External, Reg!External
<1>3. \A b : Build!ReferenceClosure(b) = Reg!ReferenceClosure(b)
  <2>1. \A f : Build!Range(f) = Reg!Range(f) BY DEF Build!Range, Reg!Range
  <2>2. \A r : Build!Recorded(r) = Reg!Recorded(r) BY <1>2 DEF Build!Recorded, Reg!Recorded
  <2>3. Build!References = Reg!References
    BY Zenon
    DEF Build!References, Reg!References, Build!Range, Reg!Range, Build!Ids, Reg!Ids,
        Build!Projects, Reg!Projects, Build!ToSet, Reg!ToSet
  <2> QED BY <2>1, <2>2, <2>3 DEF Build!ReferenceClosure, Reg!ReferenceClosure
<1>4. \A a : Build!Due(a) <=> Reg!Due(a)
  BY DEF Build!Due, Reg!Due, Build!ActionsLeft, Reg!ActionsLeft,
         Build!ActionFailed, Reg!ActionFailed, Build!ToSet, Reg!ToSet
<1>5. (Build!Succeeds <=> Reg!Succeeds) /\ (Build!Fails <=> Reg!Fails)
  BY DEF Build!Succeeds, Reg!Succeeds, Build!Fails, Reg!Fails
<1>6. Build!Elsewhere = Reg!Elsewhere BY DEF Build!Elsewhere, Reg!Elsewhere
<1>7. UNCHANGED Build!Elsewhere <=> UNCHANGED Reg!Elsewhere BY DEF Build!Elsewhere, Reg!Elsewhere
<1>8. Build!ResolveBases <=> Reg!ResolveBases
  BY <1>1, <1>2, <1>3, <1>4, <1>5 DEF Build!ResolveBases, Reg!ResolveBases, Build!Elsewhere, Reg!Elsewhere
<1>9. Build!CompileModel <=> Reg!CompileModel
  BY <1>1, <1>2, <1>4, <1>5, SameProjects
  DEF Build!CompileModel, Reg!CompileModel, Build!Elsewhere, Reg!Elsewhere
<1>10. \A a, f : Build!Stages(a, f) <=> Reg!Stages(a, f)
  BY <1>4, <1>5 DEF Build!Stages, Reg!Stages, Build!Elsewhere, Reg!Elsewhere
<1>11. Build!PublishPackage <=> Reg!PublishPackage
  BY <1>1, <1>4, <1>5, SameProjects
  DEF Build!PublishPackage, Reg!PublishPackage, Build!Elsewhere, Reg!Elsewhere
<1> QED
  BY <1>8, <1>9, <1>10, <1>11
  DEF Build!Execute, Reg!Execute, Build!CompileMural, Reg!CompileMural,
      Build!BakeResources, Reg!BakeResources, Build!EmitBundle, Reg!EmitBundle,
      Build!EmitPackageLayout, Reg!EmitPackageLayout

LEMMA SameBuild == (Build!Init <=> Reg!Init) /\ (Build!Next <=> Reg!Next) /\ buildVars = Reg!vars
<1>1. Build!Init <=> Reg!Init BY SameProjects DEF Build!Init, Reg!Init
<1>2. Build!Project = Reg!Project
  BY DEF Build!Current, Reg!Current, Build!Project, Reg!Project
<1>3. (Build!Building <=> Reg!Building) /\ (Build!Stopped <=> Reg!Stopped)
  BY SameProjects DEF Build!Building, Reg!Building, Build!Stopped, Reg!Stopped
<1>4. (Build!ActionFailed <=> Reg!ActionFailed) /\ (Build!ActionsLeft <=> Reg!ActionsLeft)
  BY DEF Build!ActionsLeft, Reg!ActionsLeft, Build!ActionFailed, Reg!ActionFailed,
         Build!ToSet, Reg!ToSet
<1>5. (Build!Skip <=> Reg!Skip) /\ (Build!Unmet <=> Reg!Unmet) /\ (Build!Begin <=> Reg!Begin)
  BY <1>2, <1>3 DEF Build!Skip, Reg!Skip, Build!Unmet, Reg!Unmet, Build!Begin, Reg!Begin
<1>6. Build!Finish <=> Reg!Finish
  BY <1>2, <1>4, SameProjects DEF Build!Finish, Reg!Finish, Build!Promoted, Reg!Promoted
<1>7. Build!StorageFails <=> Reg!StorageFails
  BY <1>2, <1>3, <1>4 DEF Build!StorageFails, Reg!StorageFails
<1>8. Build!Done <=> Reg!Done BY DEF Build!Done, Reg!Done
<1>9. buildVars = Reg!vars BY DEF buildVars, Reg!vars
<1> QED BY <1>1, <1>5, <1>6, <1>7, <1>8, <1>9, SamePlan, SameAction DEF Build!Next, Reg!Next

LEMMA SameOutcomes ==
    /\ Build!CompiledAgainstFresh <=> Reg!CompiledAgainstFresh
    /\ Build!FailureStops <=> Reg!FailureStops
    /\ Build!OrderSound <=> Reg!OrderSound
    /\ Build!PromotedOnSuccess <=> Reg!PromotedOnSuccess
    /\ Build!TypeOK <=> Reg!TypeOK
<1>1. Build!CompiledAgainstFresh <=> Reg!CompiledAgainstFresh
  BY SameProjects
  DEF Build!CompiledAgainstFresh, Reg!CompiledAgainstFresh, Build!ToSet, Reg!ToSet
<1>2. Build!FailureStops <=> Reg!FailureStops
  BY SameProjects DEF Build!FailureStops, Reg!FailureStops, Build!ToSet, Reg!ToSet
<1>3. Build!OrderSound <=> Reg!OrderSound
  BY SameProjects
  DEF Build!OrderSound, Reg!OrderSound, Build!ToSet, Reg!ToSet, Build!IsInjective, Reg!IsInjective
<1>4. Build!PromotedOnSuccess <=> Reg!PromotedOnSuccess
  BY SameProjects DEF Build!PromotedOnSuccess, Reg!PromotedOnSuccess
<1>5. Build!TypeOK <=> Reg!TypeOK
  BY SameProjects DEF Build!TypeOK, Reg!TypeOK, Build!ToSet, Reg!ToSet, Build!Staged, Reg!Staged
<1> QED BY <1>1, <1>2, <1>3, <1>4, <1>5

Produced == subject = "build"
NotProduced == subject # "build"

(* A behaviour of the parts that starts as a build stays one, of a request.   *)
LEMMA BuildBehaves == PackagesSpec /\ Produced => Reg!Spec /\ []Produced
<1>1. PackagesInit /\ Produced => Reg!Init BY SameBuild DEF PackagesInit, Produced
<1>2. Produced /\ [PackagesNext]_everything => Produced' /\ [Reg!Next]_(Reg!vars)
  BY SameBuild
  DEF PackagesNext, Composing, Resolving, Producing, Serving, everything, buildVars, Produced,
      Reg!vars
<1>3. PackagesSpec => PackagesInit /\ [][PackagesNext]_everything BY DEF PackagesSpec, everything
<1> QED BY <1>1, <1>2, <1>3, PTL DEF Reg!Spec

LEMMA OthersNeverBuild == PackagesSpec /\ NotProduced => []NotProduced
<1>1. NotProduced /\ [PackagesNext]_everything => NotProduced'
  BY DEF PackagesNext, Composing, Resolving, Producing, Serving, everything, NotProduced
<1>2. PackagesSpec => PackagesInit /\ [][PackagesNext]_everything BY DEF PackagesSpec, everything
<1> QED BY <1>1, <1>2, PTL

LEMMA SameAssumption == Reg!BuildAssumption
  BY RequestsAssumption
  DEF Build!BuildAssumption, Reg!BuildAssumption, Build!ToSet, Reg!ToSet, Build!Staged, Reg!Staged

LEMMA SameContained == \A s : Build!SelfContained(s) <=> Reg!SelfContained(s)
  BY DEF Build!SelfContained, Reg!SelfContained, Build!ToSet, Reg!ToSet, Build!Range, Reg!Range

(* Where nothing outside a solution leads back into it but through the copies *)
(* of its projects, a build compiles against its own packages; and every      *)
(* build refuses what is cyclic, builds a target with all it needs in order,  *)
(* stops at the first failure and leaves the output of what failed alone      *)
(* (solution-build-manager.ts, project-build-manager.ts).                   *)
THEOREM BuildsAreSound ==
    ASSUME \A s \in Requests : Build!SelfContained(s)
    PROVE  PackagesSpec => []BuildSound
<1>1. Reg!Spec => [](Reg!OrderSound /\ Reg!FailureStops /\ Reg!PromotedOnSuccess)
  <2>1. Reg!Spec => [](Reg!TypeOK /\ Reg!OrderSound /\ Reg!FailureStops /\ Reg!PromotedOnSuccess)
    BY SameAssumption, Reg!BuildsInOrder
  <2> QED BY <2>1, PTL
<1>2. Reg!Spec => []Reg!CompiledAgainstFresh
  <2>1. Pipeline = Reg!AllStages BY DEF Pipeline, Reg!AllStages
  <2>2. \A s \in Requests : Reg!SelfContained(s) BY SameContained
  <2> QED BY <2>1, <2>2, SameAssumption, Reg!CompilesAgainstFresh
<1>3. /\ Reg!CompiledAgainstFresh /\ Reg!FailureStops
      /\ Reg!OrderSound /\ Reg!PromotedOnSuccess
      => BuildSound
  BY SameOutcomes DEF BuildSound
<1>4. NotProduced => BuildSound BY DEF BuildSound, NotProduced
<1>5. Produced \/ NotProduced BY DEF Produced, NotProduced
<1> QED BY <1>1, <1>2, <1>3, <1>4, <1>5, BuildBehaves, OthersNeverBuild, PTL

(* The variables of every part hold what its code can put there, whatever     *)
(* packages, workspaces, solutions and registries there are.                *)
THEOREM PartsAreTyped == PackagesSpec => []PackagesTypeOK
<1> DEFINE Kept == subject = "service" => Service!RegistriesTypeOK
           Typed == subject = "build" => Build!TypeOK
<1>1. PackagesSpec => []Kept
  <2>1. Reg!RegistriesSpec => []Reg!RegistriesTypeOK
    BY RevisionsAssumption, Reg!RegistriesTyped
    DEF Service!RegistriesAssumption, Reg!RegistriesAssumption
  <2>2. Reg!RegistriesTypeOK => Kept BY SameTypes
  <2>3. NotServed => Kept BY DEF NotServed
  <2>4. Served \/ NotServed BY DEF Served, NotServed
  <2> HIDE DEF Kept
  <2> QED BY <2>1, <2>2, <2>3, <2>4, RegistriesBehave, OthersStay, PTL
<1>2. PackagesSpec => []Typed
  <2>1. Reg!Spec => [](Reg!TypeOK /\ Reg!OrderSound /\ Reg!FailureStops /\ Reg!PromotedOnSuccess)
    BY SameAssumption, Reg!BuildsInOrder
  <2>2. Reg!TypeOK => Typed BY SameOutcomes
  <2>3. NotProduced => Typed BY DEF NotProduced
  <2>4. Produced \/ NotProduced BY DEF Produced, NotProduced
  <2> HIDE DEF Typed
  <2> QED BY <2>1, <2>2, <2>3, <2>4, BuildBehaves, OthersNeverBuild, PTL
<1>3. Composed /\ RightlyResolved /\ Typed /\ Kept => PackagesTypeOK
  BY TypesFollow, ResolvedTyped DEF Composed, RightlyResolved, PackagesTypeOK
<1> HIDE DEF Typed, Kept
<1> QED BY <1>1, <1>2, <1>3, DomainAlways, BasesAlways, PTL
=============================================================================
