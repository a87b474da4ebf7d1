------------------------------- MODULE Domain -------------------------------
(***************************************************************************)
(* The composed runtime graph: src/src/domain/domain.ts (load, tryUnload,  *)
(* bindGraph), the FrozenGraph it delegates to (graph.ts), and the         *)
(* composition loop of SolutionSession.compose and DomainHost.Compose.     *)
(*                                                                         *)
(* A package is an identity `model@version'; a reference is an identity    *)
(* or a bare model, which is pinned to the source's last version.  A load  *)
(* is an async recursion: each caller has a stack of frames, one per       *)
(* nested load(), and a frame stops at each await.  The edges of a seed    *)
(* are left out: they only extend the references of nodes in the heap.     *)
(***************************************************************************)
EXTENDS Naturals, Sequences, FiniteSets, SequencesExt, FiniteSetsExt, Functions

CONSTANTS
    Package,    \* identities the source knows
    Model,      \* model ids, disjoint from Package
    ModelOf,    \* [Package -> Model]
    Latest,     \* [Model -> Package \cup {None}]: last of versions(model)
    Needs,      \* [Package -> Seq(Package \cup Model)]: dependencies
    Defines,    \* [Package -> SUBSET names]: types and terms of the manifest
    Seed,       \* [Package -> Seq([id, type, class])]
    HostSeeds,  \* set of [nodes, boundTo] that the application may bind
    Flaky,      \* packages whose resolution may be rejected
    Callers,    \* who composes into the domain
    Composes,   \* lists of references a caller may compose
    Runs,       \* bound: compositions per caller
    Overlaps,   \* which overlaps with a load are allowed (chosen in Init)
    None


VARIABLES
    byIdentity,  \* [Package -> manifest or None]; a manifest is [id, no]
    order,       \* finalized manifests, deps first
    refcount,    \* importRefcount
    depsOf,      \* [Package -> Seq(Package) or None]
    heap,        \* node id -> [type, class, origin]
    stack,       \* [Callers -> Seq(frame)]: the loads under way
    todo,        \* [Callers -> Seq(ref)]: members still to load
    diagnostics, \* [Callers -> set of refs]: PackageUnresolved, last compose
    runs,        \* [Callers -> Nat]
    threw,       \* history: some load has thrown
    overlap      \* the overlaps this behaviour allows

registry == <<byIdentity, order, refcount, depsOf>>
vars == <<registry, heap, stack, todo, diagnostics, runs, threw, overlap>>

Ref == Package \cup Model
Node == UNION {{s[i] : i \in DOMAIN s} : s \in Range(Seed)}
            \cup UNION {{h.nodes[i] : i \in DOMAIN h.nodes} : h \in HostSeeds}

\* the n-th object read for a package
Manifests == [id : Package, no : Nat \ {0}]

ASSUME DomainAssumption ==
    /\ IsFiniteSet(Package) /\ IsFiniteSet(Callers)
    /\ Package \cap Model = {}
    /\ None \notin Package /\ None \notin Manifests /\ None \notin Seq(Package)
    /\ ModelOf \in [Package -> Model] /\ Latest \in [Model -> Package \cup {None}]
    /\ Needs \in [Package -> Seq(Ref)] /\ Composes \subseteq Seq(Ref)
    /\ DOMAIN Seed = Package /\ \A p \in Package : Seed[p] \in Seq(Node)
    /\ \A h \in HostSeeds : h.nodes \in Seq(Node)
    /\ \A n \in Node : n = [id |-> n.id, type |-> n.type, class |-> n.class]
    /\ Overlaps \subseteq SUBSET {"loads", "unload"}

-----------------------------------------------------------------------------
(* Lookups *)

Pinned(ref) == IF ref \in Package THEN ref ELSE Latest[ref]

\* getManifest: by identity, or the last finalized manifest of the model
GetManifest(ref) ==
    IF ref \in Package THEN byIdentity[ref]
    ELSE LET mine == {i \in DOMAIN order : ModelOf[order[i].id] = ref}
         IN  IF mine = {} THEN None ELSE order[Max(mine)]

\* ownerOf: some finalized manifest defines the name
Owned(manifests, name) == \E i \in DOMAIN manifests : name \in Defines[manifests[i].id]

Binds(node, id) == node.type \in Defines[id] \/ node.class \in Defines[id]

Top(c) == Last(stack[c])
At(c, stage) == stack[c] # <<>> /\ Top(c).at = stage
Loading == {c \in Callers : stack[c] # <<>>}
Busy == {c \in Callers : stack[c] # <<>> \/ todo[c] # <<>>}

\* a manifest object not in use: two loads of one identity make two objects
Fresh(id) ==
    LET used == {byIdentity[id]} \cup Range(order)
                   \cup UNION {{f.manifest : f \in Range(stack[c])} : c \in Callers}
    IN  CHOOSE m \in {[id |-> id, no |-> n] : n \in 1 .. Cardinality(used) + 1} :
            m \notin used /\ \A n \in 1 .. m.no - 1 : [id |-> id, no |-> n] \in used

NewFrame(ref) == [at |-> "pin", ref |-> ref, manifest |-> None, deps |-> <<>>, got |-> None]

\* mutant of Return: the finished frame stays
ReturnBelow(c, id) ==
    IF Len(stack[c]) = 1 THEN <<>>
    ELSE [stack[c] EXCEPT ![Len(stack[c]) - 1].at = "returned", ![Len(stack[c]) - 1].got = id]

\* load() returns: the frame goes, the awaiting one resumes later
Return(c, id) ==
    LET below == Front(stack[c]) IN
    IF below = <<>> THEN <<>>
    ELSE Append(Front(below), [Last(below) EXCEPT !.at = "returned", !.got = id])

\* an exception leaves every frame; compose records the member and goes on
Throw(c, member) ==
    /\ stack' = [stack EXCEPT ![c] = <<>>]
    /\ diagnostics' = [diagnostics EXCEPT ![c] = @ \cup {member}]
    /\ threw' = TRUE

-----------------------------------------------------------------------------
(* Composition: members are loaded one after the other *)

Compose(c, members) ==
    /\ c \notin Busy
    /\ "loads" \in overlap \/ Busy = {}
    /\ runs[c] < Runs
    /\ todo' = [todo EXCEPT ![c] = members]
    /\ diagnostics' = [diagnostics EXCEPT ![c] = {}]
    /\ runs' = [runs EXCEPT ![c] = @ + 1]
    /\ UNCHANGED <<registry, heap, stack, threw, overlap>>

Load(c) ==
    /\ stack[c] = <<>>
    /\ todo[c] # <<>>
    /\ stack' = [stack EXCEPT ![c] = <<NewFrame(Head(todo[c]))>>]
    /\ todo' = [todo EXCEPT ![c] = Tail(@)]
    /\ UNCHANGED <<registry, heap, diagnostics, runs, threw, overlap>>

Existing(id) == byIdentity[id] # None

Pin(c) ==
    /\ At(c, "pin")
    /\ LET id == Pinned(Top(c).ref) IN
       /\ IF id = None
          THEN Throw(c, stack[c][1].ref)
          ELSE /\ stack' = [stack EXCEPT ![c] =
                     IF Existing(id) THEN Return(c, id)
                     ELSE Append(Front(@), [Top(c) EXCEPT !.at = "resolve", !.got = id])]
               /\ UNCHANGED <<diagnostics, threw>>
    /\ UNCHANGED <<registry, heap, todo, runs, overlap>>

\* the source, or a handler of onResolveManifest, rejects the reference
Reject(c) ==
    /\ At(c, "resolve")
    /\ Top(c).got \in Flaky
    /\ Throw(c, stack[c][1].ref)
    /\ UNCHANGED <<registry, heap, todo, runs, overlap>>

-----------------------------------------------------------------------------
(* The body of load(): dependencies one by one, then finalization *)

\* BindSeed stops with an exception at the first node of an unknown type
Bindable(nodes, manifests) ==
    LET bad == {i \in DOMAIN nodes : ~Owned(manifests, nodes[i].type)}
    IN  IF bad = {} THEN nodes ELSE SubSeq(nodes, 1, Min(bad) - 1)

Bound(nodes, origin) ==
    LET ids == {nodes[i].id : i \in DOMAIN nodes}
        lastOf(n) == nodes[Max({i \in DOMAIN nodes : nodes[i].id = n})]
    IN  [n \in ids \cup DOMAIN heap |->
            IF n \in ids THEN [type |-> lastOf(n).type, class |-> lastOf(n).class, origin |-> origin]
            ELSE heap[n]]

\* a manifest joins `order' after its dependencies
Finalized(manifest) == Append(order, manifest)

Finish(c, manifest, deps) ==
    LET id == manifest.id
        bound == Bindable(Seed[id], Finalized(manifest))
    IN  /\ depsOf' = [depsOf EXCEPT ![id] = deps]
        /\ order' = Finalized(manifest)
        /\ heap' = Bound(bound, id)
        /\ IF bound = Seed[id]
           THEN /\ stack' = [stack EXCEPT ![c] = Return(c, id)]
                /\ UNCHANGED <<diagnostics, threw>>
           ELSE Throw(c, stack[c][1].ref)

\* the next dependency, or the end of the body
Continue(c, manifest, deps) ==
    IF Len(deps) < Len(Needs[manifest.id])
    THEN /\ stack' = [stack EXCEPT ![c] =
                Append(Append(Front(@), [Top(c) EXCEPT !.at = "deps", !.manifest = manifest, !.deps = deps]),
                       NewFrame(Needs[manifest.id][Len(deps) + 1]))]
         /\ UNCHANGED <<order, depsOf, heap, diagnostics, threw>>
    ELSE Finish(c, manifest, deps)

\* PreRegister: resolvable by identity before the dependencies load
PreRegistered(manifest) == [byIdentity EXCEPT ![manifest.id] = manifest]

Resolve(c) ==
    /\ At(c, "resolve")
    /\ LET manifest == Fresh(Top(c).got) IN
       /\ byIdentity' = PreRegistered(manifest)
       /\ Continue(c, manifest, <<>>)
    /\ UNCHANGED <<refcount, todo, runs, overlap>>

Counted(dep) == [refcount EXCEPT ![dep] = @ + 1]

Resume(c) ==
    /\ At(c, "returned")
    /\ LET f == Top(c) IN
       /\ refcount' = Counted(f.got)
       /\ Continue(c, f.manifest, Append(f.deps, f.got))
    /\ UNCHANGED <<byIdentity, todo, runs, overlap>>

-----------------------------------------------------------------------------
(* Unloading, and the application's own nodes *)

Imported(id) == refcount[id] > 0
ForeignBound(id) == \E n \in DOMAIN heap : Binds(heap[n], id) /\ heap[n].origin # id

Evicted(id) == Restrict(heap, {n \in DOMAIN heap : heap[n].origin # id})

\* mutant of Released: unloading keeps the counts
NotReleased(deps) == refcount
Released(deps) ==
    [p \in Package |->
        LET times == Cardinality({i \in DOMAIN deps : deps[i] = p})
        IN  IF refcount[p] < times THEN 0 ELSE refcount[p] - times]

Deregistered(id) ==
    LET at == {i \in DOMAIN order : order[i] = byIdentity[id]}
    IN  IF at = {} THEN order ELSE RemoveAt(order, Min(at))

TryUnload(ref) ==
    /\ "unload" \in overlap \/ Busy = {}
    /\ GetManifest(ref) # None
    /\ LET id == GetManifest(ref).id IN
       /\ ~Imported(id)
       /\ ~ForeignBound(id)
       /\ heap' = Evicted(id)
       /\ refcount' = IF depsOf[id] = None THEN refcount ELSE Released(depsOf[id])
       /\ depsOf' = [depsOf EXCEPT ![id] = None]
       /\ order' = IF byIdentity[id] = None THEN order ELSE Deregistered(id)
       /\ byIdentity' = [byIdentity EXCEPT ![id] = None]
    /\ UNCHANGED <<stack, todo, diagnostics, runs, threw, overlap>>

\* bindGraph: the nodes before the first unknown type stay, then it throws
BindGraph(seed) ==
    /\ heap' = Bound(Bindable(seed.nodes, order), seed.boundTo)
    /\ heap' # heap
    /\ UNCHANGED <<registry, stack, todo, diagnostics, runs, threw, overlap>>

-----------------------------------------------------------------------------

Init ==
    /\ byIdentity = [p \in Package |-> None]
    /\ order = <<>>
    /\ refcount = [p \in Package |-> 0]
    /\ depsOf = [p \in Package |-> None]
    /\ heap = <<>>
    /\ stack = [c \in Callers |-> <<>>]
    /\ todo = [c \in Callers |-> <<>>]
    /\ diagnostics = [c \in Callers |-> {}]
    /\ runs = [c \in Callers |-> 0]
    /\ threw = FALSE
    /\ overlap \in Overlaps

Next ==
    \/ \E c \in Callers :
        \/ \E members \in Composes : Compose(c, members)
        \/ Load(c) \/ Pin(c) \/ Reject(c) \/ Resolve(c) \/ Resume(c)
    \/ \E ref \in Ref : TryUnload(ref)
    \/ \E seed \in HostSeeds : BindGraph(seed)

Spec == Init /\ [][Next]_vars

-----------------------------------------------------------------------------
(* Properties *)

\* Types of every part of the registry, the heap and the loads under way.
TypeOK ==
    /\ byIdentity \in [Package -> Manifests \cup {None}]
    /\ \A i \in DOMAIN order : order[i] \in Manifests
    /\ refcount \in [Package -> Nat]
    /\ \A p \in Package : depsOf[p] # None => Range(depsOf[p]) \subseteq Package
    /\ \A n \in DOMAIN heap : [id |-> n, type |-> heap[n].type, class |-> heap[n].class] \in Node
    /\ \A c \in Callers : \A i \in DOMAIN stack[c] :
           /\ stack[c][i].at \in {"pin", "resolve", "deps", "returned"}
           /\ i < Len(stack[c]) => stack[c][i].at = "deps"
    /\ \A c \in Callers : diagnostics[c] \subseteq Ref
    /\ overlap \in Overlaps

\* a chain of dependencies leads from one package to the other
Closed(S) == \A p \in S : \A i \in DOMAIN Needs[p] : Pinned(Needs[p][i]) \in S \cup {None}
Reaches(from, to) == \A S \in SUBSET Package : from \in S /\ Closed(S) => to \in S

\* Left by a load that threw: resolvable by identity and never finalized.
Husk(id) == byIdentity[id] # None /\ byIdentity[id] \notin Range(order)

\* Manifests are finalized deps first (the comments on `manifests' and on
\* Finalize): with one composition at a time, each recorded dependency comes
\* earlier in the order, unless the two are on a cycle or the dependency is
\* what an earlier failed load left behind.
DepsFirst ==
    "loads" \notin overlap =>
        \A i \in DOMAIN order :
            LET id == order[i].id IN
            \A d \in Range(depsOf[id]) :
                \/ \E j \in 1 .. i - 1 : order[j].id = d
                \/ Reaches(d, id)
                \/ Husk(d)

\* What a loaded manifest imports stays registered for as long as it is
\* loaded, whatever is unloaded in between, provided no unload lands inside
\* a load (guard B of tryUnload and the counts load keeps).
DependentsKept ==
    \A p \in Package : depsOf[p] # None =>
        \A d \in Range(depsOf[p]) : byIdentity[d] # None

Imports(d) ==
    UNION {{<<p, i>> : i \in {j \in DOMAIN depsOf[p] : depsOf[p][j] = d}} :
              p \in {q \in Package : depsOf[q] # None}}

\* While no load is under way an import count is at least the number of
\* loaded importers, and exactly that number when no load ever threw and
\* loads did not overlap: then every unused package can be unloaded.
RefcountsHonest ==
    Loading = {} =>
        \A d \in Package :
            /\ refcount[d] >= Cardinality(Imports(d))
            /\ ~threw /\ "loads" \notin overlap => refcount[d] = Cardinality(Imports(d))

\* Every node in the heap keeps a loaded manifest that defines its type, so
\* reflect() never fails on it (guard A of tryUnload, the check of BindSeed).
HeapReflects ==
    \A n \in DOMAIN heap : Owned(order, heap[n].type)

\* The cycle guard: one recursion never resolves a package twice.
CycleGuarded ==
    \A c \in Callers : \A i, j \in DOMAIN stack[c] :
        i # j /\ stack[c][i].at = "deps" /\ stack[c][j].at = "deps"
            => stack[c][i].manifest.id # stack[c][j].manifest.id
=============================================================================
