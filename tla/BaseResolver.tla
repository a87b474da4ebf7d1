----------------------------- MODULE BaseResolver -----------------------------
(***************************************************************************)
(* SolutionBaseResolver: where a project's bases come from.                *)
(*                                                                         *)
(* An id names a package.  A member of the open solution may produce it    *)
(* live, from its sources; a copy may be published.  TryGet prefers the    *)
(* live one, compiles it against its own bases, found the same way, and    *)
(* caches the result until the member, or one it binds, is invalidated.    *)
(* ResolveBasesFor collects the whole closure of a consumer, live first,   *)
(* without the cache.                                                      *)
(*                                                                         *)
(* A task is one call of TryGet with the compiles below it on a stack; a   *)
(* step is what it does between two awaits.  A package records the stamps  *)
(* of everything it was compiled from: a version of a member's sources, or *)
(* Published.  Every project uses every base it binds, and one binding     *)
(* pins one version, so an id stands for a reference.                      *)
(***************************************************************************)
EXTENDS Naturals, Sequences, FiniteSets, SequencesExt

CONSTANTS Ids,        \* package ids
          Tasks,      \* concurrent calls of TryGet
          Shapes,     \* workspaces a behaviour starts from
          Rebinds,    \* the bindings an edit may give a project
          MaxEdits,   \* edits of a behaviour
          None

Published == 0

VARIABLES open,       \* the members with a storage
          binds,      \* binds[i] : the bases the manifest of i binds, in order
          version,    \* version[i] : of the sources of i
          broken,     \* members whose sources do not compile
          store,      \* store[i] : dependencies of the published copy, or None
          cache,      \* cache[i] : the compiled package, or None
          baseIdsOf,  \* baseIdsOf[i] : the bindings recorded by the last compile
          resolving,  \* the members being compiled
          task,       \* task[t] : stack of compiles, the id asked for, the answer
          notices,    \* members that changed and were not invalidated yet
          edits,
          overlap     \* whether calls and edits overlap in this behaviour

workspace == <<open, binds, version, broken, store>>
vars == <<open, binds, version, broken, store, cache, baseIdsOf, resolving,
          task, notices, edits, overlap>>

Idle == [stack |-> <<>>, ask |-> None, at |-> "idle", answer |-> None]

Init ==
    /\ \E s \in Shapes : /\ open = s.open
                         /\ binds = s.binds
                         /\ broken = s.broken
                         /\ store = s.store
    /\ version = [i \in Ids |-> 1]
    /\ cache = [i \in Ids |-> None]
    /\ baseIdsOf = [i \in Ids |-> {}]
    /\ resolving = {}
    /\ task = [t \in Tasks |-> Idle]
    /\ notices = {}
    /\ edits = 0
    /\ overlap \in BOOLEAN

(* A workspace names known members only.                                   *)
BasesAssumption ==
    /\ IsFiniteSet(Ids) /\ None \notin Ids /\ Rebinds \subseteq Seq(Ids) /\ MaxEdits \in Nat
    /\ \A s \in Shapes : /\ s.open \subseteq Ids /\ s.broken \subseteq Ids
                        /\ s.binds \in [Ids -> Seq(Ids)]
                        /\ s.store \in [Ids -> Seq(Ids) \cup {None}]

-------------------------------------------------------------------------------
(* One call of TryGet                                                      *)

(* What the source behind the resolver answers for i. *)
Inner(i) == IF store[i] = None THEN None
            ELSE [id |-> i, deps |-> store[i], made |-> {<<i, Published>>}]

(* A compile begins: its manifest was read, its bindings are queued. *)
Frame(i) == [id |-> i, queue |-> binds[i], visited |-> {}, found |-> {},
             missing |-> FALSE]

(* The closure walk goes on to the next reference it has not visited, or   *)
(* on to the sources when none is left.                                    *)
Unvisited(f) == {k \in DOMAIN f.queue : f.queue[k] \notin f.visited}

Go(tk, stack, asked) ==
    IF stack = <<>> THEN [tk EXCEPT !.stack = <<>>, !.at = "done", !.answer = asked]
    ELSE LET f == Last(stack)
             k == Min(Unvisited(f))
         IN IF Unvisited(f) = {}
            THEN [tk EXCEPT !.stack = Append(Front(stack), [f EXCEPT !.queue = <<>>]),
                            !.at = "sources"]
            ELSE [tk EXCEPT !.at = "look", !.ask = f.queue[k],
                    !.stack = Append(Front(stack),
                                [f EXCEPT !.queue = SubSeq(@, k + 1, Len(@)),
                                          !.visited = @ \cup {f.queue[k]}])]

(* TryGet returns p, to the closure walk that called it or to its caller. *)
Returned(tk, stack, p) ==
    IF stack = <<>> THEN Go(tk, stack, p)
    ELSE LET f == Last(stack)
         IN Go(tk, Append(Front(stack),
                          IF p = None THEN [f EXCEPT !.missing = TRUE]
                          ELSE [f EXCEPT !.found = @ \cup {p}, !.queue = @ \o p.deps]),
               p)

(* Whether the packages in found stand together under i: an edge to a node *)
(* that is not there, or a node that is there twice, throws.               *)
Throws(i, found) == LET ids == {p.id : p \in found}
                    IN i \in ids \/ \E p \in found : ~(ToSet(p.deps) \subseteq ids)

Cleared(ids) == resolving \ ids

Quiet(t) == overlap \/ \A u \in Tasks \ {t} : task[u].at \in {"idle", "done"}

TryGet(t, i) ==
    /\ task[t].at = "idle"
    /\ Quiet(t)
    /\ overlap \/ notices = {}
    /\ task' = [task EXCEPT ![t] = [Idle EXCEPT !.ask = i, !.at = "look"]]
    /\ UNCHANGED <<workspace, cache, baseIdsOf, resolving, notices, edits, overlap>>

(* The live producer of the id was looked for.  A member whose compile is  *)
(* under way, and an id without an open member, come from the inner source; *)
(* a cached package is returned; anything else begins a compile.           *)
Found(t) ==
    LET tk == task[t]
        i == tk.ask
    IN /\ tk.at = "look"
       /\ IF i \notin open \/ i \in resolving
          THEN /\ task' = [task EXCEPT ![t] = Returned(tk, tk.stack, Inner(i))]
               /\ UNCHANGED <<baseIdsOf, resolving>>
          ELSE IF cache[i] # None
          THEN /\ task' = [task EXCEPT ![t] = Returned(tk, tk.stack, cache[i])]
               /\ UNCHANGED <<baseIdsOf, resolving>>
          ELSE /\ baseIdsOf' = [baseIdsOf EXCEPT ![i] = ToSet(binds[i])]
               /\ resolving' = resolving \cup {i}
               /\ task' = [task EXCEPT ![t] =
                              Go(tk, Append(tk.stack, Frame(i)), None)]
       /\ UNCHANGED <<workspace, cache, notices, edits, overlap>>

(* compileMember ends: the sources were read and compiled.  A package is   *)
(* cached and returned, an error falls back to the published copy, and a   *)
(* throw rejects every call on the stack, each clearing its mark.          *)
Compiled(t) ==
    LET tk == task[t]
        f == Last(tk.stack)
        i == f.id
        p == [id |-> i, deps |-> binds[i],
              made |-> {<<i, version[i]>>} \cup UNION {q.made : q \in f.found}]
    IN /\ tk.at = "sources"
       /\ IF f.missing
          THEN /\ task' = [task EXCEPT ![t] = Returned(tk, Front(tk.stack), Inner(i))]
               /\ resolving' = Cleared({i})
               /\ UNCHANGED cache
          ELSE IF Throws(i, f.found)
          THEN /\ task' = [task EXCEPT ![t] = [Idle EXCEPT !.at = "done"]]
               /\ resolving' = Cleared({tk.stack[k].id : k \in DOMAIN tk.stack})
               /\ UNCHANGED cache
          ELSE IF i \in broken
          THEN /\ task' = [task EXCEPT ![t] = Returned(tk, Front(tk.stack), Inner(i))]
               /\ resolving' = Cleared({i})
               /\ UNCHANGED cache
          ELSE /\ cache' = [cache EXCEPT ![i] = p]
               /\ task' = [task EXCEPT ![t] = Returned(tk, Front(tk.stack), p)]
               /\ resolving' = Cleared({i})
       /\ UNCHANGED <<workspace, baseIdsOf, notices, edits, overlap>>

(* The caller took the answer. *)
Taken(t) ==
    /\ task[t].at = "done"
    /\ task' = [task EXCEPT ![t] = Idle]
    /\ UNCHANGED <<workspace, cache, baseIdsOf, resolving, notices, edits, overlap>>

-------------------------------------------------------------------------------
(* The workspace changes, and the language service says so                 *)

MayChange == /\ edits < MaxEdits
             /\ overlap \/ \A t \in Tasks : task[t].at \in {"idle", "done"}

Edit(i) ==
    /\ MayChange
    /\ i \in open
    /\ \E b \in Rebinds \cup {binds[i]}, x \in BOOLEAN :
          /\ i \notin ToSet(b)
          /\ binds' = [binds EXCEPT ![i] = b]
          /\ broken' = IF x THEN broken \cup {i} ELSE broken \ {i}
    /\ version' = [version EXCEPT ![i] = @ + 1]
    /\ notices' = notices \cup {i}
    /\ edits' = edits + 1
    /\ UNCHANGED <<open, store, cache, baseIdsOf, resolving, task, overlap>>

OpenOrClose(i) ==
    /\ MayChange
    /\ open' = IF i \in open THEN open \ {i} ELSE open \cup {i}
    /\ notices' = notices \cup {i}
    /\ edits' = edits + 1
    /\ UNCHANGED <<binds, version, broken, store, cache, baseIdsOf, resolving,
                   task, overlap>>

(* withDependents: a search from i over the reverse of baseIdsOf. *)
WithDependents[evicted \in SUBSET Ids] ==
    LET more == {i \in Ids : baseIdsOf[i] \cap evicted # {}} \ evicted
    IN IF more = {} THEN evicted ELSE WithDependents[evicted \cup more]

DirectlyEvicted(i) == {i} \cup {j \in Ids : i \in baseIdsOf[j]}

StaleMemberIds(i) == WithDependents[{i}]

Invalidate(i) ==
    /\ i \in notices
    /\ cache' = [j \in Ids |-> IF j \in StaleMemberIds(i) THEN None ELSE cache[j]]
    /\ notices' = notices \ {i}
    /\ UNCHANGED <<workspace, baseIdsOf, resolving, task, edits, overlap>>

(* ActiveSolution changed: another workspace, and clearCache. *)
SwitchSolution ==
    /\ MayChange
    /\ \E s \in Shapes : open' = s.open /\ binds' = s.binds /\ broken' = s.broken
    /\ version' = [i \in Ids |-> version[i] + 1]
    /\ cache' = [i \in Ids |-> None]
    /\ baseIdsOf' = [i \in Ids |-> {}]
    /\ notices' = {}
    /\ edits' = edits + 1
    /\ UNCHANGED <<store, resolving, task, overlap>>

Step(t) == Found(t) \/ Compiled(t) \/ Taken(t)

Next == \/ \E t \in Tasks : Step(t) \/ \E i \in Ids : TryGet(t, i)
        \/ \E i \in Ids : Edit(i) \/ OpenOrClose(i) \/ Invalidate(i)
        \/ SwitchSolution

Spec == Init /\ [][Next]_vars

-------------------------------------------------------------------------------
(* ResolveBasesFor: the closure of a consumer, without the cache           *)

(* What one branch contributed so far: documents in order, each live or    *)
(* published, the problems met, and the published ids seen in this scope.  *)
Contribution == [bases : Seq({"live", "published"} \X Ids),
                 problems : SUBSET ({"notPublished", "local", "cyclic"} \X Ids), seen : SUBSET Ids]
Nothing == [bases |-> <<>>, problems |-> {}, seen |-> {}]

DepsOf(doc) == ToSet(IF doc[1] = "live" THEN binds[doc[2]] ELSE store[doc[2]])

(* CompileLocalWithBases of a producer against the documents in bases. *)
CompilesWith(i, bases) ==
    LET ids == {bases[k][2] : k \in DOMAIN bases}
    IN /\ i \notin broken
       /\ i \notin ids
       /\ ToSet(binds[i]) \subseteq ids
       /\ \A k \in DOMAIN bases : DepsOf(bases[k]) \subseteq ids

ResolvePublishedBase[acc \in Contribution, i \in Ids] ==
    IF i \in acc.seen THEN acc
    ELSE LET met == [acc EXCEPT !.seen = @ \cup {i}]
         IN IF store[i] = None
            THEN [met EXCEPT !.problems = @ \cup {<<"notPublished", i>>}]
            ELSE FoldLeft(LAMBDA sum, j : ResolvePublishedBase[sum, j],
                          [met EXCEPT !.bases = Append(@, <<"published", i>>)],
                          store[i])

OwnScope(acc) == {}

\* child is what the bindings of i contribute, when it is resolved live
ResolveOneBase(acc, i, path, child) ==
    IF i \in open \ path
    THEN LET told == [acc EXCEPT !.problems = @ \cup child.problems]
         IN IF CompilesWith(i, child.bases)
            THEN [told EXCEPT !.bases = @ \o <<<<"live", i>>>> \o child.bases]
            ELSE ResolvePublishedBase[[told EXCEPT !.problems = @ \cup {<<"local", i>>}], i]
    ELSE ResolvePublishedBase[
            IF i \in open
            THEN [acc EXCEPT !.problems = @ \cup {<<"cyclic", i>>}] ELSE acc, i]

ResolveBindings[refs \in Seq(Ids), path \in SUBSET Ids, seen \in SUBSET Ids] ==
    FoldLeft(LAMBDA acc, i : ResolveOneBase(acc, i, path,
                 ResolveBindings[binds[i], path \cup {i}, OwnScope(acc)]),
             [Nothing EXCEPT !.seen = seen], refs)

(* dedupeLiveBases: the first contribution of each document. *)
Deduped(bases) ==
    FoldLeft(LAMBDA docs, d : IF d \in ToSet(docs) THEN docs ELSE Append(docs, d),
             <<>>, bases)

ResolveBasesFor(c) ==
    LET r == ResolveBindings[binds[c], {c}, {}]
    IN [bases |-> Deduped(r.bases), problems |-> r.problems]

-------------------------------------------------------------------------------
(* What it should come to                                                  *)

Bound(i) == ToSet(binds[i]) \cup (IF store[i] = None THEN {} ELSE ToSet(store[i]))

Reach[S \in SUBSET Ids] ==
    LET more == UNION {Bound(i) : i \in S} \ S
    IN IF more = {} THEN S ELSE Reach[S \cup more]

Acyclic == \A i \in Ids : i \notin Reach[Bound(i)]

(* Published packages depend on published packages only. *)
PublishedApart == \A i \in Ids : store[i] # None => ToSet(store[i]) \cap open = {}

(* The package of i, and the closure of bases, when nothing is cached. *)
\* Walk: those the packages of S need, when package[i] is that of i
Walk(package, needed) ==
    LET walk[S \in SUBSET Ids] ==
            LET more == UNION {ToSet(package[i].deps) : i \in {j \in S : package[j] # None}}
            IN IF more \subseteq S THEN S ELSE walk[S \cup more]
    IN walk[needed]

Scratch[i \in Ids] ==
    LET closure == Walk(Scratch, ToSet(binds[i]))
    IN IF i \in open \ broken /\ \A j \in closure : Scratch[j] # None
       THEN [id |-> i, deps |-> binds[i],
             made |-> {<<i, version[i]>>} \cup UNION {Scratch[j].made : j \in closure}]
       ELSE Inner(i)

-------------------------------------------------------------------------------
(* Properties                                                              *)

Packages == [id : Ids, deps : Seq(Ids), made : SUBSET (Ids \X Nat)]

TypeOK ==
    /\ open \subseteq Ids /\ broken \subseteq Ids /\ resolving \subseteq Ids
    /\ notices \subseteq Ids /\ edits \in 0..MaxEdits /\ overlap \in BOOLEAN
    /\ \A i \in Ids : /\ binds[i] \in Seq(Ids) /\ version[i] \in Nat
                      /\ store[i] \in Seq(Ids) \cup {None}
                      /\ cache[i] \in Packages \cup {None}
                      /\ baseIdsOf[i] \subseteq Ids
    /\ \A t \in Tasks : /\ task[t].at \in {"idle", "look", "sources", "done"}
                        /\ task[t].ask \in Ids \cup {None}
                        /\ task[t].answer \in Packages \cup {None}
                        /\ task[t].at = "look" => task[t].ask # None

(* A member is compiled by one call at a time, however calls overlap, and  *)
(* is marked as being compiled exactly while it is: no mark stays after a  *)
(* failure or a throw, which would make its live sources unreachable.      *)
CompilesOnce ==
    LET under == {w \in Tasks \X (1..Cardinality(Ids)) : w[2] <= Len(task[w[1]].stack)}
        IdAt(x) == task[x[1]].stack[x[2]].id
    IN /\ resolving = {IdAt(x) : x \in under}
       /\ \A x, y \in under : IdAt(x) = IdAt(y) => x = y

(* With calls and changes one at a time, whatever sequence of edits,       *)
(* openings, closings, invalidations and switches came before, the cache   *)
(* holds what compiling from scratch would give: no dependent of a change, *)
(* however far, keeps a package made from what is no longer there.         *)
CacheFresh ==
    ~overlap /\ notices = {} /\ Acyclic /\ PublishedApart
        => \A i \in Ids : cache[i] # None => i \in open /\ cache[i] = Scratch[i]

(* The two ways of resolving agree: the closure an editor validates a      *)
(* consumer against holds exactly what a compile of the consumer would be  *)
(* given, each once, live where live sources compile.                      *)
ClosureAgrees ==
    ~overlap /\ Acyclic /\ PublishedApart =>
        \A c \in Ids :
            LET got == ResolveBasesFor(c).bases
            IN /\ IsInjective(got)
               /\ ToSet(got) = {<<IF <<i, version[i]>> \in Scratch[i].made
                                  THEN "live" ELSE "published", i>> :
                                i \in {j \in Walk(Scratch, ToSet(binds[c])) : Scratch[j] # None}}

===============================================================================
