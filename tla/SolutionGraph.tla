---------------------------- MODULE SolutionGraph ---------------------------
(***************************************************************************)
(* SolutionGraph (src/solution-services/lsp/host/solution-graph.ts): the   *)
(* one model of the open solution, built whole or revised in place by      *)
(* member and by file.  Every call is synchronous: one action each.        *)
(*                                                                         *)
(* `text` is the caller's side, what the workspace's files say now: the    *)
(* host passes a member's current texts with every call, so a text the     *)
(* graph refused earlier comes along with the next edit of a sibling.      *)
(***************************************************************************)
EXTENDS ModelBuild, Sequences

CONSTANT Habits
  (* How the user and the subscribers may behave, by name:                 *)
  (*   suites           what the workspace may hold: each suite says the   *)
  (*                    texts some of the files may come to hold together  *)
  (*   mends            the user mends a refused text before touching a    *)
  (*                    sibling                                            *)
  (*   attributed       what refers to another file of its member by an    *)
  (*                    edge refers to it by an attribute too              *)
  (*   subscriberFails  a Changed subscriber may throw                     *)

(* The targets of d's edges that f's text t does not itself declare, but    *)
(* another file of its member may.                                          *)
SiblingTargets(suite, f, t, d) ==
  {n \in d.edges \ {e.name : e \in t} :
     \E g \in (DOMAIN suite \ {f}) \cap FilesOf({Home[f]}) : \E u \in suite[g] : n \in {e.name : e \in u}}

ASSUME TextsAssumption ==
  \A name \in DOMAIN Habits :
    /\ Habits[name].mends \in BOOLEAN /\ Habits[name].subscriberFails \in BOOLEAN
    /\ Habits[name].attributed \in BOOLEAN
    /\ Habits[name].attributed =>
         \A suite \in Habits[name].suites : \A f \in DOMAIN suite : \A t \in suite[f] : \A d \in t :
           SiblingTargets(suite, f, t, d) \subseteq d.attrs
    /\ \A suite \in Habits[name].suites :
          DOMAIN suite \subseteq Files /\ suite \in [DOMAIN suite -> SUBSET Texts]

VARIABLES
  members,     \* state.membersById
  sourcesOf,   \* state.sourcesOf, by file
  graph,       \* state.model, provenance, memberOf, loadDiagsByMember
  text,        \* the workspace's texts, by file
  call,        \* the last call: what it asked, what it emitted, did it throw
  habit        \* the habit of this behaviour

vars == <<members, sourcesOf, graph, text, call, habit>>

Changes == [memberIds : SUBSET Members, fileIds : SUBSET Files]
NoSources == [f \in {} |-> {}]
Ask(op, ms, sources) == [op |-> op, members |-> ms, sources |-> sources]

(* The workspaces a caller can have.                                       *)
Workspaces(suite, fs) ==
  {w \in UNION {[gs -> UNION {suite[f] : f \in gs}] : gs \in SUBSET (fs \cap DOMAIN suite)} :
     \A f \in DOMAIN w : w[f] \in suite[f]}
Fits(w, suite) == \A f \in DOMAIN w : f \in DOMAIN suite /\ w[f] \in suite[f]

Init ==
  /\ members = {} /\ sourcesOf = NoSources /\ graph = EmptyGraph
  /\ habit \in DOMAIN Habits
  /\ \E suite \in Habits[habit].suites : text \in Workspaces(suite, Files)
  /\ call = [request |-> Ask("none", {}, NoSources), emitted |-> <<>>, thrown |-> FALSE]

(* The parts of a source set that belong, and do not belong, to a member.  *)
Of(sources, m) == Restrict(sources, DOMAIN sources \cap FilesOf({m}))
Others(sources, m) == Restrict(sources, DOMAIN sources \ FilesOf({m}))
Merge(s, t) == [f \in DOMAIN s \cup DOMAIN t |-> IF f \in DOMAIN t THEN t[f] ELSE s[f]]

FileIdsFor(g, ms) == {g.node[n].file : n \in DOMAIN g.node} \cap FilesOf(ms)
Whole(g, ms) == [memberIds |-> ms, fileIds |-> FileIdsFor(g, ms)]

(* Does this emit throw?                                                   *)
Throws == IF Habits[habit].subscriberFails THEN BOOLEAN ELSE {FALSE}

Finish(asked, sources, g, emitted, thrown) ==
  /\ sourcesOf' = sources /\ graph' = g
  /\ call' = [request |-> asked, emitted |-> emitted, thrown |-> thrown]

(***************************************************************************)
(* Building and repairing.                                                 *)
(***************************************************************************)
(* Variant: the closed members' recorded sources survive a build.          *)
BuildIntoLive(ms) ==
  LET w == Restrict(text, DOMAIN text \cap FilesOf(ms)) IN
  /\ UNCHANGED text
  /\ Buildable(ms, w) /\ members' = ms
  /\ Finish(Ask("open", ms, w), Merge(sourcesOf, w), FullBuild(ms, w), <<>>, FALSE)

(* BuildInternal: order first, assemble aside, swap, emit.                 *)
Build(ms) ==
  LET w == Restrict(text, DOMAIN text \cap FilesOf(ms))
      g == FullBuild(ms, w)
  IN /\ UNCHANGED text
     /\ IF Buildable(ms, w)
        THEN /\ members' = ms
             /\ \E boom \in Throws : Finish(Ask("open", ms, w), w, g, <<Whole(g, ms)>>, boom)
        ELSE /\ UNCHANGED members
             /\ Finish(Ask("open", ms, w), sourcesOf, graph, <<>>, TRUE)

(* The last-good sources come back and rebuild; g is what the live state   *)
(* holds meanwhile, and stays if those sources do not build either.        *)
Restore(asked, prior, g, emitted) ==
  LET good == FullBuild(members, prior) IN
  IF Buildable(members, prior)
  THEN \E boom \in Throws :
         Finish(asked, prior, good, Append(emitted, Whole(good, members)), boom)
  ELSE Finish(asked, prior, g, emitted, TRUE)

(* Variant: the last-good sources come back at once.                       *)
RepairWithoutRetry(asked, prior, half) == Restore(asked, prior, half, <<>>)

(* RepairFailedReplace: rebuild with the edit; whatever that throws, a     *)
(* subscriber's exception included, the last-good sources come back.       *)
RepairFailedReplace(asked, prior, half) ==
  LET g == FullBuild(members, asked.sources) IN
  IF Buildable(members, asked.sources)
  THEN \E boom \in Throws :
         IF boom THEN Restore(asked, prior, g, <<Whole(g, members)>>)
         ELSE Finish(asked, asked.sources, g, <<Whole(g, members)>>, FALSE)
  ELSE Restore(asked, prior, half, <<>>)

(* With resolution rules about, every edit is a rebuild; only a failure    *)
(* before the swap is repaired, and its first rebuild fails the same way.  *)
RebuildWithRules(asked, prior) ==
  LET g == FullBuild(members, asked.sources) IN
  IF Buildable(members, asked.sources)
  THEN \E boom \in Throws : Finish(asked, asked.sources, g, <<Whole(g, members)>>, boom)
  ELSE RepairFailedReplace(asked, prior, graph)

(***************************************************************************)
(* Reloading members.                                                      *)
(***************************************************************************)
(* What is loaded of the files fs when their load throws: the members      *)
(* before the first that does not load.                                    *)
LoadedPrefix(g, sources, fs) ==
  LoadFiles(g, sources, {f \in fs : Loadable(g, sources, UpTo(fs, f))})

(* g is stripped of the files fs of whole members: load them, or repair.   *)
LoadOrRepair(asked, prior, g, fs, change(_)) ==
  IF Loadable(g, asked.sources, fs)
  THEN LET loaded == Resolved(LoadFiles(g, asked.sources, fs)) IN
       \E boom \in Throws : Finish(asked, asked.sources, loaded, <<change(loaded)>>, boom)
  ELSE RepairFailedReplace(asked, prior, LoadedPrefix(g, asked.sources, fs))

(* Variant: the change names the revised member only.                      *)
MemberChangeOfOne(g, m, dependents) ==
  [memberIds |-> {m}, fileIds |-> FileIdsFor(g, {m} \cup dependents)]

MemberChange(g, m, dependents) == Whole(g, {m} \cup dependents)

(* The member and its transitive dependents are stripped and reloaded.     *)
ReplaceMember(m, w) ==
  LET sources == Merge(Others(sourcesOf, m), w)
      asked == Ask("revise", members, sources)
      dependents == DependentsOf(members, m)
      affected == {m} \cup dependents
      change(g) == MemberChange(g, m, dependents)
  IN /\ text' = Merge(Others(text, m), w)
     /\ UNCHANGED members
     /\ IF m \notin members
        THEN Finish(Ask("unknown", {}, NoSources), sourcesOf, graph, <<>>, TRUE)
        ELSE IF HasResolutionRules(graph) THEN RebuildWithRules(asked, sourcesOf)
        ELSE LoadOrRepair(asked, sourcesOf, Strip(graph, FilesOf(affected)),
                          FilesOf(affected), change)

(***************************************************************************)
(* Reloading a file and its referrer cone.                                 *)
(***************************************************************************)
(* A node's live references: those it stores and its out-edges.            *)
RefsOf(g, n) == g.node[n].attrs \cup {e[2] : e \in {x \in g.edges : x[1] = n}}

(* Files of m with a node that refers to a seed, directly or through other *)
(* nodes.                                                                  *)
ReferrerFiles(g, m, seeds) ==
  LET fresh == DOMAIN g.node \ seeds
      frontier[k \in 0..Cardinality(DOMAIN g.node)] ==
        LET known == IF k = 0 THEN seeds ELSE frontier[k - 1] IN
        known \cup {n \in fresh : RefsOf(g, n) \cap known # {}}
      referrers == frontier[Cardinality(DOMAIN g.node)] \ seeds
  IN {g.node[n].file : n \in referrers} \cap FilesOf({m})

(* Files of m with an unresolved reference.                                *)
DanglingReferenceFiles(g, m) == {f \in FilesOf({m}) : g.unresolved[f] # {}}

(* One round of the loop: the cone so far is stripped and reloaded         *)
(* together; referrers to its prior and current nodes, and, when the model *)
(* gained ids, the files with dangling references, widen it.               *)
Round(r, m, sources) ==
  LET stripped == Strip(r.graph, r.files)
      loaded == LoadFiles(stripped, sources, r.files)
      homed(g) == {n \in DOMAIN g.node : g.node[n].file \in r.files}
      gained == DOMAIN loaded.node \ DOMAIN graph.node
  IN IF ~Loadable(stripped, sources, r.files)
     THEN [r EXCEPT !.graph = stripped, !.failed = TRUE]
     ELSE [graph |-> loaded, failed |-> FALSE,
           files |-> r.files
             \cup ReferrerFiles(loaded, m, homed(graph) \cup homed(loaded))
             \cup (IF gained # {} THEN DanglingReferenceFiles(loaded, m) ELSE {})]

(* The rounds, to the fixpoint or the one that throws.                     *)
Cone(f, m, sources) ==
  LET round[k \in 0..Cardinality(FilesOf({m}))] ==
        LET r == IF k = 0 THEN [graph |-> graph, files |-> {f}, failed |-> FALSE]
                 ELSE round[k - 1]
        IN IF r.failed THEN r ELSE Round(r, m, sources)
  IN round[Cardinality(FilesOf({m}))]

FileChange(files, m, dependents, sources) ==
  [memberIds |-> {m} \cup dependents,
   fileIds |-> files \cup (FilesOf(dependents) \cap DOMAIN sources)]

(* The files whose text the graph refused, or was never told.              *)
At(s, f) == IF f \in DOMAIN s THEN {s[f]} ELSE {}
Drafts == {f \in FilesOf(members) : At(text, f) # At(sourcesOf, f)}

(* The owner is found among the recorded sources; the cone reloads, then   *)
(* every dependent member whole.                                           *)
ReplaceFile(f, t) ==
  LET m == Home[f]
      w == Merge(Of(text, m), [g \in {f} |-> t])
      sources == Merge(Others(sourcesOf, m), w)
      asked == Ask("revise", members, sources)
      dependents == DependentsOf(members, m)
      cone == Cone(f, m, sources)
      change(g) == FileChange(cone.files, m, dependents, sources)
  IN /\ Habits[habit].mends => Drafts \cap FilesOf({m}) \subseteq {f}
     /\ text' = Merge(text, [g \in {f} |-> t])
     /\ UNCHANGED members
     /\ IF f \notin DOMAIN sourcesOf
        THEN Finish(Ask("unknown", {}, NoSources), sourcesOf, graph, <<>>, TRUE)
        ELSE IF HasResolutionRules(graph) THEN RebuildWithRules(asked, sourcesOf)
        ELSE IF cone.failed THEN RepairFailedReplace(asked, sourcesOf, cone.graph)
        ELSE LoadOrRepair(asked, sourcesOf, Strip(cone.graph, FilesOf(dependents)),
                          FilesOf(dependents), change)

Next ==
  UNCHANGED habit /\ \E suite \in Habits[habit].suites :
    LET known == {Home[f] : f \in DOMAIN suite} IN
    /\ Fits(text, suite) /\ members \subseteq known
    /\ \/ \E ms \in SUBSET known : Build(ms)
       \/ \E m \in known : \E w \in Workspaces(suite, FilesOf({m})) : ReplaceMember(m, w)
       \/ \E f \in DOMAIN suite : \E t \in suite[f] : ReplaceFile(f, t)

Spec == Init /\ [][Next]_vars

(***************************************************************************)
(* Properties.                                                             *)
(***************************************************************************)
(* Every variable keeps its shape.                                         *)
TypeOK ==
  /\ members \subseteq Members
  /\ IsSources(text) /\ IsSources(sourcesOf) /\ DOMAIN sourcesOf \subseteq FilesOf(members)
  /\ IsGraph(graph)
  /\ call.emitted \in Seq(Changes) /\ Len(call.emitted) <= 2
  /\ call.thrown \in BOOLEAN

(* Model.danglingRefs() is empty at all times: every edge joins two nodes  *)
(* of the model, whatever was refused, repaired or reloaded before.        *)
EdgesHaveEnds == graph.edges \subseteq (DOMAIN graph.node) \X (DOMAIN graph.node)

(* An edit is reverted only if it does not build: an incremental load or a *)
(* subscriber that throws does not cost the user the edit.                 *)
EditHonoured ==
  call.request.op = "revise" /\ Buildable(members, call.request.sources)
    => sourcesOf = call.request.sources

(* However an edit of a known member ends, Changed has fired: "either way  *)
(* the state ends consistent and a Changed event has fired".               *)
EveryEditEmits == call.request.op = "revise" => call.emitted # <<>>

(* However an edit ends, refused, repaired or loaded: no edge dangles and  *)
(* an edit that builds is not reverted.  While the user mends refused      *)
(* texts, Changed fires, whoever throws.                                   *)
RevisionsSound ==
  /\ EdgesHaveEnds /\ EditHonoured
  /\ Habits[habit].mends => EveryEditEmits

(* While the user mends refused texts, the code promises the model below:  *)
(* an edit that builds takes effect whole, one that does not changes       *)
(* nothing, and never is the model anything but a full build of the        *)
(* sources in force, in which every stored reference names a node.  It     *)
(* keeps the promise where no file refers to a sibling by an edge alone.   *)
WhileMending(value, otherwise) == IF Habits[habit].mends THEN value ELSE otherwise
Promised(value, otherwise) == IF Habits[habit].attributed THEN WhileMending(value, otherwise) ELSE otherwise
Model == INSTANCE SolutionModel
  WITH members <- Promised(members, {}), sources <- Promised(sourcesOf, NoSources),
       graph <- Promised(graph, EmptyGraph),
       request <- Promised(call.request, Ask("none", {}, NoSources))

(* Where one does, ReplaceFile still owes it a full build ("references the  *)
(* changed set - by edge, ..."), but the model can lack such a file's edges *)
(* and diagnostics: reloading the sibling drops the edge before the         *)
(* referrers are looked for.  Nothing else of a full build is missing, and  *)
(* nothing is there that it has not.                                        *)
EdgeOnlyFiles ==
  {f \in DOMAIN sourcesOf : \E d \in sourcesOf[f] : \E g \in FilesOf({Home[f]}) \ {f} :
     \E suite \in Habits[habit].suites : g \in DOMAIN suite /\ \E u \in suite[g] : \E e \in u :
       e.name \in d.edges \ d.attrs}
OnlySiblingEdgesLost ==
  LET built == FullBuild(members, sourcesOf) IN
  /\ graph.node = built.node /\ graph.folded = built.folded
  /\ graph.edges \subseteq built.edges
  /\ \A e \in built.edges \ graph.edges : built.node[e[1]].file \in EdgeOnlyFiles
  /\ \A f \in Files : /\ graph.unresolved[f] \subseteq built.unresolved[f]
                      /\ f \notin EdgeOnlyFiles => graph.unresolved[f] = built.unresolved[f]

(* While the user mends refused texts, builds and revisions implement the   *)
(* model, but for the edges and diagnostics of files that refer to a        *)
(* sibling by an edge alone.                                                *)
ImplementsModel == Model!Spec /\ [](Habits[habit].mends => OnlySiblingEdgesLost)

(* A subscriber that refreshes only what a revision's changes name misses  *)
(* nothing: each node, out-edge or load diagnostic the call changed lies   *)
(* in a member they name, and a node that changed and stays in a file too. *)
OutEdges(g, n) == {e \in g.edges : e[1] = n}
Changed(g, h) ==
  {n \in DOMAIN g.node : n \notin DOMAIN h.node
                         \/ g.node[n] # h.node[n] \/ OutEdges(g, n) # OutEdges(h, n)}
ChangeCovers ==
  [][LET told == {call'.emitted[i] : i \in DOMAIN call'.emitted}
         memberIds == UNION {c.memberIds : c \in told}
         fileIds == UNION {c.fileIds : c \in told}
         gone == {graph.node[n].file : n \in Changed(graph, graph')}
         here == {graph'.node[n].file : n \in Changed(graph', graph)}
         diagnosed == {f \in Files : graph.unresolved[f] # graph'.unresolved[f]}
     IN Habits[habit].mends /\ call'.request.op = "revise" =>
          /\ gone \cup here \cup diagnosed \subseteq FilesOf(memberIds)
          /\ Habits[habit].attributed => here \subseteq fileIds]_vars
=============================================================================
