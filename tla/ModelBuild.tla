----------------------------- MODULE ModelBuild -----------------------------
(***************************************************************************)
(* What one pass of the loader (compiler-services/parse/loader.ts, with    *)
(* model/builder.ts) does to the solution's one model, and what a full     *)
(* build of a set of members gives.  Pure operators: SolutionModel states  *)
(* the solution's promise with them, SolutionGraph the incremental code.   *)
(*                                                                         *)
(* A text is the set of declarations it parses to.  A declaration names    *)
(* others in two ways the code treats differently: an attribute reference  *)
(* (a field's type, an instance's type, `conforms`) is stored on the node, *)
(* an edge reference (`extends`, a relationship) only as an edge.          *)
(***************************************************************************)
EXTENDS Integers, FiniteSets, Functions

CONSTANTS
  Members,    \* member ids
  Files,      \* source uris
  Home,       \* the member whose folder holds a file
  BaseIds,    \* a member's declared bases
  Rank,       \* the order TopoOrder loads members in
  Names,      \* node ids
  RuleNames   \* those that declare an identity, match or merge rule

ASSUME BuildAssumption ==
  /\ IsFiniteSet(Members) /\ IsFiniteSet(Files)
  /\ Home \in [Files -> Members]
  /\ BaseIds \in [Members -> SUBSET Members]
  /\ RuleNames \subseteq Names

Decls == [name : Names, attrs : SUBSET Names, edges : SUBSET Names]
Texts == SUBSET Decls

(* Sources by uri, of the files that exist.                                *)
IsSources(s) == DOMAIN s \subseteq Files /\ s \in [DOMAIN s -> Texts]

(* The model: nodes with the file that authored them (provenance; its      *)
(* member is memberOf) and their attribute references; the edges; each     *)
(* file's unresolved references (its load diagnostics); and the nodes a    *)
(* resolution rule has rewritten, which nothing can undo but a reload.     *)
IsGraph(g) ==
  /\ DOMAIN g.node \subseteq Names
  /\ g.node \in [DOMAIN g.node -> [file : Files, attrs : SUBSET Names]]
  /\ g.edges \subseteq Names \X Names
  /\ g.unresolved \in [Files -> SUBSET Names]
  /\ g.folded \subseteq DOMAIN g.node

EmptyGraph == [node |-> [n \in {} |-> 0], edges |-> {},
               unresolved |-> [f \in Files |-> {}], folded |-> {}]

FilesOf(ms) == {f \in Files : Home[f] \in ms}

Declared(sources, fs) == UNION {sources[f] : f \in fs \cap DOMAIN sources}
NamesIn(sources, fs) == {d.name : d \in Declared(sources, fs)}

(***************************************************************************)
(* Members and their order.                                                *)
(***************************************************************************)
(* Variant: direct dependents only.                                        *)
DirectDependents(ms, m) == {d \in ms : m \in BaseIds[d]}

(* Members whose bases include m, transitively.                            *)
DependentsOf(ms, m) ==
  LET reach[k \in 0..Cardinality(Members)] ==
        LET found == IF k = 0 THEN {} ELSE reach[k - 1] IN
        found \cup {d \in ms : BaseIds[d] \cap (found \cup {m}) # {}}
  IN reach[Cardinality(Members)]

Acyclic(ms) == \A m \in ms : m \notin DependentsOf(ms, m)

(* TopoOrder puts bases first; members that do not depend on each other    *)
(* load in either order, the same one in every build.                      *)
ASSUME RankAssumption ==
  /\ Rank \in [Members -> Nat]
  /\ \A a, b \in Members : Rank[a] = Rank[b] => a = b
  /\ \A ms \in SUBSET Members : Acyclic(ms) =>
       \A d \in ms : \A b \in BaseIds[d] \cap ms : Rank[b] < Rank[d]

UpTo(fs, f) == {e \in fs : Rank[Home[e]] <= Rank[Home[f]]}

(***************************************************************************)
(* Loading and stripping.                                                  *)
(***************************************************************************)
(* commit throws when a staged id is in the graph or staged twice.         *)
Loadable(g, sources, fs) ==
  /\ NamesIn(sources, fs) \cap DOMAIN g.node = {}
  /\ \A e, f \in fs \cap DOMAIN sources : \A c \in sources[e], d \in sources[f] :
       c.name = d.name => e = f /\ c = d

(* What the load of file f can resolve: the live model, its own batch and  *)
(* the members loaded before it.                                           *)
Known(g, sources, fs, f) == DOMAIN g.node \cup NamesIn(sources, UpTo(fs, f))

(* loadInto over the files fs of loadable members, member by member in     *)
(* order: nodes are homed, an undefined target drops its edge and leaves a *)
(* diagnostic, and every file of fs starts from a clean bucket.            *)
LoadFiles(g, sources, fs) ==
  LET known == [f \in fs |-> Known(g, sources, fs, f)]
      present == fs \cap DOMAIN sources
      home(n) == CHOOSE f \in present : n \in NamesIn(sources, {f})
      decl(n) == CHOOSE d \in sources[home(n)] : d.name = n
      added == NamesIn(sources, fs)
  IN [node |-> [n \in DOMAIN g.node \cup added |->
                  IF n \in added
                  THEN [file |-> home(n), attrs |-> decl(n).attrs \cap known[home(n)]]
                  ELSE g.node[n]],
      edges |-> g.edges \cup
                UNION {{n} \X (decl(n).edges \cap known[home(n)]) : n \in added},
      unresolved |-> [f \in Files |->
                        IF f \in present
                        THEN UNION {d.attrs \cup d.edges : d \in sources[f]} \ known[f]
                        ELSE IF f \in fs THEN {} ELSE g.unresolved[f]],
      folded |-> g.folded]

(* RemoveOwnedNodes, RemoveOwnedFile: the files' nodes go, and with a node *)
(* every edge that leaves it or enters it.                                 *)
Strip(g, fs) ==
  LET kept == {n \in DOMAIN g.node : g.node[n].file \notin fs} IN
  [node |-> Restrict(g.node, kept),
   edges |-> g.edges \cap (kept \X kept),
   unresolved |-> g.unresolved,
   folded |-> g.folded \cap kept]

HasResolutionRules(g) == DOMAIN g.node \cap RuleNames # {}

(* RebuildDiagnostics runs the resolution pass, which folds the nodes the  *)
(* model's rules cover.                                                    *)
Resolved(g) == [g EXCEPT !.folded = IF HasResolutionRules(g) THEN DOMAIN g.node ELSE @]

(***************************************************************************)
(* A full build.                                                           *)
(***************************************************************************)
Buildable(ms, sources) == Acyclic(ms) /\ Loadable(EmptyGraph, sources, FilesOf(ms))

FullBuild(ms, sources) == Resolved(LoadFiles(EmptyGraph, sources, FilesOf(ms)))
=============================================================================
