---------------------------- MODULE SolutionBuild -----------------------------
(***************************************************************************)
(* SolutionBuildManager and ProjectBuildManager: the projects of a         *)
(* solution are built dependencies first, each through the actions of its  *)
(* build system, and what one produced is what the next resolves.          *)
(*                                                                         *)
(* A reference is <<id, version>>.  A package is [deps, made] where made   *)
(* holds a stamp <<reference, origin>> for itself and for everything it    *)
(* was compiled against: "built" by this build, or "external".  A file is  *)
(* its name; "model" is model.json.  One build runs: every await is of     *)
(* storage, and each project is finished before the next begins.           *)
(***************************************************************************)
EXTENDS Naturals, Sequences, FiniteSets, SequencesExt

CONSTANTS Solutions,  \* what a behaviour builds
          Actions,    \* the names of the pipeline's actions, in order
          None

VARIABLES
    solution,   \* the request: projects in order, bindings, target, ...
    phase,      \* "planning", "building", "done" or "rejected"
    order,      \* the projects to build, dependencies first
    cycle,      \* whether a cycle was reported
    status,     \* status[p] : "Built", "Failed", "Skipped", None before that
    ran,        \* outcomes of the actions of the project being built
    bases,      \* its resolved bases, None until resolved
    built,      \* BuildOutputSource : packages by reference
    pushed,     \* the references published to the registry
    sandbox,    \* files staged for the project being built, None without one
    output,     \* output[p] : files of its output folder
    compiled    \* compiled[p] : the package it compiled to, or None

vars == <<solution, phase, order, cycle, status, ran, bases, built, pushed,
          sandbox, output, compiled>>

Staged == {"mural", "baked", "bundle", "model"}

(* A request names known projects only.                                    *)
BuildAssumption ==
    /\ Len(Actions) \in Nat /\ None \notin {"Built", "Failed", "Skipped"}
    /\ \A s \in Solutions :
          LET ids == ToSet(s.projects)
          IN /\ s.projects \in Seq(ids) /\ None \notin ids
             /\ s.applies \subseteq ids /\ s.target \in ids \cup {None}
             /\ \A p \in ids : /\ s.binds[p] \in Seq(ToSet(s.binds[p]))
                              /\ s.before[p] \subseteq Staged

Projects == solution.projects                 \* a sequence of ids
Ids == ToSet(Projects)
Ref(p) == <<p, solution.version[p]>>

Init ==
    /\ solution \in Solutions
    /\ phase = "planning"
    /\ order = <<>>
    /\ cycle = FALSE
    /\ status = [p \in Ids |-> None]
    /\ ran = <<>>
    /\ bases = None
    /\ built = [r \in {} |-> None]
    /\ pushed = {}
    /\ sandbox = None
    /\ output = [p \in Ids |-> solution.before[p]]
    /\ compiled = [p \in Ids |-> None]

-------------------------------------------------------------------------------
(* SolutionDependencyGraph                                                 *)

(* DependencyEdges: the siblings a project binds, whatever the version it  *)
(* pins, and the explicit overrides.                                       *)
Deps(p) == {q \in Ids : \/ q # p /\ \E k \in DOMAIN solution.binds[p] : solution.binds[p][k][1] = q
                        \/ <<p, q>> \in solution.explicit}

\* where they are met: a dependency that is met again is done by then
Edges(p) == [k \in DOMAIN solution.binds[p] |-> solution.binds[p][k][1]] \o Projects

\* round k of n makes step[k][a] of a
Loop(step, start, n) ==
    LET after[k \in 0..n] == IF k = 0 THEN start ELSE step[k][after[k - 1]] IN after[n]

(* Depth first, in post-order; a node met during its own descent closes a  *)
(* cycle, and the walk ends there.                                         *)
Walks == [order : Seq(Ids), cycle : BOOLEAN]
Below(visit, walk, p) ==
    LET dep == Edges(p)
    IN Loop([k \in DOMAIN dep |-> [w \in Walks |-> IF dep[k] \in Deps(p) THEN visit[w][dep[k]] ELSE w]],
            walk, Len(dep))
Visit[stack \in SUBSET Ids] ==
    [walk \in Walks |-> [p \in Ids |->
        IF walk.cycle \/ p \in ToSet(walk.order) THEN walk
        ELSE IF p \in stack THEN [walk EXCEPT !.cycle = TRUE]
        ELSE LET deep == Below(Visit[stack \cup {p}], walk, p)
             IN IF deep.cycle THEN deep ELSE [deep EXCEPT !.order = Append(@, p)]]]

OrderOf(ps) == Loop([k \in DOMAIN ps |-> [w \in Walks |-> Visit[{}][w][ps[k]]]],
                    [order |-> <<>>, cycle |-> FALSE], Len(ps))

Closure(S) == {p \in Ids : \A C \in SUBSET Ids :
                   S \subseteq C /\ (\A q \in C : Deps(q) \subseteq C) => p \in C}

Selected(p) == solution.target = None \/ p \in Closure({solution.target})

Only(s, S) == Loop([k \in DOMAIN s |-> [kept \in Seq(Ids) |->
                       IF s[k] \in S THEN Append(kept, s[k]) ELSE kept]],
                   <<>>, Len(s))

(* Build: order the projects, refuse a cycle, keep the ones the build      *)
(* system applies to and the target needs.                                 *)
Plan ==
    /\ phase = "planning"
    /\ LET graph == OrderOf(Projects)
       IN /\ cycle' = graph.cycle
          /\ order' = IF graph.cycle THEN <<>>
                      ELSE Only(graph.order, {p \in solution.applies : Selected(p)})
          /\ phase' = IF graph.cycle THEN "done" ELSE "building"
    /\ UNCHANGED <<solution, status, ran, bases, built, pushed, sandbox, output, compiled>>

-------------------------------------------------------------------------------
(* Resolution: the composite of the build's outputs and the external source *)

External(r) == [deps |-> solution.external[r], made |-> {<<r, "external">>}]

ExternalFirst(r) == IF r \in DOMAIN solution.external THEN External(r)
                    ELSE IF r \in DOMAIN built THEN built[r] ELSE None

Source(r) == IF r \in DOMAIN built THEN built[r]
             ELSE IF r \in DOMAIN solution.external THEN External(r) ELSE None

(* ResolveClosure: what the recorded dependencies lead to, the missing ones  *)
(* included.                                                               *)
Recorded(r) == IF Source(r) = None THEN <<>> ELSE Source(r).deps
References ==
    UNION ({Range(solution.binds[p]) : p \in Ids}
           \cup {Range(solution.external[r]) : r \in DOMAIN solution.external}
           \cup {Range(built[r].deps) : r \in DOMAIN built}
           \cup {DOMAIN built, DOMAIN solution.external})
ReferenceClosure(bindings) ==
    {r \in References : \A C \in SUBSET References :
        Range(bindings) \subseteq C /\ (\A q \in C : Range(Recorded(q)) \subseteq C) => r \in C}

-------------------------------------------------------------------------------
(* One project                                                             *)

Current == CHOOSE k \in DOMAIN order :
              /\ status[order[k]] = None
              /\ \A j \in 1..(k - 1) : status[order[j]] # None
Building == phase = "building" /\ \E k \in DOMAIN order : status[order[k]] = None
Project == order[Current]

Stopped == \E p \in Ids : status[p] = "Failed"

(* Fail-fast: after a failure the rest is skipped. *)
Skip ==
    /\ Building /\ Stopped
    /\ status' = [status EXCEPT ![Project] = "Skipped"]
    /\ UNCHANGED <<solution, phase, order, cycle, ran, bases, built, pushed,
                   sandbox, output, compiled>>

(* CheckRequirements: content that should be there is not; nothing is      *)
(* provisioned and only a report is written.                               *)
Unmet ==
    /\ Building /\ ~Stopped /\ sandbox = None
    /\ Project \in solution.unmet
    /\ status' = [status EXCEPT ![Project] = "Failed"]
    /\ output' = [output EXCEPT ![Project] = @ \cup {"report"}]
    /\ UNCHANGED <<solution, phase, order, cycle, ran, bases, built, pushed,
                   sandbox, compiled>>

Begin ==
    /\ Building /\ ~Stopped /\ sandbox = None
    /\ Project \notin solution.unmet
    /\ sandbox' = {}
    /\ ran' = <<>>
    /\ bases' = None
    /\ UNCHANGED <<solution, phase, order, cycle, status, built, pushed, output, compiled>>

ActionFailed == "Failed" \in ToSet(ran)
ActionsLeft == sandbox # None /\ Len(ran) < Len(Actions) /\ ~ActionFailed

(* An action succeeds, with its effects, or reports an error or throws,    *)
(* which comes to the same: the rest of the pipeline is skipped.           *)
Due(a) == phase = "building" /\ ActionsLeft /\ Actions[Len(ran) + 1] = a
Succeeds == ran' = Append(ran, "Succeeded")
Fails == ran' = Append(ran, "Failed")
Elsewhere == <<solution, phase, order, cycle, status, built, output>>

(* The closure of the bindings; a reference nobody has is an error. *)
ResolveBases ==
    LET closure == ReferenceClosure(solution.binds[Project])
    IN /\ Due("resolve-bases")
       /\ \/ Succeeds /\ bases' = closure /\ \A r \in closure : Source(r) # None
          \/ Fails /\ UNCHANGED bases
       /\ UNCHANGED <<Elsewhere, pushed, sandbox, compiled>>

CompileModel ==
    LET p == Project
        made == {<<Ref(p), "built">>} \cup UNION {Source(r).made : r \in bases}
    IN /\ Due("compile-model")
       /\ \/ /\ p \notin solution.broken
             /\ Succeeds
             /\ compiled' = [compiled EXCEPT ![p] = [deps |-> solution.binds[p],
                                                     made |-> made]]
          \/ Fails /\ UNCHANGED compiled
       /\ UNCHANGED <<Elsewhere, bases, pushed, sandbox>>

(* The others stage files in the sandbox, some perhaps before they fail. *)
Stages(a, file) ==
    /\ Due(a)
    /\ \/ Succeeds /\ sandbox' = sandbox \cup {file}
       \/ Fails /\ sandbox' \in {sandbox, sandbox \cup {file}}
    /\ UNCHANGED <<Elsewhere, bases, pushed, compiled>>

CompileMural == Stages("compile-mural", "mural")

BakeResources == Stages("bake-resources", "baked")

EmitBundle == Stages("emit-bundle", "bundle")

EmitPackageLayout == Stages("emit-package-layout", "model")

PublishPackage ==
    /\ Due("publish-package")
    /\ \/ Succeeds /\ pushed' = pushed \cup {Ref(Project)}
       \/ Fails /\ UNCHANGED pushed
    /\ UNCHANGED <<Elsewhere, bases, sandbox, compiled>>

Execute == ResolveBases \/ CompileModel \/ CompileMural \/ BakeResources
           \/ EmitBundle \/ EmitPackageLayout \/ PublishPackage

Promoted(ok) == IF ok THEN sandbox ELSE {}

(* The pipeline is through: promote the sandbox if nothing failed, write   *)
(* the report either way, delete the sandbox, capture a fresh model.json.  *)
Finish ==
    /\ phase = "building" /\ sandbox # None /\ ~ActionsLeft
    /\ LET p == Project
           ok == ~ActionFailed
       IN /\ output' = [output EXCEPT ![p] =
                           @ \cup {"report"} \cup Promoted(ok)]
          /\ status' = [status EXCEPT ![p] = IF ok THEN "Built" ELSE "Failed"]
          /\ built' = IF ok /\ "model" \in output'[p]
                      THEN [r \in DOMAIN built \cup {Ref(p)} |->
                              IF r = Ref(p) THEN compiled[p] ELSE built[r]]
                      ELSE built
    /\ sandbox' = None
    /\ UNCHANGED <<solution, phase, order, cycle, ran, bases, pushed, compiled>>

(* The storage behind the build fails: Build rejects where it stands, and  *)
(* nothing deletes the sandbox.  A promotion may have been under way.      *)
StorageFails ==
    /\ Building
    /\ phase' = "rejected"
    /\ IF sandbox # None /\ ~ActionsLeft /\ ~ActionFailed
       THEN \E S \in SUBSET sandbox : output' = [output EXCEPT ![Project] = @ \cup S]
       ELSE UNCHANGED output
    /\ UNCHANGED <<solution, order, cycle, status, ran, bases, built, pushed,
                   sandbox, compiled>>

Done ==
    /\ phase = "building"
    /\ \A k \in DOMAIN order : status[order[k]] # None
    /\ phase' = "done"
    /\ UNCHANGED <<solution, order, cycle, status, ran, bases, built, pushed,
                   sandbox, output, compiled>>

Next == Plan \/ Skip \/ Unmet \/ Begin \/ Execute \/ Finish \/ StorageFails \/ Done

Spec == Init /\ [][Next]_vars

-------------------------------------------------------------------------------
(* Properties                                                              *)

TypeOK ==
    /\ phase \in {"planning", "building", "done", "rejected"}
    /\ ToSet(order) \subseteq Ids /\ cycle \in BOOLEAN
    /\ \A p \in Ids : status[p] \in {"Built", "Failed", "Skipped", None}
    /\ ran \in Seq({"Succeeded", "Failed"}) /\ Len(ran) <= Len(Actions)
    /\ DOMAIN built \subseteq {Ref(p) : p \in Ids}
    /\ sandbox = None \/ sandbox \subseteq Staged
    /\ \A p \in Ids : output[p] \subseteq Staged \cup {"report"}

Siblings(p) == {q \in Ids : Ref(q) \in ToSet(solution.binds[p])}

(* What is outside the solution needs a project of it only where that is the  *)
(* copy of a project that binds it, and no project binds a version of itself. *)
SelfContained(s) ==
    LET ids == ToSet(s.projects)
        Bound(p) == {b[1] : b \in Range(s.binds[p])}
    IN /\ \A p \in ids : p \notin Bound(p)
       /\ \A r \in DOMAIN s.external : \A d \in Range(s.external[r]) :
             d[1] \in ids => r[1] \in ids /\ d[1] \in Bound(r[1])

(* Whatever a project was compiled against that this build also produces,  *)
(* directly or through siblings, is this build's: never the copy an        *)
(* external source still has.                                              *)
CompiledAgainstFresh ==
    \A p \in Ids : compiled[p] # None =>
        \A q \in (Siblings(p) \ {p}) \cap ToSet(order) :
            /\ <<Ref(q), "built">> \in compiled[p].made
            /\ <<Ref(q), "external">> \notin compiled[p].made
            /\ compiled[q].made \subseteq compiled[p].made

(* Nothing is built, or published, on something that failed or was not     *)
(* built yet; one failure at most, and only skipped projects after it.     *)
FailureStops ==
    /\ \A j, k \in DOMAIN order : j < k =>
          /\ status[order[j]] = None => status[order[k]] = None
          /\ status[order[j]] \in {"Failed", "Skipped"} =>
                status[order[k]] \in {"Skipped", None}
    /\ \A p \in Ids : Ref(p) \in pushed =>
          \A q \in Siblings(p) \cap ToSet(order) : q = p \/ status[q] = "Built"

(* A cycle is refused exactly when there is one, and a target is built     *)
(* with all it needs and nothing else.                                     *)
OrderSound ==
    phase # "planning" =>
        /\ cycle <=> \E p \in Ids : p \in Closure(Deps(p))
        /\ ~cycle => ToSet(order) = {p \in solution.applies :
                         solution.target \in {None, p}
                         \/ p \in Closure(Deps(solution.target))}
        /\ IsInjective(order)

(* A failed build leaves the output of its project as it was, but for the  *)
(* report, and no build that ends leaves a sandbox behind.                 *)
PromotedOnSuccess ==
    /\ phase # "rejected" => \A p \in Ids :
          status[p] # "Built" => output[p] \ {"report"} = solution.before[p] \ {"report"}
    /\ phase = "done" => sandbox = None
===============================================================================
