---------------------------- MODULE SolutionModel ---------------------------
(***************************************************************************)
(* What SolutionGraph promises its readers: at every moment one set of     *)
(* members and sources is in force, and the model is exactly what a        *)
(* from-scratch build of them gives.  A request that builds takes effect   *)
(* whole; one that does not is refused and changes nothing.                *)
(***************************************************************************)
EXTENDS ModelBuild

VARIABLES members, sources, graph,
          request   \* the last request: open these members, or revise one

vars == <<members, sources, graph, request>>

IsRequest(r) == r.members \subseteq Members /\ IsSources(r.sources)

NoRequest == [op |-> "none", members |-> {}, sources |-> [f \in {} |-> {}]]

Init == /\ members = {} /\ sources = [f \in {} |-> {}] /\ graph = EmptyGraph
        /\ request = NoRequest

(* The request takes effect exactly when what it asks for builds.          *)
Answer ==
  IF Buildable(request'.members, request'.sources)
  THEN /\ members' = request'.members /\ sources' = request'.sources
       /\ graph' = FullBuild(members', sources')
  ELSE UNCHANGED <<members, sources, graph>>

Open == IsRequest(request') /\ request'.op = "open" /\ Answer

(* A revision leaves the other members' sources alone.                     *)
Revise ==
  /\ IsRequest(request') /\ request'.op = "revise"
  /\ request'.members = members
  /\ \E m \in members : \A f \in FilesOf(members \ {m}) :
       /\ f \in DOMAIN sources <=> f \in DOMAIN request'.sources
       /\ f \in DOMAIN sources => request'.sources[f] = sources[f]
  /\ Answer

(* A member or a file nobody knows.                                        *)
Unknown ==
  /\ IsRequest(request') /\ request'.op = "unknown"
  /\ UNCHANGED <<members, sources, graph>>

Next == Open \/ Revise \/ Unknown

Spec == Init /\ [][Next]_vars
=============================================================================
