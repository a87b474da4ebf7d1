--------------------------- MODULE MCSolutionGraph ---------------------------
(* A small solution for TLC: lib, of two files whose declarations refer to  *)
(* each other, app based on lib, tip based on app, and loop, its own base,  *)
(* with which no solution has an order.                                     *)
EXTENDS SolutionGraph, TLC

CONSTANTS lib, app, tip, loop,     \* members
          l1, l2, a1, t1, o1,      \* their files
          X, Y, Z, W, R            \* names; R is a match rule

MCRank == [m \in Members |-> CASE m = lib -> 1 [] m = app -> 2 [] m = tip -> 3 [] OTHER -> 4]
MCHome == (l1 :> lib @@ l2 :> lib @@ a1 :> app @@ t1 :> tip @@ o1 :> loop)
MCBases == (lib :> {} @@ app :> {lib} @@ tip :> {app} @@ loop :> {loop})

D(n, attrs, edges) == [name |-> n, attrs |-> attrs, edges |-> edges]

(* A file per member, with a resolution rule and colliding declarations.    *)
Chain ==
  (l1 :> {{D(X, {}, {})}, {D(X, {}, {}), D(R, {X}, {})}}
   @@ a1 :> {{D(Y, {X}, {})}, {D(Y, {}, {X})}, {D(X, {}, {})}}
   @@ t1 :> {{D(Z, {Y}, {Y})}, {D(Z, {Y}, {}), D(Z, {}, {})}})

(* Sibling files that refer to each other, and a dependent member.          *)
Siblings ==
  (l1 :> {{}, {D(X, {}, {})}, {D(X, {Y}, {})}, {D(X, {}, {}), D(W, {}, {X})}}
   @@ l2 :> {{D(Y, {X}, {})}, {D(Y, {}, {}), D(W, {Y}, {})}, {D(X, {W}, {})}}
   @@ a1 :> {{D(Z, {X}, {Y})}})

(* Siblings of which one refers to the other by an edge alone.              *)
Linked ==
  (l1 :> {{}, {D(X, {}, {})}, {D(X, {}, {}), D(W, {}, {})}}
   @@ l2 :> {{D(Y, {}, {X})}, {D(Y, {W}, {X})}, {D(W, {}, {})}}
   @@ a1 :> {{D(Z, {}, {Y})}})

(* Texts that collide with each other or with themselves.                   *)
Colliding == (l1 :> {{}, {D(X, {}, {})}, {D(X, {}, {}), D(X, {Y}, {})}}
           @@ l2 :> {{}, {D(Y, {X}, {}), D(R, {}, {})}, {D(X, {}, {})}}
           @@ a1 :> {{D(Z, {}, {X})}} @@ o1 :> {})

MCHabits ==
  [tidy   |-> [suites |-> {Chain, Siblings}, mends |-> TRUE, attributed |-> TRUE, subscriberFails |-> TRUE],
   linked |-> [suites |-> {Linked}, mends |-> TRUE, attributed |-> FALSE, subscriberFails |-> TRUE],
   untidy |-> [suites |-> {Colliding}, mends |-> FALSE, attributed |-> FALSE, subscriberFails |-> FALSE]]
==============================================================================
