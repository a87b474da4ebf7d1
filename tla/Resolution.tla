------------------------------ MODULE Resolution ------------------------------
(***************************************************************************)
(* The entity resolution pass of the compiler (ResolutionPass), with the   *)
(* union-find it clusters by (DisjointSet) and the aliasing of the graph   *)
(* (Graph.alias): instances in the order they were loaded, buckets per     *)
(* rule, clusters one after the other, aliases one after the other.        *)
(***************************************************************************)
EXTENDS EntityResolution, Sequences, SequencesExt

CONSTANTS
    ConceptOrder,   \* the concepts that have rules, in the order the pass meets them
    RuleOrder       \* per concept, its rules: the key first, then the match rules

ASSUME OrderAssumption ==
    \A c \in DOMAIN Rules :
        /\ {RuleOrder[c][n] : n \in DOMAIN RuleOrder[c]} = Rules[c]
        /\ Rules[c] # {} => \E n \in DOMAIN ConceptOrder : ConceptOrder[n] = c

VARIABLE order  \* the loaded instances, in load order

allVars == <<vars, order>>

InitPass == Init /\ order = << >>

LoadInOrder(i, row) == Load(i, row) /\ order' = Append(order, i)
ReferInOrder(e) == Refer(e) /\ UNCHANGED order

(***************************************************************************)
(* DisjointSet: a map from members to their parents, as a set of pairs.    *)
(***************************************************************************)

Singletons(S) == {<<x, x>> : x \in S}
Parent(parents, x) == (CHOOSE p \in parents : p[1] = x)[2]

(* The members from x up to its root, both included. *)
PathFrom(parents, x) ==
    LET up[y \in Instances] ==
            {y} \cup (IF Parent(parents, y) = y THEN {} ELSE up[Parent(parents, y)])
    IN  up[x]

Find(parents, x) == CHOOSE r \in PathFrom(parents, x) : Parent(parents, r) = r

(* Find also points every member it passed at the root. *)
Compressed(parents, x) ==
    LET path == PathFrom(parents, x)
        root == Find(parents, x)
    IN  {<<p[1], IF p[1] \in path THEN root ELSE p[2]>> : p \in parents}

Union(parents, a, b) ==
    LET both == Compressed(Compressed(parents, a), b)
        ra == Find(both, a)
        rb == Find(both, b)
    IN  IF ra = rb THEN both ELSE (both \ {<<rb, rb>>}) \cup {<<rb, ra>>}

(* The clusters, in the order their first members were added. *)
Clusters(parents, added) ==
    LET cluster(x) == {added[n] : n \in {k \in DOMAIN added : Find(parents, added[k]) = Find(parents, x)}}
        insert(seen, x) == IF \E n \in DOMAIN seen : x \in seen[n] THEN seen ELSE Append(seen, cluster(x))
    IN  FoldLeft(insert, << >>, added)

(***************************************************************************)
(* ResolutionPass, over the model m == [attrs, canonical, edges,           *)
(* conflicts].                                                             *)
(***************************************************************************)

(* Mutant: What the class fixes is not looked at. *)
RawFieldValue(m, i, f) == m.attrs[i][f]

FieldValue(m, i, f) ==
    IF f # StorageKey /\ ClassRow[i][f] # Undefined THEN ClassRow[i][f] ELSE m.attrs[i][f]

(* Unite the instances that share a defined tuple with the bucket's first. *)
UnionByFieldTuple(m, parents, instances, rule) ==
    LET defined(i) == \A f \in rule : FieldValue(m, i, f) # Undefined
        signature(i) == [f \in rule |-> FieldValue(m, i, f)]
        first(i) == SelectSeq(instances, LAMBDA j : defined(j) /\ signature(j) = signature(i))[1]
    IN  FoldLeft(LAMBDA p, i : IF defined(i) /\ first(i) # i THEN Union(p, first(i), i) ELSE p,
                 parents, instances)

(* Graph.alias: mark, link, and redirect every other edge that enters it. *)
Alias(m, alias, c) ==
    LET entering == {e \in m.edges : e.to = alias /\ e.via # SameAs}
        redirected == {[e EXCEPT !.to = c] : e \in {x \in entering : x.from # c}}
    IN  [m EXCEPT !.canonical = [@ EXCEPT ![alias] = c],
                  !.edges = (@ \ entering) \cup redirected
                              \cup {[via |-> SameAs, from |-> alias, to |-> c]}]

(* ApplyRule over the contributions, in member order; Undefined when it does not fire. *)
ApplyRule(m, rule, contributors, f) ==
    LET fromSource == SelectSeq(contributors, LAMBDA i : SourceOf[i] = rule)
        greater(best, i) == IF m.attrs[i][f] > best THEN m.attrs[i][f] ELSE best
    IN  IF rule = Latest
          THEN FoldLeft(greater, m.attrs[contributors[1]][f], contributors)
        ELSE IF rule = NoRule \/ fromSource = << >> THEN Undefined
        ELSE m.attrs[fromSource[1]][f]

MergeField(m, members, f) ==
    LET c == members[1]
        contributors == SelectSeq(members, LAMBDA i : m.attrs[i][f] # Undefined)
        distinct == {m.attrs[contributors[n]][f] : n \in DOMAIN contributors}
        chosen == ApplyRule(m, MergeRules[ConceptOf[c]][f], contributors, f)
        set(v) == [m EXCEPT !.attrs[c][f] = v]
    IN  IF contributors = << >> THEN m
        ELSE IF Cardinality(distinct) = 1 THEN set(m.attrs[contributors[1]][f])
        ELSE IF chosen # Undefined THEN set(chosen)
        ELSE [m EXCEPT !.conflicts = @ \cup {<<c, f>>}]

(* The relationships of each alias, onto the canonical instance, no self-loop. *)
MergeOutgoingEdges(m, c, aliases) ==
    LET copied(g, alias) == {[e EXCEPT !.from = c] :
                               e \in {x \in g.edges : /\ x.from = alias
                                                      /\ x.via \in Relations /\ x.to # c}}
    IN  FoldLeft(LAMBDA g, alias : [g EXCEPT !.edges = @ \cup copied(g, alias)], m, aliases)

MergeCluster(m, members) ==
    LET fields == SetToSeq(Fields \ {StorageKey})
        merged == FoldLeft(LAMBDA g, f : MergeField(g, members, f), m, fields)
    IN  MergeOutgoingEdges(merged, members[1], Tail(members))

CollapseCluster(m, cluster) ==
    LET members == SetToSortSeq(cluster, <)
    IN  IF Len(members) < 2 THEN m
        ELSE MergeCluster(FoldLeft(LAMBDA g, alias : Alias(g, alias, members[1]), m, Tail(members)),
                          members)

ResolveConcept(m, concept) ==
    LET instances == SelectSeq(order, LAMBDA i : ConceptOf[i] = concept /\ m.canonical[i] = None)
        parents == FoldLeft(LAMBDA p, rule : UnionByFieldTuple(m, p, instances, rule),
                            Singletons({instances[n] : n \in DOMAIN instances}),
                            RuleOrder[concept])
    IN  FoldLeft(CollapseCluster, m, Clusters(parents, instances))

ResolvedModel ==
    FoldLeft(ResolveConcept,
             [attrs |-> attrs, canonical |-> canonical, edges |-> edges, conflicts |-> {}],
             ConceptOrder)

ResolvePass ==
    LET m == ResolvedModel IN
    /\ attrs' = m.attrs
    /\ canonical' = m.canonical
    /\ edges' = m.edges
    /\ conflicts' = m.conflicts
    /\ layers' = IF fresh = {} THEN layers ELSE layers + 1
    /\ fresh' = {}
    /\ UNCHANGED order

NextPass ==
    \/ \E i \in Instances : \E row \in Rows[i] : LoadInOrder(i, row)
    \/ \E e \in Links : ReferInOrder(e)
    \/ ResolvePass

SpecPass == InitPass /\ [][NextPass]_allVars

(***************************************************************************)
(* Properties.                                                             *)
(***************************************************************************)

(* Loading every instance once and in order, with a row per instance. *)
TypeOK ==
    /\ {order[n] : n \in DOMAIN order} = Loaded /\ Len(order) = Cardinality(Loaded)
    /\ Loaded \subseteq Instances /\ fresh \subseteq Live
    /\ attrs \in [Loaded -> [Fields -> Nat]]
    /\ canonical \in [Loaded -> Instances \cup {None}]
    /\ edges \subseteq [via : STRING, from : Loaded, to : Loaded]
    /\ conflicts \subseteq Loaded \X Fields
    /\ layers \in Nat

(* Whatever the load order, the pass computes the entities, the canonical   *)
(* instances, their fields, relationships and conflicts that the            *)
(* order-free EntityResolution names ("resolution outcome is independent of *)
(* source order").                                                          *)
OrderFree == Spec

(* Following SameAs from any alias reaches a live instance: an alias stands *)
(* for a smaller identifier, so repeated passes never build a cycle.        *)
AliasesReachLive ==
    /\ \A i \in Loaded : canonical[i] # None => canonical[i] < i
    /\ \A i \in Loaded : canonical[i] # None =>
            [via |-> SameAs, from |-> i, to |-> canonical[i]] \in edges

(* After a pass, no reference enters an alias ("references to an alias are  *)
(* rebound to the canonical").                                              *)
ReferencesRebound ==
    fresh = {} => \A e \in edges : e.via # SameAs => canonical[e.to] = None

SingleField(i) == \A rule \in Rules[ConceptOf[i]] : Cardinality(rule) = 1

(* A second pass with nothing loaded in between leaves every instance as it *)
(* is ("Deterministic and idempotent"), if its concept has rules of one     *)
(* field only: a merge may complete the fields of a larger rule.            *)
RepeatKeeps ==
    fresh = {} /\ ResolvePass =>
        \A i \in Loaded : SingleField(i) => attrs'[i] = attrs[i] /\ canonical'[i] = canonical[i]

(* Relationships reach the canonical instance: what any member of an entity *)
(* relates to, the entity's live instance relates to, itself excepted.      *)
RelationsReachLive ==
    fresh = {} => \A e \in edges :
        LET c == canonical[e.from] IN
        e.via \in Relations /\ c # None /\ canonical[c] = None /\ e.to # c
          => [e EXCEPT !.from = c] \in edges
=============================================================================
