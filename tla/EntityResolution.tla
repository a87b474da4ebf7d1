--------------------------- MODULE EntityResolution ---------------------------
(***************************************************************************)
(* What the entity resolution of the compiler promises: instances of one   *)
(* concept that agree on an identity key or on a match rule, directly or   *)
(* through others, are one entity; its least identifier stands for it, and *)
(* receives the fields and the relationships of the others.  Nothing here  *)
(* depends on the order in which instances were loaded.                    *)
(*                                                                         *)
(* A row gives every field a number, Undefined where the instance does not *)
(* define it; identifiers are numbers, ordered as the program orders ids.  *)
(***************************************************************************)
EXTENDS Integers, FiniteSets

CONSTANTS
    Instances,      \* instance identifiers
    ConceptOf,      \* the concept each instance is of
    Fields,         \* field names
    StorageKey,     \* the pseudo field that reads a node's storage identifier
    Rules,          \* per concept, the field tuples (keys and match rules)
    MergeRules,     \* per concept and field: Latest, NoRule or a source
    SourceOf,       \* the source each instance was loaded from
    ClassRow,       \* the fields an instance's class fixes
    Rows,           \* the rows a load may give an instance
    Links,          \* the references a load may add
    Relations,      \* the relationship members among the vias of Links
    Workloads,      \* which instances may be loaded together, in how many layers
    Latest, NoRule, SameAs

ASSUME InstancesAssumption == Instances \subseteq Nat /\ IsFiniteSet(Instances)
ASSUME VocabularyAssumption ==
    /\ StorageKey \in Fields
    /\ \A i \in Instances : ClassRow[i] \in [Fields -> Nat]
    /\ \A i \in Instances : Rows[i] \subseteq [Fields -> Nat]
    /\ Links \subseteq [via : STRING, from : Instances, to : Instances]
    /\ Relations \subseteq STRING
    /\ SameAs \in STRING \ Relations
    /\ \A w \in Workloads : w.instances \subseteq Instances /\ w.layers \in Nat

Undefined == 0
None == -1

VARIABLES
    attrs,      \* the row of every loaded instance
    canonical,  \* the instance an alias stands for, None for a live instance
    edges,      \* [via, from, to]
    conflicts,  \* <<canonical, field>>: the unmerged conflicts of the last pass
    fresh,      \* the instances loaded since the last pass
    layers      \* how many loads have been followed by a pass

vars == <<attrs, canonical, edges, conflicts, fresh, layers>>

Loaded == DOMAIN attrs
Live == {i \in Loaded : canonical[i] = None}

Init ==
    /\ attrs = << >>
    /\ canonical = << >>
    /\ edges = {}
    /\ conflicts = {}
    /\ fresh = {}
    /\ layers = 0

(* The loader adds an instance with its authored fields. *)
Load(i, row) ==
    /\ i \notin Loaded
    /\ \E w \in Workloads : Loaded \cup {i} \subseteq w.instances /\ layers < w.layers
    /\ attrs' = [x \in Loaded \cup {i} |-> IF x = i THEN row ELSE attrs[x]]
    /\ canonical' = [x \in Loaded \cup {i} |-> IF x = i THEN None ELSE canonical[x]]
    /\ fresh' = fresh \cup {i}
    /\ UNCHANGED <<edges, conflicts, layers>>

(* Mutant: A reference whose target was never loaded is added all the same. *)
ReferDangling(e) ==
    /\ e.from \in fresh
    /\ edges' = edges \cup {e}
    /\ UNCHANGED <<attrs, canonical, conflicts, fresh, layers>>

(* The loader adds a reference of an instance it loads to any that is present. *)
Refer(e) ==
    /\ e.from \in fresh /\ e.to \in Loaded
    /\ e \notin edges
    /\ edges' = edges \cup {e}
    /\ UNCHANGED <<attrs, canonical, conflicts, fresh, layers>>

(***************************************************************************)
(* The entities.                                                           *)
(***************************************************************************)

(* A field as rules see it: what the class fixes hides what was authored. *)
Effective(i, f) ==
    IF f # StorageKey /\ ClassRow[i][f] # Undefined THEN ClassRow[i][f] ELSE attrs[i][f]

(* Two live instances of a concept agree on every field of one rule. *)
Matching(i, j) ==
    /\ ConceptOf[i] = ConceptOf[j]
    /\ \E rule \in Rules[ConceptOf[i]] : \A f \in rule :
        Effective(i, f) # Undefined /\ Effective(i, f) = Effective(j, f)

(* The least set that holds the instance and is closed under matching. *)
Entity(i) ==
    LET Closed(S) == \A x \in S : \A y \in Live \ S : ~Matching(x, y)
        Candidates == {S \in SUBSET Live : i \in S /\ Closed(S)}
    IN  CHOOSE S \in Candidates : \A T \in Candidates : S \subseteq T

Least(S) == CHOOSE x \in S : \A y \in S : x <= y
Greatest(S) == CHOOSE x \in S : \A y \in S : x >= y

(* Who stands for an instance after the pass.  Old aliases are left as they are. *)
StandsFor == [i \in Loaded |-> IF canonical[i] = None THEN Least(Entity(i)) ELSE i]

(***************************************************************************)
(* The merge.                                                              *)
(***************************************************************************)

Contributors(S, f) == {i \in S : attrs[i][f] # Undefined}
ValuesOf(S, f) == {attrs[i][f] : i \in Contributors(S, f)}

(* The value a rule picks among several, Undefined when it picks none. *)
Picked(S, f) ==
    LET c == Least(S)
        rule == MergeRules[ConceptOf[c]][f]
        from == {i \in Contributors(S, f) : SourceOf[i] = rule}
    IN  CASE rule = Latest -> Greatest(ValuesOf(S, f))
          [] rule # Latest /\ from # {} -> attrs[Least(from)][f]
          [] OTHER -> Undefined

InConflict(S, f) ==
    /\ Cardinality(S) > 1 /\ f # StorageKey
    /\ Cardinality(ValuesOf(S, f)) > 1
    /\ Picked(S, f) = Undefined

Merged(S, f) ==
    LET own == attrs[Least(S)][f] IN
    CASE f = StorageKey \/ ValuesOf(S, f) = {} -> own
      [] f # StorageKey /\ Cardinality(ValuesOf(S, f)) = 1 -> Greatest(ValuesOf(S, f))
      [] OTHER -> IF Picked(S, f) = Undefined THEN own ELSE Picked(S, f)

(* References to an alias become references to its canonical instance (one  *)
(* that instance held to its own alias is dropped); the relationships of an *)
(* alias are also its canonical instance's, unless they would be loops.     *)
Rebound(stand) ==
    LET becomes(i) == canonical[i] = None /\ stand[i] # i
        kept == {e \in edges : e.via = SameAs \/ ~becomes(e.to) \/ e.from # stand[e.to]}
        moved == {IF e.via = SameAs THEN e ELSE [e EXCEPT !.to = stand[e.to]] : e \in kept}
        ofAliases == {e \in moved : /\ e.via \in Relations /\ becomes(e.from)
                                    /\ e.to # stand[e.from]}
    IN  moved \cup {[e EXCEPT !.from = stand[e.from]] : e \in ofAliases}
              \cup {[via |-> SameAs, from |-> i, to |-> stand[i]] : i \in {x \in Loaded : becomes(x)}}

Resolve ==
    LET stand == StandsFor
        members == [c \in Loaded |-> {i \in Live : stand[i] = c}]
    IN  /\ attrs' = [i \in Loaded |->
                       IF Cardinality(members[i]) < 2 THEN attrs[i]
                       ELSE [f \in Fields |-> Merged(members[i], f)]]
        /\ canonical' = [i \in Loaded |-> IF stand[i] # i THEN stand[i] ELSE canonical[i]]
        /\ edges' = Rebound(stand)
        /\ conflicts' = {p \in Loaded \X Fields : InConflict(members[p[1]], p[2])}
        /\ layers' = IF fresh = {} THEN layers ELSE layers + 1
        /\ fresh' = {}

Next ==
    \/ \E i \in Instances : \E row \in Rows[i] : Load(i, row)
    \/ \E e \in Links : Refer(e)
    \/ Resolve

Spec == Init /\ [][Next]_vars
=============================================================================
