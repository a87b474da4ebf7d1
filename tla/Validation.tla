----------------------------- MODULE Validation -----------------------------
(* The semantic validator over a committed graph (validate/validate.ts) and    *)
(* the rules of the type model it runs first (type-model-validator.ts).  A     *)
(* verdict is the set of diagnostics: code, node and path; wording and spans   *)
(* are left out.  Only the cycle walk depends on the order nodes are listed.   *)
EXTENDS Predicates

CONSTANTS LiteralBases,  \* the built-in types each literal satisfies
          Accepts,       \* the <<regex, literal>> pairs that match
          InvariantsOf,  \* the predicates of defineInvariant, by concept
          Schemas,       \* the graphs of a run, by their shape
          Listings       \* the orders their nodes may be listed in

VARIABLES schema, listing, verdict
validationVars == <<schema, listing, verdict>>

Diag(code, node, at) == [code |-> code, node |-> node, at |-> at]
Under(type, member) == Append(type, member)
When(condition, d) == IF condition THEN {d} ELSE {}
Names(members) == {members[i].name : i \in DOMAIN members}
Required(card) == card \in {"one", "oneOrMore"}

----------------------------------------------------------------------------
(* Cycles: a depth-first walk that never enters a node twice.                  *)

Inheritance == [edge |-> "extends", meta |-> "concept"]
Inclusion   == [edge |-> "includesAspect", meta |-> "aspect"]
Steps(g, k, id) == SelectSeq(Related(g, id, k.edge, TRUE), LAMBDA n : MetaKindOf(g, n) = k.meta)

\* A cycle is told apart by its members; its route starts at a fixed one.
Reported(w, cycle) ==
  LET members == Range(cycle)
      anchor  == CHOOSE m \in members : TRUE
      start   == CHOOSE i \in DOMAIN cycle : cycle[i] = anchor
  IN IF members \in {Range(r) : r \in w.routes} THEN w
     ELSE [w EXCEPT !.routes = @ \cup {SubSeq(cycle, start, Len(cycle)) \o SubSeq(cycle, 1, start - 1)}]

RECURSIVE Walk(_, _, _, _)
Walk(g, k, id, w) ==
  IF Contains(w.path, id)
  THEN Reported(w, SubSeq(w.path, CHOOSE i \in DOMAIN w.path : w.path[i] = id, Len(w.path)))
  ELSE IF id \in w.done THEN w
  ELSE LET several == k = Inheritance /\ Len(Related(g, id, "extends", TRUE)) > 1
           entered == [w EXCEPT !.path = Append(@, id), !.several = IF several THEN @ \cup {id} ELSE @]
           left    == FoldLeft(LAMBDA v, n : Walk(g, k, n, v), entered, Steps(g, k, id))
       IN [left EXCEPT !.path = w.path, !.done = @ \cup {id}]

Unwalked == [path |-> <<>>, done |-> {}, routes |-> {}, several |-> {}]

CheckCycles(g, k, listed) ==
  FoldLeft(LAMBDA w, id : Walk(g, k, id, w), Unwalked,
           SelectSeq(listed, LAMBDA id : MetaKindOf(g, id) = k.meta /\ Visible(g, id)))

OnCycle(w) == UNION {Range(r) : r \in w.routes}
CycleDiags(w) ==
  {Diag("InheritanceCycle", Head(r), Head(r)) : r \in w.routes}
  \cup {Diag("MultipleExtendsEdges", id, id) : id \in w.several}

----------------------------------------------------------------------------
(* Members declared by more than one type of a lineage.                        *)

OwnNames(g, type) == Names(OwnFields(g, type)) \cup Names(OwnRelationships(g, type))
DirectIncludes(g, type) == Steps(g, Inclusion, type)

Contributors(g, type) ==
  (IF MetaKindOf(g, type) = "aspect"
   THEN Range(Closure(g, type, "includesAspect", TRUE)) \cup ({Element} \cap DOMAIN g.nodes)
   ELSE Range(SupertypesOf(g, type)) \cup Range(AspectsOf(g, type))) \ {type}

ProvidedByOthers(g, type) ==
  LET others == Contributors(g, type)
  IN [name \in UNION {OwnNames(g, t) : t \in others} |-> {t \in others : name \in OwnNames(g, t)}]
Full(g, type) ==
  LET all == Contributors(g, type) \cup {type}
  IN [name \in UNION {OwnNames(g, t) : t \in all} |-> {t \in all : name \in OwnNames(g, t)}]

\* A name is passed over where one base already has every source of it.
AccountedFor(g, base, name, sources) ==
  LET full == Full(g, base)
  IN name \in DOMAIN full /\ Cardinality(full[name]) > 1 /\ sources \subseteq full[name]
\* Mutant: it is passed over where one base collides on the name at all.
CollidingByName(g, owner, bases, providers) ==
  {Diag("MemberCollision", owner, Under(owner, name)) :
     name \in {n \in DOMAIN providers :
                 /\ Cardinality(providers[n]) > 1
                 /\ \A b \in bases : n \notin DOMAIN Full(g, b)}}
Colliding(g, owner, bases, providers) ==
  {Diag("MemberCollision", owner, Under(owner, name)) :
     name \in {n \in DOMAIN providers :
                 /\ Cardinality(providers[n]) > 1
                 /\ ~ \E b \in bases : AccountedFor(g, b, n, providers[n])}}

DeclaresMember(g, type, name) == name \in OwnNames(g, type)
IsDerivable(g, concept, member) ==
  /\ ~ DeclaresMember(g, concept, member)
  /\ \E a \in Range(AspectsOf(g, concept)) : DeclaresMember(g, a, member)

\* The derives attribute: its members in order, or text that does not parse.
NoDerives == [parses |-> TRUE, members |-> <<>>]
DerivesOf(g, type) ==
  IF HasNode(g, type) /\ "derives" \in DOMAIN g.nodes[type].attrs THEN g.nodes[type].attrs["derives"] ELSE NoDerives
DerivedMembersOf(g, type) ==
  UNION {LET d == DerivesOf(g, t)
         IN IF d.parses THEN {n \in Range(d.members) : IsDerivable(g, t, n)} ELSE {} :
           t \in {type} \cup Range(SupertypesOf(g, type))}

DeriveDiags(g, concept) ==
  LET d      == DerivesOf(g, concept)
      twice  == {i \in DOMAIN d.members : \E j \in 1 .. i - 1 : d.members[j] = d.members[i]}
  IN IF ~ d.parses THEN {Diag("MalformedDerives", concept, concept)}
     ELSE {Diag("DuplicateDerive", concept, Under(concept, d.members[i])) : i \in twice}
          \cup {Diag("DeriveTargetNotContributed", concept, Under(concept, n)) :
                  n \in {x \in Range(d.members) : ~ IsDerivable(g, concept, x)}}

ConceptDiags(g, concept) ==
  LET others == ProvidedByOthers(g, concept)
      bases  == Related(g, concept, "extends", TRUE)
      parent == IF bases = <<>> THEN <<>> ELSE <<Head(bases)>>
  IN {Diag("MemberRedeclared", concept, Under(concept, n)) : n \in OwnNames(g, concept) \cap DOMAIN others}
     \cup Colliding(g, concept, Range(parent \o DirectIncludes(g, concept)), others)
     \cup DeriveDiags(g, concept)

AspectDiags(g, aspect) == Colliding(g, aspect, Range(DirectIncludes(g, aspect)), Full(g, aspect))

InstanceOfTypeDiags(g, id) ==
  LET type == g.nodes[id].type
  IN IF type = NoId THEN {}
     ELSE IF MetaKindOf(g, type) = "aspect" THEN {Diag("AspectNotInstantiable", id, type)}
     ELSE {Diag("DerivedMemberAssigned", id, Under(type, n)) :
             n \in {x \in DerivedMembersOf(g, type) :
                      x \in DOMAIN g.nodes[id].attrs \/ RelatedVia(g, id, x) # <<>>}}

TypeModelDiags(g, listed) ==
  LET up  == CheckCycles(g, Inheritance, listed)
      inc == CheckCycles(g, Inclusion, listed)
      off == OnCycle(up) \cup OnCycle(inc)
      of(id) == CASE g.nodes[id].metaKind = "concept" -> IF id \in off THEN {} ELSE ConceptDiags(g, id)
                  [] g.nodes[id].metaKind = "aspect"  -> IF id \in off THEN {} ELSE AspectDiags(g, id)
                  [] g.nodes[id].tier = "instance"    -> InstanceOfTypeDiags(g, id)
                  [] OTHER                            -> {}
  IN CycleDiags(up) \cup CycleDiags(inc)
     \cup UNION {of(id) : id \in {n \in DOMAIN g.nodes : Visible(g, n)}}

----------------------------------------------------------------------------
(* Taxonomies, viewpoints, models and annotations.                             *)

TermsOf(g, taxonomy) == Related(g, taxonomy, "contains", TRUE)

TaxonomyDiags(g, id) ==
  LET represented == Range(Related(g, id, "represents", TRUE))
      terms       == {t \in Range(TermsOf(g, id)) : HasNode(g, t)}
  IN When(represented = {}, Diag("TaxonomyNoRepresentedConcept", id, id))
     \cup {Diag("ContainsTargetNotTerm", t, id) : t \in {x \in terms : MetaKindOf(g, x) # "term"}}
     \cup {Diag("TermConceptNotRepresented", t, id) :
             t \in {x \in terms : represented # {} /\ g.nodes[x].type \notin represented}}

ViewpointDiags(g, id) ==
  LET framed == Range(Related(g, id, "frames", TRUE))
  IN When(framed = {}, Diag("ViewpointNoFramedConcept", id, id))
     \cup When(\E f \in framed : MetaKindOf(g, f) # "concept", Diag("ViewpointFramesNotConcept", id, id))

ViewpointsFraming(g, concept) ==
  UNION {Range(Related(g, c, "frames", FALSE)) : c \in {concept} \cup Range(SupertypesOf(g, concept))}

\* What a model may build from: its own namespace, its metamodel and those of
\* the taxonomies it uses.  A node without a namespace is always in scope.
BoundNamespaces(g, id) ==
  LET node == g.nodes[id]
      uses == IF "uses" \in DOMAIN node.attrs THEN Range(node.attrs["uses"]) ELSE {}
  IN {node.ns} \cup {g.nodes[t].ns : t \in uses \cap DOMAIN g.nodes}
     \cup (IF "MetaModel" \in DOMAIN node.attrs THEN {node.attrs["MetaModel"]} ELSE {})

ModelDiags(g, id) ==
  LET node     == g.nodes[id]
      inside   == {o \in Range(Closure(g, id, "contains", TRUE)) : HasNode(g, o)}
      ctors(o) == {g.nodes[o].type, ClassOf(g, o)} \ {NoId}
      outside(c) == HasNode(g, c) /\ g.nodes[c].ns # NoId /\ g.nodes[c].ns \notin BoundNamespaces(g, id)
      homed(o) == IF ~ g.nodes[o].isClass /\ "conforms" \in DOMAIN g.nodes[o].attrs
                  THEN g.nodes[o].attrs["conforms"] ELSE NoId
  IN When("MetaModel" \in DOMAIN node.attrs /\ \A n \in DOMAIN g.nodes : g.nodes[n].ns # node.attrs["MetaModel"],
          Diag("ModelBindingUndefined", id, NoId))
     \cup {Diag("ConstructorOutOfScope", o, NoId) : o \in {x \in inside : \E c \in ctors(x) : outside(c)}}
     \cup {Diag("ModelEntityNotFramed", o, NoId) :
             o \in {x \in inside : /\ MetaKindOf(g, homed(x)) = "viewpoint"
                                   /\ homed(x) \notin ViewpointsFraming(g, g.nodes[x].type)}}

AnnotationDiags(g, id) ==
  LET inherited == UNION {Names(OwnFields(g, s)) : s \in Range(SupertypesOf(g, id))}
  IN When(\E b \in Range(Related(g, id, "extends", TRUE)) : HasNode(g, b) /\ MetaKindOf(g, b) # "annotation",
          Diag("AnnotationBaseNotAnnotation", id, NoId))
     \cup When(Names(OwnFields(g, id)) \cap inherited # {}, Diag("AnnotationParamRedeclared", id, NoId))

----------------------------------------------------------------------------
(* Scalar values: the built-in at the end of a chain of primitives.            *)

Opaque == [base |-> NoId, regexes |-> <<>>]
RECURSIVE ConstraintAlong(_, _, _, _)
ConstraintAlong(g, type, regexes, seen) ==
  IF type \in Builtins THEN [base |-> type, regexes |-> regexes]
  ELSE IF type \in seen \/ MetaKindOf(g, type) # "primitive" THEN Opaque
  ELSE LET attrs == g.nodes[type].attrs
           all   == IF "regex" \in DOMAIN attrs THEN Append(regexes, attrs["regex"]) ELSE regexes
       IN IF "base" \notin DOMAIN attrs THEN Opaque ELSE ConstraintAlong(g, attrs["base"], all, seen \cup {type})
ScalarConstraintOf(g, type) == ConstraintAlong(g, type, <<>>, {})

Satisfying(v) == IF v \in DOMAIN LiteralBases THEN LiteralBases[v] ELSE { <<"string">> }

ScalarDiags(g, id, field, attrs) ==
  LET at     == Under(g.nodes[id].type, field.name)
      found  == ScalarConstraintOf(g, field.type)
      v      == attrs[field.name]
      fits   == found.base \in Satisfying(v)
      broken == \E i \in DOMAIN found.regexes : <<found.regexes[i], v>> \notin Accepts
  IN IF field.name \notin DOMAIN attrs \/ found = Opaque THEN {}
     ELSE IF ~ fits THEN {Diag(IF found.base = <<"boolean">> THEN "BooleanValueInvalid" ELSE "ScalarValueInvalid", id, at)}
     ELSE When(found.base # <<"boolean">> /\ broken, Diag("RegexMismatch", id, at))

BooleanDiags(g, id, field) ==
  LET attrs == g.nodes[id].attrs
  IN When(field.type = <<"boolean">> /\ field.name \in DOMAIN attrs /\ <<"boolean">> \notin Satisfying(attrs[field.name]),
          Diag("BooleanValueInvalid", id, Under(g.nodes[id].type, field.name)))

ApplicationDiags(g, id) ==
  LET node   == g.nodes[id]
      fields == Range(EffectiveFields(g, node.type))
  IN When(\E key \in DOMAIN node.attrs \ {"namespace"} : \A f \in fields : f.name # key,
          Diag("AnnotationUnknownParam", id, NoId))
     \cup When(\E f \in fields : Required(f.card) /\ f.name \notin DOMAIN node.attrs, Diag("RequiredMissing", id, NoId))
     \cup UNION {BooleanDiags(g, id, f) : f \in fields}

----------------------------------------------------------------------------
(* Instances.  A leaf is counted over the merged view of itself and its class; *)
(* a class may leave members out.                                              *)

CountDiags(id, at, card, count, partial) ==
  CASE card = "one"       -> When(count = 0 /\ ~ partial, Diag("RequiredMissing", id, at))
                             \cup When(count > 1, Diag("TooMany", id, at))
    [] card = "optional"  -> When(count > 1, Diag("TooMany", id, at))
    [] card = "oneOrMore" -> When(count = 0 /\ ~ partial, Diag("EmptyNotAllowed", id, at))
    [] card = "many"      -> {}

TargetsFor(g, id, name) ==
  IF ClassOf(g, id) = NoId THEN RelatedVia(g, id, name) ELSE MergedTargets(g, id, name)

FieldDiags(g, id, field, derived) ==
  LET attrs   == MergedAttrs(g, id)
      targets == TargetsFor(g, id, field.name)
      at      == Under(g.nodes[id].type, field.name)
      count   == (IF field.name \in DOMAIN attrs THEN 1 ELSE 0) + Len(targets)
      strange == MetaKindOf(g, field.type) = "taxonomy" /\ \E t \in Range(targets) : ~ Contains(TermsOf(g, field.type), t)
  IN (IF field.name \in derived THEN {} ELSE CountDiags(id, at, field.card, count, g.nodes[id].isClass))
     \cup When(strange, Diag("TaxonomyValueUnresolved", id, at))
     \cup ScalarDiags(g, id, field, attrs)

RelationshipDiags(g, id, r, derived) ==
  LET targets == TargetsFor(g, id, r.name)
      at      == Under(g.nodes[id].type, r.name)
      typed(t) == ~ HasNode(g, t) \/ \E want \in Range(r.targets) : IsA(g, g.nodes[t].type, want)
  IN (IF r.name \in derived THEN {} ELSE CountDiags(id, at, r.card, Len(targets), g.nodes[id].isClass))
     \cup When(r.targets # <<>> /\ \E t \in Range(targets) : ~ typed(t), Diag("TargetTypeMismatch", id, at))

ReservedAttrs == {"conforms"}
UnknownDiags(g, id, declared) ==
  {Diag("MemberUnknown", id, Under(g.nodes[id].type, key)) : key \in DOMAIN g.nodes[id].attrs \ (declared \cup ReservedAttrs)}

InvariantTypes(g, type) == Range(Lineage(g, type))
InvariantDiags(g, id) ==
  {Diag("InvariantFailed", id, t) :
     t \in {x \in InvariantTypes(g, g.nodes[id].type) \cap DOMAIN InvariantsOf :
              \E i \in DOMAIN InvariantsOf[x] : ~ Satisfies(g, InvariantsOf[x][i], id)}}

BindingDiags(g, id, cls) ==
  LET at == Under(g.nodes[id].type, "instanceof")
  IN IF ~ HasNode(g, cls) THEN {Diag("BindingInvalid", id, at)}
     ELSE When(~ g.nodes[cls].isClass \/ g.nodes[cls].type # g.nodes[id].type, Diag("BindingInvalid", id, at))
          \cup {Diag("ClassOverride", id, Under(g.nodes[id].type, key)) :
                  key \in {k \in DOMAIN g.nodes[id].attrs \cap DOMAIN g.nodes[cls].attrs :
                             g.nodes[cls].attrs[k] # g.nodes[id].attrs[k]}}

InstanceDiags(g, id) ==
  LET type    == g.nodes[id].type
      fields  == Range(EffectiveFields(g, type))
      rels    == Range(EffectiveRelationships(g, type))
      derived == DerivedMembersOf(g, type)
      cls     == ClassOf(g, id)
  IN UNION {FieldDiags(g, id, f, derived) : f \in fields}
     \cup UNION {RelationshipDiags(g, id, r, derived) : r \in rels}
     \cup UnknownDiags(g, id, {m.name : m \in fields} \cup {m.name : m \in rels})
     \cup (IF g.nodes[id].isClass THEN {} ELSE InvariantDiags(g, id))
     \cup (IF cls = NoId THEN {} ELSE BindingDiags(g, id, cls))

NodeDiags(g, id) ==
  LET node == g.nodes[id]
  IN CASE node.metaKind = "taxonomy"   -> TaxonomyDiags(g, id)
       [] node.metaKind = "viewpoint"  -> ViewpointDiags(g, id)
       [] node.metaKind = "model"      -> ModelDiags(g, id)
       [] node.metaKind = "annotation" -> AnnotationDiags(g, id)
       [] node.tier = "instance"       -> InstanceDiags(g, id)
       [] node.tier = "ontology" /\ MetaKindOf(g, node.type) = "annotation" -> ApplicationDiags(g, id)
       [] OTHER                        -> {}

Validated(g, listed) ==
  TypeModelDiags(g, listed) \cup UNION {NodeDiags(g, id) : id \in {n \in DOMAIN g.nodes : Visible(g, n)}}

----------------------------------------------------------------------------
(* One validation of a graph, with its nodes in one of the orders.             *)

Unchecked == {Diag("unchecked", NoId, NoId)}
ValidationInit == schema = EmptyGraph /\ listing = <<>> /\ verdict = Unchecked

Commit ==
  /\ schema = EmptyGraph
  /\ \E which \in DOMAIN Schemas : schema' = Schemas[which]
  /\ listing' \in Listings
  /\ UNCHANGED verdict

Validate ==
  /\ schema # EmptyGraph /\ verdict = Unchecked
  /\ verdict' = Validated(schema, listing)
  /\ UNCHANGED <<schema, listing>>

ValidationNext == Commit \/ Validate

----------------------------------------------------------------------------
(* What a verdict promises, of the step that gives it.                         *)

Reaches(k, id) == LET RECURSIVE grow(_)
                      grow(S) == LET T == S \cup UNION {Range(Steps(schema, k, n)) : n \in S} IN IF T = S THEN S ELSE grow(T)
                  IN grow(Range(Steps(schema, k, id)))
Cyclic(k) == {n \in DOMAIN schema.nodes : MetaKindOf(schema, n) = k.meta /\ n \in Reaches(k, n)}
SingleStep(k) == \A n \in DOMAIN schema.nodes : Cardinality(Range(Steps(schema, k, n))) <= 1

\* A cycle in the type graph never goes unseen, and where every type has one
\* base each cycle is one diagnostic, in whatever order the types are declared.
CyclesSeen(diags) ==
  \A k \in {Inheritance, Inclusion} :
    LET loops    == {Cyclic(k) \cap (Reaches(k, n) \cup {n}) : n \in Cyclic(k)}
        anchored == {d.node : d \in {e \in diags : e.code = "InheritanceCycle"
                                                      /\ MetaKindOf(schema, e.node) = k.meta}}
    IN /\ anchored \subseteq Cyclic(k)
       /\ Cyclic(k) # {} => anchored # {}
       /\ SingleStep(k) => \A loop \in loops : Cardinality(loop \cap anchored) = 1

\* Whoever reads a member finds the one declaration of it: a name that two types
\* of a lineage declare is reported on the type or on one it is made of, unless
\* a cycle among them is reported instead.
CollisionsSeen(diags) ==
  \A type \in {n \in DOMAIN schema.nodes : MetaKindOf(schema, n) \in {"concept", "aspect"}} :
    LET full == Full(schema, type)
        made == Contributors(schema, type) \cup {type}
    IN \A name \in {n \in DOMAIN full : Cardinality(full[n]) > 1} :
         \/ made \cap (Cyclic(Inheritance) \cup Cyclic(Inclusion)) # {}
         \/ \E t \in made : \E d \in diags :
              d.code \in {"MemberCollision", "MemberRedeclared"} /\ d.at = Under(t, name)

\* A leaf is judged as itself and its class together: to repeat a value or a
\* target of the class changes nothing, invariants aside, which read the leaf.
Bare(leaf) ==
  [schema EXCEPT !.nodes[leaf].attrs = <<>>,
                 !.edges = SelectSeq(@, LAMBDA e : e.kind # "relationship" \/ e.from # leaf)]
Repeats(leaf) ==
  LET cls == ClassOf(schema, leaf)
  IN /\ cls # NoId
     /\ \A key \in DOMAIN schema.nodes[leaf].attrs :
          key \in DOMAIN schema.nodes[cls].attrs /\ schema.nodes[cls].attrs[key] = schema.nodes[leaf].attrs[key]
     /\ \A i \in DOMAIN schema.edges :
          schema.edges[i].kind = "relationship" /\ schema.edges[i].from = leaf
            => Contains(RelatedVia(schema, cls, schema.edges[i].via), schema.edges[i].to)
JudgedOf(given, id) == {d \in given : d.node = id /\ d.code \notin {"InvariantFailed", "MemberUnknown"}}
LeavesRepeatFreely(diags) ==
  \A leaf \in {n \in DOMAIN schema.nodes : schema.nodes[n].tier = "instance" /\ Repeats(n)} :
    JudgedOf(diags, leaf) = JudgedOf(Validated(Bare(leaf), listing), leaf)

TypeFaultsSeen ==
  verdict' # verdict =>
    \E diags \in {verdict'} : CyclesSeen(diags) /\ CollisionsSeen(diags) /\ LeavesRepeatFreely(diags)
=============================================================================
