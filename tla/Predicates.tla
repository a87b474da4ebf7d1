----------------------------- MODULE Predicates -----------------------------
(* The subtype and instance reads of the Repository (model.ts), the evaluator  *)
(* of predicates over them (predicate/evaluate.ts), derived members            *)
(* (derivations.ts), and the memos both keep until the graph changes.          *)
(* A value is a set of nodes, a literal or none.  Expressions are closed, so   *)
(* that the error of an unbound variable does not occur.                       *)
EXTENDS RepositoryGraph

CONSTANTS Falsy,          \* the literals that convert to false: "", 0, false
          DerivedMembers  \* the expressions of defineDerived, by member name

----------------------------------------------------------------------------
(* Types and their extents.                                                    *)

SubtypesOf(g, concept) == Range(Closure(g, concept, "extends", FALSE))

CarriersOf(g, aspect) ==
  LET includers == {i \in Range(Closure(g, aspect, "includesAspect", FALSE)) : MetaKindOf(g, i) = "concept"}
  IN includers \cup UNION {SubtypesOf(g, i) : i \in includers}

IsA(g, type, t) ==
  \/ type = t
  \/ t \in Range(SupertypesOf(g, type))
  \/ t \in Range(AspectsOf(g, type))

Visible(g, id) == g.nodes[id].canonical = NoId
InstancesOf(g, types) == {id \in DOMAIN g.nodes : g.nodes[id].type \in types /\ Visible(g, id)}

MatchingTypes(g, t) ==
  CASE MetaKindOf(g, t) = "aspect" -> CarriersOf(g, t)
    [] t = Element                 -> {c \in DOMAIN g.nodes : MetaKindOf(g, c) = "concept"}
    [] OTHER                       -> {t} \cup SubtypesOf(g, t)

InstancesMatching(g, t) == InstancesOf(g, MatchingTypes(g, t))

----------------------------------------------------------------------------
(* Values.                                                                     *)

None     == [is |-> "none",    nodes |-> {}, lit |-> ""]
NodeSet(S) == [is |-> "nodes", nodes |-> S,  lit |-> ""]
Literal(v) == [is |-> "literal", nodes |-> {}, lit |-> v]
Truth(b) == [is |-> IF b THEN "true" ELSE "false", nodes |-> {}, lit |-> ""]

ToBool(v) ==
  CASE v.is = "nodes"   -> v.nodes # {}
    [] v.is = "literal" -> v.lit \notin Falsy
    [] OTHER            -> v.is = "true"

ValuesEqual(a, b) ==
  LET empty(v) == v.is = "none" \/ (v.is = "nodes" /\ v.nodes = {})
  IN IF a.is = "none" \/ b.is = "none" THEN empty(a) /\ empty(b) ELSE a = b

\* One node's own literal, else the targets of the relationship of that name.
MemberOf(g, v, name) ==
  LET own == IF v.is = "nodes" /\ Cardinality(v.nodes) = 1
             THEN {n \in v.nodes : HasNode(g, n) /\ name \in DOMAIN g.nodes[n].attrs} ELSE {}
  IN IF own # {} THEN Literal(g.nodes[CHOOSE n \in own : TRUE].attrs[name])
     ELSE NodeSet(UNION {Range(RelatedVia(g, n, name)) : n \in v.nodes})

----------------------------------------------------------------------------
(* Evaluation, with the quantifier domains remembered in m.                    *)

DomainKey(t)     == <<"domain", t>>
AspectsKey(c)    == <<"aspects", c>>
CarriersKey(a)   == <<"carriers", a>>
DerivedKey(i, n) == <<"derived", i, n>>

QuantifierDomain(g, m, t) ==
  IF DomainKey(t) \in DOMAIN m THEN m[DomainKey(t)] ELSE InstancesMatching(g, t)

RECURSIVE Eval(_, _, _, _)
Eval(g, m, x, env) ==
  LET holds(body, id) == ToBool(Eval(g, m, body, (x.var :> id) @@ env))
      left   == Eval(g, m, x.left, env)
      right  == Eval(g, m, x.right, env)
      domain == QuantifierDomain(g, m, x.concept)
  IN CASE x.kind = "this"          -> NodeSet({env["this"]})
       [] x.kind = "var"           -> NodeSet({env[x.var]})
       [] x.kind = "name"          -> NodeSet({x.id})
       [] x.kind = "none"          -> None
       [] x.kind = "member"        -> MemberOf(g, Eval(g, m, x.target, env), x.member)
       [] x.kind = "comprehension" -> NodeSet({id \in domain : holds(x.body, id)})
       [] x.kind = "all"           -> Truth(\A id \in domain : holds(x.body, id))
       [] x.kind = "any"           -> Truth(\E id \in domain : holds(x.body, id))
       [] x.kind = "and"           -> Truth(ToBool(left) /\ ToBool(right))
       [] x.kind = "or"            -> Truth(ToBool(left) \/ ToBool(right))
       [] x.kind = "implies"       -> Truth(ToBool(left) => ToBool(right))
       [] x.kind = "eq"            -> Truth(ValuesEqual(left, right))
       [] x.kind = "neq"           -> Truth(~ ValuesEqual(left, right))
       [] x.kind = "in"            -> Truth(left.nodes \subseteq right.nodes)
       [] x.kind = "not"           -> Truth(~ ToBool(Eval(g, m, x.operand, env)))

Evaluate(g, m, x, self) == Eval(g, m, x, "this" :> self)
NoMemo == <<>>
Satisfies(g, x, self) == ToBool(Evaluate(g, NoMemo, x, self))
=============================================================================
