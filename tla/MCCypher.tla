-------------------------------- MODULE MCCypher --------------------------------
(* Queries and graphs that exercise the planner; and for the text form, every    *)
(* expression of depth two over one leaf of each class, and a query of every      *)
(* clause.                                                                        *)
EXTENDS CypherExpressions, TLC

CONSTANTS Keys, Absent

(***************************************************************************)
(* For the planner.                                                        *)
(***************************************************************************)
Unbounded == -1
Always == <<"lit", Bool(TRUE)>>

K == <<1>>
At(k, n) == (k :> Num(n))
NoProps == [k \in {} |-> Null]
MCSupers == [Item |-> {"Item", "Asset"}, Place |-> {"Place"}, Asset |-> {"Asset"}]

N(v, label) == [v |-> v, label |-> label, props |-> NoProps]
NK(v, label, n) == [v |-> v, label |-> label, props |-> At(K, n)]
R(v, type, dir) == [v |-> v, type |-> type, dir |-> dir, hops |-> <<>>]
RV(v, type, dir, min, max) == [v |-> v, type |-> type, dir |-> dir, hops |-> <<min, max>>]
Path(nodes, rels) == [nodes |-> nodes, rels |-> rels, as |-> ""]
PathAs(as, nodes, rels) == [nodes |-> nodes, rels |-> rels, as |-> as]
Match(paths, where) == [k |-> "match", paths |-> paths, where |-> where, optional |-> FALSE]
Optional(paths, where) == [k |-> "match", paths |-> paths, where |-> where, optional |-> TRUE]
UnwindAs(e, v) == [k |-> "unwind", e |-> e, v |-> v]
V(v) == <<"var", v>>
P(v) == <<"prop", v, K>>
L(n) == <<"lit", Num(n)>>
Cmp(op, l, r) == <<"cmp", op, l, r>>
Item(e) == [e |-> e, as |-> ""]
As(e, v) == [e |-> e, as |-> v]
Fn(name, args, distinct, star) == <<"fn", name, args, distinct, star>>
Part(reading, items) == [reading |-> reading, items |-> items, distinct |-> FALSE, where |-> Always, orderBy |-> <<>>, skip |-> Null, limit |-> Null]
Vars(vs) == [i \in DOMAIN vs |-> Item(V(vs[i]))]

Q(reading, vs) == <<Part(reading, Vars(vs))>>
AB == Path(<<N("a", "Item"), N("b", "")>>, <<R("", 1, "out")>>)
MCQueries == {
    Q(<<Match(<<AB>>, Always)>>, <<"a", "b">>),
    Q(<<Match(<<Path(<<N("a", ""), N("b", "Asset")>>, <<R("r", 1, "in")>>)>>, Cmp("<", P("a"), P("b")))>>, <<"a", "b", "r">>),
    \* converging paths, in the two orders
    Q(<<Match(<<AB, Path(<<N("c", "Place"), N("b", "")>>, <<R("", 2, "out")>>)>>, Always)>>, <<"a", "b", "c">>),
    Q(<<Match(<<Path(<<N("c", "Place"), N("b", "")>>, <<R("", 2, "out")>>)>>, Always), Match(<<AB>>, Always)>>, <<"a", "b", "c">>),
    Q(<<Match(<<AB, Path(<<N("b", ""), N("a", "")>>, <<R("", 1, "both")>>)>>, Always)>>, <<"a", "b">>),
    Q(<<Match(<<Path(<<N("a", ""), N("b", ""), N("a", "Item")>>, <<R("", 1, "both"), R("r", 2, "out")>>)>>, Always)>>, <<"a", "b", "r">>),
    Q(<<Match(<<Path(<<N("", "Item"), N("b", "")>>, <<R("", 1, "out")>>), Path(<<N("b", ""), N("", "")>>, <<R("", 2, "in")>>)>>, Always)>>, <<"b">>),
    \* trails
    Q(<<Match(<<PathAs("p", <<N("a", "Item"), N("b", "")>>, <<RV("r", 1, "out", 1, Unbounded)>>)>>, Always)>>, <<"a", "b", "p", "r">>),
    Q(<<Match(<<PathAs("p", <<N("a", ""), N("b", "Place")>>, <<RV("", 1, "both", 0, 2)>>)>>, Always)>>, <<"a", "b", "p">>),
    Q(<<Match(<<Path(<<N("a", ""), N("b", ""), NK("c", "", 1)>>, <<RV("r", 1, "in", 2, 3), R("", 2, "both")>>)>>, Always)>>, <<"a", "c", "r">>),
    \* optional
    Q(<<Match(<<Path(<<N("a", "Asset")>>, <<>>)>>, Always), Optional(<<Path(<<N("a", ""), NK("b", "", 1)>>, <<R("r", 2, "out")>>)>>, Cmp("<>", P("a"), P("b")))>>, <<"a", "b", "r">>),
    Q(<<Match(<<Path(<<N("a", "")>>, <<>>)>>, Always), Optional(<<Path(<<N("a", ""), N("b", "")>>, <<R("", 2, "out")>>)>>, Always),
        Optional(<<Path(<<N("b", ""), N("c", "")>>, <<R("", 1, "out")>>)>>, Always)>>, <<"a", "b", "c">>),
    \* filters for the source
    Q(<<Match(<<Path(<<N("a", "Item"), NK("b", "Place", 1)>>, <<R("", 1, "out")>>)>>, <<"and", <<Cmp("=", P("a"), <<"param", "w">>), Cmp("<=", P("a"), P("b"))>>>>)>>, <<"a", "b">>),
    Q(<<Match(<<Path(<<N("b", "Place")>>, <<>>)>>, Always), Optional(<<Path(<<N("b", ""), N("a", "Item")>>, <<R("", 1, "in")>>)>>, Cmp("=", P("a"), L(1)))>>, <<"a", "b">>),
    Q(<<Match(<<Path(<<NK("a", "Item", 1)>>, <<>>), Path(<<N("b", "Asset")>>, <<>>)>>, Always)>>, <<"a", "b">>),
    Q(<<Match(<<Path(<<N("a", "Item")>>, <<>>)>>, <<"or", <<Cmp("=", P("a"), L(1)), Cmp("=", P("a"), L(2))>>>>)>>, <<"a">>),
    Q(<<Match(<<Path(<<N("b", "Place")>>, <<>>)>>, Always), Optional(<<Path(<<N("a", "Item")>>, <<>>)>>, Cmp("=", P("b"), L(1)))>>, <<"a", "b">>),
    \* projections
    <<Part(<<Match(<<Path(<<N("a", "Asset")>>, <<>>)>>, Always)>>, <<As(P("a"), "k"), As(Fn("count", <<>>, FALSE, TRUE), "n")>>)>>,
    <<[Part(<<Match(<<Path(<<N("a", "")>>, <<>>)>>, Cmp("=", P("a"), L(1)))>>, <<As(P("a"), "k"), As(Fn("count", <<V("a")>>, FALSE, FALSE), "n")>>)
        EXCEPT !.where = Cmp(">", Fn("count", <<V("a")>>, FALSE, FALSE), L(1))],
      Part(<<UnwindAs(Fn("range", <<L(1), V("n")>>, FALSE, FALSE), "i")>>, <<Item(V("i")), Item(V("k"))>>)>>,
    <<[Part(<<Match(<<AB>>, Always)>>, <<As(P("b"), "k")>>) EXCEPT !.distinct = TRUE]>>,
    <<Part(<<Match(<<AB>>, Always)>>, <<As(P("b"), "k")>>)>>,
    <<[Part(<<Match(<<Path(<<NK("a", "Place", 2)>>, <<>>)>>, Always)>>, <<As(Fn("sum", <<P("a")>>, TRUE, FALSE), "s"), As(Fn("max", <<P("a")>>, FALSE, FALSE), "m")>>) EXCEPT !.limit = Num(2)]>>,
    <<[Part(<<Match(<<AB>>, Always)>>, <<Item(V("a")), As(P("a"), "k")>>) EXCEPT !.orderBy = <<[e |-> P("a"), desc |-> TRUE]>>, !.skip = Num(1)]>>,
    \* refused
    Q(<<Match(<<AB>>, Cmp("=", P("z"), L(1)))>>, <<"a">>) }

G(order, edges) == [order |-> order, concept |-> <<"Item", "Item", "Place", "Place">>,
                    nodes |-> <<At(K, 1), At(K, 2), At(K, 1), NoProps>>, edges |-> edges]
Arc(f, t, to) == <<f, t, to>>
MCGraphs == {
    G(<<1, 2, 3, 4>>, <<Arc(1, 1, 3), Arc(2, 1, 3), Arc(2, 1, 4), Arc(3, 2, 1), Arc(4, 2, 3)>>),
    G(<<2, 4, 1, 3>>, <<Arc(1, 1, 2), Arc(2, 1, 1), Arc(2, 1, 3), Arc(3, 2, 2), Arc(1, 2, 1)>>),
    G(<<4, 1, 2, 3>>, <<Arc(1, 1, 2), Arc(1, 2, 2), Arc(2, 1, 3), Arc(3, 1, 1), Arc(4, 2, 2), Arc(3, 2, 2)>>) }

(***************************************************************************)
(* For the text form.                                                      *)
(***************************************************************************)
None == <<>>
Unnamed == ""

Va == <<"var", "a">>
Leaves == {Va, L(1), L(-1), <<"prop", "a", "k">>}
AnyLeaf == Leaves \cup {<<"lit", Null>>, <<"lit", Str("s")>>, <<"lit", Bool(TRUE)>>, <<"param", "w">>, <<"fn", "count", <<>>, FALSE, TRUE>>}
\* One operator of every class over given operands.
Over(E) ==
    {<<"cmp", "=", x, y>> : x \in E, y \in E} \cup {<<"arith", op, x, y>> : op \in {"-", "*"}, x \in E, y \in E}
    \cup {<<op, <<x, y>>>> : op \in {"and", "or"}, x \in E, y \in E} \cup {<<"idx", x, y>> : x \in E, y \in E}
    \cup {<<op, x>> : op \in {"not", "neg"}, x \in E} \cup {<<"isnull", b, x>> : b \in BOOLEAN, x \in E}
    \cup {<<"in", x, <<L(-1), L(2)>>>> : x \in E} \cup {<<"list", <<x, x>>>> : x \in E}
    \cup {<<"map", <<<<"k", x>>>>>> : x \in E} \cup {<<"fn", "size", <<x>>, b, FALSE>> : x \in E, b \in BOOLEAN}
\* One representative of every class and precedence.
Kinds == Over({Va}) \cup {L(-1), <<"or", <<Va>>>>, <<"and", <<Va, L(1), Va>>>>, <<"list", <<>>>>, <<"in", Va, <<>>>>}
Expressions == AnyLeaf \cup Over(Leaves) \cup Over(Kinds)

RH(v, type, hops, dir) == [v |-> v, type |-> type, hops |-> hops, dir |-> dir]
Just(e) == [e |-> e, as |-> Unnamed]
Projected(e) == [return |-> TRUE, distinct |-> FALSE, items |-> <<Just(e)>>, where |-> Always, orderBy |-> <<>>, skip |-> None, limit |-> None]
Only(p) == <<[reading |-> <<>>, projection |-> <<p>>]>>
Matching(where, paths) == [k |-> "match", optional |-> FALSE, paths |-> paths, where |-> where]
Write(clauses) == <<[reading |-> clauses, projection |-> None]>>
Put(mode, p, e) == [v |-> "a", p |-> p, mode |-> mode, e |-> e]

A == N("a", "Item")
Named == [N(Unnamed, "Place") EXCEPT !.props = <<<<"k", Num(-1)>>, <<"n", Str("s")>>>>]
Spans == {<<>>, <<1, Unbounded>>, <<2, Unbounded>>, <<0, 2>>, <<2, 2>>, <<1, 1>>}
OnePath == {PathAs(as, <<A, Named>>, <<RH(v, type, hops, dir)>>) :
                as \in {Unnamed, "p"}, v \in {Unnamed, "r"}, type \in {Unnamed, "has"}, hops \in Spans, dir \in {"in", "out", "both"}}
LongPath == PathAs("p", <<A, N(Unnamed, Unnamed), N("b", Unnamed)>>, <<RH(Unnamed, Unnamed, <<>>, "both"), RH("r", "has", <<>>, "in")>>)
Sets == <<Put("property", "k", <<"neg", <<"neg", Va>>>>), Put("merge", <<>>, <<"map", <<>>>>), Put("replace", <<>>, Va)>>
Whole ==
    [Projected(Va) EXCEPT !.items = <<[e |-> <<"or", <<Va, Va, Va>>>>, as |-> "x"], Just(L(-1))>>, !.distinct = TRUE,
        !.orderBy = <<[e |-> <<"neg", Va>>, desc |-> TRUE], [e |-> Va, desc |-> FALSE]>>, !.skip = L(1), !.limit = <<"param", "w">>]
MCModels ==
    {Only(Projected(e)) : e \in Expressions}
    \cup {<<[reading |-> <<Matching(Always, <<p>>)>>, projection |-> <<Projected(Va)>>]>> : p \in OnePath}
    \cup {<<[reading |-> <<Matching(<<"cmp", "<", Va, L(-1)>>, <<LongPath, PathAs(Unnamed, <<A>>, <<>>)>>),
                           [k |-> "unwind", e |-> <<"list", <<>>>>, v |-> "x"], [Matching(Always, <<LongPath>>) EXCEPT !.optional = TRUE]>>,
             projection |-> <<[Whole EXCEPT !.return = FALSE, !.where = <<"isnull", TRUE, Va>>]>>],
            [reading |-> <<>>, projection |-> <<Whole>>]>>,
          Write(<<Matching(Va, <<LongPath>>), [k |-> "merge", path |-> LongPath, onCreate |-> Sets, onMatch |-> Sets],
                  [k |-> "set", items |-> Sets], [k |-> "delete", detach |-> TRUE, targets |-> <<Va, <<"var", "b">>>>]>>),
          Write(<<[k |-> "merge", path |-> LongPath, onCreate |-> <<>>, onMatch |-> Sets], [k |-> "remove", items |-> <<<<"prop", "a", "k">>>>],
                  [k |-> "create", paths |-> <<LongPath, LongPath>>], [k |-> "delete", detach |-> FALSE, targets |-> <<Va>>]>>),
          <<[reading |-> <<[k |-> "create", paths |-> <<LongPath>>]>>, projection |-> <<Whole>>]>>}

(***************************************************************************)
(* For the write statements: a meta-model where a B is an A and an A is a  *)
(* Z, with a single-valued and a many-valued reference; node 1 is a frozen *)
(* Z.  The statements are the shapes whose clauses can disturb one another.*)
(***************************************************************************)
N0 == [k \in Keys |-> Absent]
Keyed(v) == [k \in Keys |-> IF k = "k" THEN v ELSE Absent]
Shape(label, attrs) == [label |-> label, attrs |-> attrs]
EdgeOf(from, member, to) == [from |-> from, member |-> member, to |-> to]
MCIsa == [c \in {"A", "B", "Z"} |-> CASE c = "Z" -> {"Z"} [] c = "A" -> {"A", "Z"} [] c = "B" -> {"A", "B", "Z"}]
MCFields == {[on |-> "A", name |-> "one", type |-> "Z", many |-> FALSE],
             [on |-> "A", name |-> "all", type |-> "Z", many |-> TRUE]}
MCRequired == {<<"B", "k">>}

Stored(t, v) == [type |-> t, attrs |-> Keyed(v)]
MCDrafts == {[nodes |-> (1 :> Stored("Z", 1)) @@ (2 :> Stored("A", 1)) @@ (3 :> Stored("B", 2)),
              edges |-> {EdgeOf(2, "one", 3), EdgeOf(3, "all", 1), EdgeOf(3, "all", 2)}],
             [nodes |-> (1 :> Stored("Z", 1)) @@ (2 :> Stored("A", Absent)),
              edges |-> {EdgeOf(2, "one", 1)}]}

MatchOf(v, p) == [op |-> "match", var |-> v, pattern |-> p]
HopOf(f, m, v, opt) == [op |-> "hop", from |-> f, member |-> m, var |-> v, optional |-> opt]
CreateOf(f, m, v, p) == [op |-> "create", from |-> f, member |-> m, var |-> v, pattern |-> p]
MergeOf(f, m, v, p, made, met) ==
    [op |-> "merge", from |-> f, member |-> m, var |-> v, pattern |-> p, onCreate |-> made, onMatch |-> met]
SetOf(items) == [op |-> "set", items |-> items]
RemoveOf(v, k) == [op |-> "remove", var |-> v, key |-> k]
DeleteOf(v, d) == [op |-> "delete", var |-> v, detach |-> d]
ToValue(v, x) == [set |-> "value", var |-> v, key |-> "k", value |-> x]
ToCopy(v, o) == [set |-> "copy", var |-> v, key |-> "k", of |-> o]
ToNode(v, m, o) == [set |-> "node", var |-> v, key |-> m, of |-> o]
ToMap(v, attrs, r) == [set |-> "map", var |-> v, attrs |-> attrs, replace |-> r]

AnyA == Shape("A", N0)
SomeA == MatchOf("a", AnyA)
SomeB == MatchOf("b", AnyA)

MCStatements ==
      {\* creates what it matches (Halloween)
       <<SomeA, SomeB, CreateOf(Absent, Absent, "x", Shape("A", Keyed(1)))>>,
       <<SomeA, CreateOf("a", "all", "x", Shape("B", Keyed(2))), MatchOf("y", Shape("A", Keyed(2))),
            CreateOf("a", "all", "y", AnyA), SetOf(<<ToValue("y", 1)>>)>>,
       \* a second target of a single-valued reference: refused
       <<MatchOf("a", Shape("A", Keyed(1))), CreateOf("a", "one", "x", Shape("A", Keyed(1)))>>,
       \* a SomeB without its required attribute: refused at commit
       <<SomeA, CreateOf("a", "all", "x", Shape("B", N0))>>,
       \* merges: a node, a relationship between bound nodes, a whole pattern
       <<SomeA, MergeOf(Absent, Absent, "x", Shape("A", Keyed(2)), <<>>, <<ToCopy("a", "x")>>)>>,
       <<SomeA, MatchOf("b", Shape("B", N0)), MergeOf("a", "all", "b", AnyA, <<>>, <<>>)>>,
       <<SomeA, MergeOf("a", "all", "x", Shape("A", Keyed(1)), <<ToValue("a", 2)>>, <<>>),
            MergeOf(Absent, Absent, "y", Shape("A", Keyed(1)), <<>>, <<ToMap("a", Keyed(2), TRUE)>>)>>,
       \* references replaced twice, then deleted with their nodes
       <<MatchOf("a", Shape("A", Keyed(1))), SomeB, SetOf(<<ToNode("a", "one", "b"), ToNode("b", "one", "a")>>)>>,
       <<MatchOf("a", Shape("A", Keyed(1))), HopOf("a", "one", "b", TRUE), SetOf(<<ToValue("b", 2), ToCopy("a", "b")>>),
            DeleteOf("b", TRUE), CreateOf("a", "one", "x", Shape("A", Keyed(1)))>>,
       <<SomeA, HopOf("a", "all", "b", FALSE), DeleteOf("b", FALSE)>>,
       <<MatchOf("a", Shape("B", N0)), DeleteOf("a", TRUE), CreateOf(Absent, Absent, "x", Shape("B", Keyed(1))),
            MatchOf("b", Shape("B", N0)), SetOf(<<ToMap("b", N0, TRUE), ToMap("b", Keyed(2), FALSE)>>), RemoveOf("x", "k")>>,
       <<MatchOf("a", Shape("A", Keyed(2))), CreateOf(Absent, Absent, "x", AnyA), CreateOf("x", "one", "a", AnyA),
            SetOf(<<ToNode("x", "one", "x"), ToNode("x", "one", "a"), ToMap("x", Keyed(1), FALSE)>>)>>}
=================================================================================
