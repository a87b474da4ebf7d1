-------------------------------- MODULE CypherText --------------------------------
(***************************************************************************)
(* A query as text: CypherUnparser renders the model a fluent builder made *)
(* and CypherParser reads it back (src/cypher/unparser.ts, parser.ts,      *)
(* lexer.ts).  The text is the sequence of its tokens: spacing, quoting of *)
(* names and the digits of a number are left out, the sign of one is not.  *)
(*                                                                         *)
(* The machine sends one model from builder to engine: Send renders it,    *)
(* Receive parses what was sent.                                           *)
(***************************************************************************)
EXTENDS CypherExpressions

CONSTANT Models     \* the queries a builder makes

VARIABLES model, sent
vars == <<model, sent>>

None == <<>>
Unnamed == ""
Always == <<"lit", Bool(TRUE)>>
Unbounded == -1

Sym(s) == <<"sym", s>>
Kw(s) == <<"kw", s>>
Name(n) == <<"id", n>>
Number(n) == <<"number", n>>
Eof == <<"eof", 0>>

-----------------------------------------------------------------------------
(* Rendering. *)
Or == 1
And == 2
Not == 3
Predicate == 4
Additive == 5
Multiplicative == 6
Unary == 7
Postfix == 8

Joined(pieces, separator) ==
    FlattenSeq([i \in DOMAIN pieces |-> IF i = 1 THEN pieces[i] ELSE separator \o pieces[i]])

PrecOf(e) ==
    CASE e[1] = "or" -> Or
      [] e[1] = "and" -> And
      [] e[1] = "not" -> Not
      [] e[1] \in {"cmp", "isnull", "in"} -> Predicate
      [] e[1] = "arith" -> IF e[2] \in {"+", "-"} THEN Additive ELSE Multiplicative
      [] e[1] = "neg" -> Unary
      [] e[1] = "lit" -> IF e[2][1] = "num" /\ Compare(e[2], Num(0)) < 0 THEN Unary ELSE Postfix
      [] OTHER -> Postfix

Scalar(v) ==
    CASE v[1] = "num" -> IF v[2] < 0 THEN <<Sym("-"), Number(-v[2])>> ELSE <<Number(v[2])>>
      [] v[1] = "str" -> <<v>>
      [] v[1] = "bool" -> <<Kw(IF v[2] THEN "TRUE" ELSE "FALSE")>>

RECURSIVE Bare(_)
Expr(e, minPrec) == IF PrecOf(e) < minPrec THEN <<Sym("(")>> \o Bare(e) \o <<Sym(")")>> ELSE Bare(e)
\* Operands after the first bind tighter than their own level, so that they group to the left.
Operands(s, own, word) == Joined([i \in DOMAIN s |-> Expr(s[i], IF i = 1 THEN own ELSE own + 1)], <<word>>)
Listed(s) == Joined([i \in DOMAIN s |-> Expr(s[i], Or)], <<Sym(",")>>)
Bare(e) ==
    CASE e[1] = "lit" -> IF e[2] = Null THEN <<Kw("NULL")>> ELSE Scalar(e[2])
      [] e[1] = "var" -> <<Name(e[2])>>
      [] e[1] = "prop" -> <<Name(e[2]), Sym("."), Name(e[3])>>
      [] e[1] = "param" -> <<Sym("$"), Name(e[2])>>
      [] e[1] = "cmp" -> Expr(e[3], Additive) \o <<Sym(e[2])>> \o Expr(e[4], Additive)
      [] e[1] = "not" -> <<Kw("NOT")>> \o Expr(e[2], Not)
      [] e[1] = "and" -> Operands(e[2], And, Kw("AND"))
      [] e[1] = "or" -> Operands(e[2], Or, Kw("OR"))
      [] e[1] = "isnull" -> Expr(e[3], Additive) \o (IF e[2] THEN <<Kw("IS"), Kw("NOT"), Kw("NULL")>> ELSE <<Kw("IS"), Kw("NULL")>>)
      [] e[1] = "in" -> Expr(e[2], Additive) \o <<Kw("IN"), Sym("[")>>
                        \o Joined([i \in DOMAIN e[3] |-> Scalar(e[3][i][2])], <<Sym(",")>>) \o <<Sym("]")>>
      [] e[1] = "arith" -> Expr(e[3], PrecOf(e)) \o <<Sym(e[2])>> \o Expr(e[4], PrecOf(e) + 1)
      [] e[1] = "neg" -> <<Sym("-")>> \o Expr(e[2], Postfix)
      [] e[1] = "list" -> <<Sym("[")>> \o Listed(e[2]) \o <<Sym("]")>>
      [] e[1] = "map" -> <<Sym("{")>> \o Joined([i \in DOMAIN e[2] |-> <<Name(e[2][i][1]), Sym(":")>> \o Expr(e[2][i][2], Or)],
                                                <<Sym(",")>>) \o <<Sym("}")>>
      [] e[1] = "idx" -> Expr(e[2], Postfix) \o <<Sym("[")>> \o Expr(e[3], Or) \o <<Sym("]")>>
      [] e[1] = "fn" -> <<Name(e[2]), Sym("(")>> \o
                        (IF e[5] THEN <<Sym("*")>>
                         ELSE (IF e[4] THEN <<Kw("DISTINCT")>> ELSE <<>>) \o Listed(e[3])) \o <<Sym(")")>>

OptionalName(v) == IF v = Unnamed THEN <<>> ELSE <<Name(v)>>
PropMap(props) == \* <<name, scalar>> pairs
    IF props = <<>> THEN <<>>
    ELSE <<Sym("{")>> \o Joined([i \in DOMAIN props |-> <<Name(props[i][1]), Sym(":")>> \o Scalar(props[i][2])], <<Sym(",")>>) \o <<Sym("}")>>
NodeText(n) ==
    <<Sym("(")>> \o OptionalName(n.v) \o (IF n.label = Unnamed THEN <<>> ELSE <<Sym(":"), Name(n.label)>>) \o PropMap(n.props) \o <<Sym(")")>>
Hops(hops) ==
    CASE hops = <<>> -> <<>>
      [] hops # <<>> /\ hops[2] = Unbounded /\ hops[1] = 1 -> <<Sym("*")>>
      [] hops # <<>> /\ hops[2] = Unbounded /\ hops[1] # 1 -> <<Sym("*"), Number(hops[1]), Sym("."), Sym(".")>>
      [] hops # <<>> /\ hops[2] = hops[1] -> <<Sym("*"), Number(hops[1])>>
      [] OTHER -> <<Sym("*"), Number(hops[1]), Sym("."), Sym("."), Number(hops[2])>>
RelText(r) ==
    LET inner == OptionalName(r.v) \o (IF r.type = Unnamed THEN <<>> ELSE <<Sym(":"), Name(r.type)>>) \o Hops(r.hops)
    IN (IF r.dir = "in" THEN <<Sym("<-")>> ELSE <<Sym("-")>>)
       \o (IF inner = <<>> THEN <<>> ELSE <<Sym("[")>> \o inner \o <<Sym("]")>>)
       \o (IF r.dir = "out" THEN <<Sym("->")>> ELSE <<Sym("-")>>)
PathText(p) ==
    (IF p.as = Unnamed THEN <<>> ELSE <<Name(p.as), Sym("=")>>) \o
    NodeText(p.nodes[1]) \o FlattenSeq([i \in DOMAIN p.rels |-> RelText(p.rels[i]) \o NodeText(p.nodes[i + 1])])

SetItemText(s) == \* [v, p, mode, e]
    <<Name(s.v)>> \o (CASE s.mode = "merge" -> <<Sym("+=")>>
                        [] s.mode = "replace" -> <<Sym("=")>>
                        [] s.mode = "property" -> <<Sym("."), Name(s.p), Sym("=")>>) \o Expr(s.e, Or)
WhereText(e) == IF e = Always THEN <<>> ELSE <<Kw("WHERE")>> \o Expr(e, Or)
OnText(word, sets) ==
    IF sets = <<>> THEN <<>>
    ELSE <<Name("on"), Kw(word), Kw("SET")>> \o Joined([i \in DOMAIN sets |-> SetItemText(sets[i])], <<Sym(",")>>)
ClauseText(c) ==
    CASE c.k = "match" -> (IF c.optional THEN <<Kw("OPTIONAL")>> ELSE <<>>) \o <<Kw("MATCH")>>
                          \o Joined([i \in DOMAIN c.paths |-> PathText(c.paths[i])], <<Sym(",")>>) \o WhereText(c.where)
      [] c.k = "unwind" -> <<Kw("UNWIND")>> \o Expr(c.e, Or) \o <<Kw("AS"), Name(c.v)>>
      [] c.k = "create" -> <<Kw("CREATE")>> \o Joined([i \in DOMAIN c.paths |-> PathText(c.paths[i])], <<Sym(",")>>)
      [] c.k = "merge" -> <<Kw("MERGE")>> \o PathText(c.path) \o OnText("CREATE", c.onCreate) \o OnText("MATCH", c.onMatch)
      [] c.k = "set" -> <<Kw("SET")>> \o Joined([i \in DOMAIN c.items |-> SetItemText(c.items[i])], <<Sym(",")>>)
      [] c.k = "delete" -> (IF c.detach THEN <<Kw("DETACH")>> ELSE <<>>) \o <<Kw("DELETE")>> \o Listed(c.targets)
      [] c.k = "remove" -> <<Kw("REMOVE")>> \o Listed(c.items)
ItemText(item) == Expr(item.e, Or) \o (IF item.as = Unnamed THEN <<>> ELSE <<Kw("AS"), Name(item.as)>>)
SortText(s) == Expr(s.e, Or) \o (IF s.desc THEN <<Kw("DESC")>> ELSE <<>>)
ProjectionText(p) ==
    (IF p.return THEN <<Kw("RETURN")>> ELSE <<Kw("WITH")>>) \o (IF p.distinct THEN <<Kw("DISTINCT")>> ELSE <<>>)
      \o Joined([i \in DOMAIN p.items |-> ItemText(p.items[i])], <<Sym(",")>>) \o WhereText(p.where)
      \o (IF p.orderBy = <<>> THEN <<>>
          ELSE <<Kw("ORDER"), Kw("BY")>> \o Joined([i \in DOMAIN p.orderBy |-> SortText(p.orderBy[i])], <<Sym(",")>>))
      \o (IF p.skip = None THEN <<>> ELSE <<Kw("SKIP")>> \o Expr(p.skip, Or))
      \o (IF p.limit = None THEN <<>> ELSE <<Kw("LIMIT")>> \o Expr(p.limit, Or))
Text(q) ==
    FlattenSeq([i \in DOMAIN q |->
        FlattenSeq([c \in DOMAIN q[i].reading |-> ClauseText(q[i].reading[c])])
        \o (IF q[i].projection = None THEN <<>> ELSE ProjectionText(q[i].projection[1]))]) \o <<Eof>>

-----------------------------------------------------------------------------
(* Parsing: what was read and the tokens after it, or Bad.  The tokens end with Eof, which nothing consumes. *)
Got(v, rest) == [ok |-> TRUE, v |-> v, rest |-> rest]
Bad == [ok |-> FALSE, v |-> <<>>, rest |-> <<Eof>>]
Peek(t, token) == Head(t) = token
After(t, token) == IF Peek(t, token) THEN Tail(t) ELSE t        \* accept
Expect(r, token) == IF r.ok /\ Peek(r.rest, token) THEN Got(r.v, Tail(r.rest)) ELSE Bad
IsName(t) == Head(t)[1] = "id"
ExpectName(t) == IF IsName(t) THEN Got(Head(t)[2], Tail(t)) ELSE Bad
Mapped(r, v) == IF r.ok THEN Got(v, r.rest) ELSE Bad            \* what r read, made into v
OptionalNameOf(t) == IF IsName(t) THEN Got(Head(t)[2], Tail(t)) ELSE Got(Unnamed, t)

ScalarLiteral(t) ==
    CASE Peek(t, Sym("-")) /\ t[2][1] = "number" -> Got(Num(-t[2][2]), SubSeq(t, 3, Len(t)))
      [] Head(t)[1] = "number" -> Got(Num(Head(t)[2]), Tail(t))
      [] Head(t)[1] = "str" -> Got(Head(t), Tail(t))
      [] Peek(t, Kw("TRUE")) -> Got(Bool(TRUE), Tail(t))
      [] Peek(t, Kw("FALSE")) -> Got(Bool(FALSE), Tail(t))
      [] OTHER -> Bad

Operators(level) ==
    CASE level = Or -> {Kw("OR")}
      [] level = And -> {Kw("AND")}
      [] level = Additive -> {Sym("+"), Sym("-")}
      [] level = Multiplicative -> {Sym("*"), Sym("/"), Sym("%")}
Infix(level, token, l, r) ==
    CASE level = Or -> <<"or", <<l, r>>>>
      [] level = And -> <<"and", <<l, r>>>>
      [] OTHER -> <<"arith", token[2], l, r>>
Comparisons == {Sym("="), Sym("<>"), Sym("<"), Sym("<="), Sym(">"), Sym(">=")}

(* parseOr down to parsePrimary, one level of the ladder at a time; Items reads what stands between commas. *)
RECURSIVE At(_, _), LeftAssociated(_, _), PostfixOf(_), Items(_, _), Listing(_, _, _), ItemOf(_, _)
LeftAssociated(level, l) ==
    IF ~ l.ok \/ Head(l.rest) \notin Operators(level) THEN l
    ELSE LET r == At(level + 1, Tail(l.rest))
         IN IF r.ok THEN LeftAssociated(level, Got(Infix(level, Head(l.rest), l.v, r.v), r.rest)) ELSE Bad

PredicateOf(l) ==
    CASE l.ok /\ Head(l.rest) \in Comparisons ->
            LET r == At(Additive, Tail(l.rest)) IN Mapped(r, <<"cmp", Head(l.rest)[2], l.v, r.v>>)
      [] l.ok /\ Peek(l.rest, Kw("IS")) ->
            LET negated == Peek(Tail(l.rest), Kw("NOT"))
            IN Expect(Got(<<"isnull", negated, l.v>>, After(Tail(l.rest), Kw("NOT"))), Kw("NULL"))
      [] l.ok /\ Peek(l.rest, Kw("IN")) ->
            LET r == Listing("literal", After(Tail(l.rest), Sym("[")), Sym("]"))
            IN IF Peek(Tail(l.rest), Sym("[")) THEN Mapped(r, <<"in", l.v, r.v>>) ELSE Bad
      [] OTHER -> l

PostfixOf(r) ==
    CASE r.ok /\ Peek(r.rest, Sym("[")) ->
            LET i == Expect(At(Or, Tail(r.rest)), Sym("]"))
            IN IF i.ok THEN PostfixOf(Got(<<"idx", r.v, i.v>>, i.rest)) ELSE Bad
      [] r.ok /\ Peek(r.rest, Sym(".")) ->
            LET n == ExpectName(Tail(r.rest))
            IN IF n.ok THEN PostfixOf(Got(<<"idx", r.v, <<"lit", Str(n.v)>>>>, n.rest)) ELSE Bad
      [] OTHER -> r

CallArguments(name, t) ==
    IF Peek(t, Sym("*")) THEN Expect(Got(<<"fn", name, <<>>, FALSE, TRUE>>, Tail(t)), Sym(")"))
    ELSE LET args == Listing("expression", After(t, Kw("DISTINCT")), Sym(")"))
         IN Mapped(args, <<"fn", name, args.v, Peek(t, Kw("DISTINCT")), FALSE>>)
Primary(t) ==
    CASE Peek(t, Sym("$")) -> LET n == ExpectName(Tail(t)) IN Mapped(n, <<"param", n.v>>)
      [] Peek(t, Sym("(")) -> Expect(At(Or, Tail(t)), Sym(")"))
      [] Peek(t, Sym("[")) -> LET r == Listing("expression", Tail(t), Sym("]")) IN Mapped(r, <<"list", r.v>>)
      [] Peek(t, Sym("{")) -> LET r == Listing("entry", Tail(t), Sym("}")) IN Mapped(r, <<"map", r.v>>)
      [] Peek(t, Kw("NULL")) -> Got(<<"lit", Null>>, Tail(t))
      [] IsName(t) /\ Peek(Tail(t), Sym(".")) ->
            LET n == ExpectName(SubSeq(t, 3, Len(t))) IN Mapped(n, <<"prop", Head(t)[2], n.v>>)
      [] IsName(t) /\ Peek(Tail(t), Sym("(")) -> CallArguments(Head(t)[2], SubSeq(t, 3, Len(t)))
      [] IsName(t) /\ ~ Peek(Tail(t), Sym(".")) /\ ~ Peek(Tail(t), Sym("(")) -> Got(<<"var", Head(t)[2]>>, Tail(t))
      [] OTHER -> LET r == ScalarLiteral(t) IN Mapped(r, <<"lit", r.v>>)

At(level, t) ==
    CASE level \in {Or, And, Additive, Multiplicative} -> LeftAssociated(level, At(level + 1, t))
      [] level = Not -> IF Peek(t, Kw("NOT")) THEN LET r == At(Not, Tail(t)) IN Mapped(r, <<"not", r.v>>) ELSE At(Predicate, t)
      [] level = Predicate -> PredicateOf(At(Additive, t))
      [] level = Unary -> IF Peek(t, Sym("-")) THEN LET r == At(Unary, Tail(t)) IN Mapped(r, <<"neg", r.v>>) ELSE At(Postfix, t)
      [] level = Postfix -> PostfixOf(Primary(t))

-----------------------------------------------------------------------------
(* Patterns. *)
NodeOf(t) ==
    LET v == OptionalNameOf(Tail(t))
        label == IF Peek(v.rest, Sym(":")) THEN ExpectName(Tail(v.rest)) ELSE Got(Unnamed, v.rest)
        props == IF Peek(label.rest, Sym("{")) THEN Listing("property", Tail(label.rest), Sym("}")) ELSE Got(<<>>, label.rest)
    IN IF Peek(t, Sym("(")) /\ label.ok
       THEN Expect(Mapped(props, [v |-> v.v, label |-> label.v, props |-> props.v]), Sym(")")) ELSE Bad

\* After the star: [min] [.. [max]].
HopsOf(t) ==
    LET min == IF Head(t)[1] = "number" THEN <<Head(t)[2]>> ELSE <<>>
        u == IF min = <<>> THEN t ELSE Tail(t)
        ranged == Peek(u, Sym("."))
        w == IF ranged /\ Peek(Tail(u), Sym(".")) THEN SubSeq(u, 3, Len(u)) ELSE u
        max == IF ranged /\ Head(w)[1] = "number" THEN <<Head(w)[2]>> ELSE IF ranged THEN <<>> ELSE min
    IN IF ranged /\ w = u THEN Bad
       ELSE Got(<<IF min = <<>> THEN 1 ELSE min[1], IF max = <<>> THEN Unbounded ELSE max[1]>>,
                IF ranged /\ max # <<>> THEN Tail(w) ELSE w)

RelOf(t) ==
    LET incoming == Peek(t, Sym("<-"))
        bracketed == Peek(Tail(t), Sym("["))
        v == IF bracketed THEN OptionalNameOf(SubSeq(t, 3, Len(t))) ELSE Got(Unnamed, Tail(t))
        type == IF bracketed /\ Peek(v.rest, Sym(":")) THEN ExpectName(Tail(v.rest)) ELSE Got(Unnamed, v.rest)
        hops == IF bracketed /\ Peek(type.rest, Sym("*")) THEN HopsOf(Tail(type.rest)) ELSE Got(<<>>, type.rest)
        closed == IF bracketed THEN Expect(hops, Sym("]")) ELSE hops
        outgoing == closed.ok /\ Peek(closed.rest, Sym("->"))
    IN IF (~ incoming /\ ~ Peek(t, Sym("-"))) \/ ~ type.ok \/ ~ closed.ok \/ (incoming /\ outgoing) THEN Bad
       ELSE Expect(Got([v |-> v.v, type |-> type.v, hops |-> hops.v,
                        dir |-> IF incoming THEN "in" ELSE IF outgoing THEN "out" ELSE "both"], closed.rest),
                   IF outgoing THEN Sym("->") ELSE Sym("-"))

RECURSIVE Hopping(_)
Hopping(p) ==
    IF ~ p.ok \/ Head(p.rest) \notin {Sym("-"), Sym("<-")} THEN p
    ELSE LET rel == RelOf(p.rest)
             node == NodeOf(rel.rest)
         IN IF rel.ok /\ node.ok
            THEN Hopping(Got([p.v EXCEPT !.nodes = Append(@, node.v), !.rels = Append(@, rel.v)], node.rest)) ELSE Bad
PathOn(t) ==
    LET named == IsName(t) /\ Peek(Tail(t), Sym("="))
        node == NodeOf(IF named THEN SubSeq(t, 3, Len(t)) ELSE t)
    IN Hopping(Mapped(node, [as |-> IF named THEN Head(t)[2] ELSE Unnamed, nodes |-> <<node.v>>, rels |-> <<>>]))

-----------------------------------------------------------------------------
(* What stands between commas. *)
SetItemOf(t) ==
    LET v == ExpectName(t)
        p == IF v.ok /\ Peek(v.rest, Sym(".")) THEN ExpectName(Tail(v.rest)) ELSE Got(<<>>, v.rest)
        mode == CASE ~ v.ok \/ ~ p.ok -> "none"
                  [] v.ok /\ Peek(v.rest, Sym("+=")) -> "merge"
                  [] v.ok /\ Peek(v.rest, Sym("=")) -> "replace"
                  [] p.ok /\ Peek(v.rest, Sym(".")) /\ Peek(p.rest, Sym("=")) -> "property"
                  [] OTHER -> "none"
        e == At(Or, Tail(p.rest))
    IN IF mode = "none" THEN Bad ELSE Mapped(e, [v |-> v.v, p |-> p.v, mode |-> mode, e |-> e.v])
RemoveItemOf(t) ==
    LET p == ExpectName(SubSeq(t, 3, Len(t)))
    IN IF IsName(t) /\ Peek(Tail(t), Sym(".")) THEN Mapped(p, <<"prop", Head(t)[2], p.v>>) ELSE Bad
ReturnItemOf(t) ==
    LET e == At(Or, t)
        as == IF e.ok /\ Peek(e.rest, Kw("AS")) THEN ExpectName(Tail(e.rest)) ELSE Got(Unnamed, e.rest)
    IN IF e.ok THEN Mapped(as, [e |-> e.v, as |-> as.v]) ELSE Bad
SortItemOf(t) ==
    LET e == At(Or, t)
    IN Mapped(Got(0, After(After(e.rest, Kw("DESC")), Kw("ASC"))), [e |-> e.v, desc |-> Peek(e.rest, Kw("DESC"))])
EntryOf(t, scalar) ==
    LET n == ExpectName(t)
        v == IF scalar THEN ScalarLiteral(Tail(n.rest)) ELSE At(Or, Tail(n.rest))
    IN IF n.ok /\ Peek(n.rest, Sym(":")) THEN Mapped(v, <<n.v, v.v>>) ELSE Bad
ItemOf(kind, t) ==
    CASE kind = "expression" -> At(Or, t)
      [] kind = "literal" -> LET r == ScalarLiteral(t) IN Mapped(r, <<"lit", r.v>>)
      [] kind = "entry" -> EntryOf(t, FALSE)
      [] kind = "property" -> EntryOf(t, TRUE)
      [] kind = "path" -> PathOn(t)
      [] kind = "set" -> SetItemOf(t)
      [] kind = "remove" -> RemoveItemOf(t)
      [] kind = "return" -> ReturnItemOf(t)
      [] kind = "sort" -> SortItemOf(t)

Items(kind, t) ==
    LET first == ItemOf(kind, t)
        others == Items(kind, Tail(first.rest))
    IN CASE ~ first.ok -> Bad
         [] first.ok /\ Peek(first.rest, Sym(",")) -> Mapped(others, <<first.v>> \o others.v)
         [] OTHER -> Mapped(first, <<first.v>>)
\* The items up to a closing bracket, which may come at once.
Listing(kind, t, close) == IF Peek(t, close) THEN Got(<<>>, Tail(t)) ELSE Expect(Items(kind, t), close)

-----------------------------------------------------------------------------
(* Clauses, projections and the query. *)
WhereOf(t) == IF Peek(t, Kw("WHERE")) THEN At(Or, Tail(t)) ELSE Got(Always, t)
MatchOf(t) ==
    LET optional == Peek(t, Kw("OPTIONAL"))
        u == After(t, Kw("OPTIONAL"))
        paths == Items("path", Tail(u))
        where == WhereOf(paths.rest)
    IN IF Peek(u, Kw("MATCH")) /\ paths.ok
       THEN Mapped(where, [k |-> "match", optional |-> optional, paths |-> paths.v, where |-> where.v]) ELSE Bad
UnwindOf(t) ==
    LET e == Expect(At(Or, Tail(t)), Kw("AS"))
        v == ExpectName(e.rest)
    IN IF e.ok THEN Mapped(v, [k |-> "unwind", e |-> e.v, v |-> v.v]) ELSE Bad
\* ON is a keyword only here; the actions of several add up.
RECURSIVE OnActions(_)
OnActions(r) ==
    IF ~ r.ok \/ ~ Peek(r.rest, Name("on")) THEN r
    ELSE LET t == Tail(r.rest)
             sets == Items("set", SubSeq(t, 3, Len(t)))
         IN CASE Head(t) \notin {Kw("CREATE"), Kw("MATCH")} \/ t[2] # Kw("SET") \/ ~ sets.ok -> Bad
              [] Peek(t, Kw("CREATE")) -> OnActions(Got([r.v EXCEPT !.onCreate = @ \o sets.v], sets.rest))
              [] Peek(t, Kw("MATCH")) -> OnActions(Got([r.v EXCEPT !.onMatch = @ \o sets.v], sets.rest))
MergeOf(t) ==
    LET path == PathOn(Tail(t))
    IN OnActions(Mapped(path, [k |-> "merge", path |-> path.v, onCreate |-> <<>>, onMatch |-> <<>>]))
DeleteOf(t) ==
    LET u == After(t, Kw("DETACH"))
        targets == Items("expression", Tail(u))
    IN IF Peek(u, Kw("DELETE")) THEN Mapped(targets, [k |-> "delete", detach |-> Peek(t, Kw("DETACH")), targets |-> targets.v]) ELSE Bad
ClauseOf(t) ==
    CASE Head(t) \in {Kw("MATCH"), Kw("OPTIONAL")} -> MatchOf(t)
      [] Peek(t, Kw("UNWIND")) -> UnwindOf(t)
      [] Peek(t, Kw("CREATE")) -> LET r == Items("path", Tail(t)) IN Mapped(r, [k |-> "create", paths |-> r.v])
      [] Peek(t, Kw("MERGE")) -> MergeOf(t)
      [] Peek(t, Kw("SET")) -> LET r == Items("set", Tail(t)) IN Mapped(r, [k |-> "set", items |-> r.v])
      [] Head(t) \in {Kw("DELETE"), Kw("DETACH")} -> DeleteOf(t)
      [] Peek(t, Kw("REMOVE")) -> LET r == Items("remove", Tail(t)) IN Mapped(r, [k |-> "remove", items |-> r.v])
ClauseWords == {Kw("MATCH"), Kw("OPTIONAL"), Kw("UNWIND"), Kw("CREATE"), Kw("MERGE"), Kw("SET"), Kw("DELETE"), Kw("DETACH"), Kw("REMOVE")}
RECURSIVE ReadingOf(_)
ReadingOf(r) ==
    IF ~ r.ok \/ Head(r.rest) \notin ClauseWords THEN r
    ELSE LET c == ClauseOf(r.rest) IN ReadingOf(Mapped(c, Append(r.v, c.v)))

PageOf(t, word) ==
    IF Peek(t, word) THEN LET r == At(Or, Tail(t)) IN Mapped(r, r.v) ELSE Got(None, t)
ProjectionOf(t) ==
    LET return == Peek(t, Kw("RETURN"))
        items == Items("return", After(Tail(t), Kw("DISTINCT")))
        where == WhereOf(items.rest)
        ordered == Peek(where.rest, Kw("ORDER"))
        orderBy == IF ordered THEN Items("sort", SubSeq(where.rest, 3, Len(where.rest))) ELSE Got(<<>>, where.rest)
        skip == PageOf(orderBy.rest, Kw("SKIP"))
        limit == PageOf(skip.rest, Kw("LIMIT"))
    IN IF \/ Head(t) \notin {Kw("RETURN"), Kw("WITH")}
          \/ ~ (items.ok /\ where.ok /\ orderBy.ok /\ skip.ok)
          \/ return /\ Peek(items.rest, Kw("WHERE"))
          \/ ordered /\ where.rest[2] # Kw("BY")
          \/ Peek(limit.rest, Kw("WHERE"))
       THEN Bad
       ELSE Mapped(limit, [return |-> return, distinct |-> Peek(Tail(t), Kw("DISTINCT")), items |-> items.v, where |-> where.v,
                           orderBy |-> orderBy.v, skip |-> skip.v, limit |-> limit.v])

Writing == {"create", "merge", "set", "delete", "remove"}
RECURSIVE PartsOf(_, _)
PartsOf(parts, t) ==
    LET reading == ReadingOf(Got(<<>>, t))
        closed == /\ reading.ok
                  /\ reading.v # <<>>
                  /\ Last(reading.v).k \in Writing
                  /\ Head(reading.rest) \notin {Kw("RETURN"), Kw("WITH")}
        p == ProjectionOf(reading.rest)
        longer == Append(parts, [reading |-> reading.v, projection |-> IF closed THEN None ELSE <<p.v>>])
    IN CASE ~ reading.ok -> Bad
         [] reading.ok /\ closed -> Got(longer, reading.rest)
         [] reading.ok /\ ~ closed -> IF ~ p.ok THEN Bad ELSE IF p.v.return THEN Got(longer, p.rest) ELSE PartsOf(longer, p.rest)
\* The parts of the query, or <<>> for a syntax error.
Parse(t) == LET r == PartsOf(<<>>, t) IN IF r.ok /\ r.rest = <<Eof>> THEN r.v ELSE <<>>

-----------------------------------------------------------------------------
(* The builder sends a query to the engine, which parses its text. *)
Received(q) == Parse(Text(q))

Init == model \in Models /\ sent = FALSE
Send == ~ sent /\ sent' = TRUE /\ UNCHANGED model
Next == Send
Spec == Init /\ [][Next]_vars

-----------------------------------------------------------------------------
(* Properties, of the step that sends a query. *)

\* What text cannot tell apart: a chain of three operands from the nested pairs, one operand of AND or OR from
\* the operand alone, and a negative literal from a minus before a positive one (an IN list keeps its scalars).
RECURSIVE NormalExpr(_)
NormalExpr(e) ==
    LET c == [i \in DOMAIN Children(e) |-> NormalExpr(Children(e)[i])]
    IN CASE e[1] \in {"and", "or"} -> FoldLeft(LAMBDA acc, x : <<e[1], <<acc, x>>>>, Head(c), Tail(c))
         [] e[1] = "lit" -> IF PrecOf(e) = Unary THEN <<"neg", <<"lit", Num(-e[2][2])>>>> ELSE e
         [] e[1] = "in" -> <<"in", c[1], e[3]>>
         [] OTHER -> WithChildren(e, c)
NormalItems(s) == [i \in DOMAIN s |-> [s[i] EXCEPT !.e = NormalExpr(@)]]
NormalClause(c) ==
    CASE c.k = "match" -> [c EXCEPT !.where = NormalExpr(@)]
      [] c.k = "unwind" -> [c EXCEPT !.e = NormalExpr(@)]
      [] c.k = "merge" -> [c EXCEPT !.onCreate = NormalItems(@), !.onMatch = NormalItems(@)]
      [] c.k = "set" -> [c EXCEPT !.items = NormalItems(@)]
      [] c.k = "delete" -> [c EXCEPT !.targets = [i \in DOMAIN @ |-> NormalExpr(@[i])]]
      [] OTHER -> c
NormalPage(e) == IF e = None THEN None ELSE NormalExpr(e)
NormalProjection(p) ==
    [p EXCEPT !.items = NormalItems(@), !.where = NormalExpr(@), !.orderBy = NormalItems(@), !.skip = NormalPage(@), !.limit = NormalPage(@)]
Normal(q) ==
    [i \in DOMAIN q |-> [reading |-> [c \in DOMAIN q[i].reading |-> NormalClause(q[i].reading[c])],
                         projection |-> [p \in DOMAIN q[i].projection |-> NormalProjection(q[i].projection[p])]]]

\* The engine receives the query the builder made: parentheses appear wherever the parser would group otherwise, and
\* no clause swallows the next one.
TextMeansTheSame == Received(model) = Normal(model)

\* A text ends at the end token, and nowhere before.
TextEnds == Last(Text(model)) = Eof /\ Eof \notin Range(Front(Text(model)))

TypeOK == model \in Models /\ sent \in BOOLEAN
=============================================================================
