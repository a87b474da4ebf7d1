---------------------------- MODULE CypherExpressions ----------------------------
(***************************************************************************)
(* The values and expressions of the Cypher engine (src/cypher/values*.ts, *)
(* expressions.ts, functions.ts, aggregators.ts).                          *)
(*                                                                         *)
(* A value is a tuple whose first element is its kind, in the order of its *)
(* TypeRank; GroupKey is the identity, since two values have the same key  *)
(* exactly when they are the same tuple.  Numbers are integers (a quotient *)
(* is truncated to one), strings and member names are sequences of         *)
(* naturals, node ids and relationship types naturals compared as such,    *)
(* and the order among maps and among paths is left out.  An expression is *)
(* a tuple headed by its class, so StructuralKey is the identity as well.  *)
(***************************************************************************)
EXTENDS Integers, SequencesExt

CONSTANT Params \* parameter name -> value

Null == <<"null", 0>>
Num(n) == <<"num", n>>
Str(s) == <<"str", s>>
Bool(b) == <<"bool", b>>
Node(id) == <<"node", id>>
List(s) == <<"list", s>>
Map(f) == <<"map", f>>
Rel(from, type, to) == <<"rel", from, type, to>>
PathOf(nodes, rels) == <<"path", nodes, rels>>

Ranks == <<"num", "str", "bool", "node", "list", "map", "rel", "path", "null">>
TypeRank(v) == CHOOSE i \in DOMAIN Ranks : Ranks[i] = v[1]
IsScalar(v) == v[1] \in {"num", "str", "bool"}
Truthy(v) == v = Bool(TRUE)

Sign(n) == IF n < 0 THEN -1 ELSE IF n > 0 THEN 1 ELSE 0
Truth(b) == IF b THEN 1 ELSE 0

(* The total order of ORDER BY, min and max: by rank, then within the rank. *)
RECURSIVE Compare(_, _), CompareItems(_, _)
CompareItems(s, t) ==
    IF s = <<>> \/ t = <<>> THEN Sign(Len(s) - Len(t))
    ELSE LET c == Compare(Head(s), Head(t))
         IN IF c # 0 THEN c ELSE CompareItems(Tail(s), Tail(t))
Compare(a, b) ==
    CASE a[1] # b[1] -> Sign(TypeRank(a) - TypeRank(b))
      [] a[1] \in {"num", "node"} -> Sign(a[2] - b[2])
      [] a[1] = "bool" -> Truth(a[2]) - Truth(b[2])
      [] a[1] = "str" -> CompareItems([i \in DOMAIN a[2] |-> Num(a[2][i])], [i \in DOMAIN b[2] |-> Num(b[2][i])])
      [] a[1] = "list" -> CompareItems(a[2], b[2])
      [] a[1] = "rel" -> CompareItems(<<Num(a[2]), Num(a[3]), Num(a[4])>>, <<Num(b[2]), Num(b[3]), Num(b[4])>>)
      [] OTHER -> 0
Before(a, b) == Compare(a, b) < 0

\* The remainder and the quotient of the host's numbers, which truncate.
Rem(a, b) == LET m == (IF a < 0 THEN -a ELSE a) % (IF b < 0 THEN -b ELSE b) IN IF a < 0 THEN -m ELSE m
Arithmetic(op, l, r) ==
    CASE l[1] = "num" /\ r[1] = "num" ->
            (CASE op = "+" -> Num(l[2] + r[2])
               [] op = "-" -> Num(l[2] - r[2])
               [] op = "*" -> Num(l[2] * r[2])
               [] op = "/" -> IF r[2] = 0 THEN Null ELSE Num((l[2] - Rem(l[2], r[2])) \div r[2])
               [] op = "%" -> IF r[2] = 0 THEN Null ELSE Num(Rem(l[2], r[2])))
      [] op = "+" /\ l[1] = "str" /\ r[1] = "str" -> Str(l[2] \o r[2])
      [] OTHER -> Null

\* A comparison with anything but a scalar, or of two kinds, is false: also <>.
Compared(op, l, r) ==
    /\ IsScalar(l)
    /\ IsScalar(r)
    /\ l[1] = r[1]
    /\ LET c == Compare(l, r)
       IN CASE op = "=" -> c = 0
            [] op = "<>" -> c # 0
            [] op = "<" -> c < 0
            [] op = "<=" -> c <= 0
            [] op = ">" -> c > 0
            [] op = ">=" -> c >= 0

Indexed(t, i) ==
    CASE t[1] = "list" /\ i[1] = "num" -> IF i[2] + 1 \in DOMAIN t[2] THEN t[2][i[2] + 1] ELSE Null
      [] t[1] = "map" /\ i[1] = "str" -> IF i[2] \in DOMAIN t[2] THEN t[2][i[2]] ELSE Null
      [] OTHER -> Null

Steps(a, b, step) == IF step > 0 THEN (IF a <= b THEN (b - a) \div step + 1 ELSE 0) ELSE (IF a >= b THEN (a - b) \div (-step) + 1 ELSE 0)
Invoke(name, args) ==
    LET a == IF args = <<>> THEN Null ELSE args[1] IN
    CASE name = "coalesce" ->
            LET some == SelectSeq(args, LAMBDA v : v # Null) IN IF some = <<>> THEN Null ELSE some[1]
      [] name = "size" -> IF a[1] \in {"list", "str"} THEN Num(Len(a[2])) ELSE Null
      [] name = "head" -> IF a[1] = "list" /\ a[2] # <<>> THEN a[2][1] ELSE Null
      [] name = "last" -> IF a[1] = "list" /\ a[2] # <<>> THEN Last(a[2]) ELSE Null
      [] name = "tail" -> IF a[1] = "list" THEN List(IF a[2] = <<>> THEN <<>> ELSE Tail(a[2])) ELSE Null
      [] name = "reverse" -> IF a[1] = "list" THEN List(Reverse(a[2])) ELSE Null
      [] name = "length" -> IF a[1] = "path" THEN Num(Len(a[3])) ELSE Null
      [] name = "nodes" -> IF a[1] = "path" THEN List(a[2]) ELSE Null
      [] name = "relationships" -> IF a[1] = "path" THEN List(a[3]) ELSE Null
      [] name = "range" ->
            LET step == IF Len(args) > 2 THEN args[3] ELSE Num(1) IN
            IF a[1] # "num" \/ args[2][1] # "num" \/ step[1] # "num" \/ step = Num(0) THEN Null
            ELSE List([i \in 1..Steps(a[2], args[2][2], step[2]) |-> Num(a[2] + (i - 1) * step[2])])

Aggregates == {"count", "collect", "sum", "avg", "min", "max"}

(* `nodes` maps a node id to its properties. *)
RECURSIVE Evaluate(_, _, _)
Evaluate(e, row, nodes) ==
    LET Ev(x) == Evaluate(x, row, nodes)
        Evs(s) == [i \in DOMAIN s |-> Ev(s[i])]
    IN
    CASE e[1] = "lit" -> e[2]
      [] e[1] = "param" -> Params[e[2]]
      [] e[1] = "var" -> IF e[2] \in DOMAIN row THEN row[e[2]] ELSE Null
      [] e[1] = "prop" ->
            LET t == IF e[2] \in DOMAIN row THEN row[e[2]] ELSE Null IN
            CASE t[1] = "map" -> Indexed(t, Str(e[3]))
              [] t[1] = "node" -> IF e[3] \in DOMAIN nodes[t[2]] THEN nodes[t[2]][e[3]] ELSE Null
              [] OTHER -> Null
      [] e[1] = "cmp" -> Bool(Compared(e[2], Ev(e[3]), Ev(e[4])))
      [] e[1] = "not" -> Bool(~ Truthy(Ev(e[2])))
      [] e[1] = "and" -> Bool(\A i \in DOMAIN e[2] : Truthy(Ev(e[2][i])))
      [] e[1] = "or" -> Bool(\E i \in DOMAIN e[2] : Truthy(Ev(e[2][i])))
      [] e[1] = "isnull" -> Bool((Ev(e[3]) = Null) # e[2])
      [] e[1] = "in" -> LET v == Ev(e[2]) IN Bool(IsScalar(v) /\ \E i \in DOMAIN e[3] : Ev(e[3][i]) = v)
      [] e[1] = "arith" -> Arithmetic(e[2], Ev(e[3]), Ev(e[4]))
      [] e[1] = "neg" -> LET v == Ev(e[2]) IN IF v[1] = "num" THEN Num(-v[2]) ELSE Null
      [] e[1] = "list" -> List(Evs(e[2]))
      [] e[1] = "map" -> Map([k \in {e[2][i][1] : i \in DOMAIN e[2]} |->
                              LET i == CHOOSE j \in DOMAIN e[2] : e[2][j][1] = k /\ \A n \in DOMAIN e[2] : n > j => e[2][n][1] # k
                              IN Ev(e[2][i][2])])
      [] e[1] = "idx" -> Indexed(Ev(e[2]), Ev(e[3]))
      [] e[1] = "fn" -> Invoke(e[2], Evs(e[3]))

\* The expressions directly under e, and e with other ones in their place.
Children(e) ==
    CASE e[1] \in {"cmp", "arith"} -> <<e[3], e[4]>>
      [] e[1] \in {"not", "neg"} -> <<e[2]>>
      [] e[1] \in {"and", "or", "list"} -> e[2]
      [] e[1] = "isnull" -> <<e[3]>>
      [] e[1] = "in" -> <<e[2]>> \o e[3]
      [] e[1] = "map" -> [i \in DOMAIN e[2] |-> e[2][i][2]]
      [] e[1] = "idx" -> <<e[2], e[3]>>
      [] e[1] = "fn" -> e[3]
      [] OTHER -> <<>>
WithChildren(e, c) ==
    CASE e[1] \in {"cmp", "arith"} -> <<e[1], e[2], c[1], c[2]>>
      [] e[1] \in {"not", "neg"} -> <<e[1], c[1]>>
      [] e[1] \in {"and", "or", "list"} -> <<e[1], c>>
      [] e[1] = "isnull" -> <<e[1], e[2], c[1]>>
      [] e[1] = "in" -> <<e[1], c[1], Tail(c)>>
      [] e[1] = "map" -> <<e[1], [i \in DOMAIN e[2] |-> <<e[2][i][1], c[i]>>]>>
      [] e[1] = "idx" -> <<e[1], c[1], c[2]>>
      [] e[1] = "fn" -> <<e[1], e[2], c, e[4], e[5]>>
      [] OTHER -> e

RECURSIVE Variables(_), ContainsAggregate(_), Rewrite(_, _)
Variables(e) ==
    (IF e[1] \in {"var", "prop"} THEN {e[2]} ELSE {}) \cup
    UNION {Variables(Children(e)[i]) : i \in DOMAIN Children(e)}
ContainsAggregate(e) ==
    \/ e[1] = "fn" /\ e[2] \in Aggregates
    \/ \E i \in DOMAIN Children(e) : ContainsAggregate(Children(e)[i])
\* Top down: a sub-expression with an entry in `by` becomes that column.
Rewrite(e, by) ==
    IF e \in DOMAIN by THEN <<"var", by[e]>>
    ELSE WithChildren(e, [i \in DOMAIN Children(e) |-> Rewrite(Children(e)[i], by)])

DefaultName(e) ==
    CASE e[1] = "var" -> <<e[2]>>
      [] e[1] = "prop" -> <<e[2], e[3]>>
      [] e[1] = "lit" -> e
      [] e[1] = "param" -> e
      [] e[1] = "fn" -> <<"fn", e[2]>>
      [] OTHER -> <<"class", e[1]>>

(* What an aggregate makes of the values it accepted, in order. *)
Sum(s) == FoldLeft(LAMBDA acc, v : acc + v[2], 0, s)
Extreme(s, Prefers(_, _)) == FoldLeft(LAMBDA best, v : IF best = Null \/ Prefers(v, best) THEN v ELSE best, Null, s)
AggregateOf(name, star, values) ==
    LET some == SelectSeq(values, LAMBDA v : v # Null)
        nums == SelectSeq(values, LAMBDA v : v[1] = "num")
    IN CASE name = "count" -> Num(IF star THEN Len(values) ELSE Len(some))
         [] name = "collect" -> List(some)
         [] name = "sum" -> Num(Sum(nums))
         [] name = "avg" -> IF nums = <<>> THEN Null ELSE Num(Sum(nums) \div Len(nums))
         [] name = "min" -> Extreme(some, Before)
         [] name = "max" -> Extreme(some, LAMBDA v, best : Before(best, v))
=============================================================================
