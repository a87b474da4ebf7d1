------------------------------- MODULE CypherQuery -------------------------------
(***************************************************************************)
(* Reading with Cypher: LogicalPlanner and its operators, the engine's     *)
(* paging and the source filters of CypherPushDown (src/cypher/planner.ts, *)
(* operators*.ts, engine.ts, push-down.ts).                                *)
(*                                                                         *)
(* An operator is the sequence of rows it yields, so compiling a clause is *)
(* applying it to the rows below.  A row is a function from variables to   *)
(* values.  The read side keeps no state of its own; the machine is that of*)
(* a client that pages through a query over a graph which is rebuilt       *)
(* between pages: the same nodes and edges, enumerated in another order.   *)
(***************************************************************************)
EXTENDS CypherExpressions, FiniteSets

CONSTANTS
    Queries,        \* the queries under study
    Graphs,         \* the graphs: [order, concept, nodes, edges]
    Supers,         \* concept -> the concepts it is assignable to
    RelTypes,       \* the relationship types the schema has
    MaxVarLength,   \* LogicalPlanner.DefaultMaxVarLength
    PageSizes,      \* the page sizes clients ask for
    MaxTaken        \* bound: the rows a client has had when it asks for its last page

VARIABLES graph, query, taken
vars == <<graph, query, taken>>

Unnamed == ""       \* a pattern part with no variable, an item with no alias
Unlabelled == ""
Untyped == 0
Unbounded == -1     \* no MaxHops
Always == <<"lit", Bool(TRUE)>>     \* no WHERE
AnonPrefix == <<"__n0", "__n1", "__n2">>
Failure == <<<<<<"error">>>>>>      \* the result of a query the planner refuses
NoRow == [v \in {} |-> Null]

-----------------------------------------------------------------------------
(* The graph. *)
IsInstanceOf(g, id, label) == label \in Supers[g.concept[id]]
AllInstances(g) == g.order
NodesByLabel(g, label) == SelectSeq(g.order, LAMBDA id : IsInstanceOf(g, id, label))
Typed(edge, type) == type = Untyped \/ edge[2] = type
Distinct(s) == FoldLeft(LAMBDA acc, x : IF Contains(acc, x) THEN acc ELSE Append(acc, x), <<>>, s)

\* GraphQueryAdapter.Expand: parallel edges of two types are two targets, unless undirected.
Neighbours(g, id, type, direction) ==
    LET out == SelectSeq(g.edges, LAMBDA e : e[1] = id /\ Typed(e, type))
        in == SelectSeq(g.edges, LAMBDA e : e[3] = id /\ Typed(e, type))
        targets == [i \in DOMAIN out |-> out[i][3]]
        sources == [i \in DOMAIN in |-> in[i][1]]
    IN CASE direction = "out" -> targets
         [] direction = "in" -> sources
         [] direction = "both" -> Distinct(targets \o sources)

-----------------------------------------------------------------------------
(* Rows and the operators over them. *)
With(row, v, x) == IF v = Unnamed THEN row ELSE (v :> x) @@ row
FlatMap(rows, F(_)) == FlattenSeq([i \in DOMAIN rows |-> F(rows[i])])
Filter(g, rows, predicate) == SelectSeq(rows, LAMBDA row : Truthy(Evaluate(predicate, row, g.nodes)))
Agrees(l, r) == \A v \in DOMAIN l \cap DOMAIN r : l[v] = r[v]
CartesianProduct(ls, rs) ==
    FlatMap(ls, LAMBDA l : LET fits == SelectSeq(rs, LAMBDA r : Agrees(l, r)) IN [i \in DOMAIN fits |-> fits[i] @@ l])

Scan(g, node, name) ==
    LET ids == IF node.label = Unlabelled THEN AllInstances(g) ELSE NodesByLabel(g, node.label)
    IN [i \in DOMAIN ids |-> With(NoRow, name, Node(ids[i]))]
Labelled(g, id, label) == label = Unlabelled \/ IsInstanceOf(g, id, label)

FoldNodeProperties(g, rows, node, name) ==
    SelectSeq(rows, LAMBDA row :
        \A k \in DOMAIN node.props : Compared("=", Evaluate(<<"prop", name, k>>, row, g.nodes), node.props[k]))
FoldReusedConstraints(g, rows, node, name) ==
    FoldNodeProperties(g, SelectSeq(rows, LAMBDA row :
        node.label = Unlabelled \/ (row[name][1] = "node" /\ IsInstanceOf(g, row[name][2], node.label))), node, name)

Oriented(rel, from, to) == IF rel.dir = "in" THEN Rel(to, rel.type, from) ELSE Rel(from, rel.type, to)

Expand(g, rows, from, to, rel, label) ==
    FlatMap(rows, LAMBDA row :
        IF row[from][1] # "node" THEN <<>>
        ELSE LET id == row[from][2]
                 reached == SelectSeq(Neighbours(g, id, rel.type, rel.dir), LAMBDA t : Labelled(g, t, label))
             IN [i \in DOMAIN reached |-> With(With(row, to, Node(reached[i])), rel.v, Oriented(rel, id, reached[i]))])

ExpandInto(g, rows, from, to, rel) ==
    FlatMap(rows, LAMBDA row :
        IF /\ row[from][1] = "node" /\ row[to][1] = "node"
           /\ Contains(Neighbours(g, row[from][2], rel.type, rel.dir), row[to][2])
        THEN <<With(row, rel.v, Oriented(rel, row[from][2], row[to][2]))>>
        ELSE <<>>)

IsVariableLength(rel) == rel.hops # <<>>
MinHops(rel) == rel.hops[1]
MaxHops(rel) == IF rel.hops[2] = Unbounded THEN MaxVarLength ELSE rel.hops[2]
StepKey(rel, from, to) == IF rel.dir = "both" /\ to < from THEN <<to, from>> ELSE <<from, to>>

\* The trails that continue one, each as <<nodes, relationships>>: itself first, then depth first.
RECURSIVE Walk(_, _, _, _, _)
Walk(g, rel, nodes, rels, used) ==
    LET id == Last(nodes)[2]
        next == SelectSeq(Neighbours(g, id, rel.type, rel.dir), LAMBDA t : StepKey(rel, id, t) \notin used)
    IN (IF Len(rels) >= MinHops(rel) THEN <<<<nodes, rels>>>> ELSE <<>>) \o
       (IF Len(rels) >= MaxHops(rel) THEN <<>>
        ELSE FlatMap(next, LAMBDA t :
                Walk(g, rel, Append(nodes, Node(t)), Append(rels, Oriented(rel, id, t)), used \cup {StepKey(rel, id, t)})))

VarLengthExpand(g, rows, from, to, rel, label, pathVar) ==
    FlatMap(rows, LAMBDA row :
        IF row[from][1] # "node" THEN <<>>
        ELSE LET trails == SelectSeq(Walk(g, rel, <<row[from]>>, <<>>, {}), LAMBDA w : Labelled(g, Last(w[1])[2], label))
             IN [i \in DOMAIN trails |->
                    With(With(With(row, to, Last(trails[i][1])),
                              pathVar, PathOf(trails[i][1], trails[i][2])),
                         rel.v, List(trails[i][2]))])

-----------------------------------------------------------------------------
(* Compiling a pattern: the rows so far and the variables they bind. *)
Compiled(rows, bound) == [rows |-> rows, bound |-> bound]
NotCompiled == Compiled(<<>>, {"!"})    \* a CypherSemanticError
Names(path) == [i \in DOMAIN path.nodes |-> IF path.nodes[i].v = Unnamed THEN AnonPrefix[i] ELSE path.nodes[i].v]
Bind(bound, v) == bound \cup ({v} \ {Unnamed})

Anchor(g, acc, path) ==
    LET node == path.nodes[1]
        name == Names(path)[1]
    IN IF node.v # Unnamed /\ node.v \in acc.bound
       THEN Compiled(FoldReusedConstraints(g, acc.rows, node, name), acc.bound)
       ELSE Compiled(FoldNodeProperties(g, CartesianProduct(acc.rows, Scan(g, node, name)), node, name),
                     Bind(acc.bound, node.v))

\* A path variable names the last variable-length relationship of its path.
PathVariable(path, i) ==
    IF \A j \in DOMAIN path.rels : j > i => ~ IsVariableLength(path.rels[j]) THEN path.as ELSE Unnamed

Hop(g, acc, path, i) ==
    LET rel == path.rels[i]
        from == Names(path)[i]
        node == path.nodes[i + 1]
        to == Names(path)[i + 1]
        targetBound == node.v # Unnamed /\ node.v \in acc.bound
    IN CASE acc = NotCompiled \/ (IsVariableLength(rel) /\ targetBound) -> NotCompiled
         [] IsVariableLength(rel) /\ ~ targetBound ->
                Compiled(FoldNodeProperties(g, VarLengthExpand(g, acc.rows, from, to, rel, node.label, PathVariable(path, i)),
                                            node, to),
                         Bind(acc.bound, node.v))
         [] ~ IsVariableLength(rel) /\ targetBound ->
                Compiled(FoldReusedConstraints(g, ExpandInto(g, acc.rows, from, to, rel), node, to), acc.bound)
         [] OTHER ->
                Compiled(FoldNodeProperties(g, Expand(g, acc.rows, from, to, rel, node.label), node, to),
                         Bind(acc.bound, node.v))

CompilePath(g, acc, path) ==
    IF \/ acc = NotCompiled
       \/ \E i \in DOMAIN path.rels : path.rels[i].type \notin RelTypes \cup {Untyped}
       \/ path.as # Unnamed /\ \A i \in DOMAIN path.rels : ~ IsVariableLength(path.rels[i])
    THEN NotCompiled
    ELSE FoldLeft(LAMBDA at, i : Hop(g, at, path, i), Anchor(g, acc, path), [i \in DOMAIN path.rels |-> i])

DeclaredVariables(clause) ==
    IF clause.k = "unwind" THEN {clause.v}
    ELSE UNION {{p.as} \cup {p.nodes[i].v : i \in DOMAIN p.nodes} \cup {p.rels[i].v : i \in DOMAIN p.rels} :
                p \in Range(clause.paths)} \ {Unnamed}

CompilePaths(g, acc, clause) ==
    LET at == FoldLeft(LAMBDA a, p : CompilePath(g, a, p), acc, clause.paths)
    IN IF at = NotCompiled THEN NotCompiled ELSE Compiled(Filter(g, at.rows, clause.where), at.bound)

\* OptionalApply: the inner match runs once per row, and a row without one is padded.
CompileOptional(g, acc, clause) ==
    LET new == DeclaredVariables(clause) \ acc.bound
        inner == [i \in DOMAIN acc.rows |-> CompilePaths(g, Compiled(<<acc.rows[i]>>, acc.bound), clause)]
    IN IF \E i \in DOMAIN inner : inner[i] = NotCompiled THEN NotCompiled
       ELSE Compiled(FlattenSeq([i \in DOMAIN inner |->
                        IF inner[i].rows # <<>> THEN inner[i].rows
                        ELSE <<[v \in new |-> Null] @@ acc.rows[i]>>]),
                     acc.bound \cup new)

Unwind(g, acc, clause) ==
    Compiled(FlatMap(acc.rows, LAMBDA row :
                LET value == Evaluate(clause.e, row, g.nodes)
                IN CASE value = Null -> <<>>
                     [] value[1] = "list" -> [i \in DOMAIN value[2] |-> With(row, clause.v, value[2][i])]
                     [] OTHER -> <<With(row, clause.v, value)>>),
             acc.bound \cup {clause.v})

CompileClause(g, acc, clause) ==
    CASE acc = NotCompiled -> NotCompiled
      [] acc # NotCompiled /\ clause.k = "unwind" -> Unwind(g, acc, clause)
      [] acc # NotCompiled /\ clause.k = "match" /\ clause.optional -> CompileOptional(g, acc, clause)
      [] OTHER -> CompilePaths(g, acc, clause)

-----------------------------------------------------------------------------
(* Projections. *)
ColumnName(item) == IF item.as = Unnamed THEN DefaultName(item.e) ELSE <<item.as>>
Columns(part) == [i \in DOMAIN part.items |-> ColumnName(part.items[i])]

Key(item, row, g) == Evaluate(item.e, row, g.nodes)
Project(g, rows, items) ==
    [r \in DOMAIN rows |-> [i \in DOMAIN items |-> Key(items[i], rows[r], g)]]

Grouping(items) == {i \in DOMAIN items : ~ ContainsAggregate(items[i].e)}
Aggregate(g, rows, items) ==
    LET GroupOf(r) == [i \in Grouping(items) |-> Key(items[i], rows[r], g)]
        keys == Distinct([r \in DOMAIN rows |-> GroupOf(r)])
        groups == IF rows = <<>> /\ Grouping(items) = {} THEN <<[i \in {} |-> Null]>> ELSE keys
        Accepted(call, key) ==
            LET members == SelectSeq([r \in DOMAIN rows |-> r], LAMBDA r : GroupOf(r) = key)
                values == [m \in DOMAIN members |->
                            IF call[3] = <<>> THEN Null ELSE Evaluate(call[3][1], rows[members[m]], g.nodes)]
            IN IF call[4] /\ ~ call[5] THEN Distinct(values) ELSE values
    IN [k \in DOMAIN groups |-> [i \in DOMAIN items |->
            IF i \in Grouping(items) THEN groups[k][i]
            ELSE AggregateOf(items[i].e[2], items[i].e[5], Accepted(items[i].e, groups[k]))]]

\* The rows above a projection bind its columns; one without a name of its own is known by its place.
Places == <<"#1", "#2", "#3", "#4">>
ColumnVariables(part) ==
    [i \in DOMAIN part.items |-> IF Len(Columns(part)[i]) = 1 THEN Columns(part)[i][1] ELSE Places[i]]
AsRow(part, values) ==
    [v \in Range(ColumnVariables(part)) |-> values[CHOOSE i \in DOMAIN part.items : ColumnVariables(part)[i] = v]]

ColumnsByKey(part) ==
    [e \in {part.items[i].e : i \in DOMAIN part.items} |->
        ColumnVariables(part)[CHOOSE i \in DOMAIN part.items :
            part.items[i].e = e /\ \A j \in DOMAIN part.items : j < i => part.items[j].e # e]]
ResolveWithWhere(part) == Rewrite(part.where, ColumnsByKey(part))
ResolveOrderBy(part) ==
    [i \in DOMAIN part.orderBy |->
        LET e == part.orderBy[i].e
        IN IF e \in DOMAIN ColumnsByKey(part) THEN <<"var", ColumnsByKey(part)[e]>> ELSE e]
\* Mutant: pages are ordered by their first column, as the option's comment has it.
ImplicitOrderFirst(part) == <<[e |-> <<"var", ColumnVariables(part)[1]>>, desc |-> FALSE]>>
ImplicitOrder(part) ==
    [i \in DOMAIN part.items |-> [e |-> <<"var", ColumnVariables(part)[i]>>, desc |-> FALSE]]

\* What the planner refuses of a projection before a row is read.
Refused(part) ==
    \/ \E i, j \in DOMAIN part.items : i # j /\ Columns(part)[i] = Columns(part)[j]
    \/ \E i \in DOMAIN part.items : ContainsAggregate(part.items[i].e) /\ part.items[i].e[1] # "fn"
    \/ ~ Variables(ResolveWithWhere(part)) \subseteq Range(ColumnVariables(part))
    \/ \E i \in DOMAIN part.orderBy : ~ Variables(ResolveOrderBy(part)[i]) \subseteq Range(ColumnVariables(part))

Sorted(g, part, rows, orderBy) ==
    LET KeysOf(r) == [i \in DOMAIN orderBy |-> Evaluate(orderBy[i].e, AsRow(part, rows[r]), g.nodes)]
        keys == [r \in DOMAIN rows |-> KeysOf(r)]
        Order(a, b, i) == Compare(keys[a][i], keys[b][i]) * (IF orderBy[i].desc THEN -1 ELSE 1)
        Precedes(a, b) ==
            \/ \E i \in DOMAIN orderBy : Order(a, b, i) < 0 /\ \A j \in 1..(i - 1) : Order(a, b, j) = 0
            \/ a < b /\ \A i \in DOMAIN orderBy : Order(a, b, i) = 0
        places == SortSeq([r \in DOMAIN rows |-> r], Precedes)
    IN [r \in DOMAIN rows |-> rows[places[r]]]

SkipRows(rows, n) == SubSeq(rows, (IF n > 0 THEN n ELSE 0) + 1, Len(rows))
LimitRows(rows, n) == IF n <= 0 THEN <<>> ELSE SubSeq(rows, 1, IF n < Len(rows) THEN n ELSE Len(rows))

BuildProjection(g, rows, part, implicitOrder) ==
    LET projected == IF \E i \in DOMAIN part.items : ContainsAggregate(part.items[i].e)
                     THEN Aggregate(g, rows, part.items) ELSE Project(g, rows, part.items)
        single == IF part.distinct THEN Distinct(projected) ELSE projected
        kept == SelectSeq(single, LAMBDA values : Truthy(Evaluate(ResolveWithWhere(part), AsRow(part, values), g.nodes)))
        resolved == ResolveOrderBy(part)
        ordered == CASE part.orderBy # <<>> ->
                            Sorted(g, part, kept, [i \in DOMAIN resolved |-> [e |-> resolved[i], desc |-> part.orderBy[i].desc]])
                     [] part.orderBy = <<>> /\ implicitOrder -> Sorted(g, part, kept, ImplicitOrder(part))
                     [] OTHER -> kept
        skipped == IF part.skip = Null THEN ordered ELSE SkipRows(ordered, part.skip[2])
    IN IF part.limit = Null THEN skipped ELSE LimitRows(skipped, part.limit[2])

-----------------------------------------------------------------------------
(* Whole queries. *)
ReadingVariables(part) == UNION {DeclaredVariables(c) : c \in Range(part.reading)}
Referenced(part) ==
    UNION {IF c.k = "unwind" THEN Variables(c.e) ELSE Variables(c.where) : c \in Range(part.reading)}
      \cup UNION {Variables(item.e) : item \in Range(part.items)}

\* One part over the rows of the one before: its projected values, or Failure.
CompilePart(g, rows, inScope, part, implicitOrder) ==
    LET read == FoldLeft(LAMBDA acc, c : CompileClause(g, acc, c), Compiled(rows, inScope), part.reading)
    IN IF \/ Refused(part) \/ read = NotCompiled
          \/ ~ Referenced(part) \subseteq inScope \cup ReadingVariables(part)
       THEN Failure
       ELSE BuildProjection(g, read.rows, part, implicitOrder)

Plan(g, q, ensureOrder) ==
    FoldLeft(LAMBDA acc, p :
                IF acc = Failure THEN Failure
                ELSE CompilePart(g,
                        IF p = 1 THEN <<NoRow>> ELSE [r \in DOMAIN acc |-> AsRow(q[p - 1], acc[r])],
                        IF p = 1 THEN {} ELSE Range(ColumnVariables(q[p - 1])),
                        q[p], p = Len(q) /\ ensureOrder),
             <<>>, [p \in DOMAIN q |-> p])
Execute(g, q) == Plan(g, q, FALSE)

Page(g, q, skip, cap) ==
    LET rows == Plan(g, q, TRUE)
    IN IF rows = Failure THEN [rows |-> Failure, more |-> FALSE]
       ELSE [rows |-> LimitRows(SkipRows(rows, skip), cap), more |-> Len(rows) > skip + cap]

-----------------------------------------------------------------------------
(* CypherPushDown: what a query lets a source filter, concept by concept.  *)
NoFilter == [c \in {} |-> {}]

\* Every labelled node pattern, and whether a scan the analysis cannot bound comes first.
NodePatterns(q) ==
    FlattenSeq([p \in DOMAIN q |-> FlattenSeq([c \in DOMAIN q[p].reading |->
        LET clause == q[p].reading[c]
        IN IF clause.k = "unwind" THEN <<>>
           ELSE FlattenSeq([h \in DOMAIN clause.paths |->
                    [i \in DOMAIN clause.paths[h].nodes |->
                        [at |-> <<p, c, h, i>>, node |-> clause.paths[h].nodes[i], clause |-> clause]]])])])

\* The variables in scope at a place of the query: those of its part so far, or of the projection before it.
ScopeAt(q, at) ==
    LET part == q[at[1]]
        before == {c \in DOMAIN part.reading : c < at[2]}
        paths == IF part.reading[at[2]].k = "unwind" THEN <<>> ELSE part.reading[at[2]].paths
        here == {paths[h] : h \in {h \in DOMAIN paths : h < at[3]}}
    IN (IF at[1] = 1 THEN {} ELSE Range(ColumnVariables(q[at[1] - 1])))
       \cup UNION {DeclaredVariables(part.reading[c]) : c \in before}
       \cup DeclaredVariables([k |-> "match", paths |-> SetToSeq(here)])
       \cup {paths[at[3]].nodes[i].v : i \in {i \in DOMAIN paths[at[3]].nodes : i < at[4]}}
Aborts(q) ==
    \/ \E o \in Range(NodePatterns(q)) :
            o.node.label = Unlabelled /\ (o.node.v = Unnamed \/ o.node.v \notin ScopeAt(q, o.at))
    \/ \E o \in Range(NodePatterns(q)) : \E r \in Range(q[o.at[1]].reading[o.at[2]].paths[o.at[3]].rels) : IsVariableLength(r)

RECURSIVE Conjuncts(_)
Conjuncts(e) == IF e[1] = "and" THEN UNION {Conjuncts(e[2][i]) : i \in DOMAIN e[2]} ELSE {e}
Constant(e) == CASE e[1] = "lit" -> e[2] [] e[1] = "param" -> Params[e[2]] [] OTHER -> Null
TermOf(e, v) ==
    IF e[1] # "cmp" \/ e[2] # "=" THEN {}
    ELSE LET left == e[3][1] = "prop"
             property == IF left THEN e[3] ELSE e[4]
             value == Constant(IF left THEN e[4] ELSE e[3])
         IN IF property[1] = "prop" /\ property[2] = v /\ IsScalar(value) THEN {<<property[3], value>>} ELSE {}
TermsOf(o) ==
    {<<k, o.node.props[k]>> : k \in {k \in DOMAIN o.node.props : IsScalar(o.node.props[k])}}
      \cup (IF o.node.v = Unnamed THEN {} ELSE UNION {TermOf(e, o.node.v) : e \in Conjuncts(o.clause.where)})

Analyze(q) ==
    LET labelled == {o \in Range(NodePatterns(q)) : o.node.label # Unlabelled}
        Scanners(o) == {s \in labelled : s.node.label \in Supers[o.node.label]}
        filtered == {o \in labelled : ~ o.clause.optional /\ Cardinality(Scanners(o)) = 1 /\ TermsOf(o) # {}}
    IN IF Aborts(q) THEN NoFilter
       ELSE [l \in {o.node.label : o \in filtered} |-> TermsOf(CHOOSE o \in filtered : o.node.label = l)]

\* What a source may leave out: a record the filter of its own concept rejects.
Rejects(g, q, id) ==
    /\ g.concept[id] \in DOMAIN Analyze(q)
    /\ \E term \in Analyze(q)[g.concept[id]] : term[1] \notin DOMAIN g.nodes[id] \/ g.nodes[id][term[1]] # term[2]
Without(g, ids) ==
    [g EXCEPT !.order = SelectSeq(@, LAMBDA id : id \notin ids),
              !.edges = SelectSeq(@, LAMBDA e : e[1] \notin ids /\ e[3] \notin ids)]

-----------------------------------------------------------------------------
(* A client pages through the query.  A page is a function of the graph and  *)
(* of how many rows the client has had, so it is the properties that run it. *)
Init ==
    /\ graph \in Graphs
    /\ query \in Queries
    /\ taken = 0

FetchPage(cap) ==
    /\ taken < MaxTaken
    /\ taken' = taken + cap
    /\ UNCHANGED <<graph, query>>

\* The solution is loaded again: the same instances in another order.
Rebuild ==
    /\ graph' = [graph EXCEPT !.order = Reverse(@), !.edges = Reverse(@)]
    /\ UNCHANGED <<query, taken>>

Next == (\E cap \in PageSizes : FetchPage(cap)) \/ Rebuild
Spec == Init /\ [][Next]_vars

-----------------------------------------------------------------------------
(* What a query means.  The properties are of the steps of the client. *)

\* The node sequences a relationship of a pattern may stand for: linked, no step twice.
Linked(g, rel, a, b) == Contains(Neighbours(g, a, rel.type, rel.dir), b)
StepsOf(t, rel) == [i \in 1..(Len(t) - 1) |-> StepKey(rel, t[i], t[i + 1])]
Trails(g, rel) ==
    LET lengths == IF IsVariableLength(rel) THEN MinHops(rel)..MaxHops(rel) ELSE {1}
    IN {t \in UNION {[1..(n + 1) -> Range(g.order)] : n \in lengths} :
            /\ \A i \in 1..(Len(t) - 1) : Linked(g, rel, t[i], t[i + 1])
            /\ IsInjective(StepsOf(t, rel))}

\* The ways to lay a path over the graph: its anchor and one trail per relationship, end to end.
Chains(g, path) ==
    FoldLeft(LAMBDA acc, rel : UNION {{Append(c, t) : t \in {t \in Trails(g, rel) : Head(t) = Last(Last(c))}} : c \in acc},
             {<<<<id>>>> : id \in Range(g.order)}, path.rels)
NodeAt(chain, i) == Last(chain[i])
Hops(rel, t) == [i \in 1..(Len(t) - 1) |-> Oriented(rel, t[i], t[i + 1])]

\* What a laid path binds, as a set of <<variable, value>>.
Bindings(path, chain) ==
    {b \in {<<path.nodes[i].v, Node(NodeAt(chain, i))>> : i \in DOMAIN path.nodes}
        \cup {<<path.rels[i].v, IF IsVariableLength(path.rels[i]) THEN List(Hops(path.rels[i], chain[i + 1]))
                                ELSE Hops(path.rels[i], chain[i + 1])[1]>> : i \in DOMAIN path.rels}
        \cup {<<path.as, PathOf([n \in DOMAIN chain[i + 1] |-> Node(chain[i + 1][n])], Hops(path.rels[i], chain[i + 1]))>> :
                i \in {i \in DOMAIN path.rels : IsVariableLength(path.rels[i])}} : b[1] # Unnamed}
Fits(g, path, chain) ==
    \A i \in DOMAIN path.nodes :
        LET id == NodeAt(chain, i)
            node == path.nodes[i]
        IN /\ Labelled(g, id, node.label)
           /\ \A k \in DOMAIN node.props : k \in DOMAIN g.nodes[id] /\ g.nodes[id][k] = node.props[k]
Consistent(bindings) == \A b, c \in bindings : b[1] = c[1] => b[2] = c[2]
RowOf(bindings) == [v \in {b[1] : b \in bindings} |-> (CHOOSE b \in bindings : b[1] = v)[2]]

\* A solution so far: what is bound, and how each path of each clause was laid.
Extended(g, solution, clause) ==
    LET laid == FoldLeft(LAMBDA acc, path :
                    UNION {{<<s[1] \cup Bindings(path, c), Append(s[2], c)>> :
                                c \in {c \in Chains(g, path) : Fits(g, path, c) /\ Consistent(s[1] \cup Bindings(path, c))}} :
                           s \in acc},
                    {solution}, clause.paths)
        kept == {s \in laid : Truthy(Evaluate(clause.where, RowOf(s[1]), g.nodes))}
        free == DeclaredVariables(clause) \ {b[1] : b \in solution[1]}
    IN IF kept = {} /\ clause.optional
       THEN {<<solution[1] \cup {<<v, Null>> : v \in free}, Append(solution[2], <<>>)>>} ELSE kept
Solutions(g, clauses) ==
    FoldLeft(LAMBDA acc, clause : UNION {Extended(g, s, clause) : s \in acc}, {<<{}, <<>>>>}, clauses)

Plain(q) ==
    /\ Len(q) = 1
    /\ \A c \in Range(q[1].reading) : c.k = "match"
    /\ \A item \in Range(q[1].items) : item.e[1] = "var"
    /\ ~ q[1].distinct
    /\ q[1].skip = Null
    /\ q[1].limit = Null
Paths(q) == FlattenSeq([c \in DOMAIN q[1].reading |-> q[1].reading[c].paths])
\* No two paths have a node without a variable at the same place: the planner names both alike.
AnonymousApart(q) ==
    \A i, j \in DOMAIN Paths(q) : i # j =>
        \A n \in DOMAIN Paths(q)[i].nodes \cap DOMAIN Paths(q)[j].nodes :
            Paths(q)[i].nodes[n].v # Unnamed \/ Paths(q)[j].nodes[n].v # Unnamed
AllTyped(q) == \A path \in Range(Paths(q)) : \A rel \in Range(path.rels) : rel.type # Untyped

\* The reading clauses of a query yield exactly its solutions, each as often as there are ways to lay its pattern, in
\* whichever order the planner binds the variables and whichever end of a relationship it comes from.
MatchesOf(g, q, rows) ==
    LET sols == Solutions(g, q[1].reading)
        Shown(s) == [i \in DOMAIN q[1].items |-> RowOf(s[1])[q[1].items[i].e[2]]]
    IN \A values \in Range(rows) \cup {Shown(s) : s \in sols} :
            Cardinality({r \in DOMAIN rows : rows[r] = values}) = Cardinality({s \in sols : Shown(s) = values})
RowsAreMatches ==
    (taken' = 0 /\ Plain(query) /\ AnonymousApart(query) /\ AllTyped(query)) =>
        LET rows == Execute(graph, query) IN rows = Failure \/ MatchesOf(graph, query, rows)

\* Whatever records the sources leave out for a query, it returns the same rows in the same order.
PushDownSound ==
    taken' = 0 =>
        \A left \in SUBSET {id \in Range(graph.order) : Rejects(graph, query, id)} :
            Execute(Without(graph, left), query) = Execute(graph, query)

\* Pages taken one after the other never repeat a row and never lose one, however the instances are enumerated
\* when each of them is asked for, and the last page is the one that says there is no more: a page is the rows after
\* those taken, and a rebuilt graph has the same rows in the same order.
OrderFree(q) ==
    /\ q[Len(q)].orderBy = <<>>
    /\ \A p \in DOMAIN q : p < Len(q) => q[p].skip = Null /\ q[p].limit = Null
    /\ \A p \in DOMAIN q : \A item \in Range(q[p].items) : item.e[1] = "fn" => item.e[2] # "collect"
PageIsCut(rows, page) ==
    /\ page.rows = SubSeq(rows, taken + 1, IF taken' < Len(rows) THEN taken' ELSE Len(rows))
    /\ page.more <=> taken' < Len(rows)
PagesCover ==
    OrderFree(query) =>
        LET rows == Plan(graph, query, TRUE)
        IN rows # Failure =>
            IF taken' > taken THEN PageIsCut(rows, Page(graph, query, taken, taken' - taken))
            ELSE Plan(graph', query, TRUE) = rows

TypeOK ==
    /\ graph \in Graphs \cup {[g EXCEPT !.order = Reverse(@), !.edges = Reverse(@)] : g \in Graphs}
    /\ query \in Queries
    /\ taken <= MaxTaken + Max(PageSizes)
=============================================================================
