------------------------------- MODULE MCModels -------------------------------
(* Cases for the compiler.                                                       *)
(*                                                                               *)
(* Graphs for the publisher: two chains of concepts over the virtual root, a     *)
(* taxonomy with a term below another, an aspect, annotations and instances. For *)
(* the validator: every small graph of aspects, every small hierarchy of         *)
(* concepts, and a class with leaves of every shape. For the parser: one body of *)
(* each kind that recovers from a bad member, and two that do not. For the       *)
(* loader: a metamodel, its terms and operators, two blocks of one model, and    *)
(* files that repeat, misplace or miss a name.                                   *)
EXTENDS RepositoryGraph, SequencesExt

Str == <<"string">>
Shop == <<"shop", "Item">>
Food == <<"shop", "Food">>
Tracked == <<"shop", "Tracked">>
Label == <<"todl", "label">>
UnitNote == <<"shop", "Unit">>
Kinds == <<"shop", "Kinds">>
Fresh == <<"shop", "Kinds", "fresh">>
Fruit == <<"shop", "Kinds", "fruit">>
Apple == <<"apple">>

V(text) == <<"string", text>>
Fld(n, t, card) == [name |-> n, type |-> t, card |-> card]
Owns == Shop \o <<"owns">>
App(n) == <<"app", n>>

Nodes(pinAt, own, fieldType, twice) ==
     (Element :> [TypeNode("concept") EXCEPT !.fields = <<Fld("label", Str, "optional")>>])
  @@ (Shop    :> [TypeNode("concept") EXCEPT !.fields = <<Fld("unit", fieldType, "one"), Fld("label", Str, "one")>>])
  @@ (Food    :> [TypeNode("concept") EXCEPT !.fields = <<Fld("due", Str, "many")>>])
  @@ (Tracked :> [TypeNode("aspect") EXCEPT !.fields = <<Fld("seen", Str, "one")>>])
  @@ (Owns    :> [RelationshipNode([name |-> "owns", card |-> "many"]) EXCEPT
                    !.attrs = IF twice THEN [inverse |-> "owner"] ELSE <<>>])
  @@ (Kinds   :> TypeNode("taxonomy"))
  @@ (Fresh   :> TermNode(Fresh, Food, IF "broad" \in pinAt THEN [unit |-> V("kilo"), class |-> V("x")] ELSE <<>>))
  @@ (Fruit   :> TermNode(Fruit, Food, IF "narrow" \in pinAt THEN [unit |-> V("piece"), due |-> V("kilo")] ELSE <<>>))
  @@ (Apple   :> [OnInstanceTier(Blank) EXCEPT !.type = Food, !.attrs = own])
  @@ (App("one")   :> [ApplicationNode(Label) EXCEPT !.attrs = [text |-> V("kilo")]])
  @@ (App("two")   :> [ApplicationNode(UnitNote) EXCEPT !.attrs = [text |-> V("piece")]])
  @@ (App("three") :> ApplicationNode(Label))

Chains == [none |-> <<>>,
           line |-> <<Edge("extends", Food, NoVia, Shop)>>,
           loop |-> <<Edge("extends", Food, NoVia, Shop), Edge("extends", Shop, NoVia, Food)>>]

\* A graph by: the chain, the terms that pin, the apple's own value, whether a
\* field has an annotation's type, and whether everything is annotated.
Shapes == {"none", "line", "loop"} \X (SUBSET {"broad", "narrow"}) \X {"unset", "kilo", "piece"}
          \X {"plain", "annotation", "twice"}
Graph(s) ==
  [nodes |-> Nodes(s[2], IF s[3] = "unset" THEN <<>> ELSE [unit |-> V(s[3])],
                   IF s[4] = "annotation" THEN Label ELSE Str, s[4] = "twice"),
   edges |-> Chains[s[1]] \o
     <<Edge("includesAspect", Food, NoVia, Tracked), Edge("hasRelationship", Shop, NoVia, Owns),
       Edge("targets", Owns, NoVia, Food), Edge("targets", Owns, NoVia, Shop),
       Edge("represents", Kinds, NoVia, Food), Edge("contains", Kinds, NoVia, Fruit),
       Edge("narrower", Fresh, NoVia, Fruit), Edge("contains", Kinds, NoVia, Fresh),
       Edge("instanceOf", Apple, NoVia, Fruit), Edge("annotated", Food, NoVia, App("two"))>>
     \o (IF s[4] # "plain" THEN <<Edge("annotated", Shop, NoVia, App("one")), Edge("annotated", Shop, NoVia, App("two"))>> ELSE <<>>)
     \o (IF s[4] = "twice" THEN <<Edge("includesAspect", Shop, NoVia, Tracked), Edge("annotated", Owns, NoVia, App("three")),
                                  Edge("annotated", Fruit, NoVia, App("one"))>> ELSE <<>>)]
MCGraphs == [s \in Shapes |-> Graph(s)]

Listing == <<Element, Shop, Owns, Food, Tracked, Kinds, Fresh, Fruit, Apple, App("one"), App("two"), App("three")>>
MCOrders == [there |-> Listing, back |-> Reverse(Listing)]

Letters == <<"string", "shop", "Item", "Food", "Tracked", "todl", "label", "Unit", "Kinds", "fresh", "fruit", "apple",
             "kilo", "piece", "unit", "due", "seen", "owns", "owner", "text", "Element", "model", "v1", "app">>
MCByte == [a \in Range(Letters) |-> CHOOSE i \in DOMAIN Letters : Letters[i] = a]
MCSamples == {0, 127, 128, 16383, 16384, 65535, 65536, 536870911}
MCOwners == {Tracked, Shop, Element}

-----------------------------------------------------------------------------
A == <<"A">>  B == <<"B">>  C == <<"C">>  K == <<"K">>  L == <<"L">>  M == <<"M">>
X == [name |-> "x", type |-> <<"string">>, card |-> "optional"]

\* The pool's order is the order its edges are declared in.
Chosen(pool, S) == SelectSeq(pool, LAMBDA e : e \in S)
Declared(kinds, own) ==
  [id \in DOMAIN kinds |-> [TypeNode(kinds[id]) EXCEPT !.fields = IF id \in own THEN <<X>> ELSE <<>>]]
Incl(from, to) == Edge("includesAspect", from, NoVia, to)
Ext(from, to)  == Edge("extends", from, NoVia, to)
Subsets(pool) == SUBSET {pool[i] : i \in DOMAIN pool}

AspectPool == <<Incl(A, B), Incl(A, C), Incl(B, A), Incl(B, C), Incl(C, A), Incl(C, B), Incl(K, A), Incl(K, B)>>
AspectKinds == (Element :> "concept") @@ (A :> "aspect") @@ (B :> "aspect") @@ (C :> "aspect") @@ (K :> "concept")
AspectGraph(own, S) == [nodes |-> Declared(AspectKinds, own), edges |-> Chosen(AspectPool, S)]
AspectShapes == {<<"aspects", own, S>> : own \in SUBSET {Element, A, B}, S \in Subsets(AspectPool)}

ConceptPool == <<Ext(K, L), Ext(K, M), Ext(L, K), Ext(L, M), Ext(M, K), Incl(K, A), Incl(L, A), Incl(M, A)>>
ConceptKinds == (Element :> "concept") @@ (A :> "aspect") @@ (K :> "concept") @@ (L :> "concept") @@ (M :> "concept")
ConceptGraph(own, S) == [nodes |-> Declared(ConceptKinds, own), edges |-> Chosen(ConceptPool, S)]
ConceptShapes == {<<"concepts", own, S>> : own \in SUBSET {A, K, L}, S \in Subsets(ConceptPool)}

Part == <<"Part">>  Bolt == <<"Bolt">>  Tax == <<"Kinds">>  hard == <<"Kinds", "hard">>
Digits == <<"Digits">>  Unit == <<"Unit">>
u1 == <<"u1">>  w1 == <<"w1">>  cls == <<"cls">>  leaf == <<"leaf">>
Rel(from, n, c, targets) ==
  [id |-> from \o <<n>>, node |-> RelationshipNode([name |-> n, card |-> c]),
   edges |-> <<Edge("hasRelationship", from, NoVia, from \o <<n>>)>>
             \o [i \in DOMAIN targets |-> Edge("targets", from \o <<n>>, NoVia, targets[i])]]
Rels == <<Rel(Part, "r", "one", <<Bolt>>), Rel(Part, "s", "oneOrMore", <<Unit>>)>>
Inst(type, class, as) == [OnInstanceTier(Blank) EXCEPT !.type = type, !.isClass = class, !.attrs = as]
PartNodes ==
  (Element :> TypeNode("concept")) @@ (Unit :> TypeNode("aspect")) @@ (Bolt :> TypeNode("concept"))
  @@ (Part :> [TypeNode("concept") EXCEPT !.fields = <<Fld("f", Digits, "one"), Fld("k", Tax, "optional")>>])
  @@ (Digits :> [TypeNode("primitive") EXCEPT !.attrs = [base |-> <<"string">>, regex |-> "digits"]])
  @@ (Tax :> TypeNode("taxonomy")) @@ (hard :> TermNode(hard, Bolt, <<>>))
  @@ (u1 :> Inst(Bolt, FALSE, <<>>)) @@ (w1 :> Inst(Element, FALSE, <<>>))
  @@ (Rels[1].id :> Rels[1].node) @@ (Rels[2].id :> Rels[2].node)
PartEdges == Rels[1].edges \o Rels[2].edges
  \o <<Incl(Bolt, Unit), Edge("represents", Tax, NoVia, Bolt), Edge("contains", Tax, NoVia, hard)>>
Link(from, via, to) == Edge("relationship", from, via, to)
LinksOf(from) == <<Link(from, "r", u1), Link(from, "r", w1), Link(from, "s", u1), Link(from, "k", hard), Link(from, "k", u1)>>
Values == {<<>>, [f |-> "9"], [f |-> "nine"], [g |-> "9"]}
PartGraph(values, S) ==
  [nodes |-> (cls :> Inst(Part, TRUE, values[1])) @@ (leaf :> Inst(Part, FALSE, values[2])) @@ PartNodes,
   edges |-> PartEdges \o <<Edge("instanceOf", leaf, NoVia, cls)>> \o Chosen(LinksOf(cls) \o LinksOf(leaf), S)]
PartShapes ==
  {<<"parts", values, S>> : values \in Values \X Values,
                            S \in Subsets(SubSeq(LinksOf(cls), 1, 4) \o SubSeq(LinksOf(leaf), 1, 4))}

MCSchemas ==
  [shape \in AspectShapes \cup ConceptShapes \cup PartShapes |->
     CASE shape[1] = "aspects"  -> AspectGraph(shape[2], shape[3])
       [] shape[1] = "concepts" -> ConceptGraph(shape[2], shape[3])
       [] shape[1] = "parts"    -> PartGraph(shape[2], shape[3])]
MCListings == {<<A, B, C, K, L, M, Element>>, <<Element, M, L, K, C, B, A>>}
MCLiteralBases == ("9" :> { <<"string">>, <<"integer">>, <<"number">> })
MCAccepts == {<<"digits", "9">>}
Self == [kind |-> "this"]
MCInvariants ==
  Unit :> <<[kind |-> "not", operand |-> [kind |-> "in", left |-> Self, right |-> [kind |-> "member", target |-> Self, member |-> "r"]]]>>

-----------------------------------------------------------------------------
(* Two concepts and two aspects that may extend and include one another, an   *)
(* instance of each concept, and the edges that edits add and remove.         *)
K1 == <<"C1">>   K2 == <<"C2">>   A1 == <<"A1">>   A2 == <<"A2">>
I1 == <<"i1">>   I2 == <<"i2">>
MCTypes ==
    [nodes |-> [n \in {Element, K1, K2, A1, A2, I1, I2} |->
                  IF n \in {A1, A2} THEN TypeNode("aspect")
                  ELSE IF n = I1 THEN Inst(K1, FALSE, <<>>) ELSE IF n = I2 THEN Inst(K2, FALSE, <<>>)
                  ELSE TypeNode("concept")],
     edges |-> <<>>]
MCTypeEdges ==
    {Ext(K1, K2), Ext(K2, K1), Incl(K1, A1), Incl(K2, A1), Incl(A1, A2), Incl(A2, A1), Link(I1, "r", I2)}
MCInstances == {I1, I2}

(***************************************************************************)
(* Sources, parsed and not.                                                *)
(***************************************************************************)

Head1 == <<"namespace", "n", ".", "m", "{", "import", "p", ".", "q", ";", "identity", "C", "key", "k", ";">>
Tail1 == <<"operator", "==>", ":", "L", "(", "f", ",", "g", ")", ";", "operator", ">", ":", "C", ".", "r", ";",
           "viewpoint", "V", ":", "frames", "C", ",", "n", ".", "D", "package", "{", "annotate", "A", "{", "p", "=", "1", ";", "}", "}",
           "}">>
InBody(open, members, close) == [before |-> Head1 \o open, members |-> members, after |-> close \o Tail1, recovers |-> TRUE]
InStrictBody(open, members, close) == [InBody(open, members, close) EXCEPT !.recovers = FALSE]

MCTexts == {
    InBody(<<"internal", "concept", "D", ":", "C", ",", "n", ".", "X", "{">>,
        << <<"description", "=", "'a'", ";">>,
           <<"f", ":", "n", ".", "T", "[", "+", "]", ";">>,
           <<"derive", "d", "=", "f", ".", "g", ">", "1", ";">>,
           <<"references", "=", "[", "'a'", ",", "'b'", "]", ";">>,
           <<"relationship", "r", "->", "C", "|", "n", ".", "D", "?", ";">>,
           <<"invariant", "'b'", ";">>,
           <<"invariant", "{", "predicate", "=", "f", ">", "1", ";", "description", "=", "'a'", ";", "}">>,
           <<"member", "f", "{", "annotate", "A", "{", "}", "}">>,
           <<"authoring", "list", "{", "x", "{", "}", "}">>,
           <<"h", ":", "T", ";">> >>, <<"}">>),
    InBody(<<"aspect", "X", ":", "Y", "{">>,
        << <<"f", ":", "T", "[", "]", ";">>, <<"annotate", "A", "{", "p", "=", "'a'", ";", "}">>, <<"g", ":", "T", "?", ";">> >>, <<"}">>),
    InBody(<<"taxonomy", "T", ":", "represents", "C", "uses", "U", "{">>,
        << <<"description", "=", "'a'", ";">>,
           <<"term", "t", "{", "x", "=", "1", ";", "C", "u", "{", "}", "}">>,
           <<"note", "=", "1", ";">>,
           <<"annotate", "A", "{", "}">> >>, <<"}">>),
    InBody(<<"taxonomy", "T", ":", "represents", "C", "{", "term", "t", "{">>,
        << <<"x", "=", "true", ";">>, <<"y", "=", "a", "|", "b", ";">>, <<"z", "=", "[", "a", ".", "b", ",", "true", ".", "c", ",", "]", ";">> >>,
        <<"}", "}">>),
    InBody(<<"class", "C", "c", "{">>,
        << <<"x", "=", "n", ".", "D", "{", "y", "=", "1", ";", "}", ";">>, <<"y", "=", "a", "==>", "b", ".", "c", ";">>, <<"z", "=", "'a'", ";">>,
           <<"a", "==>", "b", ";">>, <<"a", ".", "b", ">", "c", "{", "w", "=", "1", ";", "}">>,
           <<"D", "'b'", "instanceof", "n", ".", "c", ":", "M", "{", "}">>, <<"annotate", "A", "{", "}">> >>, <<"}">>),
    InBody(<<"model", "m", ":", "n", ".", "M", "uses", "T", ",", "U", "conforms", "V", "{", "connect", "c", ";", "populate", "C", ";",
             "annotate", "A", "{", "}", "a", "==>", "b", ";", "n", ".", "C", "i", "{", "}", "populate", "D", "from", "c", ".", "s", "key", "k", "{">>,
        << <<"read", "-", "only", ";">>, <<"version", "v", ";">>, <<"concurrency", "last", "-", "write", "-", "wins", ";">>,
           <<"atomicity", "sequential", ";">>, <<"x", "=", "'a'", ";">>, <<"x", "-", "y", "=", "a", "-", "b", ";">> >>, <<"}", "}">>),
    InBody(<<"match", "C", "{">>, << <<"same", "when", "a", ">", "b", ";">>, <<"same", "when", "c", ";">> >>, <<"}">>),
    InBody(<<"merge", "C", "{">>, << <<"prefer", "source", "'a'", "for", "f", ";">>, <<"prefer", "latest", "for", "g", ";">> >>, <<"}">>),
    InBody(<<"policy", "n", ".", "C", "{">>, << <<"allow", "read", "when", "a", ";">>, <<"deny", "write", "when", "b", ";">> >>, <<"}">>),
    InBody(<<"datasource", "d", "{">>, << <<"provider", "=", "'a'", ";">>, <<"auth", "=", "x", "-", "y", ";">> >>, <<"}">>),
    InStrictBody(<<"annotation", "A", ":", "B", "{">>, << <<"p", ":", "T", "?", ";">>, <<"q", ":", "T", ";">> >>, <<"}">>),
    InStrictBody(<<"primitive", "P", ":", "Q", "{">>, << <<"regex", "=", "'a'", ";">>, <<"description", "=", "'b'", ";">> >>, <<"}">>)}

-----------------------------------------------------------------------------
Lit(s)    == [kind |-> "string", text |-> s]
Ref(n)    == [kind |-> "name", name |-> <<n>>]
Set(n, v) == [name |-> n, value |-> v]
FieldOf(n, t) == [name |-> n, type |-> t, card |-> "one"]
RelOf(n, t, anns) == [name |-> n, targets |-> t, card |-> "many", annotations |-> anns]
Ann(n, as) == [name |-> n, assignments |-> as]
Type(kind, n, bases, fields, rels) ==
  [kind |-> kind, name |-> <<n>>, bases |-> bases, fields |-> fields, relationships |-> rels,
   annotations |-> <<>>, members |-> <<>>, attrs |-> <<>>]
Rec(c, id, as) ==
  [kind |-> "instance", concept |-> c, id |-> <<id>>, isClass |-> FALSE, instanceOf |-> <<>>, binds |-> <<>>,
   assignments |-> as, children |-> <<>>, edges |-> <<>>, annotations |-> <<>>]
Term(c, id, as, kids) ==
  [concept |-> c, id |-> <<id>>, assignments |-> as, children |-> kids, annotations |-> <<>>]
Arc(l, g, r, body) == [left |-> <<l>>, glyph |-> <<g>>, right |-> <<r>>, body |-> body]
Model(n, uses, conforms, recs, arcs) ==
  [kind |-> "model", name |-> <<n>>, uses |-> uses, conforms |-> conforms, metaModel |-> <<"m">>, instances |-> recs,
   edges |-> arcs, annotations |-> <<>>, populations |-> <<>>, connect |-> <<>>]
File(uri, ns, imports, decls) == [uri |-> uri, ns |-> <<ns>>, imports |-> imports, decls |-> decls]

Tool == <<"Tool">>  Place == <<"Place">>  Kind == <<"Kind">>
Eq(f) == [left |-> [var |-> "a", field |-> f], right |-> [var |-> "b", field |-> f]]

Types == File(1, "m", <<>>, <<
  Type("aspect", "Named", <<>>, <<FieldOf("name", Str)>>, <<>>),
  [Type("concept", "Tool", << <<"Named">> >>, <<FieldOf("kind", Kind), FieldOf("at", Place), FieldOf("link", <<"Link">>)>>,
        <<RelOf("uses", <<Tool>>, <<Ann(<<"Doc">>, <<Set("text", Lit("t"))>>)>>)>>)
     EXCEPT !.members = <<[member |-> "name", annotations |-> <<Ann(<<"Doc">>, <<>>)>>]>>],
  Type("concept", "Place", << <<"Named">> >>, <<FieldOf("parent", Place)>>, <<>>),
  Type("concept", "Link", <<>>, <<FieldOf("from", Tool), FieldOf("to", Tool)>>, <<>>),
  Type("concept", "Sort", <<>>, <<FieldOf("near", <<"Sort">>), FieldOf("cost", <<"Cost">>)>>, <<>>),
  Type("concept", "Cost", <<>>, <<FieldOf("sum", Str)>>, <<>>),
  Type("annotation", "Doc", <<>>, <<FieldOf("text", Str)>>, <<>>)>>)

Terms == File(2, "m", <<>>, <<
  [kind |-> "taxonomy", name |-> Kind, represents |-> << <<"Sort">>, <<"Cost">> >>, uses |-> <<>>, annotations |-> <<>>,
   relationships |-> <<>>,
   terms |-> <<Term(<<"Sort">>, "hammer", <<Set("near", Ref("saw"))>>, <<Term(<<"Cost">>, "bill", <<Set("sum", Lit("9"))>>, <<>>),
                                                                        Term(<<"Sort">>, "sledge", <<>>, <<>>)>>),
               [Term(<<"Sort">>, "saw", <<>>, <<>>) EXCEPT !.annotations = <<Ann(<<"Doc">>, <<>>)>>]>>],
  [kind |-> "viewpoint", name |-> <<"View">>, frames |-> <<Tool>>, relationships |-> <<>>]>>)

Ops == File(3, "m", <<>>, <<
  [kind |-> "operator", glyph |-> <<"==>">>, concept |-> Tool, from |-> "", to |-> "", relationship |-> "uses"],
  [kind |-> "operator", glyph |-> <<"-->">>, concept |-> <<"Link">>, from |-> "from", to |-> "to", relationship |-> ""],
  [kind |-> "identity", concept |-> Tool, key |-> "name"],
  [kind |-> "match", concept |-> Tool, rules |-> <<{Eq("name")}, {Eq("name"), Eq("at")}, {Eq("name")}>>],
  [kind |-> "merge", concept |-> Place, rules |-> <<[field |-> "name", strategy |-> "latest"]>>],
  [kind |-> "policy", concept |-> Tool, rules |-> <<[parses |-> TRUE, members |-> {"name"}, effect |-> "allow"]>>]>>)

Shop1 == File(4, "a", << <<"m">> >>, <<
  Model("Shop", << <<"m", "Kind">> >>, <<"View">>,
    <<Rec(Tool, "t1", <<Set("kind", Ref("hammer")), Set("at", Ref("p1"))>>),
      [Rec(Tool, "t2", <<Set("name", Lit("two")), Set("kind", Ref("saw"))>>) EXCEPT
         !.edges = <<Arc("t2", "-->", "t1", <<Set("id", Ref("l1"))>>)>>]>>,
    <<Arc("t1", "==>", "t2", <<>>)>>)>>)

Shop2 == File(5, "a", << <<"m">> >>, <<
  Model("Shop", <<>>, <<"View">>,
    <<[Rec(Place, "p1", <<Set("name", Lit("one"))>>) EXCEPT !.children = <<Rec(Place, "p2", <<>>)>>],
      Rec(Tool, "t3", <<Set("link", [kind |-> "object", concept |-> <<"Link">>, assignments |-> <<Set("from", Ref("t3"))>>,
                                     children |-> <<>>, edges |-> <<>>])>>)>>, <<>>)>>)

\* A class with an annotation, a package and the root of an application.
Lib == File(6, "a", << <<"m">> >>, <<
  [Rec(Place, "base", <<Set("name", Lit("b"))>>) EXCEPT !.isClass = TRUE, !.annotations = <<Ann(<<"Doc">>, <<>>)>>],
  [kind |-> "package", annotations |-> <<Ann(<<"entrypoint">>, <<>>)>>]>>)

\* Data sources and a model populated from one.
Data == File(7, "a", << <<"m">> >>, <<
  [kind |-> "connector", name |-> <<"db">>, relationships |-> <<>>, config |-> [kind |-> "sql", host |-> "h"]],
  [Model("Rows", <<>>, <<>>, <<>>, <<>>) EXCEPT !.connect = <<"db">>,
     !.populations = <<[concept |-> Place, connector |-> <<>>, idKey |-> "id", readOnly |-> FALSE, version |-> "name",
                        overrides |-> <<[member |-> "name", field |-> "NAME"]>>]>>]>>)

\* The same record id in another namespace, and a concept declared again.
Twin  == File(8, "b", << <<"m">> >>, <<Model("Yard", <<>>, <<>>, <<Rec(Place, "t1", <<>>)>>, <<>>)>>)
Again == File(9, "m", <<>>, <<
  Type("concept", "Place", <<>>, <<>>, <<>>),
  [kind |-> "merge", concept |-> Tool, rules |-> <<[field |-> "at", strategy |-> "oldest"]>>]>>)

\* Names that do not resolve, and an instance outside a model.
Lost == File(10, "c", <<>>, <<Type("concept", "Odd", << <<"Nowhere">> >>, <<FieldOf("x", Place)>>, <<>>), Rec(<<"Odd">>, "o", <<>>)>>)

\* A transparent library, and an edge to the library itself.
Wrap == File(11, "a", << <<"m">> >>, <<
  [Rec(<<"technology-library">>, "aws", <<>>) EXCEPT !.children = <<[Rec(Place, "zone", <<>>) EXCEPT !.isClass = TRUE]>>]>>)

NoText == [type |-> <<>>, metaKind |-> "none", ns |-> <<"todl">>, localId |-> "", isClass |-> FALSE,
          card |-> "one", fields |-> <<>>, attrs |-> <<>>]
DefaultLibrary ==
  [nodes |-> [id \in {<<"todl", "Element">>, <<"todl", "entrypoint">>} |->
                [NoText EXCEPT !.metaKind = IF id[2] = "Element" THEN "concept" ELSE "annotation"]],
   edges |-> <<>>]
\* The metamodel in one file, or with its terms in a second one.
Meta       == [Types EXCEPT !.decls = @ \o Terms.decls]
MCFiles    == {{Meta, Ops, Shop1, Shop2, Lib, Data}, {Meta, Ops, Shop1, Twin, Again, Lost, Wrap}, {Types, Terms, Ops, Shop2}}
===============================================================================
