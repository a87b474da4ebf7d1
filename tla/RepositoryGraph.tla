--------------------------- MODULE RepositoryGraph ---------------------------
(* The compiler's typed graph (compiler-services/model): nodes with typed      *)
(* edges (graph.ts, graph-store.ts), the staged edits a Builder commits in two *)
(* phases (builder.ts) and the schema reads of the Repository (model.ts).      *)
(* An id is the sequence of its dotted segments, so that qualifying a name by  *)
(* its namespace is concatenation; node order is left out, edge order is kept. *)
EXTENDS Naturals, Sequences, FiniteSets, SequencesExt, Functions

NoId == <<>>
Element == <<"todl", "Element">>
Builtins == {<<"string">>, <<"number">>, <<"integer">>, <<"boolean">>}

\* NodeIdQualifier: the last segment of an id, and a name under a namespace.
LocalId(id) == <<Last(id)>>
Qualify(ns, name) == IF name \in Builtins THEN name ELSE ns \o name

EmptyGraph == [nodes |-> <<>>, edges |-> <<>>]
HasNode(g, id) == id \in DOMAIN g.nodes
MetaKindOf(g, id) == IF HasNode(g, id) THEN g.nodes[id].metaKind ELSE "none"

Edge(kind, from, via, to) == [kind |-> kind, from |-> from, via |-> via, to |-> to]
NoVia == ""

----------------------------------------------------------------------------
(* Reads of the adjacency.                                                     *)

Related(g, id, kind, out) ==
  LET hit == SelectSeq(g.edges, LAMBDA e : e.kind = kind /\ (IF out THEN e.from ELSE e.to) = id)
  IN [i \in DOMAIN hit |-> IF out THEN hit[i].to ELSE hit[i].from]

RelatedVia(g, id, via) ==
  LET hit == SelectSeq(g.edges,
               LAMBDA e : e.kind = "relationship" /\ e.from = id /\ (via = NoVia \/ e.via = via))
  IN [i \in DOMAIN hit |-> hit[i].to]

RECURSIVE Reached(_, _, _, _, _)
Reached(g, kind, out, queue, result) ==
  IF queue = <<>> THEN result
  ELSE LET fresh == ~ Contains(result, Head(queue))
       IN Reached(g, kind, out,
            IF fresh THEN Tail(queue) \o Related(g, Head(queue), kind, out) ELSE Tail(queue),
            IF fresh THEN Append(result, Head(queue)) ELSE result)

Closure(g, start, kind, out) == Reached(g, kind, out, Related(g, start, kind, out), <<>>)

----------------------------------------------------------------------------
(* Schemas: supertypes with the virtual root, aspects, and the merge of both.  *)

RootsAtElement(g, id) ==
  id # Element /\ MetaKindOf(g, id) = "concept" /\ HasNode(g, Element)

SupertypesOf(g, concept) ==
  LET chain == Closure(g, concept, "extends", TRUE)
  IN IF RootsAtElement(g, concept) /\ ~ Contains(chain, Element)
     THEN Append(chain, Element) ELSE chain

Distinct(s) == FoldLeft(LAMBDA acc, x : IF Contains(acc, x) THEN acc ELSE Append(acc, x), <<>>, s)

AspectsOf(g, concept) ==
  LET reach(owner) ==
        LET direct == Related(g, owner, "includesAspect", TRUE)
        IN direct \o FlattenSeq([i \in DOMAIN direct |-> Closure(g, direct[i], "includesAspect", TRUE)])
      owners == <<concept>> \o SupertypesOf(g, concept)
      all    == FlattenSeq([i \in DOMAIN owners |-> reach(owners[i])])
  IN SelectSeq(Distinct(all), LAMBDA a : MetaKindOf(g, a) = "aspect")

OwnFields(g, concept) == IF HasNode(g, concept) THEN g.nodes[concept].fields ELSE <<>>

OwnRelationships(g, concept) ==
  LET ids == Related(g, concept, "hasRelationship", TRUE)
  IN [i \in DOMAIN ids |-> [name    |-> g.nodes[ids[i]].localId,
                            card    |-> g.nodes[ids[i]].card,
                            targets |-> Related(g, ids[i], "targets", TRUE)]]

\* Own members first, then supertypes nearest first, then aspects; the first
\* member of a name is kept.
FirstByName(s) ==
  FoldLeft(LAMBDA acc, x : IF \E i \in DOMAIN acc : acc[i].name = x.name THEN acc ELSE Append(acc, x),
           <<>>, s)

Lineage(g, concept) == <<concept>> \o SupertypesOf(g, concept) \o AspectsOf(g, concept)

EffectiveFields(g, concept) ==
  LET owners == Lineage(g, concept)
  IN FirstByName(FlattenSeq([i \in DOMAIN owners |-> OwnFields(g, owners[i])]))

EffectiveRelationships(g, concept) ==
  LET owners == Lineage(g, concept)
  IN FirstByName(FlattenSeq([i \in DOMAIN owners |-> OwnRelationships(g, owners[i])]))

Named(members, name) == SelectSeq(members, LAMBDA m : m.name = name)
HasMember(members, name) == Named(members, name) # <<>>

----------------------------------------------------------------------------
(* Values of one instance, merged with those of the class it instantiates.     *)

ClassOf(g, leaf) ==
  LET cs == Related(g, leaf, "instanceOf", TRUE) IN IF cs = <<>> THEN NoId ELSE cs[1]

MergedAttrs(g, leaf) ==
  LET own == IF HasNode(g, leaf) THEN g.nodes[leaf].attrs ELSE <<>>
      cls == ClassOf(g, leaf)
  IN IF cls # NoId /\ HasNode(g, cls) THEN g.nodes[cls].attrs @@ own ELSE own

MergedTargets(g, leaf, member) ==
  LET cls == ClassOf(g, leaf)
  IN Distinct((IF cls = NoId THEN <<>> ELSE RelatedVia(g, cls, member)) \o RelatedVia(g, leaf, member))

----------------------------------------------------------------------------
(* Staged edits.  A Builder collects nodes, attributes, edges and fields, and  *)
(* commit checks every one of them before it writes any.                       *)

NoStage == [nodes |-> <<>>, attrs |-> <<>>, edges |-> <<>>, fields |-> <<>>]

Blank == [type |-> NoId, metaKind |-> "none", tier |-> "ontology", ns |-> NoId, localId |-> "", isClass |-> FALSE,
          canonical |-> NoId, card |-> "one", fields |-> <<>>, attrs |-> <<>>]
OnInstanceTier(node) == [node EXCEPT !.tier = "instance"]

\* The nodes the builder's operations stage.
TypeNode(kind)             == [Blank EXCEPT !.metaKind = kind]
InstanceNode(d)            == [OnInstanceTier(Blank) EXCEPT !.type = d.concept, !.isClass = d.isClass, !.localId = Last(d.id)]
ModelNode(name)            == [OnInstanceTier(TypeNode("model")) EXCEPT !.localId = Last(name)]
ApplicationNode(type)      == [TypeNode("application") EXCEPT !.type = type]
RelationshipNode(r)        == [TypeNode("relationship") EXCEPT !.localId = r.name, !.card = r.card]
MemberTargetNode(member)   == [TypeNode("member-target") EXCEPT !.localId = member]
TermNode(id, concept, as)  == [OnInstanceTier(TypeNode("term")) EXCEPT !.type = concept, !.isClass = TRUE, !.localId = Last(id), !.attrs = as]
OperatorNode(d)            == [TypeNode("operator") EXCEPT
                                 !.attrs = [from |-> d.from, to |-> d.to, relationship |-> d.relationship]]
IdentityNode(concept, key) == [TypeNode("identity") EXCEPT !.attrs = [concept |-> concept, key |-> key]]
RulesNode(kind, concept, rules) == [TypeNode(kind) EXCEPT !.attrs = [concept |-> concept, rules |-> rules]]
ConnectorNode(config)      == [TypeNode("connector") EXCEPT !.attrs = config]
BindingNode(model, concept, connector, fieldMap, version, writable) ==
  [TypeNode("population") EXCEPT
     !.attrs = [model |-> model, concept |-> concept, connector |-> connector, fieldMap |-> fieldMap,
                version |-> version, writable |-> writable]]

PutNode(s, id, node)       == [s EXCEPT !.nodes = Append(@, [id |-> id, node |-> node])]
PutAttr(s, id, name, v)    == [s EXCEPT !.attrs = Append(@, [id |-> id, name |-> name, value |-> v])]
PutEdge(s, edge)           == [s EXCEPT !.edges = Append(@, edge)]
PutField(s, id, field)     == [s EXCEPT !.fields = Append(@, [id |-> id, decl |-> field])]
PutEdges(s, edges)         == FoldLeft(PutEdge, s, edges)

StagedIds(s) == {s.nodes[i].id : i \in DOMAIN s.nodes}

\* Why a commit throws: an id taken twice, or an end that is not there and is
\* not the target of an edge already reported as undefined.
CommitError(g, s, undef) ==
  LET known(id) == HasNode(g, id) \/ id \in StagedIds(s)
  IN IF \E i \in DOMAIN s.nodes : \/ HasNode(g, s.nodes[i].id)
                                  \/ \E j \in 1 .. i - 1 : s.nodes[j].id = s.nodes[i].id
     THEN "node exists"
     ELSE IF \E i \in DOMAIN s.attrs : ~ known(s.attrs[i].id) THEN "attribute of no node"
     ELSE IF \E i \in DOMAIN s.fields : ~ known(s.fields[i].id) THEN "field of no node"
     ELSE IF \E i \in DOMAIN s.edges : ~ known(s.edges[i].from) THEN "edge source missing"
     ELSE IF \E i \in DOMAIN s.edges : ~ known(s.edges[i].to) /\ s.edges[i].to \notin undef
     THEN "edge target missing"
     ELSE "none"

NodesWith(g, s) ==
  LET bare     == [id \in DOMAIN g.nodes \cup StagedIds(s) |->
                     IF HasNode(g, id) THEN g.nodes[id]
                     ELSE s.nodes[CHOOSE i \in DOMAIN s.nodes : s.nodes[i].id = id].node]
      withAttr == FoldLeft(LAMBDA ns, a : [ns EXCEPT ![a.id].attrs = (a.name :> a.value) @@ @],
                           bare, s.attrs)
  IN FoldLeft(LAMBDA ns, f : [ns EXCEPT ![f.id].fields = Append(@, f.decl)], withAttr, s.fields)

Committed(g, s, undef) ==
  LET full == NodesWith(g, s)
  IN [nodes |-> full, edges |-> g.edges \o SelectSeq(s.edges, LAMBDA e : e.to \in DOMAIN full)]
=============================================================================
