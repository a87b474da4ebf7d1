------------------------------- MODULE Loader -------------------------------
(* The compiler's front door (parse/loader.ts): a list of parsed files becomes *)
(* a committed graph and a set of diagnostics, in passes that each stage edits  *)
(* and commit them before the next reads the graph.  A load is a record l; one  *)
(* pass maps a load to a load, and the machine at the end takes one pass a step.*)
(* Spans and messages are left out; invariants and predicates are abstract.     *)
EXTENDS RepositoryGraph

CONSTANTS Prelude,     \* the graph of the default library, loaded before
          Files,       \* the sets of files a load may be given files of
          MaxFiles,    \* how many of them at most
          InlineAllowed, ProviderAllowed   \* the connection policy of the deployment

----------------------------------------------------------------------------
(* Names and what they denote: the walk over every reference of a declaration  *)
(* (parse/references.ts), the definitions a declaration introduces, the one     *)
(* resolution law (resolve/resolver.ts) and the fall-backs of the loader's      *)
(* pre-pass for a bare taxonomy term.  A reference is a record of the name with *)
(* where it stands: its file's namespace and imports, the term scope, and the   *)
(* record and member it is a value of.                                          *)

NoScope == [inside |-> FALSE, taxonomy |-> NoId, uses |-> <<>>]
Site(name, c) == [name |-> name, home |-> c.home, scope |-> c.scope, owner |-> c.owner, path |-> c.path]

\* A place that is no value of a member and sees no terms.
Plain(home) == [home |-> home, scope |-> NoScope, owner |-> NoId, path |-> NoVia]
WrapperConcepts == {<<"technology-library">>}
IsWrapper(concept) == LocalId(concept) \in WrapperConcepts

----------------------------------------------------------------------------
(* resolver.ts.  e carries the committed graph, the ids the sources define with *)
(* their namespaces, and the reserved ids of the prelude.                       *)

Known(e, id) == id \in DOMAIN e.defined \/ HasNode(e.graph, id) \/ id \in Builtins

NsOf(e, id) == IF id \in DOMAIN e.defined THEN e.defined[id]
               ELSE IF HasNode(e.graph, id) THEN e.graph.nodes[id].ns ELSE NoId

Reachable(e, id, home) ==
  \/ id \in e.reserved
  \/ NsOf(e, id) \in {NoId, home.ns} \cup Range(home.imports)

Resolved(kind, id) == [kind |-> kind, id |-> id]

ResolveRef(e, name, home) ==
  LET spaces   == <<home.ns>> \o home.imports \o << <<"todl">> >>
      hits     == SelectSeq([i \in DOMAIN spaces |-> Qualify(spaces[i], name)], LAMBDA id : Known(e, id))
      elsewhere == {id \in DOMAIN e.defined \cup DOMAIN e.graph.nodes :
                      NsOf(e, id) # NoId /\ Qualify(NsOf(e, id), name) = id}
  IN IF Known(e, name) THEN Resolved("ok", name)
     ELSE IF hits # <<>> THEN Resolved("qualified", hits[1])
     ELSE IF elsewhere # {} THEN Resolved("unreachable", NoId)
     ELSE Resolved("undefined", NoId)

\* The node id a name stands for, or NoId.
Canonical(e, name, home) == ResolveRef(e, name, home).id

----------------------------------------------------------------------------
(* The pre-pass: what one reference is rewritten to and what is reported of it. *)

Visible(e, id, home) == Known(e, id) /\ Reachable(e, id, home)

\* A bare value on a member whose declared type is a taxonomy: the record's
\* concept is looked up by the record's written id and the type among the
\* fields the concept itself declares in these sources.
FieldTerm(e, site) ==
  LET written == e.records[site.owner]
      resolved == Canonical(e, written, site.home)
      concept == IF resolved = NoId THEN written ELSE resolved
      type    == Canonical(e, e.fieldTypes[concept][site.path], site.home)
  IN IF site.path = NoVia \/ site.owner \notin DOMAIN e.records THEN NoId
     ELSE IF concept \notin DOMAIN e.fieldTypes THEN NoId
     ELSE IF site.path \notin DOMAIN e.fieldTypes[concept] THEN NoId
     ELSE IF type # NoId /\ Visible(e, type \o site.name, site.home) THEN type \o site.name ELSE NoId

Outcome(e, site) ==
  LET r        == ResolveRef(e, site.name, site.home)
      sibling  == Qualify(site.home.ns, site.scope.taxonomy) \o site.name
      inUses   == SelectSeq([i \in DOMAIN site.scope.uses |-> site.scope.uses[i] \o site.name],
                            LAMBDA id : Visible(e, id, site.home))
      dropped  == FieldTerm(e, site)
      lost     == IF r.kind = "unreachable" THEN "ReferenceUnreachable" ELSE "ReferenceUndefined"
  IN IF r.kind \in {"ok", "qualified"} THEN [id |-> r.id, code |-> "none"]
     ELSE IF site.scope.taxonomy # NoId /\ Visible(e, sibling, site.home) THEN [id |-> sibling, code |-> "none"]
     ELSE IF Len(inUses) = 1 THEN [id |-> inUses[1], code |-> "none"]
     ELSE IF Len(inUses) > 1 THEN [id |-> site.name, code |-> "TaxonomyAmbiguousBareReference"]
     ELSE IF dropped # NoId THEN [id |-> dropped, code |-> "none"]
     ELSE [id |-> site.name, code |-> lost]

----------------------------------------------------------------------------
(* The reference walk: the sites of a declaration, and the declaration with     *)
(* every visited name rewritten.  Composite parts, an object's id, the          *)
(* arguments of an annotation and the body of an edge statement are not visited.*)

EdgePlace(edge, c) == [c EXCEPT !.owner = edge.left, !.path = NoVia]
EdgeSites(edge, c) == {Site(edge.left, EdgePlace(edge, c)), Site(edge.right, EdgePlace(edge, c))}
EdgesSites(edges, c) == UNION {EdgeSites(edges[i], c) : i \in DOMAIN edges}
NotId(assignments) == SelectSeq(assignments, LAMBDA a : a.name # "id")
AnnotationSites(anns, home) == {Site(anns[i].name, Plain(home)) : i \in DOMAIN anns}

RECURSIVE ValueSites(_, _), RecordSites(_, _)
ValueSites(v, c) ==
  CASE v.kind = "name"   -> {Site(v.name, c)}
    [] v.kind = "list"   -> UNION {ValueSites(v.items[i], c) : i \in DOMAIN v.items}
    [] v.kind = "object" ->
         {Site(v.concept, [c EXCEPT !.scope = NoScope])}
         \cup UNION {ValueSites(NotId(v.assignments)[i].value, [c EXCEPT !.path = NotId(v.assignments)[i].name])
                     : i \in DOMAIN NotId(v.assignments)}
         \cup UNION {RecordSites(v.children[i], c) : i \in DOMAIN v.children}
         \cup EdgesSites(v.edges, c)
    [] v.kind = "edge"   ->
         EdgeSites(v.edge, c)
         \cup UNION {ValueSites(NotId(v.edge.body)[i].value, [c EXCEPT !.path = NotId(v.edge.body)[i].name])
                     : i \in DOMAIN NotId(v.edge.body)}
    [] OTHER -> {}

RecordSites(d, c) ==
  LET inner == [c EXCEPT !.owner = d.id]
  IN (IF IsWrapper(d.concept) THEN {} ELSE {Site(d.concept, Plain(c.home))})
     \cup (IF d.instanceOf = NoId THEN {} ELSE {Site(d.instanceOf, Plain(c.home))})
     \cup (IF d.isClass THEN AnnotationSites(d.annotations, c.home) ELSE {})
     \cup UNION {ValueSites(d.assignments[i].value, [inner EXCEPT !.path = d.assignments[i].name])
                 : i \in DOMAIN d.assignments}
     \cup UNION {RecordSites(d.children[i], c) : i \in DOMAIN d.children}
     \cup EdgesSites(d.edges, inner)

RECURSIVE TermSites(_, _)
TermSites(t, c) ==
  AnnotationSites(t.annotations, c.home)
  \cup UNION {ValueSites(t.assignments[i].value, [c EXCEPT !.path = t.assignments[i].name])
              : i \in DOMAIN t.assignments}
  \cup UNION {TermSites(t.children[i], c) : i \in DOMAIN t.children}

\* Where the values of a taxonomy's terms and of a model's records stand.
TermPlace(d, home)  == [Plain(home) EXCEPT !.scope = [inside |-> TRUE, taxonomy |-> d.name, uses |-> d.uses]]
ModelPlace(d, home) == [Plain(home) EXCEPT !.scope = [inside |-> TRUE, taxonomy |-> NoId, uses |-> d.uses]]

NameSites(names, home) == {Site(names[i], Plain(home)) : i \in DOMAIN names}
MemberSites(d, home) ==
  {Site(d.fields[i].type, [Plain(home) EXCEPT !.owner = d.name, !.path = d.fields[i].name]) : i \in DOMAIN d.fields}
  \cup UNION {{Site(d.relationships[i].targets[j],
                    [Plain(home) EXCEPT !.owner = d.name, !.path = d.relationships[i].name])
               : j \in DOMAIN d.relationships[i].targets} : i \in DOMAIN d.relationships}
  \cup UNION {AnnotationSites(d.relationships[i].annotations, home) : i \in DOMAIN d.relationships}

Sites(d, home) ==
  CASE d.kind = "taxonomy"   -> NameSites(d.represents, home) \cup AnnotationSites(d.annotations, home)
                                \cup UNION {TermSites(d.terms[i], TermPlace(d, home)) : i \in DOMAIN d.terms}
    [] d.kind = "viewpoint"  -> NameSites(d.frames, home)
    [] d.kind = "concept"    -> NameSites(d.bases, home) \cup MemberSites(d, home)
                                \cup AnnotationSites(d.annotations, home)
                                \cup UNION {AnnotationSites(d.members[i].annotations, home) : i \in DOMAIN d.members}
    [] d.kind = "aspect"     -> NameSites(d.bases, home) \cup MemberSites(d, home)
                                \cup AnnotationSites(d.annotations, home)
    [] d.kind = "annotation" -> NameSites(d.bases, home) \cup MemberSites(d, home)
    [] d.kind = "instance"   -> RecordSites(d, Plain(home))
    [] d.kind = "model"      -> UNION {RecordSites(d.instances[i], ModelPlace(d, home)) : i \in DOMAIN d.instances}
                                \cup EdgesSites(d.edges, ModelPlace(d, home))
                                \cup AnnotationSites(d.annotations, home)
    [] d.kind = "package"    -> AnnotationSites(d.annotations, home)
    [] d.kind = "operator"   -> {Site(d.concept, Plain(home))}
    [] OTHER                 -> {}

----------------------------------------------------------------------------
(* The rewrite hooks, applied to every slot the walk visits.                    *)

Renamed(e, name, c) == Outcome(e, Site(name, c)).id
Names(e, names, home) == [i \in DOMAIN names |-> Renamed(e, names[i], Plain(home))]
RenamedAnns(e, anns, home) ==
  [i \in DOMAIN anns |-> [anns[i] EXCEPT !.name = Renamed(e, @, Plain(home))]]
RenamedEdge(e, edge, c) ==
  [edge EXCEPT !.left = Renamed(e, @, EdgePlace(edge, c)), !.right = Renamed(e, @, EdgePlace(edge, c))]
RenamedEdges(e, edges, c) == [i \in DOMAIN edges |-> RenamedEdge(e, edges[i], c)]

RECURSIVE RenamedValue(_, _, _), RenamedRecord(_, _, _)
RenamedAssignments(e, as, c) ==
  [i \in DOMAIN as |-> IF as[i].name = "id" /\ c.path # NoVia THEN as[i]
                       ELSE [as[i] EXCEPT !.value = RenamedValue(e, @, [c EXCEPT !.path = as[i].name])]]

RenamedValue(e, v, c) ==
  CASE v.kind = "name"   -> [v EXCEPT !.name = Renamed(e, @, c)]
    [] v.kind = "list"   -> [v EXCEPT !.items = [i \in DOMAIN @ |-> RenamedValue(e, @[i], c)]]
    [] v.kind = "object" -> [v EXCEPT !.concept = Renamed(e, @, [c EXCEPT !.scope = NoScope]),
                                      !.assignments = RenamedAssignments(e, @, c),
                                      !.children = [i \in DOMAIN @ |-> RenamedRecord(e, @[i], c)],
                                      !.edges = RenamedEdges(e, @, c)]
    [] v.kind = "edge"   -> [v EXCEPT !.edge = [RenamedEdge(e, @, c) EXCEPT !.body = RenamedAssignments(e, @, c)]]
    [] OTHER             -> v

RenamedRecord(e, d, c) ==
  LET inner == [c EXCEPT !.owner = d.id, !.path = NoVia]
  IN [d EXCEPT !.concept = IF IsWrapper(@) THEN @ ELSE Renamed(e, @, Plain(c.home)),
               !.instanceOf = IF @ = NoId THEN @ ELSE Renamed(e, @, Plain(c.home)),
               !.annotations = IF d.isClass THEN RenamedAnns(e, @, c.home) ELSE @,
               !.assignments = RenamedAssignments(e, @, inner),
               !.children = [i \in DOMAIN @ |-> RenamedRecord(e, @[i], c)],
               !.edges = RenamedEdges(e, @, inner)]

RECURSIVE RenamedTerm(_, _, _)
RenamedTerm(e, t, c) ==
  [t EXCEPT !.annotations = RenamedAnns(e, @, c.home),
            !.assignments = RenamedAssignments(e, @, c),
            !.children = [i \in DOMAIN @ |-> RenamedTerm(e, @[i], c)]]

RenamedMembers(e, d, home) ==
  [d EXCEPT !.bases = Names(e, @, home),
            !.fields = [i \in DOMAIN @ |-> [@[i] EXCEPT !.type =
                          Renamed(e, @, [Plain(home) EXCEPT !.owner = d.name, !.path = d.fields[i].name])]],
            !.relationships = [i \in DOMAIN @ |->
              [@[i] EXCEPT !.targets = [j \in DOMAIN @ |-> Renamed(e, @[j],
                             [Plain(home) EXCEPT !.owner = d.name, !.path = d.relationships[i].name])],
                           !.annotations = RenamedAnns(e, @, home)]]]

Rewritten(e, d, home) ==
  CASE d.kind = "taxonomy"   -> [d EXCEPT !.represents = Names(e, @, home), !.annotations = RenamedAnns(e, @, home),
                                  !.terms = [i \in DOMAIN @ |-> RenamedTerm(e, @[i], TermPlace(d, home))]]
    [] d.kind = "viewpoint"  -> [d EXCEPT !.frames = Names(e, @, home)]
    [] d.kind = "concept"    -> [RenamedMembers(e, d, home) EXCEPT !.annotations = RenamedAnns(e, @, home),
                                  !.members = [i \in DOMAIN @ |-> [@[i] EXCEPT !.annotations = RenamedAnns(e, @, home)]]]
    [] d.kind = "aspect"     -> [RenamedMembers(e, d, home) EXCEPT !.annotations = RenamedAnns(e, @, home)]
    [] d.kind = "annotation" -> RenamedMembers(e, d, home)
    [] d.kind = "instance"   -> RenamedRecord(e, d, Plain(home))
    [] d.kind = "model"      -> [d EXCEPT !.instances = [i \in DOMAIN @ |-> RenamedRecord(e, @[i], ModelPlace(d, home))],
                                  !.edges = RenamedEdges(e, @, ModelPlace(d, home)),
                                  !.annotations = RenamedAnns(e, @, home)]
    [] d.kind = "package"    -> [d EXCEPT !.annotations = RenamedAnns(e, @, home)]
    [] d.kind = "operator"   -> [d EXCEPT !.concept = Renamed(e, @, Plain(home))]
    [] OTHER                 -> d

----------------------------------------------------------------------------
(* The definitions a declaration introduces.                                    *)

RECURSIVE RecordIds(_, _), TermIds(_, _)
RecordIds(d, ns) == {Qualify(ns, d.id)} \cup UNION {RecordIds(d.children[i], ns) : i \in DOMAIN d.children}
TermIds(t, taxonomy) == {taxonomy \o t.id} \cup UNION {TermIds(t.children[i], taxonomy) : i \in DOMAIN t.children}

Definitions(d, ns) ==
  CASE d.kind \in {"primitive", "concept", "aspect", "annotation", "viewpoint"} -> {Qualify(ns, d.name)}
    [] d.kind = "taxonomy" -> {Qualify(ns, d.name)}
                              \cup UNION {TermIds(d.terms[i], Qualify(ns, d.name)) : i \in DOMAIN d.terms}
    [] d.kind = "instance" -> RecordIds(d, ns)
    [] d.kind = "model"    -> {Qualify(ns, d.name)}
                              \cup UNION {RecordIds(d.instances[i], ns) : i \in DOMAIN d.instances}
    [] OTHER               -> {}

----------------------------------------------------------------------------
(* A load and what one pass stages of it.                                      *)

Reserved == DOMAIN Prelude.nodes
ConnectorKinds == {"sql", "rest", "cypher", "document"}
StorageIdKey == "storageId"
PackageNode == <<"package">>
Entrypoint == <<"todl", "entrypoint">>

Fail(l, code, node) == [l EXCEPT !.diags = @ \cup {[code |-> code, node |-> node]}]
FailIf(l, when, code, node) == IF when THEN Fail(l, code, node) ELSE l
Homed(l, u, id) == IF id \in DOMAIN l.homes THEN l ELSE [l EXCEPT !.homes = (id :> u.uri) @@ @]
StageNode(l, u, id, node) == [l EXCEPT !.staged = PutNode(@, id, [node EXCEPT !.ns = u.ns])]
StageEdge(l, e) == [l EXCEPT !.staged = PutEdge(@, e)]
StageAttr(l, id, name, v) == [l EXCEPT !.staged = PutAttr(@, id, name, v)]
StageHomed(l, u, id, node) == Homed(StageNode(l, u, id, node), u, id)
HomeOf(u) == [ns |-> u.ns, imports |-> u.imports]
\* Nothing more is done once a commit threw.
Each(step(_, _), l, s) == FoldLeft(LAMBDA m, x : IF m.error = "none" THEN step(m, x) ELSE m, l, s)
Then(step(_), l) == IF l.error = "none" THEN step(l) ELSE l

CommitPass(l) ==
  LET error == CommitError(l.graph, l.staged, l.undef)
  IN IF error # "none" THEN [l EXCEPT !.error = error]
     ELSE [l EXCEPT !.graph = Committed(@, l.staged, l.undef), !.staged = NoStage]

----------------------------------------------------------------------------
(* Flattening, the prelude's names, orphans, and what the resolver reads.      *)

UnitsOf(file) == [i \in DOMAIN file.decls |->
                    [ns |-> file.ns, imports |-> file.imports, uri |-> file.uri, decl |-> file.decls[i]]]

TypeKinds == {"primitive", "concept", "aspect", "annotation", "taxonomy"}
Redeclared(u) == u.decl.kind \in TypeKinds /\ Qualify(u.ns, u.decl.name) \in Reserved

RECURSIVE Orphans(_)
Orphans(d) == IF IsWrapper(d.concept) \/ d.isClass
              THEN UNION {Orphans(d.children[i]) : i \in DOMAIN d.children} ELSE {d.id}

RECURSIVE RecordConcepts(_)
RecordConcepts(d) == <<[id |-> d.id, concept |-> d.concept]>>
                     \o FlattenSeq([i \in DOMAIN d.children |-> RecordConcepts(d.children[i])])
TopRecords(d) == CASE d.kind = "instance" -> RecordConcepts(d)
                   [] d.kind = "model" -> FlattenSeq([i \in DOMAIN d.instances |-> RecordConcepts(d.instances[i])])
                   [] OTHER -> <<>>

ByName(fields) == [n \in {fields[i].name : i \in DOMAIN fields} |->
                     fields[CHOOSE i \in DOMAIN fields : fields[i].name = n].type]

Prepared(files) ==
  LET all    == FlattenSeq([i \in DOMAIN files |-> UnitsOf(files[i])])
      units  == SelectSeq(all, LAMBDA u : ~ Redeclared(u))
      ids(u) == Definitions(u.decl, u.ns)
      records == FlattenSeq([i \in DOMAIN units |-> TopRecords(units[i].decl)])
      concepts == SelectSeq(units, LAMBDA u : u.decl.kind = "concept")
      orphans == UNION {Orphans(units[i].decl) : i \in {j \in DOMAIN units : units[j].decl.kind = "instance"}}
  IN [units |-> units, graph |-> Prelude, undef |-> {}, reserved |-> Reserved, staged |-> NoStage,
      diags |-> {[code |-> "PreludeNameRedeclared", node |-> all[i].decl.name] : i \in {j \in DOMAIN all : Redeclared(all[j])}}
                \cup {[code |-> "InstanceOrphan", node |-> id] : id \in orphans},
      defined |-> FoldLeft(LAMBDA f, u : [id \in ids(u) |-> u.ns] @@ f, <<>>, units),
      records |-> FoldLeft(LAMBDA f, r : (r.id :> r.concept) @@ f, <<>>, records),
      fieldTypes |-> FoldLeft(LAMBDA f, u : (Qualify(u.ns, u.decl.name) :> ByName(u.decl.fields)) @@ f, <<>>, concepts),
      asserted |-> {}, minted |-> 0, homes |-> <<>>, compositions |-> <<>>, values |-> <<>>,
      applied |-> {}, error |-> "none"]

----------------------------------------------------------------------------
(* RESOLVE: uses and conforms first, then every reference.                      *)

KindDeclared(l, id, kind) ==
  \/ \E i \in DOMAIN l.units : l.units[i].decl.kind = kind /\ Qualify(l.units[i].ns, l.units[i].decl.name) = id
  \/ MetaKindOf(l.graph, id) = kind

Flat(l, name, u) == LET id == Canonical(l, name, HomeOf(u)) IN IF id = NoId THEN name ELSE id
NamesA(l, name, u, kind) ==
  LET id == Canonical(l, name, HomeOf(u)) IN id # NoId /\ KindDeclared(l, id, kind)

NormalizeUses(l, i) ==
  LET u == l.units[i]
  IN [l EXCEPT !.units[i].decl.uses = [j \in DOMAIN @ |-> Flat(l, @[j], u)],
               !.diags = @ \cup {[code |-> "TaxonomyUsesUndefined", node |-> u.decl.name] :
                                 j \in {k \in DOMAIN u.decl.uses : ~ NamesA(l, u.decl.uses[k], u, "taxonomy")}}]

NormalizeConforms(l, i) ==
  LET u == l.units[i]
  IN IF u.decl.conforms = NoId THEN l
     ELSE FailIf([l EXCEPT !.units[i].decl.conforms = Flat(l, @, u)],
                 ~ NamesA(l, u.decl.conforms, u, "viewpoint"), "ModelConformsNotViewpoint", u.decl.name)

ModelUnits(l, name) == {i \in DOMAIN l.units : l.units[i].decl.kind = "model" /\ l.units[i].decl.name = name}
RequireConforms(l, i) ==
  LET u == l.units[i]
  IN FailIf(l, u.decl.conforms = NoId /\ Cardinality({l.units[j].uri : j \in ModelUnits(l, u.decl.name)}) > 1,
            "ModelConformsRequiredWhenSplit", u.decl.name)

Resolve(l) ==
  LET of(kinds) == SelectSeq([i \in DOMAIN l.units |-> i], LAMBDA i : l.units[i].decl.kind \in kinds)
      uses     == Each(NormalizeUses, l, of({"taxonomy", "model"}))
      headed   == Each(RequireConforms, Each(NormalizeConforms, uses, of({"model"})), of({"model"}))
      sites    == UNION {Sites(headed.units[i].decl, HomeOf(headed.units[i])) : i \in DOMAIN headed.units}
      failed   == {s \in sites : Outcome(headed, s).code # "none"}
  IN [headed EXCEPT
        !.units = [i \in DOMAIN @ |-> [@[i] EXCEPT !.decl = Rewritten(headed, @, HomeOf(headed.units[i]))]],
        !.undef = {s.name : s \in failed},
        !.diags = @ \cup {[code |-> Outcome(headed, s).code, node |-> s.name] : s \in failed}]

----------------------------------------------------------------------------
(* PASS 1: the shells of every type.                                           *)

DeclKindOf(l, id) ==
  LET hits == {i \in DOMAIN l.units : /\ l.units[i].decl.kind \in TypeKinds \cup {"viewpoint", "connector"}
                                      /\ Qualify(l.units[i].ns, l.units[i].decl.name) = id}
      meta == MetaKindOf(l.graph, id)
      kind == IF hits = {} THEN meta ELSE l.units[Max(hits)].decl.kind
  IN IF kind \in {"concept", "aspect", "none"} THEN kind ELSE "other"

\* A base list split into one parent and aspects; misplaced bases are reported.
ClassifyBase(l, acc, i, base, owner) ==
  LET kind  == DeclKindOf(l, base)
      error == IF kind = "other" \/ ~ acc.taken THEN "ConceptBaseNotFirst" ELSE "MultipleParentConcepts"
  IN IF base \in acc.seen THEN [acc EXCEPT !.diags = @ \cup {[code |-> "DuplicateBase", node |-> owner]}]
     ELSE LET next == [acc EXCEPT !.seen = @ \cup {base}]
          IN CASE kind = "aspect" -> [next EXCEPT !.aspects = Append(@, base)]
               [] kind # "aspect" /\ i = 1 -> [next EXCEPT !.parent = base, !.taken = TRUE]
               [] kind = "none" /\ i > 1 -> next
               [] kind = "other" /\ i > 1 -> [next EXCEPT !.diags = @ \cup {[code |-> error, node |-> owner]}]
               [] OTHER -> [next EXCEPT !.diags = @ \cup {[code |-> error, node |-> owner]}, !.taken = TRUE,
                                        !.parent = IF @ = NoId THEN base ELSE @]

ClassifyConcept(l, d) ==
  FoldLeft(LAMBDA acc, i : ClassifyBase(l, acc, i, d.bases[i], d.name),
           [seen |-> {}, aspects |-> <<>>, parent |-> NoId, taken |-> FALSE, diags |-> {}],
           [i \in DOMAIN d.bases |-> i])

ClassifyAspect(l, d) ==
  LET fresh == Distinct(d.bases)
  IN [aspects |-> SelectSeq(fresh, LAMBDA b : DeclKindOf(l, b) = "aspect"),
      diags |-> {[code |-> "DuplicateBase", node |-> d.name] : i \in {j \in DOMAIN d.bases : Len(fresh) < Len(d.bases)}}
                \cup {[code |-> "AspectIncludesNonAspect", node |-> d.name] :
                      b \in {c \in Range(fresh) : DeclKindOf(l, c) \in {"concept", "other"}}}]

Aspects(l, id, aspects) == Each(LAMBDA m, a : StageEdge(m, Edge("includesAspect", id, NoVia, a)), l, aspects)
Extends(l, id, parent) == IF parent = NoId THEN l ELSE StageEdge(l, Edge("extends", id, NoVia, parent))

\* A term's own concept is matched against the represented ones by id or local name.
NormConcept(d, name) ==
  LET hits == SelectSeq(d.represents, LAMBDA c : c = name \/ LocalId(c) = name)
  IN IF name = NoId \/ hits = <<>> THEN name ELSE hits[1]

Literals(assignments) ==
  FoldLeft(LAMBDA f, a : (a.name :> a.value.text) @@ f, <<>>,
           SelectSeq(assignments, LAMBDA a : a.value.kind \in {"string", "boolean"}))

RECURSIVE TermRecord(_, _)
TermRecord(d, t) ==
  [kind |-> "instance", concept |-> NormConcept(d, t.concept), id |-> d.name \o t.id, isClass |-> TRUE,
   instanceOf |-> NoId, assignments |-> t.assignments, annotations |-> <<>>, edges |-> <<>>, binds |-> NoId,
   children |-> [i \in DOMAIN t.children |-> TermRecord(d, t.children[i])]]

RECURSIVE BuildTerm(_, _, _, _, _)
BuildTerm(l, u, t, own, broader) ==
  LET d      == u.decl
      tax    == Qualify(u.ns, d.name)
      id     == tax \o t.id
      node   == TermNode(t.id, IF t.concept # NoId THEN own ELSE IF d.represents = <<>> THEN NoId ELSE d.represents[1],
                         Literals(t.assignments))
      staged == LET a == StageEdge(StageHomed(l, u, id, node), Edge("contains", tax, NoVia, id))
                    b == IF broader = NoId THEN a ELSE StageEdge(a, Edge("narrower", broader, NoVia, id))
                IN FailIf(b, t.concept = NoId /\ Len(d.represents) > 1, "TaxonomyTermConceptAmbiguous", id)
      child(m, c) ==
        LET concept == NormConcept(d, c.concept)
        IN IF concept \in {NoId, own} THEN BuildTerm(m, u, c, IF concept = NoId THEN own ELSE concept, id)
           ELSE IF concept \in Range(d.represents)
           THEN [m EXCEPT !.compositions = Append(@, [u |-> u, parent |-> id, concept |-> own, decl |-> TermRecord(d, c)])]
           ELSE Fail(m, "TermConceptNotRepresented", tax \o c.id)
      later  == SelectSeq(t.assignments, LAMBDA a : a.value.kind \notin {"string", "boolean"})
      nested == Each(child, staged, t.children)
  IN [nested EXCEPT !.values = @ \o [i \in DOMAIN later |-> [u |-> u, concept |-> own, id |-> id,
                                                             name |-> later[i].name, value |-> later[i].value]]]

Taxonomy(l, u) ==
  LET d   == u.decl
      tax == Qualify(u.ns, d.name)
      own(t) == IF t.concept # NoId THEN NormConcept(d, t.concept)
                ELSE IF d.represents = <<>> THEN NoId ELSE d.represents[1]
      shell == [StageHomed(l, u, tax, TypeNode("taxonomy"))
                  EXCEPT !.staged = PutEdges(@, [i \in DOMAIN d.represents |->
                                                   Edge("represents", tax, NoVia, d.represents[i])])]
  IN Each(LAMBDA m, t : BuildTerm(m, u, t, own(t), NoId), shell, d.terms)

Operator(l, u) ==
  LET d == u.decl
  IN IF d.glyph \in StagedIds(l.staged) THEN l
     ELSE StageEdge(StageHomed(l, u, d.glyph, OperatorNode(d)),
                    Edge("targets", d.glyph, NoVia, d.concept))

Shell(l, u) ==
  LET d     == u.decl
      id    == Qualify(u.ns, d.name)
      typed == TypeNode(d.kind)
  IN CASE d.kind = "primitive"  -> StageHomed(l, u, id, [typed EXCEPT !.attrs = d.attrs])
       [] d.kind = "viewpoint"  -> [StageHomed(l, u, id, typed) EXCEPT
                                      !.staged = PutEdges(@, [i \in DOMAIN d.frames |-> Edge("frames", id, NoVia, d.frames[i])])]
       [] d.kind = "taxonomy"   -> Taxonomy(l, u)
       [] d.kind = "concept"    ->
            LET c == ClassifyConcept(l, d)
            IN [Aspects(Extends(StageHomed(l, u, id, typed), id, c.parent), id, c.aspects) EXCEPT !.diags = @ \cup c.diags]
       [] d.kind = "aspect"     ->
            LET c == ClassifyAspect(l, d)
            IN [Aspects(StageHomed(l, u, id, typed), id, c.aspects) EXCEPT !.diags = @ \cup c.diags]
       [] d.kind = "annotation" ->
            Extends(StageHomed(l, u, id, typed), id, IF d.bases = <<>> THEN NoId ELSE d.bases[1])
       [] d.kind = "operator"   -> Operator(l, u)
       [] OTHER                 -> l

\* Every declaration committed as it is staged, so that none sees a later one.
ShellsOneByOne(l) == Each(LAMBDA m, u : CommitPass(Shell(m, u)), l, l.units)
Shells(l) == CommitPass(Each(Shell, l, l.units))

----------------------------------------------------------------------------
(* PASS 2a: members, then the checks of operators against the schemas.         *)

Relationship(l, u, id, r) ==
  LET member == id \o <<r.name>>
      owned  == StageEdge(StageHomed(l, u, member, RelationshipNode(r)), Edge("hasRelationship", id, NoVia, member))
  IN [owned EXCEPT !.staged = PutEdges(@, [i \in DOMAIN r.targets |-> Edge("targets", member, NoVia, r.targets[i])])]

Members(l) ==
  LET step(m, u) ==
        LET id     == Qualify(u.ns, u.decl.name)
            fields == Each(LAMBDA k, f : [k EXCEPT !.staged = PutField(@, id, f)], m, u.decl.fields)
        IN IF u.decl.kind = "annotation" THEN fields
           ELSE IF u.decl.kind \notin {"concept", "aspect"} THEN m
           ELSE Each(LAMBDA k, r : Relationship(k, u, id, r), fields, u.decl.relationships)
  IN CommitPass(Each(step, l, l.units))

IsReferenceType(l, type) == MetaKindOf(l.graph, type) \in {"concept", "taxonomy"}
IsReferenceMember(l, concept, name) ==
  \/ HasMember(EffectiveRelationships(l.graph, concept), name)
  \/ LET f == Named(EffectiveFields(l.graph, concept), name) IN f # <<>> /\ IsReferenceType(l, f[1].type)

EdgeGlyphs == {<<"==>">>, <<"-->">>}    \* the runs of edge characters the files use
Endpoints(d) == IF d.relationship # NoVia THEN {d.relationship} ELSE {d.from, d.to} \ {NoVia}

Operators(l) ==
  LET ops  == SelectSeq(l.units, LAMBDA u : u.decl.kind = "operator")
      step(m, i) ==
        LET d == ops[i].decl
            a == FailIf(m, d.glyph \notin EdgeGlyphs, "OperatorMalformedGlyph", d.glyph)
            b == FailIf(a, \E j \in 1 .. i - 1 : ops[j].decl.glyph = d.glyph, "OperatorRedeclared", d.glyph)
        IN FailIf(b, /\ HasNode(m.graph, d.concept)
                     /\ \E p \in Endpoints(d) : ~ IsReferenceMember(m, d.concept, p), "OperatorBadEndpoint", d.glyph)
  IN Each(step, l, [i \in DOMAIN ops |-> i])

----------------------------------------------------------------------------
(* Entity declarations: identity, match, merge and policy of a concept.        *)

ConceptNamed(l, name, u) ==
  LET id == Canonical(l, name, HomeOf(u)) IN IF id # NoId /\ MetaKindOf(l.graph, id) = "concept" THEN id ELSE NoId
FieldNames(l, concept) == LET fs == EffectiveFields(l.graph, concept) IN {fs[i].name : i \in DOMAIN fs}
Kind(l, kind) == SelectSeq(l.units, LAMBDA u : u.decl.kind = kind)

Identity(l, u) ==
  LET c  == ConceptNamed(l, u.decl.concept, u)
      id == c \o <<"@identity">>
  IN IF c = NoId THEN Fail(l, "IdentityUnknownConcept", u.decl.concept)
     ELSE IF u.decl.key \notin FieldNames(l, c) \cup {StorageIdKey} THEN Fail(l, "IdentityUnknownKey", c)
     ELSE IF HasNode(l.graph, id) \/ id \in StagedIds(l.staged) THEN l
     ELSE StageHomed(l, u, id, IdentityNode(c, u.decl.key))

\* match-rule-normalizer.ts: the fields a clause equates, or {} when the clause
\* is no conjunction of equalities of one field of the two candidates.
Normalize(clause) ==
  IF \A q \in clause : {q.left.var, q.right.var} = {"a", "b"} /\ q.left.field = q.right.field
  THEN {q.left.field : q \in clause} ELSE {}

\* The rules of one kind that survive their checks, gathered per concept.
MatchFault(l, c, rule) ==
  IF Normalize(rule) = {} THEN "MatchUnsupportedRule"
  ELSE IF ~ Normalize(rule) \subseteq FieldNames(l, c) THEN "MatchUnknownField" ELSE "none"
MergeFault(l, c, rule) == IF rule.field \in FieldNames(l, c) THEN "none" ELSE "MergeUnknownField"
PolicyFault(l, c, rule) ==
  IF ~ rule.parses THEN "PolicyUnsupportedRule"
  ELSE IF rule.members \subseteq FieldNames(l, c) \cup {StorageIdKey} THEN "none" ELSE "PolicyUnknownField"

Fault(l, kind, c, rule) == CASE kind = "match" -> MatchFault(l, c, rule)
                             [] kind = "merge" -> MergeFault(l, c, rule)
                             [] OTHER          -> PolicyFault(l, c, rule)

\* A repeated match clause and a second merge rule of one field are dropped;
\* every policy rule is kept, in order.
AddRule(kind, rules, rule) ==
  CASE kind = "match" -> IF Contains(rules, Normalize(rule)) THEN rules ELSE Append(rules, Normalize(rule))
    [] kind = "merge" -> IF \E i \in DOMAIN rules : rules[i].field = rule.field THEN rules ELSE Append(rules, rule)
    [] OTHER          -> Append(rules, rule)

UnknownConcept(kind) == CASE kind = "match" -> "MatchUnknownConcept" [] kind = "merge" -> "MergeUnknownConcept"
                          [] OTHER -> "PolicyUnknownConcept"

RuleNodes(l, kind) ==
  LET us       == Kind(l, kind)
      concept(u) == ConceptNamed(l, u.decl.concept, u)
      rulesOf(u) == [i \in DOMAIN u.decl.rules |-> [u |-> u, concept |-> concept(u), rule |-> u.decl.rules[i]]]
      known    == SelectSeq(us, LAMBDA u : concept(u) # NoId)
      all      == FlattenSeq([i \in DOMAIN known |-> rulesOf(known[i])])
      sound    == SelectSeq(all, LAMBDA r : Fault(l, kind, r.concept, r.rule) = "none")
      told     == [l EXCEPT !.diags = @
                     \cup {[code |-> UnknownConcept(kind), node |-> us[i].decl.concept] :
                           i \in {j \in DOMAIN us : concept(us[j]) = NoId}}
                     \cup {[code |-> Fault(l, kind, all[i].concept, all[i].rule), node |-> all[i].concept] :
                           i \in {j \in DOMAIN all : Fault(l, kind, all[j].concept, all[j].rule) # "none"}}]
      concepts == Distinct([i \in DOMAIN sound |-> sound[i].concept])
      stage(m, c) ==
        LET mine  == SelectSeq(sound, LAMBDA r : r.concept = c)
            rules == FoldLeft(LAMBDA rs, r : AddRule(kind, rs, r.rule), <<>>, mine)
            id    == c \o <<"@">> \o <<kind>>
        IN IF HasNode(m.graph, id) THEN m
           ELSE StageHomed(m, Last(us), id, RulesNode(kind, c, rules))
  IN CommitPass(Each(stage, told, concepts))

Entities(l) ==
  LET then(m, kind) == IF m.error = "none" THEN RuleNodes(m, kind) ELSE m
  IN FoldLeft(then, CommitPass(Each(Identity, l, Kind(l, "identity"))), <<"match", "merge", "policy">>)

----------------------------------------------------------------------------
(* Connectors and populations.                                                 *)

ConnectorId(ns, name) == ns \o <<"@connector">> \o name
ReservedKeys == {"kind", "connection", "secret", "provider"}

Connector(l, u) ==
  LET d      == u.decl
      id     == ConnectorId(u.ns, d.name)
      config == DOMAIN d.config \ ReservedKeys
      kind   == IF "kind" \in DOMAIN d.config THEN d.config["kind"] ELSE "none"
      a == FailIf(l, kind \notin ConnectorKinds, "ConnectorUnknownKind", id)
      b == FailIf(a, ~ InlineAllowed /\ config # {}, "ConnectorInlineForbidden", id)
      c == FailIf(b, ~ ProviderAllowed /\ "provider" \in DOMAIN d.config, "ConnectorProviderForbidden", id)
  IN IF HasNode(l.graph, id) THEN l
     ELSE StageHomed(c, u, id, ConnectorNode(d.config))

Connectors(l) == CommitPass(Each(Connector, l, Kind(l, "connector")))

\* The total map of members to external fields: by convention, then overridden.
FieldMap(fields, p) ==
  LET named(n) == SelectSeq(p.overrides, LAMBDA o : o.member = n)
  IN [n \in fields \cup {"id"} |-> IF n = "id" THEN p.idKey
                                   ELSE IF named(n) = <<>> THEN n ELSE Last(named(n)).field]

Populate(l, u, p, seen) ==
  LET model     == Qualify(u.ns, u.decl.name)
      c         == ConceptNamed(l, p.concept, u)
      binding   == model \o <<"@populate">> \o c
      source    == IF p.connector # NoId THEN p.connector ELSE u.decl.connect
      connector == ConnectorId(u.ns, source)
      fields    == FieldNames(l, c)
      unknown   == {p.overrides[i].member : i \in DOMAIN p.overrides} \ (fields \cup {"id"})
      map       == FieldMap(fields, p)
      badVersion == p.version # NoVia /\ p.version \notin DOMAIN map
      told      == FailIf(FailIf(l, unknown # {}, "ConnectorUnknownField", c), badVersion, "ConnectorUnknownField", c)
  IN IF c = NoId THEN Fail(l, "ConnectorUnknownConcept", p.concept)
     ELSE IF c \in seen THEN Fail(l, "ConnectorDuplicatePopulate", c)
     ELSE IF source = NoId \/ ~ HasNode(l.graph, connector) THEN Fail(l, "ConnectorUnresolvedConnector", c)
     ELSE IF HasNode(l.graph, binding) THEN told
     ELSE StageHomed(told, u, binding,
            BindingNode(model, c, connector, map, IF badVersion THEN NoVia ELSE p.version, ~ p.readOnly))

Populations(l) ==
  LET all == FlattenSeq([i \in DOMAIN Kind(l, "model") |->
               LET u == Kind(l, "model")[i]
               IN [j \in DOMAIN u.decl.populations |->
                     [u |-> u, model |-> Qualify(u.ns, u.decl.name), p |-> u.decl.populations[j],
                      concept |-> ConceptNamed(l, u.decl.populations[j].concept, u)]]])
      before(i) == {all[j].concept : j \in {k \in 1 .. i - 1 : all[k].model = all[i].model}}
  IN CommitPass(Each(LAMBDA m, i : Populate(m, all[i].u, all[i].p, before(i)), l, [i \in DOMAIN all |-> i]))

----------------------------------------------------------------------------
(* PASS 2b: instances.  A value becomes an attribute or an edge by the declared *)
(* type of the member it is given to.                                           *)

ReferenceMemberType(l, concept, name) ==
  LET f == Named(EffectiveFields(l.graph, concept), name)
      r == Named(EffectiveRelationships(l.graph, concept), name)
  IN IF f # <<>> THEN (IF IsReferenceType(l, f[1].type) THEN f[1].type ELSE NoId)
     ELSE IF r # <<>> /\ r[1].targets # <<>> THEN r[1].targets[1] ELSE NoId

Relate(l, from, via, to) == StageEdge(l, Edge("relationship", from, via, to))
RelateNames(l, u, from, via, names) ==
  LET targets == SelectSeq([i \in DOMAIN names |-> Canonical(l, names[i], HomeOf(u))], LAMBDA id : id # NoId)
  IN Each(LAMBDA m, to : Relate(m, from, via, to), l, targets)

\* A contained record is appended to the one field typed by its concept.
BindEntityToField(l, parent, parentConcept, concept, id) ==
  LET fits == SelectSeq(EffectiveFields(l.graph, parentConcept), LAMBDA f : f.type = concept)
  IN IF fits = <<>> THEN l
     ELSE IF Len(fits) > 1 THEN Fail(l, "AmbiguousFieldBinding", id)
     ELSE Relate(l, parent, fits[1].name, id)

\* The operator of a committed glyph that still has its concept.
HasOperator(l, glyph) == MetaKindOf(l.graph, glyph) = "operator" /\ Related(l.graph, glyph, "targets", TRUE) # <<>>
OperatorOf(l, glyph) == l.graph.nodes[glyph].attrs @@ [concept |-> Related(l.graph, glyph, "targets", TRUE)[1]]

NameOfValue(v) == CASE v.kind = "name" -> v.name [] v.kind = "string" -> <<v.text>> [] OTHER -> <<"">>
IdOf(l, assignments) ==
  LET ids == SelectSeq(assignments, LAMBDA a : a.name = "id")
  IN IF ids # <<>> THEN [id |-> NameOfValue(ids[1].value), minted |-> l.minted]
     ELSE [id |-> <<"gen", ToString(l.minted + 1)>>, minted |-> l.minted + 1]

Record(concept, id, assignments, children, edges) ==
  [kind |-> "instance", concept |-> concept, id |-> id, isClass |-> FALSE, instanceOf |-> NoId, binds |-> NoId,
   assignments |-> NotId(assignments), children |-> children, edges |-> edges, annotations |-> <<>>]

Assignable(l, concept, type) == concept = type \/ Contains(SupertypesOf(l.graph, concept), type)

RECURSIVE RealizeValue(_, _, _, _, _, _), ApplyInstance(_, _, _, _, _), ApplyEdge(_, _, _, _, _)

AssertRecord(l, u, d, id, parent, parentConcept) ==
  LET a == [StageHomed(l, u, id, InstanceNode(d)) EXCEPT !.asserted = @ \cup {id}]
      b == IF d.binds = NoId THEN a ELSE StageAttr(a, id, "MetaModel", d.binds)
      c == IF d.instanceOf = NoId THEN b ELSE StageEdge(b, Edge("instanceOf", id, NoVia, d.instanceOf))
      e == IF parent = NoId THEN c ELSE StageEdge(c, Edge("contains", parent, NoVia, id))
  IN IF parent # NoId /\ parentConcept # NoId THEN BindEntityToField(e, parent, parentConcept, d.concept, id) ELSE e

ApplyInstance(l, u, d, parent, parentConcept) ==
  LET id    == Qualify(u.ns, d.id)
      shell == IF id \notin l.asserted THEN AssertRecord(l, u, d, id, parent, parentConcept)
               ELSE FailIf(l, ~ d.isClass, "InstanceDuplicateId", id)
      valued == Each(LAMBDA m, a : RealizeValue(m, u, d.concept, id, a.name, a.value), shell, d.assignments)
      nested == Each(LAMBDA m, c : ApplyInstance(m, u, c, id, d.concept), valued, d.children)
  IN IF IsWrapper(d.concept) THEN Each(LAMBDA m, c : ApplyInstance(m, u, c, NoId, NoId), l, d.children)
     ELSE Each(LAMBDA m, e : ApplyEdge(m, u, e, id, d.concept), nested, d.edges)

MintedRecord(l, op, edge) ==
  LET ends == (IF op.from = NoVia THEN <<>> ELSE <<[name |-> op.from, value |-> [kind |-> "name", name |-> edge.left]]>>)
              \o (IF op.to = NoVia THEN <<>> ELSE <<[name |-> op.to, value |-> [kind |-> "name", name |-> edge.right]]>>)
  IN Record(op.concept, IdOf(l, edge.body).id, ends \o edge.body, <<>>, <<>>)

MintEdge(l, u, edge, op, owner) ==
  ApplyInstance([l EXCEPT !.minted = IdOf(l, edge.body).minted], u, MintedRecord(l, op, edge), owner, NoId)

ApplyEdge(l, u, edge, owner, ownerConcept) ==
  LET op     == OperatorOf(l, edge.glyph)
      minted == MintEdge(l, u, edge, op, owner)
  IN IF ~ HasOperator(l, edge.glyph) THEN Fail(l, "OperatorUndefined", edge.glyph)
     ELSE IF op.relationship # NoVia
     THEN Relate(FailIf(l, edge.body # <<>>, "OperatorBodyOnRelationship", edge.glyph),
                 edge.left, op.relationship, edge.right)
     ELSE IF owner # NoId /\ ownerConcept # NoId
     THEN BindEntityToField(minted, owner, ownerConcept, op.concept, Qualify(u.ns, IdOf(l, edge.body).id))
     ELSE minted

\* An inline object or an edge used as a value, given to a concept-typed member.
ObjectFault(l, ownerConcept, name, concept) ==
  LET type == ReferenceMemberType(l, ownerConcept, name)
  IN IF type = NoId THEN "InlineObjectTarget"
     ELSE IF ~ Assignable(l, concept, type) THEN "InlineObjectType" ELSE "none"

RealizeObject(l, u, ownerConcept, owner, name, v) ==
  LET fault == ObjectFault(l, ownerConcept, name, v.concept)
      id    == IdOf(l, v.assignments)
      obj   == Qualify(u.ns, id.id)
      made  == ApplyInstance([l EXCEPT !.minted = id.minted], u,
                 Record(v.concept, id.id, v.assignments, v.children, v.edges), NoId, NoId)
  IN IF fault # "none" THEN Fail(l, fault, owner)
     ELSE Relate(StageEdge(made, Edge("contains", owner, NoVia, obj)), owner, name, obj)

RealizeEdge(l, u, ownerConcept, owner, name, edge) ==
  LET op    == OperatorOf(l, edge.glyph)
      fault == ObjectFault(l, ownerConcept, name, op.concept)
  IN IF ~ HasOperator(l, edge.glyph) THEN Fail(l, "OperatorUndefined", owner)
     ELSE IF op.relationship # NoVia THEN Fail(l, "OperatorNotAValue", owner)
     ELSE IF fault # "none" THEN Fail(l, fault, owner)
     ELSE Relate(MintEdge(l, u, edge, op, owner), owner, name, Qualify(u.ns, IdOf(l, edge.body).id))

RealizeValue(l, u, concept, id, name, v) ==
  LET reference == IsReferenceMember(l, concept, name)
  IN CASE v.kind \in {"string", "boolean"} ->
            IF reference THEN Fail(l, "MemberValueKind", id) ELSE StageAttr(l, id, name, v.text)
       [] v.kind = "name"      -> IF reference THEN RelateNames(l, u, id, name, <<v.name>>) ELSE StageAttr(l, id, name, v.name)
       [] v.kind = "composite" -> IF reference THEN RelateNames(l, u, id, name, v.parts)
                                  ELSE StageAttr(l, id, name, FlattenSeq(v.parts))
       [] v.kind = "list"      -> Each(LAMBDA m, i : RealizeValue(m, u, concept, id, name, i), l, v.items)
       [] v.kind = "object"    -> RealizeObject(l, u, concept, id, name, v)
       [] OTHER                -> RealizeEdge(l, u, concept, id, name, v.edge)

ApplyModel(l, u) ==
  LET d     == u.decl
      id    == Qualify(u.ns, d.name)
      shell == IF id \in l.asserted THEN l
               ELSE StageAttr(StageAttr(
                      [StageHomed(l, u, id, ModelNode(d.name))
                         EXCEPT !.asserted = @ \cup {id}],
                      id, "MetaModel", d.metaModel), id, "uses", d.uses)
      child(m, c) ==
        LET made == ApplyInstance(m, u, c, id, NoId)
        IN IF d.conforms = NoId \/ c.isClass \/ IsWrapper(c.concept) THEN made
           ELSE StageAttr(made, Qualify(u.ns, c.id), "conforms", d.conforms)
  IN Each(LAMBDA m, e : ApplyEdge(m, u, e, id, NoId), Each(child, shell, d.instances), d.edges)

Instances(l) ==
  LET step(m, u) == CASE u.decl.kind = "instance" -> ApplyInstance(m, u, u.decl, NoId, NoId)
                      [] u.decl.kind = "model"    -> ApplyModel(m, u)
                      [] OTHER                    -> m
      placed == Each(LAMBDA m, c : ApplyInstance(m, c.u, c.decl, c.parent, c.concept), Each(step, l, l.units), l.compositions)
  IN CommitPass(Each(LAMBDA m, v : RealizeValue(m, v.u, v.concept, v.id, v.name, v.value), placed, l.values))

----------------------------------------------------------------------------
(* APPLICATIONS: annotation uses on concepts, members, terms, the package,      *)
(* models and class instances; the first of a repeated one wins.               *)

MemberTarget(owner, member) == owner \o <<"#">> \o <<member>>

Apply(l, u, target, a) ==
  LET app    == target \o <<"@">> \o a.name
      staged == StageEdge(StageHomed(l, u, app, ApplicationNode(a.name)),
                          Edge("annotated", target, NoVia, app))
      marked == [staged EXCEPT !.applied = @ \cup {app}]
  IN IF app \in l.applied THEN Fail(l, "AnnotationDuplicate", app)
     ELSE Each(LAMBDA m, v : RealizeValue(m, u, a.name, app, v.name, v.value), marked, a.assignments)

ApplyAll(l, u, target, anns) == Each(LAMBDA m, a : Apply(m, u, target, a), l, anns)

\* member-annotation-target.ts: only an inherited or contributed member is a target.
OwnMember(l, concept, member) ==
  HasMember(OwnFields(l.graph, concept), member) \/ HasMember(OwnRelationships(l.graph, concept), member)
AnyMember(l, concept, member) ==
  HasMember(EffectiveFields(l.graph, concept), member) \/ HasMember(EffectiveRelationships(l.graph, concept), member)

ApplyToMember(l, u, concept, ma) ==
  LET target == MemberTarget(concept, ma.member)
      hosted == IF target \in StagedIds(l.staged) \/ HasNode(l.graph, target) THEN l
                ELSE StageNode(l, u, target, MemberTargetNode(ma.member))
  IN IF OwnMember(l, concept, ma.member) \/ ~ AnyMember(l, concept, ma.member)
     THEN Fail(l, "MemberAnnotationTargetInvalid", concept)
     ELSE IF ma.annotations = <<>> THEN l ELSE ApplyAll(hosted, u, target, ma.annotations)

RECURSIVE ApplyToRecord(_, _, _), ApplyToTerm(_, _, _)
ApplyToRecord(l, u, d) ==
  LET id   == Qualify(u.ns, d.id)
      here == IF d.isClass THEN ApplyAll(l, u, id, d.annotations)
              ELSE FailIf(l, d.annotations # <<>>, "AnnotationInvalidTarget", id)
  IN Each(LAMBDA m, c : ApplyToRecord(m, u, c), here, d.children)

ApplyToTerm(l, u, t) ==
  Each(LAMBDA m, c : ApplyToTerm(m, u, c), ApplyAll(l, u, Qualify(u.ns, u.decl.name) \o t.id, t.annotations), t.children)

ApplyToType(l, u) ==
  LET id      == Qualify(u.ns, u.decl.name)
      members == Each(LAMBDA m, ma : ApplyToMember(m, u, id, ma), l, u.decl.members)
  IN Each(LAMBDA m, r : ApplyAll(m, u, id \o <<r.name>>, r.annotations),
          ApplyAll(members, u, id, u.decl.annotations), u.decl.relationships)

ApplyToPackage(l, u) ==
  LET hosted == IF PackageNode \in StagedIds(l.staged) THEN l
                ELSE StageHomed(l, u, PackageNode, TypeNode("package"))
  IN ApplyAll(hosted, u, PackageNode, u.decl.annotations)

Applications(l) ==
  LET step(m, u) ==
        LET d  == u.decl
        IN CASE d.kind \in {"concept", "aspect"} -> ApplyToType(m, u)
             [] d.kind = "package"  -> ApplyToPackage(m, u)
             [] d.kind = "taxonomy" -> Each(LAMBDA k, t : ApplyToTerm(k, u, t),
                                            ApplyAll(m, u, Qualify(u.ns, d.name), d.annotations), d.terms)
             [] d.kind = "instance" -> ApplyToRecord(m, u, d)
             [] d.kind = "model"    -> Each(LAMBDA k, r : ApplyToRecord(k, u, r),
                                            ApplyAll(m, u, Qualify(u.ns, d.name), d.annotations), d.instances)
             [] OTHER               -> m
  IN CommitPass(Each(step, l, l.units))

----------------------------------------------------------------------------
(* application-root-pass.ts: an application document has exactly one root.      *)

RootApp(target) == target \o <<"@">> \o Entrypoint
Models(g) == {id \in DOMAIN g.nodes : g.nodes[id].metaKind = "model"}

MarkRoot(l, model) ==
  CommitPass([l EXCEPT !.staged =
    PutEdge(PutNode(@, RootApp(model), ApplicationNode(Entrypoint)),
            Edge("annotated", model, NoVia, RootApp(model)))])

ApplicationRoot(l) ==
  LET models  == Models(l.graph)
      marked  == {m \in models : HasNode(l.graph, RootApp(m))}
      package == RootApp(PackageNode)
      attrs   == l.graph.nodes[package].attrs
      named   == {m \in models : m = attrs["root"] \/ LocalId(m) = attrs["root"]}
  IN IF Cardinality(marked) > 1 THEN Fail(l, "ApplicationMultipleRoots", Entrypoint)
     ELSE IF Cardinality(marked) = 1 \/ ~ HasNode(l.graph, package) THEN l
     ELSE IF "root" \in DOMAIN attrs
          THEN IF named = {} THEN Fail(l, "ApplicationRootNotAModel", package) ELSE MarkRoot(l, CHOOSE m \in named : TRUE)
     ELSE IF Cardinality(models) = 1 THEN MarkRoot(l, CHOOSE m \in models : TRUE)
     ELSE Fail(l, "ApplicationRootUndesignated", package)

----------------------------------------------------------------------------
(* A load, pass by pass: Then skips the passes after a commit that throws.      *)

Loaded(fs) ==
  Then(ApplicationRoot, Then(Applications, Then(Instances, Then(Populations, Then(Connectors,
    Then(Entities, Then(Operators, Then(Members, Then(Shells, Resolve(Prepared(fs)))))))))))

VARIABLES files,    \* the files of this load, in order
          loaded    \* whether they have been loaded

loaderVars == <<files, loaded>>

FileLists ==
  UNION {{f \in [1 .. n -> some] : \A i, j \in 1 .. n : i # j => f[i] # f[j]} : n \in 1 .. MaxFiles, some \in Files}

\* What a load makes is a function of its files: the properties are of the step
\* that loads them.
LoaderInit == files \in FileLists /\ loaded = FALSE
LoaderNext == ~ loaded /\ loaded' = TRUE /\ UNCHANGED files

----------------------------------------------------------------------------
(* Properties.                                                                 *)

Clean(l) == l.error = "none" /\ l.diags = {}

\* A load keeps every edge of its graph between two of its nodes, and leaves
\* nothing staged.
WellFormed(l) ==
  /\ l.staged = NoStage \/ l.error # "none"
  /\ \A i \in DOMAIN l.graph.edges :
       {l.graph.edges[i].from, l.graph.edges[i].to} \subseteq DOMAIN l.graph.nodes

LoaderTypeOK == loaded \in BOOLEAN /\ \E some \in Files : Range(files) \subseteq some

\* The ids the resolver takes for defined are the ids the passes mint: a load
\* with nothing to report has a node for every definition it promised, and a
\* node for the type of every record and of every declared member.  (The walk in
\* references.ts and the staging in loader.ts are two separate traversals.)
TransparentIds(d) == IF d.kind = "instance" /\ IsWrapper(d.concept) THEN {d.id} ELSE {}
PromisesKept(l) ==
  Clean(l) =>
    LET g      == l.graph
        hidden == UNION {{Qualify(u.ns, id) : id \in TransparentIds(u.decl)} : u \in Range(l.units)}
    IN /\ DOMAIN l.defined \subseteq DOMAIN g.nodes \cup hidden
       /\ \A id \in DOMAIN g.nodes :
            /\ g.nodes[id].type = NoId \/ HasNode(g, g.nodes[id].type)
            /\ \A i \in DOMAIN g.nodes[id].fields :
                 g.nodes[id].fields[i].type \in DOMAIN g.nodes \cup Builtins

\* Every node a load adds is homed in the first of its files that defines it
\* (the language server tells a file's nodes by this); the exceptions are the
\* host of a member's annotations and the mark the root pass makes.
Unhomed(g, id) == g.nodes[id].metaKind = "member-target" \/ g.nodes[id].type = Entrypoint
Defining(l, id) == {i \in DOMAIN l.units : id \in Definitions(l.units[i].decl, l.units[i].ns)}
NodesAreHomed(l) ==
  l.error = "none" =>
    \A id \in DOMAIN l.graph.nodes \ Reserved :
      \/ Unhomed(l.graph, id)
      \/ /\ id \in DOMAIN l.homes
         /\ Defining(l, id) = {} \/ l.homes[id] = l.units[Min(Defining(l, id))].uri

\* A load is thrown away only when two of its declarations claim one node id,
\* or when an edge names an end that the resolver promised and no pass mints.
Claims(l) ==
  LET ids(u) ==
        IF u.decl.kind \in TypeKinds \cup {"viewpoint"}
        THEN SetToSeq({x \in Definitions(u.decl, u.ns) : u.decl.kind # "taxonomy"})
             \o [i \in DOMAIN u.decl.relationships |-> Qualify(u.ns, u.decl.name) \o <<u.decl.relationships[i].name>>]
             \o (IF u.decl.kind = "taxonomy" THEN <<Qualify(u.ns, u.decl.name)>>
                   \o FlattenSeq([i \in DOMAIN u.decl.terms |-> SetToSeq(TermIds(u.decl.terms[i], Qualify(u.ns, u.decl.name)))])
                 ELSE <<>>)
        ELSE IF u.decl.kind = "connector" THEN <<ConnectorId(u.ns, u.decl.name)>>
        ELSE <<>>
  IN FlattenSeq([i \in DOMAIN l.units |-> ids(l.units[i])])
Clashing(l) == \E i, j \in DOMAIN Claims(l) : i # j /\ Claims(l)[i] = Claims(l)[j]
LooseEnd(l) ==
  \/ \E u \in Range(l.units) : TransparentIds(u.decl) # {}
  \/ \E d \in l.diags : d.code = "TermConceptNotRepresented"
  \/ l.undef # {} /\ \E u \in Range(l.units) : u.decl.kind = "operator" /\ u.decl.relationship # NoVia
ThrowsOnlyOnClash(l) ==
  /\ l.error = "node exists" => Clashing(l)
  /\ l.error \in {"edge source missing", "edge target missing"} => LooseEnd(l)
  /\ l.error \notin {"attribute of no node", "field of no node"}

\* The order of the files is no part of a model: what a load builds of them is
\* the same in any order, as long as it reports nothing.  What the code takes
\* from the first of several blocks is left out: the header of a split model,
\* the attributes of a class completed in several places and the rules of an
\* entity declaration.
OrderedByCode == {"model", "identity", "match", "merge", "policy", "connector"}
Shape(g) ==
  [nodes |-> [id \in DOMAIN g.nodes |->
                IF g.nodes[id].metaKind \in OrderedByCode \/ g.nodes[id].isClass
                THEN [g.nodes[id] EXCEPT !.attrs = <<>>] ELSE g.nodes[id]],
   edges |-> Range(g.edges)]
OrderFree(l, fs) ==
  l.diags = {} =>
    LET other == Loaded(SetToSortSeq(Range(fs), LAMBDA a, b : a.uri < b.uri))
    IN /\ (other.error = "none") = (l.error = "none")
       /\ l.error = "none" => Shape(other.graph) = Shape(l.graph) /\ other.diags = {}

LoadKeepsPromises ==
  LET l == Loaded(files)
  IN WellFormed(l) /\ PromisesKept(l) /\ NodesAreHomed(l) /\ ThrowsOnlyOnClash(l)
LoadOrderFree == OrderFree(Loaded(files), files)
=============================================================================
