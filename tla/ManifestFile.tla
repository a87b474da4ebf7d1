---------------------------- MODULE ManifestFile ----------------------------
(* A manifest (manifest/), from the graph to the disk and back.  What the       *)
(* compiler writes of a graph: the logical manifest and the flattened data      *)
(* graph (emit/manifest.ts), and the portable document (emit/json.ts).  The      *)
(* binary manifest before it is bytes: the provenance reads of the logical       *)
(* manifest (logical.ts), the column schema (schema.ts) and the lowering of      *)
(* names to interned indices, coded references and slices (manifest-writer.ts).  *)
(* The container of header, directories, packed tables and heaps                 *)
(* (binary-codec.ts, bytes.ts, index-widths.ts), the debug view, the reader of   *)
(* both (manifest-reader.ts), the consistency checks (manifest-validator.ts)     *)
(* and the read surface over what was loaded (reflection).  The machine          *)
(* publishes the manifest of a graph, saves it, loads it and saves what it       *)
(* loaded.                                                                      *)
(*                                                                             *)
(* An order lists the nodes as allNodes() does.  The text of an invariant is   *)
(* left out: a concept lists the owners whose invariants it carries.  A name   *)
(* is the sequence of its dotted segments, the empty one stands for none;      *)
(* tables are sequences of rows and row 0 is null.  Tables of imports and      *)
(* cross-manifest references exist and stay empty.  A segment of a name and    *)
(* the text of a value are one byte each, a number's eight bytes among them.   *)
EXTENDS RepositoryGraph

CONSTANTS OwnerInvariants,   \* the concepts and aspects that declare an invariant
          Byte,          \* the byte a segment or a value is encoded as, injective
          NarrowMax,   \* the largest index a two-byte column is chosen for (0xFFFF)
          VarlenSamples,
          Graphs, Orders,      \* what may be published: graphs, and listings of their nodes
          Model, Version       \* the name a manifest is published under

VARIABLES source,   \* the graph published, the order of its nodes, the logical manifest
          writer,   \* the tables and heaps of the writer
          file,     \* what is stored, and in which of the two forms
          reader    \* what was loaded from it
manifestVars == <<source, writer, file, reader>>

(***************************************************************************)
(* What is written of a graph, as tables (emit/, manifest-writer.ts).         *)
(***************************************************************************)

Markers == {"class", "id", "namespace"}
Ordered(order, P(_)) == SelectSeq(order, P)
OfKind(g, order, kind) == Ordered(order, LAMBDA id : MetaKindOf(g, id) = kind)

\* An attribute map without the markers, as a list of name and value.
UserValues(attrs) ==
  LET names == SetToSeq(DOMAIN attrs \ Markers)
  IN [i \in DOMAIN names |-> [name |-> names[i], value |-> attrs[names[i]]]]

AnnotationsOf(g, id) ==
  LET apps == SelectSeq(Related(g, id, "annotated", TRUE),
                        LAMBDA a : HasNode(g, a) /\ g.nodes[a].type # NoId)
  IN [i \in DOMAIN apps |-> [annotation |-> g.nodes[apps[i]].type,
                             args       |-> UserValues(g.nodes[apps[i]].attrs)]]

\* The parent a schema reports: the first declared one, else the virtual root.
ParentOf(g, concept) ==
  LET parents == Related(g, concept, "extends", TRUE)
  IN IF parents # <<>> THEN parents[1]
     ELSE IF RootsAtElement(g, concept) THEN Element ELSE NoId

IntroducedAspects(g, concept, parent) ==
  LET inherited == IF parent = NoId THEN {} ELSE Range(AspectsOf(g, parent))
  IN SelectSeq(AspectsOf(g, concept), LAMBDA a : a \notin inherited)

EmitRelationship(g, concept, r) ==
  LET node == g.nodes[concept \o <<r.name>>]
  IN [name |-> r.name, targets |-> r.targets, card |-> r.card,
      inverse |-> IF "inverse" \in DOMAIN node.attrs THEN node.attrs["inverse"] ELSE NoVia,
      annotations |-> AnnotationsOf(g, concept \o <<r.name>>)]

EmitConcept(g, id) ==
  LET rels == OwnRelationships(g, id)
  IN [id |-> id, extends |-> ParentOf(g, id), fields |-> OwnFields(g, id),
      relationships |-> [i \in DOMAIN rels |-> EmitRelationship(g, id, rels[i])],
      invariants |-> SelectSeq(<<id>> \o IntroducedAspects(g, id, ParentOf(g, id)),
                               LAMBDA owner : owner \in OwnerInvariants),
      annotations |-> AnnotationsOf(g, id)]

FirstOr(s) == IF s = <<>> THEN NoId ELSE s[1]
BroaderOf(g, term) == Related(g, term, "narrower", FALSE)

EmitClass(g, id) ==
  [id |-> id, concept |-> g.nodes[id].type,
   taxonomy |-> FirstOr(Related(g, id, "contains", FALSE)),
   broader  |-> FirstOr(BroaderOf(g, id)),
   narrower |-> Related(g, id, "narrower", TRUE),
   fixed |-> UserValues(g.nodes[id].attrs), annotations |-> AnnotationsOf(g, id)]

EmitTaxonomy(g, id) ==
  [id |-> id, represents |-> Related(g, id, "represents", TRUE),
   roots |-> SelectSeq(Related(g, id, "contains", TRUE), LAMBDA t : BroaderOf(g, t) = <<>>)]

EmitManifest(g, order, model, version) ==
  LET each(ids, Emit(_)) == [i \in DOMAIN ids |-> Emit(ids[i])]
  IN [model |-> model, version |-> version, root |-> Element,
      concepts   |-> each(OfKind(g, order, "concept"), LAMBDA id : EmitConcept(g, id)),
      classes    |-> each(Ordered(order, LAMBDA id : g.nodes[id].isClass), LAMBDA id : EmitClass(g, id)),
      taxonomies |-> each(OfKind(g, order, "taxonomy"), LAMBDA id : EmitTaxonomy(g, id))]

----------------------------------------------------------------------------
(* The data graph: instances with the values of their class filled in.         *)

IsDataNode(node) == node.tier = "instance" /\ node.metaKind # "model" /\ ~ node.isClass

\* The leaf's own value wins; the class fills what the leaf leaves unset.
Flattened(g, leaf) ==
  LET cls    == ClassOf(g, leaf)
      values == g.nodes[leaf].attrs @@ (IF cls # NoId /\ HasNode(g, cls) THEN g.nodes[cls].attrs ELSE <<>>)
  IN [name \in DOMAIN values \ Markers |-> values[name]]

EmitNode(g, id) ==
  [id |-> id, type |-> g.nodes[id].type, class |-> ClassOf(g, id), ns |-> g.nodes[id].ns,
   attrs |-> Flattened(g, id)]

EmitNodes(g, order) ==
  LET ids == Ordered(order, LAMBDA id : IsDataNode(g.nodes[id]))
  IN [i \in DOMAIN ids |-> EmitNode(g, ids[i])]

----------------------------------------------------------------------------
(* The portable document: nodes with all their fields, each followed by its    *)
(* out-edges; only the nodes of a set when the emit is scoped to its own.      *)

OutEdges(g, id) == SelectSeq(g.edges, LAMBDA e : e.from = id)

ToDocument(g, order, own) ==
  LET ids == Ordered(order, LAMBDA id : id \in own)
  IN [nodes |-> [i \in DOMAIN ids |-> [id |-> ids[i], node |-> g.nodes[ids[i]]]],
      edges |-> FlattenSeq([i \in DOMAIN ids |-> OutEdges(g, ids[i])])]

FromDocument(doc) ==
  [nodes |-> FoldLeft(LAMBDA acc, n : (n.id :> n.node) @@ acc, <<>>, doc.nodes), edges |-> doc.edges]

----------------------------------------------------------------------------
(* The logical manifest: where a member and a value come from.                 *)

Ids(s) == [i \in DOMAIN s |-> s[i].id]
Position(s, x) == IF Contains(s, x) THEN CHOOSE i \in DOMAIN s : s[i] = x ELSE 0
ConceptIds(m) == Ids(m.concepts)
ConceptOf(m, id) == m.concepts[Position(ConceptIds(m), id)]
ClassNamed(m, id) == m.classes[Position(Ids(m.classes), id)]
ExtendsOf(m, id) == IF Contains(ConceptIds(m), id) THEN ConceptOf(m, id).extends ELSE NoId

RECURSIVE Chain(_, _, _)
Chain(m, id, visited) ==
  LET parent == ExtendsOf(m, id)
  IN IF parent = NoId \/ parent \in visited THEN <<>>
     ELSE <<parent>> \o Chain(m, parent, visited \cup {parent})
AncestorsViaExtends(m, type) == Chain(m, type, {type})

\* The nearest concept of the chain that declares a member of that name.
OriginOf(m, type, Members(_), name) ==
  LET declares(id) == Contains(ConceptIds(m), id) /\ HasMember(Members(ConceptOf(m, id)), name)
  IN FirstOr(SelectSeq(<<type>> \o AncestorsViaExtends(m, type), declares))
TypeOriginOf(m, type, field) == OriginOf(m, type, LAMBDA c : c.fields, field)
RelationshipOriginOf(m, type, rel) == OriginOf(m, type, LAMBDA c : c.relationships, rel)

Self == <<"self">>
ValueOriginOf(m, node, field) ==
  IF node.class # NoId /\ Contains(Ids(m.classes), node.class)
     /\ \E v \in Range(ClassNamed(m, node.class).fixed) :
          v.name = field /\ field \in DOMAIN node.attrs /\ v.value = node.attrs[field]
  THEN node.class ELSE Self

----------------------------------------------------------------------------
(* The tables and their columns, in binary column order.                       *)

C(name, kind) == [name |-> name, kind |-> kind, table |-> "none"]
R(name, table) == [name |-> name, kind |-> "Row", table |-> table]

TableOrder == <<"TypeInfo", "Field", "Rel", "Target", "Class", "Fixed", "Taxonomy",
                "Imports", "TypeRef", "Annotation", "AnnotationArg">>

Columns ==
  [TypeInfo   |-> <<C("name", "Str"), C("ns", "Str"), C("kind", "U8"), C("extends", "Coded"),
                    R("fieldStart", "Field"), C("fieldCount", "U16"), R("relStart", "Rel"), C("relCount", "U16"),
                    R("annotStart", "Annotation"), C("annotCount", "U16")>>,
   Field      |-> <<C("name", "Str"), C("type", "Coded"), C("card", "U8")>>,
   Rel        |-> <<C("name", "Str"), R("targetStart", "Target"), C("targetCount", "U16"), C("card", "U8"),
                    C("inverse", "Str"), R("annotStart", "Annotation"), C("annotCount", "U16")>>,
   Target     |-> <<C("type", "Coded")>>,
   Class      |-> <<C("name", "Str"), C("type", "Coded"), R("taxonomy", "Taxonomy"), R("broader", "Class"),
                    R("fixedStart", "Fixed"), C("fixedCount", "U16"),
                    R("annotStart", "Annotation"), C("annotCount", "U16")>>,
   Fixed      |-> <<R("field", "Field"), C("value", "Const")>>,
   Taxonomy   |-> <<C("name", "Str"), R("representsStart", "Target"), C("representsCount", "U16")>>,
   Imports    |-> <<C("model", "Str"), C("version", "Str")>>,
   TypeRef    |-> <<R("import", "Imports"), C("name", "Str")>>,
   Annotation |-> <<C("annotation", "Coded"), R("argStart", "AnnotationArg"), C("argCount", "U16")>>,
   AnnotationArg |-> <<C("name", "Str"), C("value", "Const")>>]

MetaKinds == [concept |-> 0, primitive |-> 1, annotation |-> 4]
Cards == [one |-> 0, optional |-> 1, many |-> 2, oneOrMore |-> 3]

\* A coded reference: twice the row, plus one when it names another manifest.
EncodeRef(toTypeRef, row) == IF row = 0 THEN 0 ELSE row * 2 + (IF toTypeRef THEN 1 ELSE 0)
DecodeRef(coded) == [toTypeRef |-> coded # 0 /\ coded % 2 = 1, row |-> coded \div 2]

----------------------------------------------------------------------------
(* The lowering.  Member rows are contiguous: the rows of the groups, in       *)
(* order, and each owner holds the slice of its group.                         *)

NameOf(s) == IF s = NoVia THEN <<>> ELSE <<s>>
SplitQualified(id) ==
  IF Len(id) <= 1 THEN [name |-> id, ns |-> <<>>] ELSE [name |-> <<Last(id)>>, ns |-> Front(id)]

RowsBefore(groups, i) == FoldLeft(LAMBDA n, g : n + Len(g), 0, SubSeq(groups, 1, i - 1))
StartOf(groups, i) == IF groups[i] = <<>> THEN 0 ELSE 1 + RowsBefore(groups, i)

Of(s, Get(_)) == [i \in DOMAIN s |-> Get(s[i])]
AllOf(s, Get(_)) == FlattenSeq(Of(s, Get))

FieldGroups(m)  == Of(m.concepts, LAMBDA c : c.fields)
RelGroups(m)    == Of(m.concepts, LAMBDA c : c.relationships)
AllRels(m)      == FlattenSeq(RelGroups(m))
TargetGroups(m) == Of(AllRels(m), LAMBDA r : r.targets) \o Of(m.taxonomies, LAMBDA t : t.represents)
FixedGroups(m)  == Of(m.classes, LAMBDA c : c.fixed)
\* A concept's relationships pack their annotations before the concept does.
OwnersOf(c) == Append(Of(c.relationships, LAMBDA r : r.annotations), c.annotations)
AnnotGroups(m)  == AllOf(m.concepts, OwnersOf) \o Of(m.classes, LAMBDA c : c.annotations)
ArgGroups(m)    == Of(FlattenSeq(AnnotGroups(m)), LAMBDA a : a.args)

\* The type ids a coded column refers to, and the annotation types applied.
Referenced(m) ==
  AllOf(m.concepts, LAMBDA c : (IF c.extends = NoId THEN <<>> ELSE <<c.extends>>)
                               \o Of(c.fields, LAMBDA f : f.type)
                               \o AllOf(c.relationships, LAMBDA r : r.targets))
  \o Of(m.classes, LAMBDA c : c.concept) \o AllOf(m.taxonomies, LAMBDA t : t.represents)
Applied(m) ==
  LET types(as) == Of(as, LAMBDA a : a.annotation)
  IN AllOf(m.concepts, LAMBDA c : types(c.annotations) \o AllOf(c.relationships, LAMBDA r : types(r.annotations)))
     \o AllOf(m.classes, LAMBDA c : types(c.annotations))
Undeclared(m, ids) == Distinct(SelectSeq(ids, LAMBDA id : ~ Contains(ConceptIds(m), id)))
PrimitiveIds(m)  == Undeclared(m, Referenced(m))
AnnotationIds(m) == Undeclared(m, Applied(m))

\* Rows are numbered ahead of being written, so that references may point forward.
TypeNumbering(m) ==
  ConceptIds(m) \o PrimitiveIds(m) \o SelectSeq(AnnotationIds(m), LAMBDA a : ~ Contains(PrimitiveIds(m), a))

Interned(seen) == <<<<>>>> \o SelectSeq(Distinct(seen), LAMBDA s : s # <<>>)
ArgNames(as) == AllOf(as, LAMBDA a : Of(a.args, LAMBDA v : NameOf(v.name)))
ArgValues(as) == AllOf(as, LAMBDA a : Of(a.args, LAMBDA v : v.value))
IdNames(id) == <<SplitQualified(id).name, SplitQualified(id).ns>>
Strings(m) ==
  Interned(AllOf(m.concepts, LAMBDA c : Of(c.fields, LAMBDA f : NameOf(f.name))
                   \o AllOf(c.relationships, LAMBDA r : Append(Append(ArgNames(r.annotations), NameOf(r.name)), NameOf(r.inverse)))
                   \o ArgNames(c.annotations) \o IdNames(c.id))
           \o AllOf(PrimitiveIds(m) \o AnnotationIds(m), IdNames)
           \o Ids(m.taxonomies) \o AllOf(m.classes, LAMBDA c : Append(ArgNames(c.annotations), c.id)))
Consts(m) ==
  Interned(AllOf(m.concepts, LAMBDA c : AllOf(c.relationships, LAMBDA r : ArgValues(r.annotations)) \o ArgValues(c.annotations))
           \o AllOf(m.classes, LAMBDA c : Of(c.fixed, LAMBDA v : v.value) \o ArgValues(c.annotations)))
\* An index counts from the null entry at 0.
IndexIn(heap, x) == Position(heap, x) - 1

\* What the passes share: the numbering, the heaps and the groups of rows.
Plan(m) ==
  [m |-> m, types |-> TypeNumbering(m), strings |-> Strings(m), consts |-> Consts(m),
   rels |-> AllRels(m), fieldGroups |-> FieldGroups(m), relGroups |-> RelGroups(m), targetGroups |-> TargetGroups(m),
   fixedGroups |-> FixedGroups(m), annotGroups |-> AnnotGroups(m), argGroups |-> ArgGroups(m)]
Coded(p, id) == EncodeRef(FALSE, Position(p.types, id))

AnnotOwnersBefore(p, i) == FoldLeft(LAMBDA n, c : n + Len(c.relationships) + 1, 0, SubSeq(p.m.concepts, 1, i - 1))

TypeRow(p, id, kind) ==
  [name |-> IndexIn(p.strings, SplitQualified(id).name), ns |-> IndexIn(p.strings, SplitQualified(id).ns),
   kind |-> MetaKinds[kind], extends |-> 0, fieldStart |-> 0, fieldCount |-> 0, relStart |-> 0, relCount |-> 0,
   annotStart |-> 0, annotCount |-> 0]
ConceptRow(p, i) ==
  LET c == p.m.concepts[i]
      own == AnnotOwnersBefore(p, i) + Len(c.relationships) + 1
  IN [TypeRow(p, c.id, "concept") EXCEPT
        !.extends = IF c.extends = NoId THEN 0 ELSE Coded(p, c.extends),
        !.fieldStart = StartOf(p.fieldGroups, i), !.fieldCount = Len(c.fields),
        !.relStart = StartOf(p.relGroups, i), !.relCount = Len(c.relationships),
        !.annotStart = StartOf(p.annotGroups, own), !.annotCount = Len(c.annotations)]
RelRow(p, k) ==
  LET r == p.rels[k]
      owner == CHOOSE i \in DOMAIN p.m.concepts :
                 k \in RowsBefore(p.relGroups, i) + 1 .. RowsBefore(p.relGroups, i) + Len(p.m.concepts[i].relationships)
      group == AnnotOwnersBefore(p, owner) + (k - RowsBefore(p.relGroups, owner))
  IN [name |-> IndexIn(p.strings, NameOf(r.name)), targetStart |-> StartOf(p.targetGroups, k),
      targetCount |-> Len(r.targets), card |-> Cards[r.card], inverse |-> IndexIn(p.strings, NameOf(r.inverse)),
      annotStart |-> StartOf(p.annotGroups, group), annotCount |-> Len(r.annotations)]

\* Mutant: a pinned value points at the field its own concept declares.
FixedRowOwn(p, concept, v) ==
  LET declarer == Position(ConceptIds(p.m), concept)
      at       == IF declarer = 0 THEN 0 ELSE Position(Of(p.m.concepts[declarer].fields, LAMBDA f : f.name), v.name)
  IN [field |-> IF at = 0 THEN 0 ELSE RowsBefore(p.fieldGroups, declarer) + at, value |-> IndexIn(p.consts, v.value)]

\* A pinned value points at the field row of the nearest declarer, 0 if none.
FixedRow(p, concept, v) ==
  LET declarer == Position(ConceptIds(p.m), TypeOriginOf(p.m, concept, v.name))
  IN [field |-> IF declarer = 0 THEN 0
                ELSE RowsBefore(p.fieldGroups, declarer)
                     + Position(Of(p.m.concepts[declarer].fields, LAMBDA f : f.name), v.name),
      value |-> IndexIn(p.consts, v.value)]
ClassRow(p, i) ==
  LET c == p.m.classes[i]
      own == AnnotOwnersBefore(p, Len(p.m.concepts) + 1) + i
  IN [name |-> IndexIn(p.strings, c.id), type |-> Coded(p, c.concept),
      taxonomy |-> Position(Ids(p.m.taxonomies), c.taxonomy), broader |-> Position(Ids(p.m.classes), c.broader),
      fixedStart |-> StartOf(p.fixedGroups, i), fixedCount |-> Len(c.fixed),
      annotStart |-> StartOf(p.annotGroups, own), annotCount |-> Len(c.annotations)]
TaxonomyRow(p, i) ==
  [name |-> IndexIn(p.strings, p.m.taxonomies[i].id),
   representsStart |-> StartOf(p.targetGroups, Len(p.rels) + i), representsCount |-> Len(p.m.taxonomies[i].represents)]

Tables(p) ==
  [TypeInfo   |-> [i \in DOMAIN p.m.concepts |-> ConceptRow(p, i)]
                  \o Of(PrimitiveIds(p.m), LAMBDA id : TypeRow(p, id, "primitive"))
                  \o Of(AnnotationIds(p.m), LAMBDA id : TypeRow(p, id, "annotation")),
   Field      |-> Of(FlattenSeq(p.fieldGroups), LAMBDA f : [name |-> IndexIn(p.strings, NameOf(f.name)),
                                                             type |-> Coded(p, f.type), card |-> Cards[f.card]]),
   Rel        |-> [k \in DOMAIN p.rels |-> RelRow(p, k)],
   Target     |-> Of(FlattenSeq(p.targetGroups), LAMBDA t : [type |-> Coded(p, t)]),
   Class      |-> [i \in DOMAIN p.m.classes |-> ClassRow(p, i)],
   Fixed      |-> AllOf(p.m.classes, LAMBDA c : Of(c.fixed, LAMBDA v : FixedRow(p, c.concept, v))),
   Taxonomy   |-> [i \in DOMAIN p.m.taxonomies |-> TaxonomyRow(p, i)],
   Imports    |-> <<>>,
   TypeRef    |-> <<>>,
   Annotation |-> LET apps == FlattenSeq(p.annotGroups)
                  IN [i \in DOMAIN apps |-> [annotation |-> Coded(p, apps[i].annotation),
                                             argStart |-> StartOf(p.argGroups, i), argCount |-> Len(apps[i].args)]],
   AnnotationArg |-> Of(FlattenSeq(p.argGroups), LAMBDA v : [name  |-> IndexIn(p.strings, NameOf(v.name)),
                                                              value |-> IndexIn(p.consts, v.value)])]

FromLogical(m) ==
  LET p == Plan(m)
  IN [model |-> m.model, version |-> m.version, root |-> Position(p.types, m.root),
      strings |-> p.strings, consts |-> p.consts, tables |-> Tables(p)]

Nothing == <<>>

(***************************************************************************)
(* The read surface over one loaded manifest (manifest/reflection).  A handle *)
(* is a row of a table; r is the reader, whose tables hold rows of numbers.   *)
(* A reference into another manifest resolves to nothing: no host is set.     *)
(***************************************************************************)

Text(r, index) == r.strings[index + 1]
Const(r, index) == r.consts[index + 1]
Rows(r, table) == DOMAIN r.tables[table]
At(r, table, row) == r.tables[table][row]
\* The rows start, start + 1, ... of a slice.
Slice(start, count) == [i \in 1 .. count |-> start + i - 1]
First(r, table, Is(_)) ==
  IF \E row \in Rows(r, table) : Is(row)
  THEN CHOOSE row \in Rows(r, table) : Is(row) /\ \A k \in Rows(r, table) : Is(k) => row <= k
  ELSE 0

----------------------------------------------------------------------------
(* Types.                                                                      *)

FullName(r, t) == Text(r, At(r, "TypeInfo", t).ns) \o Text(r, At(r, "TypeInfo", t).name)
SimpleName(r, t) == Text(r, At(r, "TypeInfo", t).name)

ResolveTypeRef(r, coded) == IF DecodeRef(coded).toTypeRef THEN 0 ELSE DecodeRef(coded).row

\* By full name, else by a simple name no other type has.
GetType(r, name) ==
  LET simple == {t \in Rows(r, "TypeInfo") : SimpleName(r, t) = name}
  IN IF \E t \in Rows(r, "TypeInfo") : FullName(r, t) = name
     THEN First(r, "TypeInfo", LAMBDA t : FullName(r, t) = name)
     ELSE IF Cardinality(simple) = 1 THEN CHOOSE t \in simple : TRUE ELSE 0

BaseType(r, t) == ResolveTypeRef(r, At(r, "TypeInfo", t).extends)
SameTypeAs(r, t, other) == FullName(r, t) = FullName(r, other)

RECURSIVE SupertypesFrom(_, _, _)
SupertypesFrom(r, t, visited) ==
  LET base == BaseType(r, t)
  IN IF base = 0 \/ \E v \in visited : SameTypeAs(r, v, base) THEN <<>>
     ELSE <<base>> \o SupertypesFrom(r, base, visited \cup {base})
Supertypes(r, t) == SupertypesFrom(r, t, {t})
IsSubtypeOf(r, t, other) == \E s \in Range(Supertypes(r, t)) : SameTypeAs(r, s, other)
IsAssignableFrom(r, t, other) == SameTypeAs(r, other, t) \/ IsSubtypeOf(r, other, t)

DeclaredFields(r, t) == Slice(At(r, "TypeInfo", t).fieldStart, At(r, "TypeInfo", t).fieldCount)
DeclaredRels(r, t)   == Slice(At(r, "TypeInfo", t).relStart, At(r, "TypeInfo", t).relCount)

\* Own members and then those of the supertypes; the nearest of a name wins.
Effective(r, t, table, Declared(_)) ==
  LET owners == <<t>> \o Supertypes(r, t)
  IN FirstByName(AllOf(owners, LAMBDA o : Of(Declared(o), LAMBDA row :
       [name |-> Text(r, At(r, table, row).name)[1], row |-> row, declaringType |-> o])))
Fields(r, t)        == Effective(r, t, "Field", LAMBDA o : DeclaredFields(r, o))
Relationships(r, t) == Effective(r, t, "Rel", LAMBDA o : DeclaredRels(r, o))

FieldDeclarer(r, field) == First(r, "TypeInfo", LAMBDA t : Contains(DeclaredFields(r, t), field))
RelDeclarer(r, rel)     == First(r, "TypeInfo", LAMBDA t : Contains(DeclaredRels(r, t), rel))

TargetsOf(r, rel) ==
  LET rec   == At(r, "Rel", rel)
      types == Of(Slice(rec.targetStart, rec.targetCount),
                  LAMBDA row : ResolveTypeRef(r, At(r, "Target", row).type))
  IN SelectSeq(types, LAMBDA t : t # 0)

AnnotationsFor(r, start, count) ==
  LET args(a) == {<<Text(r, At(r, "AnnotationArg", k).name)[1], Const(r, At(r, "AnnotationArg", k).value)>> :
                    k \in Range(Slice(At(r, "Annotation", a).argStart, At(r, "Annotation", a).argCount))}
      types(a) == ResolveTypeRef(r, At(r, "Annotation", a).annotation)
  IN Of(SelectSeq(Slice(start, count), LAMBDA a : types(a) # 0),
        LAMBDA a : [type |-> types(a), args |-> args(a)])
Annotations(r, table, row) == AnnotationsFor(r, At(r, table, row).annotStart, At(r, table, row).annotCount)

----------------------------------------------------------------------------
(* Terms and taxonomies.                                                       *)

TermId(r, row) == Text(r, At(r, "Class", row).name)
GetTerm(r, id) == First(r, "Class", LAMBDA row : TermId(r, row) = id)
Narrower(r, term) == {row \in Rows(r, "Class") : At(r, "Class", row).broader = term}

FixedOf(r, term) == Of(Slice(At(r, "Class", term).fixedStart, At(r, "Class", term).fixedCount),
                       LAMBDA row : At(r, "Fixed", row))
Fixes(r, term, field) == \E f \in Range(FixedOf(r, term)) : f.field = field
GetFixedValue(r, term, field) ==
  Const(r, SelectSeq(FixedOf(r, term), LAMBDA f : f.field = field)[1].value)

\* The nearest term up the broader chain that pins the field; 0 when none does.
RECURSIVE FindFixing(_, _, _)
FindFixing(r, term, field) ==
  IF term = 0 \/ Fixes(r, term, field) THEN term
  ELSE FindFixing(r, At(r, "Class", term).broader, field)

GetTaxonomy(r, id) == First(r, "Taxonomy", LAMBDA row : Text(r, At(r, "Taxonomy", row).name) = id)
Represents(r, tax) ==
  LET rec == At(r, "Taxonomy", tax)
  IN Of(Slice(rec.representsStart, rec.representsCount), LAMBDA row : ResolveTypeRef(r, At(r, "Target", row).type))
TermsOf(r, tax) == {row \in Rows(r, "Class") : At(r, "Class", row).taxonomy = tax}
TaxonomyRoots(r, tax) == {row \in TermsOf(r, tax) : At(r, "Class", row).broader = 0}

----------------------------------------------------------------------------
(* One instance: the value of a field, and where it comes from.                *)

NoValue == <<>>
MirrorFields(r, node) == IF GetType(r, node.type) = 0 THEN <<>> ELSE Fields(r, GetType(r, node.type))
FixerFor(r, node, field) ==
  IF node.class = NoId \/ GetTerm(r, node.class) = 0 THEN 0 ELSE FindFixing(r, GetTerm(r, node.class), field.row)
ValueOf(r, node, field) ==
  IF field.name \in DOMAIN node.attrs THEN node.attrs[field.name]
  ELSE IF FixerFor(r, node, field) = 0 THEN NoValue
  ELSE GetFixedValue(r, FixerFor(r, node, field), field.row)
ValueOrigin(r, node, field) ==
  LET fixer == FixerFor(r, node, field)
  IN IF fixer # 0 /\ GetFixedValue(r, fixer, field.row) = ValueOf(r, node, field) THEN TermId(r, fixer) ELSE Self

----------------------------------------------------------------------------
(* Bytes.                                                                      *)

Zeros(n) == [i \in 1 .. n |-> 0]
LittleEndian(value, width) == [i \in 1 .. width |-> (value \div (256 ^ (i - 1))) % 256]
\* The unsigned integer of a width at an offset, which counts from 0.
UintAt(b, offset, width) ==
  FoldLeft(LAMBDA n, i : n + b[offset + i] * (256 ^ (i - 1)), 0, [i \in 1 .. width |-> i])
Pad4(b) == b \o Zeros((4 - (Len(b) % 4)) % 4)
Align4(n) == n + ((4 - (n % 4)) % 4)

\* The compressed length: one, two or four bytes, told apart by the first.
Varlen(n) ==
  IF n <= 127 THEN <<n>>
  ELSE IF n <= 16383 THEN <<128 + (n \div 256), n % 256>>
  ELSE <<192 + (n \div (256 ^ 3)), (n \div (256 ^ 2)) % 256, (n \div 256) % 256, n % 256>>
VarlenAt(b, offset) ==
  LET first == b[offset + 1]
  IN IF first < 128 THEN [value |-> first, size |-> 1]
     ELSE IF first < 192 THEN [value |-> (first % 64) * 256 + b[offset + 2], size |-> 2]
     ELSE [value |-> (first % 32) * (256 ^ 3) + b[offset + 2] * (256 ^ 2) + b[offset + 3] * 256 + b[offset + 4],
           size |-> 4]

----------------------------------------------------------------------------
(* Heaps.                                                                      *)

Tags == [bool |-> 1, number |-> 3, string |-> 4]
Utf8(name) == Of(name, LAMBDA segment : Byte[segment])
Decoded(b) == CHOOSE a \in DOMAIN Byte : Byte[a] = b
Blob(v) == IF v = <<>> THEN <<>> ELSE <<Tags[v[1]], Byte[v[2]]>>
Value(blob) ==
  IF blob = <<>> THEN <<>> ELSE <<CHOOSE t \in DOMAIN Tags : Tags[t] = blob[1], Decoded(blob[2])>>

PackHeap(entries) == AllOf(entries, LAMBDA e : Varlen(Len(e)) \o e)
RECURSIVE HeapFrom(_, _)
HeapFrom(b, offset) ==
  IF offset >= Len(b) THEN <<>>
  ELSE LET len  == VarlenAt(b, offset)
           from == offset + len.size
       IN <<SubSeq(b, from + 1, from + len.value)>> \o HeapFrom(b, from + len.value)

Intern(heap, s) == IF Contains(heap, s) THEN heap ELSE Append(heap, s)
\* The header names the model and the version by their index.
WithHeader(w) == [w EXCEPT !.strings = Intern(Intern(@, w.model), w.version)]

----------------------------------------------------------------------------
(* Widths: a family of indices takes four bytes when its largest may not fit.  *)

Families == <<"strings", "consts">> \o TableOrder \o <<"coded">>
Largest(w, family) ==
  CASE family = "strings" -> Len(w.strings)
    [] family = "consts"  -> Len(w.consts)
    [] family = "coded"   -> 2 * FoldLeft(LAMBDA n, t : IF Len(w.tables[t]) > n THEN Len(w.tables[t]) ELSE n,
                                          0, <<"TypeInfo", "TypeRef">>) + 1
    [] OTHER -> Len(w.tables[family])
WideFamilies(w) == {f \in Range(Families) : Largest(w, f) > NarrowMax}
ToFlags(wide) == FoldLeft(LAMBDA n, i : n + (IF Families[i] \in wide THEN 2 ^ (i - 1) ELSE 0),
                          0, [i \in DOMAIN Families |-> i])
FromFlags(flags) == {Families[i] : i \in {k \in DOMAIN Families : (flags \div (2 ^ (k - 1))) % 2 = 1}}
IndexWidth(wide, family) == IF family \in wide THEN 4 ELSE 2

ColumnWidth(wide, col) ==
  CASE col.kind = "U8"    -> 1
    [] col.kind = "U16"   -> 2
    [] col.kind = "Str"   -> IndexWidth(wide, "strings")
    [] col.kind = "Const" -> IndexWidth(wide, "consts")
    [] col.kind = "Coded" -> IndexWidth(wide, "coded")
    [] col.kind = "Row"   -> IndexWidth(wide, col.table)
Sum(s) == FoldLeft(LAMBDA n, x : n + x, 0, s)

RecordSize(wide, table) == Sum(Of(Columns[table], LAMBDA col : ColumnWidth(wide, col)))

----------------------------------------------------------------------------
(* The container.                                                              *)

Magic == <<84, 79, 68, 77>>
FormatVersion == 1
Heaps == <<"strings", "consts">>

PackRow(wide, table, row) ==
  AllOf(Columns[table], LAMBDA col : LittleEndian(row[col.name], ColumnWidth(wide, col)))

HeaderSize(wide) ==
  Len(Magic) + 2 + 2 + 2 * IndexWidth(wide, "strings") + IndexWidth(wide, "TypeInfo") + 1 + 1
  + Len(TableOrder) * 11 + Len(Heaps) * 9

Serialize(unnamed) ==
  LET w       == WithHeader(unnamed)
      wide    == WideFamilies(w)
      streams == Of(TableOrder, LAMBDA t : AllOf(w.tables[t], LAMBDA row : PackRow(wide, t, row)))
                 \o <<PackHeap(Of(w.strings, Utf8)), PackHeap(Of(w.consts, Blob))>>
      offset[i \in DOMAIN streams] ==
        IF i = 1 THEN Align4(HeaderSize(wide)) ELSE Align4(offset[i - 1] + Len(streams[i - 1]))
      tableEntry(i) == <<i - 1>> \o LittleEndian(RecordSize(wide, TableOrder[i]), 2)
                       \o LittleEndian(Len(w.tables[TableOrder[i]]), 4) \o LittleEndian(offset[i], 4)
      heapEntry(i)  == LET k == Len(TableOrder) + i
                       IN <<i - 1>> \o LittleEndian(offset[k], 4) \o LittleEndian(Len(streams[k]), 4)
      header  == Magic \o LittleEndian(FormatVersion, 2) \o LittleEndian(ToFlags(wide), 2)
                 \o LittleEndian(IndexIn(w.strings, w.model), IndexWidth(wide, "strings"))
                 \o LittleEndian(IndexIn(w.strings, w.version), IndexWidth(wide, "strings"))
                 \o LittleEndian(w.root, IndexWidth(wide, "TypeInfo")) \o <<Len(TableOrder), Len(Heaps)>>
                 \o FlattenSeq([i \in DOMAIN TableOrder |-> tableEntry(i)])
                 \o FlattenSeq([i \in DOMAIN Heaps |-> heapEntry(i)])
  IN Pad4(header) \o AllOf(Front(streams), Pad4) \o Last(streams)

RowAt(b, wide, table, at) ==
  LET cols  == Columns[table]
      place == [i \in DOMAIN cols |-> at + Sum(Of(SubSeq(cols, 1, i - 1), LAMBDA col : ColumnWidth(wide, col)))]
  IN [name \in {cols[i].name : i \in DOMAIN cols} |->
        LET i == CHOOSE k \in DOMAIN cols : cols[k].name = name
        IN UintAt(b, place[i], ColumnWidth(wide, cols[i]))]

FromBinary(b) ==
  LET wide      == FromFlags(UintAt(b, 6, 2))
      strWidth  == IndexWidth(wide, "strings")
      rootAt    == 8 + 2 * strWidth
      tablesAt  == rootAt + IndexWidth(wide, "TypeInfo") + 2
      heapsAt   == tablesAt + 11 * b[tablesAt - 1]
      entry(i)  == tablesAt + 11 * (i - 1)
      heap(i)   == LET at == heapsAt + 9 * (i - 1)
                   IN HeapFrom(SubSeq(b, UintAt(b, at + 1, 4) + 1, UintAt(b, at + 1, 4) + UintAt(b, at + 5, 4)), 0)
      strings   == Of(heap(1), LAMBDA e : Of(e, Decoded))
      rows(i)   == [k \in 1 .. UintAt(b, entry(i) + 3, 4) |->
                      RowAt(b, wide, TableOrder[i], UintAt(b, entry(i) + 7, 4) + (k - 1) * UintAt(b, entry(i) + 1, 2))]
  IN [model   |-> strings[UintAt(b, 8, strWidth) + 1], version |-> strings[UintAt(b, 8 + strWidth, strWidth) + 1],
      root    |-> UintAt(b, rootAt, IndexWidth(wide, "TypeInfo")),
      strings |-> strings, consts |-> Of(heap(2), Value),
      tables  |-> [t \in Range(TableOrder) |-> rows(Position(TableOrder, t))]]

----------------------------------------------------------------------------
(* Consistency of a loaded manifest.                                           *)

InRange(r, col, value) ==
  CASE col.kind = "Str"   -> value < Len(r.strings)
    [] col.kind = "Const" -> value < Len(r.consts)
    [] col.kind = "Row"   -> value <= Len(r.tables[col.table])
    [] col.kind = "Coded" -> DecodeRef(value).row
                               <= Len(r.tables[IF DecodeRef(value).toTypeRef THEN "TypeRef" ELSE "TypeInfo"])
    [] col.name = "kind"  -> value <= 9
    [] col.name = "card"  -> value <= 3
    [] OTHER -> TRUE

Slices == {<<"TypeInfo", "fieldStart", "fieldCount", "Field">>, <<"TypeInfo", "relStart", "relCount", "Rel">>,
           <<"Rel", "targetStart", "targetCount", "Target">>, <<"Class", "fixedStart", "fixedCount", "Fixed">>,
           <<"Taxonomy", "representsStart", "representsCount", "Target">>}
SliceInRange(r, s) ==
  \A row \in Range(r.tables[s[1]]) :
    row[s[3]] = 0 \/ (row[s[2]] >= 1 /\ row[s[2]] + row[s[3]] - 1 <= Len(r.tables[s[4]]))

IsValid(r) ==
  /\ r.root <= Len(r.tables["TypeInfo"])
  /\ \A t \in Range(TableOrder) : \A row \in Range(r.tables[t]) :
       \A i \in DOMAIN Columns[t] : InRange(r, Columns[t][i], row[Columns[t][i].name])
  /\ \A s \in Slices : SliceInRange(r, s)
  /\ \A i \in Range(r.tables["Imports"]) : i.model # 0 /\ i.version # 0
  /\ \A i \in Range(r.tables["TypeRef"]) : i.import \in 1 .. Len(r.tables["Imports"])

----------------------------------------------------------------------------
(* The machine.                                                                *)

ManifestInit == source = Nothing /\ writer = Nothing /\ file = Nothing /\ reader = Nothing

Logical == source.logical

Publish ==
  \E shape \in DOMAIN Graphs, o \in DOMAIN Orders :
    /\ source = Nothing
    /\ source' = LET g == Graphs[shape]
                     order == SelectSeq(Orders[o], LAMBDA id : HasNode(g, id))
                 IN [graph |-> g, order |-> order, logical |-> EmitManifest(g, order, Model, Version)]
    /\ writer' = FromLogical(source'.logical)
    /\ UNCHANGED <<file, reader>>

\* Serialising interns the names of the header into the heap it serialises.
SaveBinary ==
  /\ writer # Nothing /\ file = Nothing
  /\ writer' = WithHeader(writer)
  /\ file' = [form |-> "binary", content |-> Serialize(writer)]
  /\ UNCHANGED <<source, reader>>

\* The debug view: the same rows and heaps, as a document.
SaveJson ==
  /\ writer # Nothing
  /\ file # Nothing => file.form = "binary"
  /\ file' = [form |-> "json", content |-> writer]
  /\ UNCHANGED <<source, writer, reader>>

Load ==
  /\ file # Nothing
  /\ reader' = IF file.form = "binary" THEN FromBinary(file.content) ELSE file.content
  /\ UNCHANGED <<source, writer, file>>

ResaveBinary ==
  /\ reader # Nothing
  /\ reader' = WithHeader(reader)
  /\ file' = [form |-> "binary", content |-> Serialize(reader)]
  /\ UNCHANGED <<source, writer>>

ResaveJson ==
  /\ reader # Nothing
  /\ file' = [form |-> "json", content |-> reader]
  /\ UNCHANGED <<source, writer, reader>>

ManifestNext == Publish \/ SaveBinary \/ SaveJson \/ Load \/ ResaveBinary \/ ResaveJson

----------------------------------------------------------------------------
(* Properties.                                                                 *)

Published == source # Nothing
Loaded == reader # Nothing

\* Whatever form a manifest was stored in, and however often it was loaded and
\* saved again, its rows, heaps, root and names are those the writer made, and
\* every binary file of it holds the same bytes.
FileIsTheManifest ==
  /\ Loaded => WithHeader(reader) = WithHeader(FromLogical(Logical)) /\ IsValid(reader)
  /\ file # Nothing /\ file.form = "binary" => file.content = Serialize(FromLogical(Logical))
  /\ \A n \in VarlenSamples : VarlenAt(Varlen(n), 0) = [value |-> n, size |-> Len(Varlen(n))]

TypeNames(ts) == Of(ts, LAMBDA t : FullName(reader, t))
SameAnnotations(applied, table, row) ==
  LET read == Annotations(reader, table, row)
  IN /\ Of(read, LAMBDA a : FullName(reader, a.type)) = Of(applied, LAMBDA a : a.annotation)
     /\ \A i \in DOMAIN applied : read[i].args = {<<v.name, v.value>> : v \in Range(applied[i].args)}

\* An annotation type is not also the type of a field, a target or a class.
AnnotationsApart(m) == Range(AnnotationIds(m)) \cap Range(PrimitiveIds(m)) = {}

\* A concept found by its full name has the chain, the effective members with
\* their types, targets and declarers, and the annotations of the logical
\* manifest; its members are those the repository computes, aspects' apart.
ConceptReflected(m, c) ==
  LET t    == GetType(reader, c.id)
      repo == {f.name : f \in Range(FirstByName(AllOf(<<c.id>> \o SupertypesOf(source.graph, c.id),
                                                      LAMBDA o : OwnFields(source.graph, o))))}
  IN /\ t # 0 /\ At(reader, "TypeInfo", t).kind = MetaKinds["concept"]
     /\ TypeNames(Supertypes(reader, t)) = AncestorsViaExtends(m, c.id)
     /\ \A d \in Range(m.concepts) :
          IsAssignableFrom(reader, GetType(reader, d.id), t) <=> d.id \in {c.id} \cup Range(AncestorsViaExtends(m, c.id))
     /\ {f.name : f \in Range(Fields(reader, t))} = repo
     /\ \A f \in Range(Fields(reader, t)) :
          LET decl == Named(ConceptOf(m, TypeOriginOf(m, c.id, f.name)).fields, f.name)[1]
              row  == At(reader, "Field", f.row)
          IN /\ FullName(reader, f.declaringType) = TypeOriginOf(m, c.id, f.name)
             /\ FieldDeclarer(reader, f.row) = f.declaringType
             /\ FullName(reader, ResolveTypeRef(reader, row.type)) = decl.type /\ row.card = Cards[decl.card]
     /\ \A r \in Range(Relationships(reader, t)) :
          LET decl == Named(ConceptOf(m, RelationshipOriginOf(m, c.id, r.name)).relationships, r.name)[1]
          IN /\ FullName(reader, r.declaringType) = RelationshipOriginOf(m, c.id, r.name)
             /\ RelDeclarer(reader, r.row) = r.declaringType
             /\ TypeNames(TargetsOf(reader, r.row)) = decl.targets
             /\ Text(reader, At(reader, "Rel", r.row).inverse) = NameOf(decl.inverse)
             /\ AnnotationsApart(m) => SameAnnotations(decl.annotations, "Rel", r.row)
     /\ AnnotationsApart(m) => SameAnnotations(c.annotations, "TypeInfo", t)

\* A term has the concept, the taxonomy and the neighbours it was written with,
\* and a taxonomy its concepts and its roots.
TermReflected(m, c) ==
  LET t == GetTerm(reader, c.id)
      ids(terms) == {TermId(reader, k) : k \in terms}
      rec == At(reader, "Class", t)
  IN /\ t # 0 /\ FullName(reader, ResolveTypeRef(reader, rec.type)) = c.concept
     /\ ids(Narrower(reader, t)) = Range(c.narrower)
     /\ ids({rec.broader} \ {0}) = {c.broader} \ {NoId}
     /\ AnnotationsApart(m) => SameAnnotations(c.annotations, "Class", t)
TaxonomyReflected(tax) ==
  LET row == GetTaxonomy(reader, tax.id)
  IN /\ row # 0 /\ TypeNames(Represents(reader, row)) = tax.represents
     /\ {TermId(reader, k) : k \in TaxonomyRoots(reader, row)} = Range(tax.roots)

Reflected ==
  Loaded =>
    LET m == Logical
    IN /\ \A c \in Range(m.concepts) : ConceptReflected(m, c)
       /\ \A c \in Range(m.classes) : TermReflected(m, c)
       /\ \A tax \in Range(m.taxonomies) : TaxonomyReflected(tax)

RECURSIVE BroaderChain(_, _)
BroaderChain(m, id) == IF id = NoId THEN <<>> ELSE <<id>> \o BroaderChain(m, ClassNamed(m, id).broader)
Pins(m, id, field) == HasMember(ClassNamed(m, id).fixed, field)

\* A value of a flattened node has the origin the logical manifest gives it,
\* where only the node's own class may pin it; where a broader term pins it, it
\* comes from the nearest term that does, or is the node's own.
OriginsAgree ==
  Loaded =>
    LET m == Logical
    IN \A n \in Range(EmitNodes(source.graph, source.order)) : \A f \in Range(MirrorFields(reader, n)) :
         LET chain   == BroaderChain(m, n.class)
             pinning == SelectSeq(chain, LAMBDA id : Pins(m, id, f.name))
             origin  == ValueOrigin(reader, n, f)
         IN IF pinning = <<>> \/ pinning[1] = n.class
            THEN origin = ValueOriginOf(m, n, f.name)
            ELSE /\ origin \in {pinning[1], Self}
                 /\ f.name \notin DOMAIN n.attrs => origin = pinning[1]

\* Walking up from a concept meets the invariants of each aspect it carries
\* exactly once, and its own once, unless its chain is a cycle.
AspectInvariantsOnce ==
  Published =>
    LET m == Logical
        met(c) == AllOf(<<c.id>> \o AncestorsViaExtends(m, c.id),
                        LAMBDA id : IF Contains(ConceptIds(m), id) THEN ConceptOf(m, id).invariants ELSE <<>>)
    IN \A c \in Range(m.concepts) :
         ~ Contains(Closure(source.graph, c.id, "extends", TRUE), c.id) =>
           \A owner \in OwnerInvariants :
             Len(SelectSeq(met(c), LAMBDA o : o = owner)) =
               IF owner \in {c.id} \cup Range(SupertypesOf(source.graph, c.id)) \cup Range(AspectsOf(source.graph, c.id))
               THEN 1 ELSE 0

\* A graph read back from its document publishes the same manifest, and so does
\* one put together from the documents of two halves of it.
DocumentKeepsReads ==
  Published =>
    LET g    == source.graph
        whole == ToDocument(g, source.order, DOMAIN g.nodes)
        half  == {id \in DOMAIN g.nodes : g.nodes[id].tier = "instance"}
        doc(own) == ToDocument(g, source.order, own)
        joined == [nodes |-> doc(DOMAIN g.nodes \ half).nodes \o doc(half).nodes,
                   edges |-> doc(DOMAIN g.nodes \ half).edges \o doc(half).edges]
    IN \A d \in {whole, joined} : EmitManifest(FromDocument(d), source.order, Model, Version) = Logical

\* "every coded annotation ref resolves locally" (manifest-writer.ts), to the
\* annotation that was applied.
AnnotationsResolve ==
  Loaded => \A c \in Range(Logical.concepts) :
              SameAnnotations(c.annotations, "TypeInfo", GetType(reader, c.id))

\* A stored file is in one of the two forms, and nothing is loaded before one is stored.
ManifestTypeOK ==
  /\ file # Nothing => file.form \in {"binary", "json"} /\ writer # Nothing
  /\ Loaded => file # Nothing /\ DOMAIN reader.tables = Range(TableOrder)
=============================================================================
