-------------------------------- MODULE Syntax --------------------------------
(***************************************************************************)
(* The TODL parser: src/compiler-services/parse/parser.ts and the nodes it *)
(* builds (ast.ts).  A file is the sequence of its tokens; the grammar is  *)
(* data, one definition per production, run by the cursor operators at the *)
(* end of the module.  Source spans and the wording of a diagnostic are    *)
(* left out: a diagnostic is the position of its token.                    *)
(*                                                                         *)
(* The machine is an author who damages one token of a file and a parser   *)
(* that reads it.                                                          *)
(***************************************************************************)
EXTENDS Integers, Sequences, FiniteSets, TLC, SequencesExt

CONSTANTS
    Files,        \* records [before, members, after, recovers]: one body's members and what is around them
    Strings,      \* the tokens that are string literals
    Numbers,      \* the tokens that are number literals
    SymbolOps,    \* the tokens that are operator glyphs, Hyphen among them
    BadToken      \* a token no production accepts

VARIABLES written, file, damage, parsed
vars == <<written, file, damage, parsed>>

None == <<>>
Hyphen == "-"       \* a hyphen touching both its neighbours
Eof == ""
Punctuation == {"{", "}", "(", ")", "[", "]", ";", ":", ",", ".", "=", "?", "+", "|"}

Kind(t) ==
    IF t = Eof THEN "eof"
    ELSE IF t \in Punctuation THEN t
    ELSE IF t \in Strings THEN "string"
    ELSE IF t \in Numbers THEN "number"
    ELSE IF t \in SymbolOps THEN "symbol"
    ELSE "identifier"
Id == {"identifier"}
Str == {"string"}

-----------------------------------------------------------------------------
(* The nodes: every field holds the sequence of what was read for it. *)
SchemaFields == {"description", "fields", "relationships", "invariants", "annotations"}
RecordFields == {"assignments", "children", "annotations", "edges"}
Nodes == [
    Namespace |-> {"path", "imports", "declarations"},
    String |-> {"text"}, Boolean |-> {"word"}, Name |-> {"name"}, List |-> {"items"}, Composite |-> {"parts"},
    Object |-> {"concept"} \cup RecordFields,
    EdgeValue |-> {"edge"},
    Edge |-> {"glyph", "left", "right", "body"},
    Assignment |-> {"name", "value"},
    Instance |-> {"concept", "id", "binds", "isClass", "instanceOf"} \cup RecordFields,
    Model |-> {"id", "metaModel", "libraries", "conforms", "instances", "edges", "annotations", "connects", "populations"},
    Application |-> {"name", "assignments"},
    Annotation |-> {"name", "extends", "params"},
    Package |-> {"annotations"},
    Operator |-> {"glyph", "target", "fromMember", "toMember"},
    Match |-> {"concept", "rules"}, MatchRule |-> {"predicate"},
    Policy |-> {"concept", "rules"}, PolicyRule |-> {"effect", "action", "predicate"},
    Merge |-> {"concept", "rules"}, MergeRule |-> {"strategy", "field", "source"},
    Identity |-> {"concept", "key"},
    Connector |-> {"name", "assignments"}, Setting |-> {"name", "text"},
    Connect |-> {"connector"},
    Populate |-> {"concept", "connector", "source", "idKey", "overrides", "readOnly", "version", "concurrency", "atomicity"},
    Override |-> {"member", "field"},
    Field |-> {"name", "type", "cardinality"},
    Relationship |-> {"name", "targets", "cardinality", "annotations"},
    Invariant |-> {"description", "predicate"},
    Concept |-> {"name", "bases", "derives", "memberAnnotations"} \cup SchemaFields,
    Aspect |-> {"name", "includes"} \cup SchemaFields,
    Derive |-> {"member", "expression"},
    MemberAnnotation |-> {"member", "annotations"},
    Term |-> {"id", "concept", "assignments", "children", "annotations"},
    Taxonomy |-> {"name", "represents", "uses", "description", "terms", "annotations"},
    Viewpoint |-> {"name", "frames"},
    Primitive |-> {"name", "base", "description", "regex"}]
\* The fields that hold nodes; the others hold names and token sequences.
Inner == RecordFields \cup (SchemaFields \ {"description"}) \cup {
    "declarations", "value", "items", "edge", "body", "instances", "connects", "populations", "params", "rules", "overrides",
    "derives", "memberAnnotations", "terms"}
Blank(kind) == [kind |-> kind] @@ [f \in Nodes[kind] |-> <<>>]

-----------------------------------------------------------------------------
(* The forms productions are written in.  A test looks ahead; an item reads. *)
At(kinds) == <<"at", kinds>>
AtWord(words) == <<"at word", words>>
Next2(word, kinds) == <<"next", word, kinds>>     \* a word (any identifier when "") and a kind after it
EdgeAhead == <<"path then", "symbol">>
ObjectAhead == <<"path then", "{">>
Flag == <<"flag">>                                 \* a hyphenated name and a semicolon

Expect(kind) == <<"expect", kind>>
Word(w) == <<"word", w>>
Glyph(g) == <<"glyph", g>>
Take(field, kinds) == <<"take", field, kinds>>     \* append the token to a field, as a name of one part
Keep(field, kinds) == <<"keep", field, kinds>>     \* the last one wins
Path(field) == <<"path", field>>                   \* parseDottedPath
Hyphened(field) == <<"hyphened", field>>           \* parseHyphenatedName; the last one wins
Sub(field, production) == <<"sub", field, production>>
OneOf(field, table) == <<"one of", field, table>>  \* <<test, production>> pairs, the first whose test holds
If(test, then, else) == <<"if", test, then, else>>
When(test, then) == <<"if", test, then, <<>>>>
While(test, body) == <<"while", test, body>>
Braced(body) == <<"braced", body>>                 \* { while not } : what fails in it fails its production
Members(body) == <<"members", body>>               \* { parseBodyMembers } : a member that fails is skipped
Raw(field) == <<"raw", field>>                     \* collectUntilSemicolon
Junk == <<"junk">>                                 \* skipToSemicolon
Clear(field) == <<"clear", field>>
SkipBlock == <<"skip block">>
Atomic(body) == <<"atomic", body>>                 \* its fields are assigned once all of it was read
Among(field, names) == <<"among", field, names>>
Fail == <<"fail">>

Listed(field) == <<Path(field), While(At({","}), <<Expect(","), Path(field)>>)>>
IdentifierOrString == Id \cup Str

-----------------------------------------------------------------------------
(* Productions. *)
ValueForms == <<
    <<EdgeAhead, "EdgeValue">>, <<ObjectAhead, "Object">>, <<At(Str), "String">>, <<At({"number"}), "String">>,
    <<At({"["}), "List">>, <<<<"boolean">>, "Boolean">>, <<Next2("", {"|"}), "Composite">>, <<At(Id), "Name">>>>
AValue(field) == <<OneOf(field, ValueForms)>>
StringText == <<Take("text", {"string", "number"})>>
BooleanWord == <<Take("word", Id)>>
NameParts == <<Path("name")>>
CompositeParts == <<Take("parts", Id), While(At({"|"}), <<Expect("|"), Take("parts", Id)>>)>>
ListItems ==
    <<Expect("["),
      If(At({"]"}), <<>>, AValue("items") \o <<While(At({","}), <<Expect(","), If(At({"]"}), <<>>, AValue("items"))>>)>>),
      Expect("]")>>

Assigned == <<Take("name", Id), Expect("=")>> \o AValue("value") \o <<Expect(";")>>
EdgeExpr == <<Path("left"), Take("glyph", {"symbol"}), Path("right"), When(At({"{"}), <<Braced(<<Sub("body", "Assignment")>>)>>)>>
\* The semicolon is optional after a body.
EdgeStatement == EdgeExpr \o <<If(<<"after", "}">>, <<When(At({";"}), <<Expect(";")>>)>>, <<Expect(";")>>)>>
AnnotationApplication == <<Word("annotate"), Path("name"), Braced(<<Sub("assignments", "Assignment")>>)>>

RecordBody == Members(<<
    If(AtWord({"annotate"}), <<Sub("annotations", "Application")>>,
    <<If(EdgeAhead, <<Sub("edges", "EdgeStatement")>>,
    <<If(Next2("", {"="}), <<Sub("assignments", "Assignment")>>,
        <<Sub("children", "Child")>>)>>)>>)>>)
InstanceFrom ==
    <<Take("id", IdentifierOrString),
      When(AtWord({"instanceof"}), <<Word("instanceof"), Path("instanceOf")>>),
      When(At({":"}), <<Expect(":"), Take("binds", Id)>>),
      RecordBody>>
Record == <<Path("concept")>> \o InstanceFrom
ClassRecord == <<Take("isClass", Id), Take("concept", Id)>> \o InstanceFrom
ChildRecord == <<Take("concept", Id)>> \o InstanceFrom
InlineObject == <<Path("concept"), RecordBody>>

Model == <<
    Word("model"), Take("id", Id), Expect(":"), Path("metaModel"),
    When(AtWord({"uses"}), <<Word("uses")>> \o Listed("libraries")),
    When(AtWord({"conforms"}), <<Word("conforms"), Path("conforms")>>),
    Braced(<<
        If(AtWord({"connect"}), <<Sub("connects", "Connect")>>,
        <<If(AtWord({"populate"}), <<Sub("populations", "Populate")>>,
        <<If(AtWord({"annotate"}), <<Sub("annotations", "Application")>>,
        <<If(EdgeAhead, <<Sub("edges", "EdgeStatement")>>,
            <<Sub("instances", "Record")>>)>>)>>)>>)>>)>>
Connect == <<Word("connect"), Take("connector", Id), Expect(";")>>

WriteModes == {"version", "concurrency", "atomicity"}
NameOrString(field) == If(At(Str), <<Take(field, Str)>>, <<Hyphened(field)>>)
WriteMode ==
    If(AtWord({"version"}), <<Atomic(<<Word("version"), Hyphened("version"), Expect(";")>>)>>,
    <<If(AtWord({"concurrency"}),
        <<Atomic(<<Word("concurrency"), Hyphened("concurrency"), Expect(";"),
                   Among("concurrency", {<<"last", "write", "wins">>, <<"optimistic">>})>>)>>,
        <<Atomic(<<Word("atomicity"), Hyphened("atomicity"), Expect(";"),
                   Among("atomicity", {<<"sequential">>, <<"transactional">>})>>)>>)>>)
PopulateMember == <<
    If(<<"mode">>, <<WriteMode>>,
    <<If(Flag, <<Atomic(<<Hyphened("readOnly"), Among("readOnly", {<<"read", "only">>}), Expect(";")>>)>>,
        <<Sub("overrides", "Override")>>)>>)>>
Override == <<Hyphened("member"), Expect("="), NameOrString("field"), Expect(";")>>
Populate == <<
    Word("populate"), Path("concept"),
    When(AtWord({"from"}), <<Word("from"), Take("connector", Id), When(At({"."}), <<Expect("."), Take("source", Id)>>)>>),
    When(AtWord({"key"}), <<Word("key"), Take("idKey", Id)>>),
    If(At({"{"}), <<Members(PopulateMember)>>, <<Expect(";")>>)>>

ParamDecl == <<Take("name", Id), Expect(":"), Path("type")>>
CardinalityMark ==
    If(At({"?"}), <<Take("cardinality", {"?"})>>,
    <<When(At({"["}), <<Take("cardinality", {"["}), When(At({"+"}), <<Take("cardinality", {"+"})>>), Expect("]")>>)>>)
FieldDecl == ParamDecl \o <<CardinalityMark, Expect(";")>>
Annotation == <<
    Word("annotation"), Take("name", Id), When(At({":"}), <<Expect(":"), Path("extends")>>), Braced(<<Sub("params", "Field")>>)>>
Package == <<Word("package"), Braced(<<If(AtWord({"annotate"}), <<Sub("annotations", "Application")>>, <<Fail>>)>>)>>
Operator == <<
    Word("operator"), Take("glyph", {"symbol"}), Expect(":"), Path("target"),
    If(At({"("}), <<Expect("("), Take("fromMember", Id), Expect(","), Take("toMember", Id), Expect(")")>>,
                  <<When(<<"undotted", "target">>, <<Fail>>)>>),
    Expect(";")>>
Identity == <<Word("identity"), Path("concept"), Word("key"), Take("key", Id), Expect(";")>>
Match == <<Word("match"), Path("concept"), Members(<<Sub("rules", "MatchRule")>>)>>
MatchRule == <<Word("same"), Word("when"), Raw("predicate"), Expect(";")>>
Merge == <<Word("merge"), Path("concept"), Members(<<Sub("rules", "MergeRule")>>)>>
MergeRule == <<
    Word("prefer"),
    If(AtWord({"source"}), <<Take("strategy", Id), Take("source", Str)>>,
        <<If(AtWord({"latest"}), <<Take("strategy", Id)>>, <<Fail>>)>>),
    Word("for"), Take("field", Id), Expect(";")>>
Policy == <<Word("policy"), Path("concept"), Members(<<Sub("rules", "PolicyRule")>>)>>
PolicyRule == <<
    If(AtWord({"allow", "deny"}), <<Take("effect", Id)>>, <<Fail>>),
    If(AtWord({"read", "write"}), <<Take("action", Id)>>, <<Fail>>),
    Word("when"), Raw("predicate"), Expect(";")>>
Connector == <<Word("datasource"), Take("name", Id), Members(<<Sub("assignments", "Setting")>>)>>
\* Mutant: the ; of a setting is left to the next one.
SettingUnended == <<Take("name", Id), Expect("="), NameOrString("text")>>
Setting == <<Take("name", Id), Expect("="), NameOrString("text"), Expect(";")>>

\* readStringMember: a member of another name is read and forgotten; of a value that is no literal only the end is found.
Literals == {"string", "number"}
StringMember(field, otherwise) ==
    If(AtWord({field}),
        <<Atomic(<<Word(field), Expect("="), If(At(Literals), <<Keep(field, Literals)>>, otherwise), Expect(";")>>)>>,
        <<Expect("identifier"), Expect("="),
          If(At(Str), <<Expect("string")>>, <<If(At({"number"}), <<Expect("number")>>, <<Junk>>)>>), Expect(";")>>)
Primitive == <<
    Word("primitive"), Take("name", Id), When(At({":"}), <<Expect(":"), Take("base", Id)>>),
    Braced(<<If(AtWord({"regex"}), <<StringMember("regex", <<Clear("regex"), Junk>>)>>,
                                   <<StringMember("description", <<Clear("description"), Junk>>)>>)>>)>>
Taxonomy == <<
    Word("taxonomy"), Take("name", Id), Expect(":"), Word("represents")>> \o Listed("represents") \o <<
    When(AtWord({"uses"}), <<Word("uses")>> \o Listed("uses")),
    Members(<<
        If(AtWord({"annotate"}), <<Sub("annotations", "Application")>>,
        <<If(<<"term">>, <<Sub("terms", "Term")>>, <<StringMember("description", <<Junk>>)>>)>>)>>)>>
Term == <<
    If(AtWord({"term"}), <<Word("term")>>, <<Take("concept", Id)>>), Take("id", Id),
    Members(<<
        If(AtWord({"annotate"}), <<Sub("annotations", "Application")>>,
        <<If(<<"term">>, <<Sub("children", "Term")>>, <<Sub("assignments", "Assignment")>>)>>)>>)>>
Viewpoint == <<Word("viewpoint"), Take("name", Id), Expect(":"), Word("frames")>> \o Listed("frames")

Annotate(otherwise) == If(AtWord({"annotate"}), <<Sub("annotations", "Application")>>, otherwise)
DocMember == <<
    If(Next2("description", {"="}),
        <<Expect("identifier"), Expect("="), If(At(Str), <<Keep("description", Str)>>, <<Junk>>), Expect(";")>>,
        <<Expect("identifier"), Expect("="), If(At(Str), <<Expect("string")>>, <<Junk>>), Expect(";")>>)>>
SchemaMember ==
    If(AtWord({"relationship"}), <<Sub("relationships", "Relationship")>>,
    <<If(AtWord({"invariant"}), <<Sub("invariants", "Invariant")>>,
    <<Annotate(<<If(Next2("", {":"}), <<Sub("fields", "Field")>>, DocMember)>>)>>)>>)
Concept == <<
    Word("concept"), Take("name", Id), When(At({":"}), <<Expect(":")>> \o Listed("bases")),
    Members(<<
        If(Next2("derive", Id), <<Sub("derives", "Derive")>>,
        <<If(Next2("member", Id), <<Sub("memberAnnotations", "MemberAnnotation")>>,
        <<If(AtWord({"authoring"}), <<Word("authoring"), Expect("identifier"), SkipBlock>>,
            <<SchemaMember>>)>>)>>)>>)>>
Aspect == <<
    Word("aspect"), Take("name", Id), When(At({":"}), <<Expect(":")>> \o Listed("includes")), Members(<<SchemaMember>>)>>
Derive == <<Word("derive"), Take("member", Id), Expect("="), Raw("expression"), Expect(";")>>
MemberAnnotations == <<Word("member"), Take("member", Id), Members(<<Sub("annotations", "Application")>>)>>
Relationship == <<
    Word("relationship"), Take("name", Id), Glyph("->"), Path("targets"),
    While(At({"|"}), <<Expect("|"), Path("targets")>>), CardinalityMark,
    If(At({"{"}), <<Braced(<<Annotate(<<Fail>>)>>)>>, <<Expect(";")>>)>>
Invariant == <<
    Word("invariant"),
    If(At(Str), <<Take("description", Str), Expect(";")>>,
        <<Braced(<<
            If(Next2("predicate", {"="}), <<Word("predicate"), Expect("="), Raw("predicate"), Expect(";")>>,
            <<If(Next2("description", {"="}), <<Word("description"), Expect("="), Keep("description", Str), Expect(";")>>,
                <<Expect("identifier"), Expect("="), Expect("string"), Expect(";")>>)>>)>>)>>)>>

Declarations == <<
    <<AtWord({"primitive"}), "Primitive">>, <<AtWord({"taxonomy"}), "Taxonomy">>, <<AtWord({"viewpoint"}), "Viewpoint">>,
    <<AtWord({"concept"}), "Concept">>, <<Next2("aspect", Id), "Aspect">>, <<AtWord({"model"}), "Model">>,
    <<AtWord({"annotation"}), "Annotation">>, <<AtWord({"package"}), "Package">>, <<AtWord({"operator"}), "Operator">>,
    <<AtWord({"identity"}), "Identity">>, <<AtWord({"match"}), "Match">>, <<AtWord({"merge"}), "Merge">>,
    <<AtWord({"policy"}), "Policy">>, <<AtWord({"datasource"}), "Connector">>, <<AtWord({"class"}), "ClassRecord">>,
    <<At(Id), "Record">>>>
Declaration == <<
    While(AtWord({"internal", "sealed"}), <<Expect("identifier")>>),
    OneOf("declarations", Declarations)>>
Namespace == <<
    Word("namespace"), Path("path"), Expect("{"),
    While(AtWord({"import"}), <<Word("import"), Path("imports"), Expect(";")>>),
    <<"declarations", Declaration>>, Expect("}")>>

\* What each production makes and how it is read.
Grammar == [
    Namespace |-> <<"Namespace", Namespace>>, EdgeValue |-> <<"EdgeValue", <<Sub("edge", "EdgeExpr")>>>>,
    EdgeExpr |-> <<"Edge", EdgeExpr>>, EdgeStatement |-> <<"Edge", EdgeStatement>>, Object |-> <<"Object", InlineObject>>,
    String |-> <<"String", StringText>>, List |-> <<"List", ListItems>>, Boolean |-> <<"Boolean", BooleanWord>>,
    Composite |-> <<"Composite", CompositeParts>>, Name |-> <<"Name", NameParts>>, Assignment |-> <<"Assignment", Assigned>>,
    Application |-> <<"Application", AnnotationApplication>>, Record |-> <<"Instance", Record>>,
    ClassRecord |-> <<"Instance", ClassRecord>>, Child |-> <<"Instance", ChildRecord>>, Model |-> <<"Model", Model>>,
    Connect |-> <<"Connect", Connect>>, Populate |-> <<"Populate", Populate>>, Override |-> <<"Override", Override>>,
    Field |-> <<"Field", FieldDecl>>, Annotation |-> <<"Annotation", Annotation>>, Package |-> <<"Package", Package>>,
    Operator |-> <<"Operator", Operator>>, Identity |-> <<"Identity", Identity>>, Match |-> <<"Match", Match>>,
    MatchRule |-> <<"MatchRule", MatchRule>>, Merge |-> <<"Merge", Merge>>, MergeRule |-> <<"MergeRule", MergeRule>>,
    Policy |-> <<"Policy", Policy>>, PolicyRule |-> <<"PolicyRule", PolicyRule>>, Connector |-> <<"Connector", Connector>>,
    Setting |-> <<"Setting", Setting>>, Primitive |-> <<"Primitive", Primitive>>, Taxonomy |-> <<"Taxonomy", Taxonomy>>,
    Term |-> <<"Term", Term>>, Viewpoint |-> <<"Viewpoint", Viewpoint>>, Concept |-> <<"Concept", Concept>>,
    Aspect |-> <<"Aspect", Aspect>>, Derive |-> <<"Derive", Derive>>, MemberAnnotation |-> <<"MemberAnnotation", MemberAnnotations>>,
    Relationship |-> <<"Relationship", Relationship>>, Invariant |-> <<"Invariant", Invariant>>]

-----------------------------------------------------------------------------
(* The cursor: s.at is the next token of t, s.node the node being built,   *)
(* s.errs the diagnostics so far; s.ok is FALSE while an error is thrown.  *)
Read(t, i) == IF i <= Len(t) THEN t[i] ELSE Eof
KindAt(t, i) == Kind(Read(t, i))
IsWord(t, i, w) == KindAt(t, i) = "identifier" /\ Read(t, i) = w
\* The end of the dotted path at i, as the lookaheads see it.
PathEnd(t, i) ==
    CHOOSE j \in i + 1 .. Len(t) + 2 :
        /\ (j - i) % 2 = 1
        /\ \A k \in i + 1 .. j - 1 : IF (k - i) % 2 = 1 THEN KindAt(t, k) = "." ELSE KindAt(t, k) = "identifier"
        /\ ~(KindAt(t, j) = "." /\ KindAt(t, j + 1) = "identifier")
\* The end of the hyphenated name at i.
NameEnd(t, i) ==
    CHOOSE j \in i + 1 .. Len(t) + 2 :
        /\ (j - i) % 2 = 1
        /\ \A k \in i + 1 .. j - 1 : IF (k - i) % 2 = 1 THEN Read(t, k) = Hyphen ELSE KindAt(t, k) = "identifier"
        /\ ~(Read(t, j) = Hyphen /\ KindAt(t, j + 1) = "identifier")

Holds(t, s, test) ==
    CASE test[1] = "at" -> KindAt(t, s.at) \in test[2]
      [] test[1] = "at word" -> \E w \in test[2] : IsWord(t, s.at, w)
      [] test[1] = "next" -> /\ KindAt(t, s.at) = "identifier"
                             /\ test[2] \in {"", Read(t, s.at)}
                             /\ KindAt(t, s.at + 1) \in test[3]
      [] test[1] = "path then" -> KindAt(t, s.at) = "identifier" /\ KindAt(t, PathEnd(t, s.at)) = test[2]
      [] test[1] = "term" -> IsWord(t, s.at, "term") \/ (KindAt(t, s.at) = "identifier" /\ KindAt(t, s.at + 1) = "identifier")
      [] test[1] = "boolean" -> /\ IsWord(t, s.at, "true") \/ IsWord(t, s.at, "false")
                                /\ KindAt(t, s.at + 1) \notin {".", "|"}
      [] test[1] = "mode" -> /\ \E w \in WriteModes : IsWord(t, s.at, w)
                             /\ NameEnd(t, s.at) = s.at + 1
                             /\ KindAt(t, s.at + 1) \notin {"=", ";"}
      [] test[1] = "flag" -> KindAt(t, s.at) = "identifier" /\ KindAt(t, NameEnd(t, s.at)) = ";"
      [] test[1] = "after" -> Read(t, s.at - 1) = test[2]
      [] test[1] = "undotted" -> \E i \in DOMAIN s.node[test[2]] : Len(s.node[test[2]][i]) = 1

Error(s) == [s EXCEPT !.ok = FALSE, !.errs = Append(@, s.at)]
\* advance clamps at the end of the file.
Advance(t, s, by) == [s EXCEPT !.at = IF @ + by <= Len(t) + 1 THEN @ + by ELSE Len(t) + 1]
Put(s, field, v) == [s EXCEPT !.node[field] = Append(@, v)]
Replace(s, field, v) == [s EXCEPT !.node[field] = <<v>>]
Words(t, i, j) == [k \in 1 .. (j - i + 1) \div 2 |-> t[i + 2 * (k - 1)]]
Semicolon(t, i) == CHOOSE j \in i .. Len(t) + 1 : KindAt(t, j) \in {";", "eof"} /\ \A k \in i .. j - 1 : KindAt(t, k) # ";"

\* How deep in braces the token at j is, counted from i.
Depth(t, i, j) ==
    Cardinality({k \in i .. j - 1 : t[k] = "{"}) - Cardinality({k \in i .. j - 1 : t[k] = "}"})
FirstFrom(t, i, Stops(_)) ==
    LET stops == {j \in i .. Len(t) : Stops(j)} IN IF stops = {} THEN Len(t) + 1 ELSE CHOOSE j \in stops : \A k \in stops : j <= k
\* Mutant: recovery stops before the ; as skipToSemicolon does.
RecoverShort(t, i) == FirstFrom(t, i, LAMBDA k : t[k] \in {";", "}"} /\ Depth(t, i, k) = 0)
\* recoverInBody: past the next ; of this body, or at the brace that closes it.
RecoverInBody(t, i) ==
    LET j == FirstFrom(t, i, LAMBDA k : t[k] \in {";", "}"} /\ Depth(t, i, k) = 0) IN IF Read(t, j) = ";" THEN j + 1 ELSE j
DeclarationWords == {
    "primitive", "taxonomy", "viewpoint", "concept", "model", "annotation", "package", "operator",
    "identity", "match", "merge", "policy", "datasource", "class", "internal", "sealed"}
StartsDeclaration(t, i) ==
    KindAt(t, i) = "identifier" /\ (t[i] \in DeclarationWords \/ KindAt(t, i + 1) = "identifier")
Synchronize(t, i) == FirstFrom(t, i, LAMBDA k : Depth(t, i, k) = 0 /\ (t[k] = "}" \/ StartsDeclaration(t, k)))

\* The error of s was caught: the parse goes on at a later token.
Recovered(t, s, before, to) ==
    [s EXCEPT !.ok = TRUE, !.at = IF to = before /\ before <= Len(t) THEN before + 1 ELSE to]

RECURSIVE Do(_, _, _), Loop(_, _, _, _), MemberLoop(_, _, _), DeclarationLoop(_, _, _)
Items(t, body, s) == FoldLeft(LAMBDA r, item : IF r.ok THEN Do(t, item, r) ELSE r, s, body)
Production(t, field, name, s) ==
    LET r == Items(t, Grammar[name][2], [s EXCEPT !.node = Blank(Grammar[name][1])])
    IN IF r.ok THEN [r EXCEPT !.node = [s.node EXCEPT ![field] = Append(@, r.node)]] ELSE [r EXCEPT !.node = s.node]
Do(t, item, s) ==
    CASE item[1] = "expect" -> IF KindAt(t, s.at) = item[2] THEN Advance(t, s, 1) ELSE Error(s)
      [] item[1] = "word" -> IF IsWord(t, s.at, item[2]) THEN Advance(t, s, 1) ELSE Error(s)
      [] item[1] = "glyph" -> IF KindAt(t, s.at) = "symbol" /\ t[s.at] = item[2] THEN Advance(t, s, 1) ELSE Error(s)
      [] item[1] = "take" -> IF KindAt(t, s.at) \in item[3] THEN Advance(t, Put(s, item[2], <<t[s.at]>>), 1) ELSE Error(s)
      [] item[1] = "keep" -> IF KindAt(t, s.at) \in item[3] THEN Advance(t, Replace(s, item[2], <<t[s.at]>>), 1) ELSE Error(s)
      [] item[1] = "path" ->
            IF KindAt(t, s.at) # "identifier" THEN Error(s)
            ELSE LET end == PathEnd(t, s.at)
                 IN IF KindAt(t, end) = "." THEN Error(Advance(t, s, end + 1 - s.at))
                    ELSE Advance(t, Put(s, item[2], Words(t, s.at, end)), end - s.at)
      [] item[1] = "hyphened" ->
            IF KindAt(t, s.at) # "identifier" THEN Error(s)
            ELSE LET end == NameEnd(t, s.at) IN Advance(t, Replace(s, item[2], Words(t, s.at, end)), end - s.at)
      [] item[1] = "sub" -> Production(t, item[2], item[3], s)
      [] item[1] = "one of" ->
            LET forms == {i \in DOMAIN item[3] : Holds(t, s, item[3][i][1])}
            IN IF forms = {} THEN Error(s) ELSE Production(t, item[2], item[3][CHOOSE i \in forms : \A j \in forms : i <= j][2], s)
      [] item[1] = "if" -> Items(t, IF Holds(t, s, item[2]) THEN item[3] ELSE item[4], s)
      [] item[1] = "while" -> Loop(t, item[2], item[3], s)
      [] item[1] = "braced" -> Items(t, <<Expect("{"), <<"until brace", item[2]>>, Expect("}")>>, s)
      [] item[1] = "until brace" ->
            IF KindAt(t, s.at) = "}" THEN s
            ELSE LET r == Items(t, item[2], s) IN IF r.ok THEN Do(t, item, r) ELSE r
      [] item[1] = "members" -> Items(t, <<Expect("{"), <<"until end", item[2]>>, Expect("}")>>, s)
      [] item[1] = "until end" -> MemberLoop(t, item[2], s)
      [] item[1] = "raw" -> LET end == Semicolon(t, s.at) IN Advance(t, Replace(s, item[2], SubSeq(t, s.at, end - 1)), end - s.at)
      [] item[1] = "junk" -> [s EXCEPT !.at = Semicolon(t, @)]
      [] item[1] = "clear" -> [s EXCEPT !.node[item[2]] = <<>>]
      [] item[1] = "skip block" ->
            IF KindAt(t, s.at) # "{" THEN Error(s)
            ELSE LET end == FirstFrom(t, s.at, LAMBDA k : k > s.at /\ Depth(t, s.at, k) = 0) IN [s EXCEPT !.at = end]
      [] item[1] = "atomic" -> LET r == Items(t, item[2], s) IN IF r.ok THEN r ELSE [r EXCEPT !.node = s.node]
      [] item[1] = "among" -> IF \E i \in DOMAIN s.node[item[2]] : s.node[item[2]][i] \in item[3] THEN s ELSE Error(s)
      [] item[1] = "declarations" -> DeclarationLoop(t, item[2], s)
      [] item[1] = "fail" -> Error(s)
Loop(t, test, body, s) ==
    IF ~Holds(t, s, test) THEN s
    ELSE LET r == Items(t, body, s) IN IF r.ok THEN Loop(t, test, body, r) ELSE r
\* parseBodyMembers.
MemberLoop(t, body, s) ==
    IF KindAt(t, s.at) \in {"}", "eof"} THEN s
    ELSE LET r == Items(t, body, s)
         IN MemberLoop(t, body, Recovered(t, r, s.at, IF r.ok THEN r.at ELSE RecoverInBody(t, r.at)))
\* The loop of parseNamespace.
DeclarationLoop(t, body, s) ==
    IF KindAt(t, s.at) \in {"}", "eof"} THEN s
    ELSE LET r == Items(t, body, s)
         IN DeclarationLoop(t, body, IF r.ok THEN r ELSE Recovered(t, r, s.at, Synchronize(t, r.at)))

\* Parser.parse: an error nothing caught leaves an empty namespace.
Parse(t) ==
    LET r == Items(t, Namespace, [at |-> 1, node |-> Blank("Namespace"), errs |-> <<>>, ok |-> TRUE])
    IN [namespace |-> IF r.ok THEN r.node ELSE Blank("Namespace"), errs |-> r.errs, rest |-> r.at]

-----------------------------------------------------------------------------
(* The machine. *)
Text(f) == f.before \o FlattenSeq(f.members) \o f.after
Damaged(f, m, i, by) ==
    [f EXCEPT !.members[m] = SubSeq(@, 1, i - 1) \o by \o SubSeq(@, i + 1, Len(@))]
Without(f, m) == [f EXCEPT !.members[m] = <<>>]

Init == written \in Files /\ file = written /\ damage = None /\ parsed = None
Damage ==
    /\ damage = None /\ parsed = None
    /\ \E m \in DOMAIN written.members : \E i \in DOMAIN written.members[m] : \E by \in {<<>>, <<BadToken>>} :
        /\ file' = Damaged(written, m, i, by)
        /\ damage' = [member |-> m, at |-> i]
    /\ UNCHANGED <<written, parsed>>
Scan == parsed = None /\ parsed' = Parse(Text(file)) /\ UNCHANGED <<written, file, damage>>
Next == Damage \/ Scan
Spec == Init /\ [][Next]_vars

-----------------------------------------------------------------------------
(* Properties. *)
\* What a parse makes is a namespace node whose parts are nodes of the declared shapes; an undamaged file has no diagnostic.
RECURSIVE WellFormed(_)
WellFormed(node) ==
    /\ node.kind \in DOMAIN Nodes
    /\ DOMAIN node = Nodes[node.kind] \cup {"kind"}
    /\ \A f \in Nodes[node.kind] \cap Inner : \A i \in DOMAIN node[f] : WellFormed(node[f][i])
TypeOK ==
    parsed # None =>
        /\ WellFormed(parsed.namespace)
        /\ \A i \in DOMAIN parsed.errs : parsed.errs[i] \in 1 .. Len(Text(file)) + 1
        /\ damage = None => parsed.errs = <<>> /\ parsed.rest = Len(Text(file)) + 1

\* In a body that parseBodyMembers reads, a damaged member that ends with its own ; and holds no block costs exactly itself: the parse is the one of the file
\* without that member, and one diagnostic says so ("a malformed member neither cascades nor aborts the remaining members").
MemberDamageIsLocal ==
    (parsed # None /\ damage # None) =>
        LET member == written.members[damage.member]
        IN (parsed.errs # <<>> /\ written.recovers /\ damage.at < Len(member) /\ ~Contains(member, "{")) =>
            /\ Len(parsed.errs) = 1
            /\ parsed.namespace = Parse(Text(Without(written, damage.member))).namespace

=============================================================================
