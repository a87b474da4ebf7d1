---------------------------- MODULE CypherWrite ----------------------------
(***************************************************************************)
(* The execution of Cypher write statements over an editable draft: the    *)
(* engine's transaction (engine.ts), the pipeline of clauses and its eager *)
(* barriers (planner.ts), the write operators (operators-write.ts), the    *)
(* overlay that lets a statement read what it has written itself           *)
(* (write-overlay.ts) and the draft's writer (model-draft-writer.ts).      *)
(*                                                                         *)
(* A statement is a sequence of clauses.  The rows that wait before clause *)
(* i are queue[i]; the rows that left the last clause are queue[n + 1].    *)
(* Rows are pulled: the step taken is of the last clause that has a row    *)
(* and that no barrier holds back.  A row maps variables to node ids, 0    *)
(* being Cypher's null.  One record `run` carries what the operators and   *)
(* the writer of the statement keep.                                       *)
(***************************************************************************)
EXTENDS Integers, Sequences, FiniteSets, SequencesExt, FiniteSetsExt, Functions

CONSTANTS
    Base,           \* ids of the frozen nodes of the bases
    Concepts,       \* the concepts of the meta-model
    Isa,            \* concept -> the concepts it is assignable to
    Fields,         \* reference members: records [on, name, type, many]
    Required,       \* <<concept, key>>: attributes validation demands
    Keys, Vals,     \* scalar attributes and their values
    Drafts,         \* the drafts a host opens
    Statements,     \* the statements it runs
    MaxStatements,  \* bound on how many of them
    None            \* an absent attribute, an absent part of a clause

Null == 0

VARIABLES
    draft,      \* the model draft: [nodes, edges]
    overlaid,   \* can the host's graph materialize uncommitted nodes?
    phase,      \* "idle", "running", "projecting"
    stmt,       \* the statement under way
    before,     \* the writer's snapshot of the draft
    queue,      \* rows waiting before each clause
    run,        \* the operators', the overlay's and the writer's state
    last,       \* the outcome of the last statement: "none", "done", "failed"
    count       \* statements begun

vars == <<draft, overlaid, phase, stmt, before, queue, run, last, count>>

----------------------------------------------------------------------------
(* The graph a statement reads.                                            *)

\* The overlay's view of one node: what the statement created, or the base
\* graph's node with the statement's attribute changes.
Synthesized(r, i) ==
    IF i \in DOMAIN r.created THEN r.created[i]
    ELSE [r.read.nodes[i] EXCEPT !.attrs =
             [k \in Keys |-> IF <<i, k>> \in DOMAIN r.changed THEN r.changed[<<i, k>>] ELSE @[k]]]

\* Mutant: references to a node the statement deleted are still shown.
OverlayKeepsRefs(r) ==
    LET ids == (DOMAIN r.read.nodes \cup DOMAIN r.created) \ r.gone
    IN  [nodes |-> [i \in ids |-> Synthesized(r, i)],
         edges |-> (r.read.edges \ r.deletedEdges) \cup r.addedEdges]

Overlay(r) ==
    LET ids == (DOMAIN r.read.nodes \cup DOMAIN r.created) \ r.gone
    IN  [nodes |-> [i \in ids |-> Synthesized(r, i)],
         edges |-> {e \in (r.read.edges \ r.deletedEdges) \cup r.addedEdges :
                        e.from \notin r.gone /\ e.to \notin r.gone}]

\* With an overlay, reads go through it; without, they see the graph as it was
\* when the statement began.  "direct" is the reference semantics below.
View(r) ==
    CASE r.mode = "overlay" -> Overlay(r)
      [] r.mode = "blind"   -> r.read
      [] r.mode = "direct"  -> r.draft

\* A row's node is readable when the graph reflects it: without an overlay, a
\* node the statement created is an id-only reference.
Reflects(r, i) == i \in DOMAIN View(r).nodes

\* A property of a bound node; a deleted node reads as having no fields.
\* Reading a created node without an overlay is rejected.
Unreadable(r, i) == r.mode = "blind" /\ i \in r.fresh
Property(r, i, k) == IF i # Null /\ Reflects(r, i) THEN View(r).nodes[i].attrs[k] ELSE None

Satisfies(node, pattern) ==
    /\ pattern.label = None \/ (pattern.label # None /\ pattern.label \in Isa[node.type])
    /\ \A k \in Keys : pattern.attrs[k] # None => node.attrs[k] = pattern.attrs[k]

Sorted(S) == SelectSeq([i \in 1 .. Max(S \cup {Null}) |-> i], LAMBDA i : i \in S)
Matching(r, pattern) == Sorted({i \in DOMAIN View(r).nodes : Satisfies(View(r).nodes[i], pattern)})
Expand(r, i, m) == {e.to : e \in {x \in View(r).edges : x.from = i /\ x.member = m}}

----------------------------------------------------------------------------
(* The writer: every accepted mutation changes the draft and is recorded   *)
(* in the overlay; a rejected one ends the statement.                      *)

Fail(r) == [r EXCEPT !.failed = TRUE]
Owns(r, i) == i \in DOMAIN r.draft.nodes \ Base
EdgeOf(i, m, j) == [from |-> i, member |-> m, to |-> j]

CreateNode(r, concept, attrs) ==
    LET id == r.next
    IN  IF concept \notin Concepts THEN Fail(r)
        ELSE [r EXCEPT !.draft.nodes = (id :> [type |-> concept, attrs |-> attrs]) @@ @,
                       !.created = (id :> [type |-> concept, attrs |-> attrs]) @@ @,
                       !.fresh = @ \cup {id},
                       !.next = id + 1,
                       !.stats.nodesCreated = @ + 1]

RecordAttr(r, i, k, v) ==
    IF i \in DOMAIN r.created THEN [r EXCEPT !.created[i].attrs[k] = v]
    ELSE [r EXCEPT !.changed = (<<i, k>> :> v) @@ @]

\* SetProperty, and RemoveProperty when v is None: the draft is left alone when
\* it already agrees; the overlay records the write either way.
Assign(r, i, k, v) ==
    IF ~Owns(r, i) THEN Fail(r)
    ELSE RecordAttr([r EXCEPT !.draft.nodes[i].attrs[k] = v], i, k, v)

Targets(r, i, m) == {e.to : e \in {x \in r.draft.edges : x.from = i /\ x.member = m}}
FieldsOf(r, i, m) == {f \in Fields : f.on \in Isa[r.draft.nodes[i].type] /\ f.name = m}

CreateRelationship(r, i, m, j) ==
    LET e == EdgeOf(i, m, j)
        refused == \/ ~Owns(r, i) \/ j \notin DOMAIN r.draft.nodes
                   \/ \A f \in FieldsOf(r, i, m) : f.type \notin Isa[r.draft.nodes[j].type]
                   \/ /\ Targets(r, i, m) \notin {{}, {j}}
                      /\ j \notin Targets(r, i, m)
                      /\ \A f \in FieldsOf(r, i, m) : ~f.many
    IN  IF refused THEN Fail(r)
        ELSE IF j \in Targets(r, i, m) THEN r
        ELSE [r EXCEPT !.draft.edges = @ \cup {e},
                       !.addedEdges = IF e \in r.deletedEdges THEN @ ELSE @ \cup {e},
                       !.deletedEdges = @ \ {e},
                       !.stats.relationshipsCreated = @ + 1]

DeleteRelationship(r, i, m, j) ==
    LET e == EdgeOf(i, m, j)
    IN  IF ~Owns(r, i) THEN Fail(r)
        ELSE IF j \notin Targets(r, i, m) THEN r
        ELSE [r EXCEPT !.draft.edges = @ \ {e},
                       !.deletedEdges = IF e \in r.addedEdges THEN @ ELSE @ \cup {e},
                       !.addedEdges = @ \ {e},
                       !.stats.relationshipsDeleted = @ + 1]

Incident(d, i) == {e \in d.edges : i \in {e.from, e.to}}

DeleteNode(r, i, detach) ==
    LET touching == Incident(r.draft, i)
    IN  IF i \in r.deleted THEN r
        ELSE IF ~Owns(r, i) \/ (touching # {} /\ ~detach) THEN Fail(r)
        ELSE [r EXCEPT !.draft.nodes = Restrict(@, DOMAIN @ \ {i}),
                       !.draft.edges = @ \ touching,
                       !.deleted = @ \cup {i},
                       !.gone = @ \cup {i},
                       !.stats.nodesDeleted = @ + 1,
                       !.stats.relationshipsDeleted = @ + Cardinality(touching)]

----------------------------------------------------------------------------
(* The operators: what a clause does with one row.                         *)

Done(r, rows) == [run |-> r, rows |-> rows]
Bind(row, v, i) == (v :> i) @@ row

\* MATCH (v:Label {attrs}): one row per node, in the graph's order.
Match(r, row, c) ==
    Done(r, [n \in 1 .. Len(Matching(r, c.pattern)) |-> Bind(row, c.var, Matching(r, c.pattern)[n])])

\* [OPTIONAL] MATCH (from)-[:member]->(v): an unmatched optional row is padded.
Hop(r, row, c) ==
    LET ends == IF row[c.from] = Null THEN <<>> ELSE Sorted(Expand(r, row[c.from], c.member))
        rows == [n \in 1 .. Len(ends) |-> Bind(row, c.var, ends[n])]
    IN  Done(r, IF rows = <<>> /\ c.optional THEN <<Bind(row, c.var, Null)>> ELSE rows)

\* SET v.member = w: every reference the graph shows and every one an earlier
\* SET of the statement made is dropped before the new one is made.
ReplaceRef(r, i, m, j) ==
    LET known == IF <<i, m>> \in DOMAIN r.made THEN {r.made[<<i, m>>]} ELSE {}
        stale == known \cup IF Reflects(r, i) THEN Expand(r, i, m) ELSE {}
        cut   == FoldLeft(LAMBDA acc, old : DeleteRelationship(acc, i, m, old), r, Sorted(stale))
        made  == CreateRelationship(cut, i, m, j)
    IN  [made EXCEPT !.made = (<<i, m>> :> j) @@ @]

\* SET v = {attrs} also drops the attributes the map does not list; without an
\* overlay a created node's attributes cannot be read and the SET is refused.
SetMap(r, i, attrs, replace) ==
    LET drops == {k \in Keys : attrs[k] = None /\ Reflects(r, i) /\ View(r).nodes[i].attrs[k] # None}
        bare  == FoldSet(LAMBDA k, acc : Assign(acc, i, k, None), r, IF replace THEN drops ELSE {})
    IN  IF replace /\ ~Reflects(r, i) THEN Fail(r)
        ELSE FoldSet(LAMBDA k, acc : Assign(acc, i, k, attrs[k]), bare, {k \in Keys : attrs[k] # None})

\* One SET item; an item on a null variable does nothing.
Apply(r, row, item) ==
    LET i == row[item.var]
    IN  CASE i = Null             -> r
          [] i # Null /\ item.set = "value" -> Assign(r, i, item.key, item.value)
          [] i # Null /\ item.set = "copy"  ->
                IF Unreadable(r, row[item.of]) THEN Fail(r)
                ELSE Assign(r, i, item.key, Property(r, row[item.of], item.key))
          [] i # Null /\ item.set = "node"  ->
                IF row[item.of] = Null THEN r ELSE ReplaceRef(r, i, item.key, row[item.of])
          [] i # Null /\ item.set = "map"   -> SetMap(r, i, item.attrs, item.replace)

ApplyAll(r, row, items) == FoldLeft(LAMBDA acc, item : Apply(acc, row, item), r, items)
Set(r, row, c) == Done(ApplyAll(r, row, c.items), <<row>>)

RemoveProperty(r, row, c) ==
    Done(IF row[c.var] = Null THEN r ELSE Assign(r, row[c.var], c.key, None), <<row>>)

Delete(r, row, c) ==
    Done(IF row[c.var] = Null THEN r ELSE DeleteNode(r, row[c.var], c.detach), <<row>>)

\* The nodes and relationships of CREATE (v:Label {attrs}), of
\* CREATE (from)-[:member]->(v:Label {attrs}) and, v being bound already, of
\* CREATE (from)-[:member]->(v).  A null endpoint is an error.
Create(r, row, c) ==
    LET isNew == c.var \notin DOMAIN row
        node  == IF isNew THEN CreateNode(r, c.pattern.label, c.pattern.attrs) ELSE r
        out   == IF isNew THEN Bind(row, c.var, r.next) ELSE row
        null  == \E v \in {c.var, c.from} \cap DOMAIN out : out[v] = Null
    IN  IF null THEN Done(Fail(r), <<>>)
        ELSE Done(IF c.from = None THEN node
                  ELSE CreateRelationship(node, out[c.from], c.member, out[c.var]), <<out>>)

\* The matches of the MERGE pattern over one row, its bound variables fixed.
\* Without an overlay, nothing is reached from a node the statement created.
Merged(r, row, c) ==
    LET here == IF c.from = None THEN DOMAIN View(r).nodes
                ELSE Expand(r, row[c.from], c.member)
    IN  IF c.var \in DOMAIN row THEN here \cap {row[c.var]}
        ELSE {i \in here : Satisfies(View(r).nodes[i], c.pattern)}

\* What the row would write: its bound ends, and the pattern of the rest.
MergeKey(row, c) == <<c, Restrict(row, {c.from, c.var} \cap DOMAIN row)>>

\* MERGE: every match with ON MATCH applied; else what this clause wrote for an
\* equal row; else the whole pattern is created and ON CREATE applied.
Merge(r, row, c) ==
    LET found == Sorted(Merged(r, row, c))
        outs  == [n \in 1 .. Len(found) |-> Bind(row, c.var, found[n])]
        key   == MergeKey(row, c)
        known == key \in DOMAIN r.pending /\ r.mode # "direct"
        fresh == Create(r, row, c)
    IN  IF \E v \in {c.var, c.from} \cap DOMAIN row : row[v] = Null THEN Done(Fail(r), <<>>)
        ELSE IF found # <<>>
          THEN Done(FoldLeft(LAMBDA acc, out : ApplyAll(acc, out, c.onMatch), r, outs), outs)
        ELSE IF known
          THEN LET out == Bind(row, c.var, r.pending[key])
               IN  Done(ApplyAll(r, out, c.onMatch), <<out>>)
        ELSE IF fresh.run.failed THEN fresh
        ELSE Done(ApplyAll([fresh.run EXCEPT !.pending = (key :> fresh.rows[1][c.var]) @@ @],
                           fresh.rows[1], c.onCreate), fresh.rows)

----------------------------------------------------------------------------
(* The pipeline.                                                           *)

Perform(r, row, c) ==
    CASE c.op = "match"  -> Match(r, row, c)
      [] c.op = "hop"    -> Hop(r, row, c)
      [] c.op = "create" -> Create(r, row, c)
      [] c.op = "merge"  -> Merge(r, row, c)
      [] c.op = "set"    -> Set(r, row, c)
      [] c.op = "remove" -> RemoveProperty(r, row, c)
      [] c.op = "delete" -> Delete(r, row, c)

IsWrite(c) == c.op \notin {"match", "hop"}

\* Positions an EagerBarrier stands before: around every write clause, and
\* only when the statement reads through the overlay.
Barriers == IF ~overlaid THEN {}
            ELSE {i \in 2 .. Len(stmt) : IsWrite(stmt[i])} \cup
                 {i + 1 : i \in {j \in 1 .. Len(stmt) : IsWrite(stmt[j])}}

\* The clauses that may pull a row: every barrier below them has drained.
Ready(i) == /\ queue[i] # <<>>
            /\ \A b \in Barriers : b <= i => \A j \in 1 .. b - 1 : queue[j] = <<>>

Drained == \A i \in 1 .. Len(stmt) : queue[i] = <<>>

NoStats == [nodesCreated |-> 0, nodesDeleted |-> 0,
            relationshipsCreated |-> 0, relationshipsDeleted |-> 0]

Fresh(d, mode, next) ==
    [mode |-> mode, read |-> d, draft |-> d, next |-> next, failed |-> FALSE,
     created |-> <<>>, changed |-> <<>>, gone |-> {}, addedEdges |-> {}, deletedEdges |-> {},
     deleted |-> {}, fresh |-> {}, made |-> <<>>, pending |-> <<>>, stats |-> NoStats]

Init ==
    /\ draft \in Drafts
    /\ overlaid \in BOOLEAN
    /\ phase = "idle" /\ stmt = <<>> /\ before = draft /\ queue = <<>>
    /\ run = Fresh(draft, "blind", Max(DOMAIN draft.nodes) + 1)
    /\ last = "none" /\ count = 0

\* A fresh engine over the baked draft; the writer takes its snapshot.
Begin(s) ==
    /\ phase = "idle" /\ count < MaxStatements
    /\ phase' = "running" /\ stmt' = s /\ before' = draft /\ count' = count + 1
    /\ queue' = [i \in 1 .. Len(s) + 1 |-> IF i = 1 THEN <<[v \in {} |-> Null]>> ELSE <<>>]
    /\ run' = Fresh(draft, IF overlaid THEN "overlay" ELSE "blind", run.next)
    /\ UNCHANGED <<draft, overlaid, last>>

\* Rollback restores the snapshot, before the commit and after it.
Restored ==
    /\ draft' = before
    /\ run' = [run EXCEPT !.draft = before]
    /\ phase' = "idle" /\ last' = "failed" /\ queue' = <<>> /\ stmt' = <<>>
    /\ UNCHANGED <<overlaid, before, count>>

\* One row of one clause.
Pull ==
    /\ phase = "running" /\ ~Drained
    /\ LET i   == Max({j \in 1 .. Len(stmt) : Ready(j)})
           did == Perform(run, Head(queue[i]), stmt[i])
       IN  \/ did.run.failed /\ Restored
           \/ /\ ~did.run.failed
              /\ run' = did.run /\ draft' = did.run.draft
              /\ queue' = [queue EXCEPT ![i] = Tail(@), ![i + 1] = @ \o did.rows]
              /\ UNCHANGED <<overlaid, phase, stmt, before, last, count>>

\* A cancellation probe throws between two rows, a projection after the commit.
Throws == phase \in {"running", "projecting"} /\ Restored

\* Validation errors of a draft; a commit refuses those Begin did not find.
Errors(d) == {<<i, k>> \in (DOMAIN d.nodes) \X Keys :
                 <<d.nodes[i].type, k>> \in Required /\ d.nodes[i].attrs[k] = None}

Commit ==
    /\ phase = "running" /\ Drained
    /\ \/ ~(Errors(draft) \subseteq Errors(before)) /\ Restored
       \/ /\ Errors(draft) \subseteq Errors(before)
          /\ phase' = "projecting"
          /\ UNCHANGED <<draft, overlaid, stmt, before, queue, run, last, count>>

\* The RETURN runs over the committed graph and the statement is over.
Finish ==
    /\ phase = "projecting"
    /\ phase' = "idle" /\ last' = "done"
    /\ UNCHANGED <<draft, overlaid, stmt, before, queue, run, count>>

Next == (\E s \in Statements : Begin(s)) \/ Pull \/ Throws \/ Commit \/ Finish

Spec == Init /\ [][Next]_vars

----------------------------------------------------------------------------
(* The reference: clause after clause, each over all its rows in order,    *)
(* reading the draft itself.                                               *)

InOrder(s, d, next) ==
    LET over(done, c) == FoldLeft(LAMBDA acc, row : LET did == Perform(acc.run, row, c)
                                                    IN  IF acc.run.failed THEN acc
                                                        ELSE Done(did.run, acc.rows \o did.rows),
                                  Done(done.run, <<>>), done.rows)
    IN  FoldLeft(over, Done(Fresh(d, "direct", next), <<[v \in {} |-> Null]>>), s).run

----------------------------------------------------------------------------

NodeIds == 1 .. run.next
IsDraft(d) ==
    /\ DOMAIN d.nodes \subseteq NodeIds /\ Base \subseteq DOMAIN d.nodes
    /\ \A i \in DOMAIN d.nodes : d.nodes[i].type \in Concepts /\ d.nodes[i].attrs \in [Keys -> Vals \cup {None}]
    /\ \A e \in d.edges : {e.from, e.to} \subseteq DOMAIN d.nodes

\* The draft is a graph at every step: every node has a concept and its
\* attributes, no edge dangles and no frozen node is lost.
TypeOK ==
    /\ IsDraft(draft) /\ IsDraft(before)
    /\ phase \in {"idle", "running", "projecting"} /\ overlaid \in BOOLEAN
    /\ last \in {"none", "done", "failed"} /\ count \in 0 .. MaxStatements

\* A statement that reads through the overlay sees, after every row, exactly
\* the draft its writer has built so far (write-overlay.ts).
ReadsItsWrites == phase = "running" /\ overlaid => Overlay(run) = draft

\* A single-valued reference holds one target whatever clauses, in whatever
\* order, wrote it (SetApplier.replaceRef, ModelDraftWriter.CreateRelationship).
SingleValued ==
    \A e \in draft.edges, f \in draft.edges :
        e.from = f.from /\ e.member = f.member /\ e # f =>
            \E x \in Fields : x.on \in Isa[draft.nodes[e.from].type] /\ x.name = e.member /\ x.many

\* Does the statement show the same without an overlay?  Only when it has a
\* single write clause and that clause reads no property.
Items(c) == CASE c.op = "set" -> Range(c.items)
              [] c.op = "merge" -> Range(c.onCreate) \cup Range(c.onMatch)
              [] OTHER -> {}
Comparable(s) ==
    \/ overlaid
    \/ /\ Cardinality({i \in 1 .. Len(s) : IsWrite(s[i])}) = 1
       /\ \A i \in 1 .. Len(s) : \A x \in Items(s[i]) : x.set # "copy"

\* A statement that has been committed did what its clauses do one after the
\* other, each over all the rows of the one before: no clause read half of
\* another's writes, no row was lost, no MERGE of an equal row wrote twice
\* (planner.ts barriers, MergeOperator, the overlay).
ClauseAtATime ==
    phase = "projecting" /\ Comparable(stmt) =>
        LET ref == InOrder(stmt, before, run.next - Cardinality(run.fresh))
        IN  ~ref.failed /\ ref.draft = draft

\* The counters a committed statement reports account for the difference it
\* made, the relationships of a detached node included (CypherWriteStats).
StatsAccount ==
    phase = "projecting" =>
        /\ Cardinality(DOMAIN draft.nodes) - Cardinality(DOMAIN before.nodes) =
               run.stats.nodesCreated - run.stats.nodesDeleted
        /\ Cardinality(draft.edges) - Cardinality(before.edges) =
               run.stats.relationshipsCreated - run.stats.relationshipsDeleted

\* A statement that failed left the draft as it found it, whatever threw: a
\* row, the cancellation, the validation or the projection (engine.ts).
FailureUndone == phase = "idle" /\ last = "failed" => draft = before

=============================================================================
