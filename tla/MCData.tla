------------------------------- MODULE MCData --------------------------------
(* Instance data, one part at a time: a behaviour edits a working copy and    *)
(* writes it to its sources, or loads layers and resolves their entities, or  *)
(* writes through the Cypher overlay, pages through a query or sends one as   *)
(* text.                                                                    *)
EXTENDS Resolution, TLC

CONSTANTS
    Subjects, Absent,
    inst1, inst2, r1, r2, r3, b1, b2, Plans, MaxWrites, MaxFaults, MaxReads, Overlaps,
    Params, Concepts, Isa, References, Required, Keys, Vals, Drafts, Statements, MaxStatements,
    Queries, Graphs, Supers, RelTypes, MaxVarLength, PageSizes, MaxTaken, Models

VARIABLES
    subject,
    plan, row, clock, faults, node, writeTargets, pending, flush, read, built, document,
    entities, shown, seen, mark, owed, meanwhile,
    draft, overlaid, phase, stmt, before, queue, run, last, count,
    graph, query, taken,
    model, sent

copying == <<plan, row, clock, faults, node, writeTargets, pending, flush, read, built,
             document, entities, shown, seen, mark, owed, meanwhile>>
writing == <<draft, overlaid, phase, stmt, before, queue, run, last, count>>
reading == <<graph, query, taken>>
sending == <<model, sent>>

(***************************************************************************)
(* Entities: customers (1 to 4) identified by one field at a time; partners   *)
(* (5, 6) too, with references among them and their accounts (7, 8); contacts *)
(* (9 to 11) by pairs of fields, of which the class of one fixes some.        *)
(***************************************************************************)

MCFields == {"storage", "email", "phone", "label"}
MCConcepts == << "Customer", "Partner", "Account", "Contact" >>
MCConceptOf == [i \in Instances |-> CASE i < 5 -> "Customer" [] i \in {5, 6} -> "Partner"
                                      [] i \in {7, 8} -> "Account" [] OTHER -> "Contact"]
MCSourceOf == [i \in Instances |-> IF i \in {2, 6, 10} THEN "crm" ELSE "erp"]

Row(s, e, p, l) == [storage |-> s, email |-> e, phone |-> p, label |-> l]

(* A key, or a match rule, of one field each; or the email alone and the    *)
(* phone and the label together.  The label is merged, the phone is not.    *)
MCRuleOrder == [Customer |-> << {"storage"}, {"email"}, {"phone"} >>,
                Partner |-> << {"storage"}, {"email"} >>, Account |-> << {"storage"} >>,
                Contact |-> << {"email"}, {"phone", "label"} >>]
MCRules == [c \in DOMAIN MCRuleOrder |-> {MCRuleOrder[c][n] : n \in DOMAIN MCRuleOrder[c]}]
MCMergeRules == [c \in DOMAIN MCRuleOrder |->
    [f \in MCFields |-> CASE f = "label" -> "latest" [] f = "email" -> "crm" [] OTHER -> "none"]]

(* Customers joined by storage, by email and by phone, in chains.           *)
MCRows == [i \in Instances |->
    CASE i = 1 -> {Row(0, 1, 0, 0), Row(0, 0, 2, 1)}
      [] i = 2 -> {Row(1, 1, 0, 2), Row(0, 2, 1, 1)}
      [] i = 3 -> {Row(1, 0, 2, 3), Row(0, 1, 1, 0)}
      [] i = 4 -> {Row(2, 2, 2, 1), Row(1, 2, 0, 0)}
      [] i = 5 -> {Row(0, 1, 0, 0)}
      [] i = 6 -> {Row(0, 1, 0, 2)}
      [] i \in {7, 8} -> {Row(1, 0, 0, 0)}
      [] i = 9 -> {Row(0, 1, 0, 0), Row(0, 2, 2, 1)}
      [] i = 10 -> {Row(0, 1, 2, 2), Row(0, 2, 1, 1)}
      [] i = 11 -> {Row(0, 0, 2, 1), Row(0, 0, 0, 2)}
      [] OTHER -> {Row(0, 1, 2, 1), Row(0, 0, 1, 2)}]
MCClassRow == [i \in Instances |-> IF i = 11 THEN Row(0, 2, 0, 0) ELSE Row(0, 0, 0, 0)]

Ref(v, a, b) == [via |-> v, from |-> a, to |-> b]
MCLinks == {Ref("knows", 5, 6), Ref("knows", 6, 5), Ref("knows", 6, 6),
            Ref("owns", 6, 8), Ref("instanceOf", 8, 6),
            Ref("knows", 10, 11), Ref("knows", 9, 11), Ref("instanceOf", 11, 10)}
MCRelations == {"knows", "owns"}

(* References among contacts stay in one layer, as those among partners do. *)
MCWorkloads == {[instances |-> 1 .. 4, layers |-> 2], [instances |-> 5 .. 8, layers |-> 1],
                [instances |-> 9 .. 11, layers |-> 1]}

(***************************************************************************)
(* The parts, and the cases of the others.                                  *)
(***************************************************************************)

(* One instance of one row, one drawn from two sources.                     *)
Axes(optimistic, transactional, transacts) ==
    [owner |-> r1 :> inst1 @@ r2 :> inst2 @@ r3 :> inst2, binding |-> r1 :> b1 @@ r2 :> b1 @@ r3 :> b2,
     writable |-> {b1, b2}, optimistic |-> optimistic, transactional |-> transactional,
     transacts |-> transacts]
SomePlans == {Axes({b1}, {b1}, {b1, b2}), Axes({b1}, {}, {b1, b2}),
              [Axes({b1, b2}, {b1}, {b2}) EXCEPT !.writable = {b1}]}

Cases == INSTANCE MCCypher
OneParameter == [w |-> <<"num", 1>>]
SomeIsa == Cases!MCIsa
SomeReferences == Cases!MCFields
SomeRequired == Cases!MCRequired
SomeDrafts == Cases!MCDrafts
SomeStatements == Cases!MCStatements
SomeQueries == Cases!MCQueries
SomeGraphs == Cases!MCGraphs
SomeSupers == Cases!MCSupers
SomeModels == Cases!MCModels

Copy == INSTANCE DataAccess
            WITH Targets <- {r1, r2, r3}, Instances <- {inst1, inst2}, Bindings <- {b1, b2},
                 None <- Absent, graph <- document
ASSUME RowsAssumption == Copy!CopyAssumption
Writer == INSTANCE CypherWrite WITH None <- Absent, Base <- {1}, Fields <- References
Reader == INSTANCE CypherQuery
Sender == INSTANCE CypherText

NoCopy ==
    /\ plan = Absent /\ row = Absent /\ clock = Absent /\ faults = Absent /\ node = Absent
    /\ writeTargets = Absent /\ pending = Absent /\ flush = Absent /\ read = Absent
    /\ built = Absent /\ document = Absent /\ entities = Absent /\ shown = Absent
    /\ seen = Absent /\ mark = Absent /\ owed = Absent /\ meanwhile = Absent
NoWriter ==
    /\ draft = Absent /\ overlaid = Absent /\ phase = Absent /\ stmt = Absent
    /\ before = Absent /\ queue = Absent /\ run = Absent /\ last = Absent /\ count = Absent

DataInit ==
    /\ subject \in Subjects
    /\ InitPass
    /\ IF subject = "copy" THEN Copy!Init ELSE NoCopy
    /\ IF subject = "write" THEN Writer!Init ELSE NoWriter
    /\ IF subject = "query" THEN Reader!Init
       ELSE graph = Absent /\ query = Absent /\ taken = Absent
    /\ IF subject = "text" THEN Sender!Init
       ELSE model = Absent /\ sent = Absent

Flush == subject = "copy" /\ Copy!Next
         /\ UNCHANGED <<subject, allVars, writing, reading, sending>>
Merge == subject = "entities" /\ NextPass
         /\ UNCHANGED <<subject, copying, writing, reading, sending>>
Write == subject = "write" /\ Writer!Next
         /\ UNCHANGED <<subject, allVars, copying, reading, sending>>
Read == subject = "query" /\ Reader!Next
        /\ UNCHANGED <<subject, allVars, copying, writing, sending>>
Send == subject = "text" /\ Sender!Next
        /\ UNCHANGED <<subject, allVars, copying, writing, reading>>
DataNext == Flush \/ Merge \/ Write \/ Read \/ Send
DataSpec ==
    DataInit /\ [][DataNext]_<<subject, allVars, copying, writing, reading, sending>>

(***************************************************************************)
(* The properties of the parts.                                            *)
(***************************************************************************)

(* Each part's variables hold what its code can put there.                  *)
DataTypeOK ==
    /\ TypeOK
    /\ subject = "copy" => Copy!TypeOK
    /\ subject = "write" => Writer!TypeOK
    /\ subject = "query" => Reader!TypeOK
    /\ subject = "text" => Sender!TypeOK

(* An edit that no source has confirmed stays pending, whatever failed, was   *)
(* rolled back or lost its answer, and a cached handle reads the document the *)
(* source now reflects.                                                     *)
EditsKept == subject = "copy" => Copy!UnwrittenStaysPending /\ Copy!HandlesCurrent

(* A guarded write never replaces a change of another writer that the copy    *)
(* has not seen, and conflicts with nothing else.                           *)
WritesGuarded == Copy!NoLostUpdate /\ Copy!OnlyForeignConflicts

(* Entity resolution implements the order-free specification: whatever the    *)
(* order of the loads, it finds the entities that one names.  It repeats      *)
(* without a change where rules are of one field, and leaves no reference to  *)
(* an alias and no relationship of an entity unreachable from its live        *)
(* instance.                                                                *)
EntitiesResolved ==
    /\ Init
    /\ [][subject = "entities" => Next /\ RepeatKeeps]_allVars
    /\ [](AliasesReachLive /\ ReferencesRebound /\ RelationsReachLive)

(* A statement reads what it wrote, each clause sees all rows of the one      *)
(* before, and a statement that fails leaves the draft as it was, with every  *)
(* change it made counted once.                                             *)
StatementsSound ==
    subject = "write" =>
        /\ Writer!ReadsItsWrites /\ Writer!ClauseAtATime
        /\ Writer!FailureUndone /\ Writer!StatsAccount /\ Writer!SingleValued

(* The rows of a planned query are the matches of its clauses, a source that  *)
(* is handed the pushed-down part returns no other rows, the pages of a       *)
(* query cover its rows once each, and a query sent as text means the same.   *)
QueriesSound ==
    [][/\ subject = "query" =>
            Reader!RowsAreMatches /\ Reader!PushDownSound /\ Reader!PagesCover
       /\ subject = "text" => Sender!TextMeansTheSame /\ Sender!TextEnds]_<<reading, sending>>
=============================================================================
