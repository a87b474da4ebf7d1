# TODL: a TLA+ model of the engine

TLA+ modules, TLC configurations and TLAPS proofs for
`@pragmatic-tech-ai/todl`, the engine of the Typed Object Definition Language.
Paths below are relative to the repository root. `PROJECT.json` names, for every
definition, the lines it models; for every run, the properties it checks and a
mutation of the code that each property rejects; and every hazard at its line.

1. [The system](#1-the-system)
2. [The modules](#2-the-modules)
3. [The runs](#3-the-runs)
4. [The proofs](#4-the-proofs)
5. [Where the code departs from its documentation](#5-where-the-code-departs-from-its-documentation)
6. [What is not modelled](#6-what-is-not-modelled)
7. [The plan](#7-the-plan)

To check a run or a proof, in this directory:

    tlc -workers 2 -config MCLanguageService_edits.cfg MCLanguageService.tla
    tlapm LanguageServiceProofs.tla

## 1. The system

TODL source texts are compiled to a model, a graph of nodes and typed edges. An
editor host keeps one *solution* open, a set of projects (*members*), and asks
the language service about it while texts, members, references and files change
under it. Projects are generated, built, published as packages and resolved
again as bases of other projects. Applications load compiled models, join them
with rows from external data sources, resolve which rows are one entity, and
query and edit the result.

| part | where (`src/src/`) | state | operations |
|---|---|---|---|
| solution manager | `solution-services/solution-manager/engine/` | the active `Solution`, its members and dirty flag, the manifest on disk, recent list and remembered solution | new, untitled, open, close, restore, save, save as, rename, open and close project |
| base resolver | `.../solution-base-resolver.ts` | compile cache, dependency map, members being compiled | resolve a base live or published, invalidate |
| language service | `solution-services/lsp/host/solution-language-service.ts` | maintenance queue, warmup promise, build state, generations, watchers, warm bases | keystrokes, lifecycle events, reads, dispose |
| solution graph | `solution-services/lsp/host/solution-graph.ts` | members, sources, the one model, provenance, diagnostics | build, replace a member, replace a file |
| parser, loader, validator | `compiler-services/parse/`, `validate/` | staged records, diagnostics | parse, load a list of files, validate |
| graph and repository | `compiler-services/model/`, `predicates/` | nodes and edges, memoised reads | commit, remove, alias, read |
| resolution pass | `compiler-services/resolution/` | clusters of instances, aliases | one pass over a model |
| emission and manifest | `compiler-services/emit/`, `manifest/` | tables, heaps, a cursor | lower, write, read, reflect |
| data-source adapters | `model-data/data-source-adapter-catalog.ts`, `reconnecting-adapter.ts` | opened adapters, their connection, a reopening under way | open, query and apply with retry, invalidate, dispose |
| working copy, model data | `model-data/connector-working-copy.ts`, `model-data-source.ts` | pending edits, write targets, entity cache | mark, flush, rebind, refresh |
| Cypher | `cypher/` | none; a write overlay per statement | parse, plan, read, write, unparse |
| domain | `domain/` | loaded manifests, import counts, one heap | load, unload, bind |
| project content | `solution-services/project-services/content/` | the folder tree, watchers, pending renames | list a folder, reconcile a watcher burst, file operations |
| project life | `solution-services/project-services/` | event subscribers, generated files, tracked projects | create, open, close, restore, change references, generate |
| property bags | `solution-services/property-bags/` | settings in three stores, selections | open, set, flush, migrate |
| packages and builds | `solution-services/package-manager/`, `*build-system*/` | connections and clients, registries, build outputs | resolve, build, publish, pack |

Everything runs on JavaScript event loops: a function runs alone to its next
`await`, and anything may happen before it goes on. There are no threads and no
locks, so the hard behaviour is what the awaits let in between:

- **Solution manager to language service.** `ActiveSolution` and member changes
  are raised as events. The service reacts by queueing maintenance on one promise
  chain (`pending`), except for `ReferencesChanged`, which it handles beside the
  queue. Maintenance awaits the warmup promise, which may reject and be retried.
- **Language service to base resolver and solution graph.** The service
  assembles bases and sources across awaits and hands them over in one
  synchronous call. What it read may be stale by then; the graph may throw; its
  `Changed` subscribers may throw too.
- **Solution graph to loader and resolution.** A load may throw half-way through
  a batch, and the resolution pass rewrites nodes nothing but a reload restores.
- **Builds, registries and domain.** A build publishes what the next project
  resolves; a domain loads what was published, recursively, across awaits.
- **Catalog to driver.** Callers share one adapter and one reopening of its
  connection; an invalidation retires both while their operations are in flight.
- **Working copy to connector.** Edits are flushed in batches over several
  sources, any of which may fail or lose its answer while others write.
- **Content store to disk.** Watchers report late, more than once, or not at all;
  a rename is two reports of one inode.
- **Save and restore.** The manager persists manifests and a session slice, bags
  persist settings, and the program starts again from them.

What makes each part correct:

- *language service*: an idle service holds the latest text of every file of the
  active solution that loads; it says Ready only of that solution; what it evicts
  it resolves again; it never stays Building; every request is answered; a
  disposed service does nothing more.
- *solution graph*: after any sequence of incremental revisions the model is what
  a full build of the same sources gives; an edit is taken whole or refused
  whole; every edit is announced, and the announcement covers what changed.
- *compiler*: damage to one member costs that member; a load does not depend on
  the order of its files; a remembered read is the fresh one; a manifest says
  what the graph it came from says.
- *resolution*: entities do not depend on load order, and nothing refers to an
  instance that was merged away.
- *solution manager*: unsaved work is marked and is never discarded unasked; what
  was saved opens as it was; the session reopens what was open.
- *adapters*: a retirement leaves no connection open that nobody will close; a fresh
  connection is not replaced for the failure of an old one; every call ends.
- *instance data*: an edit nobody confirmed stays pending; a guarded write loses
  no update; a statement that fails leaves nothing behind.
- *packages*: a base is compiled from what is current; a failed build leaves the
  last good output; what a registry lists can be fetched; what is loaded has its
  dependencies loaded.
- *project*: the tree shows what is on disk; editors follow their files; nothing
  of the user's is written over; settings that were chosen stay in effect.

## 2. The modules

| module | models |
|---|---|
| `LanguageService` | `SolutionLanguageService`, `MemberContentWatcher`, `ProjectRegistry` |
| `ModelBuild` | one load pass (`loader.ts`, `builder.ts`), stripping, full builds: operators only |
| `SolutionModel` | abstract: the solution's model is always one full build |
| `SolutionGraph` | `SolutionGraph`, refining `SolutionModel` |
| `AdapterCatalog` | `DataSourceAdapterCatalog`, `ReconnectingAdapter` |
| `SolutionManager` | `SolutionManagerService`, `Solution`, `SolutionManifest` |
| `ProjectFiles`, `ContentStore`, `MemberContentOps` | the storage of one project (external), the reactive tree over it, the operations on files with open editors |
| `PropertyBags`, `ProjectLife` | settings and connection selection; events, generators, scaffold |
| `Domain` | composing packages into one runtime graph |
| `BaseResolver`, `SolutionBuild`, `PackageRegistries`, `TarArchive` | live and published bases, building a solution, connections and registries, archives |
| `EntityResolution` | abstract: entities as closures of a matching relation |
| `Resolution` | `ResolutionPass`, `DisjointSet`, `Graph.alias`, refining `EntityResolution` |
| `DataAccess` | working copy, federated connector, `ModelDataSource` |
| `CypherExpressions`, `CypherQuery`, `CypherText`, `CypherWrite` | values and expressions, planner and paging, the text form, write statements |
| `RepositoryGraph`, `Loader` | graph and builder; the resolution law and the passes of a load |
| `Syntax` | the parser |
| `Predicates`, `MemoizedReads`, `Validation` | derived reads, their memo, the validator |
| `ManifestFile` | lowering to tables; the binary codec and its reader, with reflection |
| `MCLanguageService`, `MCSolutionGraph` | instances of these for TLC |
| `MCWorkspace`, `MCPackages`, `MCData`, `MCCompiler` | compositions of the other parts with their instances; `MCCypher` and `MCModels` hold the queries, statements and graphs they use |
| `LanguageServiceProofs`, `SolutionGraphProofs`, `AdapterCatalogProofs`, `DataAccessProofs` | theorems about one module |
| `PublishingProofs` | theorems about `PackageRegistries` and about `SolutionBuild`, each about that module's own specification |
| `WorkspaceProofs`, `ProjectProofs` | theorems about `MCWorkspace`: the solution manager; one project's files, settings and life |
| `PackagesProofs` | theorems about `MCPackages`: the domain and the base resolver, and the theorems of `PublishingProofs` carried over |

A composition has a variable `subject`: a behaviour is about one of its parts
and the variables of the others keep a constant value (`NoTree`, `NoBuild`, ...).
The parts composed this way share no state in the program that their properties
are about; the composition checks them in one run, each with its own instance.

A definition introduced by "Variant" or "Mutant" is not part of a model: it is
what a plausible mistake would have made of the definition after it, and
`PROJECT.json` pairs it with the property that rejects it.

### LanguageService

A step is what a task does between two awaits. The tasks are the warmup
(`"warm"`), the head of the maintenance queue (`"head"`) and one task per
`ReferencesChanged` event. `pc[t]` is the await a task stands at, `job[t]` what
it runs, and `todo`, `scope`, `origin`, `snap`, `resolved` are its locals: the
members left to read, the members read once at the start of an assembly, the
solution they belong to, the texts read so far, the bases just resolved. `queue`
holds the jobs chained on `pending` that have not begun. `live` counts the edits
of each live buffer and `disk` the files on disk, so a text is a version number.

| code | actions |
|---|---|
| constructor, `StartWarmup`, `Warmed`, `WarmAndSettle` | `Init`, `StartWarmup`, `MaintenanceWarmed`, `WarmupRejects`, `SettleWarmup`, `TimePasses` |
| `Enqueue` | `Dequeue` |
| `InvalidateMember`, `RefreshStaleMembers`, `RefreshWarmBases` | `Invalidate`, `ReadStale`, `ResolveBases`, `Register`, `DropStale`, `RefreshFails` |
| `RebuildGraphSafely`, `AssembleMembers`, `SettleBuild` | `Assemble`, `ReadSources`, `AssembleFails`, `Build`, `SettleSwitch` |
| `DidChange`, `ReplaceOwningFile`, `ReplaceOwningMember` | `DidChange`, `FindOwner`, `CheckLoaded`, `ReadOwnerSources`, `ReadOwnerSourcesFails`, `ReplaceFile`, `ReplaceMember` |
| `RewireMembers`, `MaintainMember`, `OnProjectEvent`, watchers | `SwitchSolution`, `InsertMember`, `RemoveMember`, `ReferencesChanged`, `Sweep`, `DiskChange` |
| feature requests, `dispose` | `Request`, `ResolveRetry`, `Dispose` |

`graph` is the text each loaded file has in the graph and `sourcesOf` the text last
handed over for it; they differ where a member was reloaded without some of its
files. Texts that do not load together are the constant `Colliding`, member sets
that do not build together the constant `Broken`. Which siblings `ReplaceFile`
reloads with a file depends on the texts, which this module does not have: any
subset of the member's files may be in the cone. A reload that throws ends in a
rebuild of the recorded sources, in one of the sources of before, so that the new
text is refused, or, when neither loads, in a graph that has lost files
(`ReloadWith`, `RebuildOrRestore`, `RepairFails`). Here no subscriber of `Changed`
throws; `SolutionGraph` has one that does.

An invalidation evicts the dependents found in `recorded`, the members the resolver
has in `baseIdsOf`. Only `CompileMember` adds to it, when someone asks for the
package of a meta-model or a library (`Producers`); the warmup and the refreshes
of warm bases compile and record nothing, and a switch clears it. `BaseIds` is
constant: a change of references changes what a member's bases are, not which
members it binds.

History: `graphOf`, the solution the graph came from; `buildFailed`; `want`, the
version of its bases a member's manifests ask for; `owed`, the version that a
change or an eviction of the member calls for; `missed`, the files of which a text
was refused and that have not been loaded again since.

### ModelBuild, SolutionModel, SolutionGraph

A text is a set of declarations, each with a name, attribute references (stored
on the node) and edge references (only edges); a model is nodes with their file,
edges, the unresolved references of each file and the nodes a resolution rule
folded. `LoadFiles`, `Strip`, `Resolved` and `FullBuild` are what the loader and
the graph do to it. The calls of `SolutionGraph` are synchronous, so each is one
action: `Build`, `ReplaceMember`, `ReplaceFile`, with `RepairFailedReplace`,
`Restore` and the emission of `Changed` inside them. `Cone` follows the loop of
`ReplaceFile` round by round, and a round may throw. `text` is what the workspace
holds: the host passes a member's current texts with every call, so a text the
graph refused comes along with the next edit of a sibling. `Habits` says how the
user, the texts and the subscribers behave in one behaviour: the tidy user mends a
refused text before touching a sibling, and the texts of the `linked` habit refer to
a sibling by an edge alone, which those of `tidy` never do (`attributed`).

`SolutionModel` says what readers may rely on: a request that builds takes
effect whole, one that does not changes nothing, and the model is always a full
build of the sources in force. `ImplementsModel` is the refinement; the mapping
keeps `members`, `sourcesOf`, `graph` and the request of the last call, while the
user mends and the texts are `attributed`. Where they are not, the code keeps less,
and `ImplementsModel` says how much (`OnlySiblingEdgesLost`): every node and stored
reference of a full build, and of its edges and diagnostics all but those of files
that refer to a sibling by an edge alone (section 5).

Abstractions: `Rank` is the order `TopoOrder` gives; texts refer only to members
their own member declares as bases; every declaration of a file may collide with
any other, but a text has no syntax errors (those only add diagnostics). A load
that throws part-way leaves the members before it loaded (`LoadedPrefix`).

### AdapterCatalog

One connector. `memo` is its entry in `opened`; an adapter slot holds how far its
opening is, its connection (`inner`), and its reopening with the connection that
replaces (`previous`); `call` holds the locals of `Run`, `retire` those of
`Invalidate` and `Dispose`. `Become` frees every object nobody refers to.

| code | actions |
|---|---|
| `Open`, `OpenReconnecting`, `OpenCore` | `Ask`, `Opened`, `OpenFails` |
| `Run`, `Classify` | `OpSucceeds`, `OpFails`, `Wake` |
| `Reopen`, `ReopenOrRethrow` | `StartReopen`, `Reopened`, `ReopenFails`, `PreviousDisposed` |
| `Invalidate`, `Dispose` of catalog and adapter | `Invalidate`, `Disposed`, `DisposeAdapter` |

`Dispose` of the catalog is `Invalidate` of its one connector. Connections are the
driver's: it may fail any opening, operation and disposal in any way at any await,
also of an adapter that is retired by then. `stray` is history: the open
connections a retired adapter was given by a reopening that began after its retirement.

### The workspace: SolutionManager, ContentStore, MemberContentOps, PropertyBags, ProjectLife

`SolutionManager`. A call slot holds one call of the UI and the await it stands
at (`pc`); edits, `CloseProject`, `StoreSession` and `Restart` run without one. A
solution object is a slot, free when neither `active` nor a call refers to it. A
member path is `<<"in", stem>>`, below its solution, or `<<"at", folder, stem>>`,
absolute. Settings and property bags are one number, the last edit they hold.
`saved` (what a solution held when last saved or loaded) and `agreed` (what the
user agreed to discard) are history. A write and the continuation after it are
one step.

| code | actions |
|---|---|
| `NewSolution`, `NewUntitledSolution`, `CloseSolution`, `canReplace` | `Begin`, `Answer`, `SetActiveNew`, `SetActiveUntitled`, `CloseSolution` |
| `OpenSolution`, `RestoreSession` | `Begin`, `FindManifest`, `ReadManifest`, `OpenMember` |
| `OpenProject`, `CloseProject` | `BeginOpenProject`, `AddProject`, `ProjectOpened`, `CloseProject` |
| `Save`, `SaveAs`, `Rename` | `BeginSave`, `SaveWritten`, `Pick`, `BeginSaveAs`, `SaveAsWritten`, `BeginRename`, `OldManifestExists`, `ManifestMoved` |
| settings, session store, program start | `Edit`, `StoreSession`, `Restart` |

`features` says which kinds of call and input one behaviour combines and never
changes. With `"overlap"` a call may begin while another runs. Most of what the
manager promises holds of one call at a time only (section 5), so those
properties have `OneAtATime` as hypothesis; `RecentAgrees` does not need it.

`ContentStore` is the lazy tree of one project's files. A folder is listed when
its first observer subscribes; a watcher of that directory then reports additions
and removals, buffered for a settle window in which a removal and an addition of
one inode are a rename. A folder's state object outlives its entry in the map
(`attached`), as a load or a timer holds it. The disk changes from anywhere.

`MemberContentOps` is rename, delete, create, import and move of a member's
files, with the editors open on them; each may fail at each storage call.

`PropertyBags`: a connection lives in a bag of the project, of the solution or of
the user, and the project's sidecar records the selected one. Every operation
opens the documents anew, changes them in memory and writes them back, across
awaits; a host may hold a persister open beside it. Both migrations are steps.

`ProjectLife`: a project is created, opened, closed and restored, its references
change; each moment is raised on the event bus, whose subscribers are awaited one
by one. The generators are a subscriber that compiles and writes files. The
content of a file is who wrote it and what it was compiled from.

### Packages: Domain, BaseResolver, SolutionBuild, PackageRegistries, TarArchive

`Domain`: a load is an asynchronous recursion, so each caller has a stack of
frames and a frame stops at each await; a reference is an identity or a bare
model pinned to the source's last version. Imports are counted, unloads refused
while they are positive, and the heap holds the nodes of every loaded seed.

`BaseResolver`: a task is one call of `TryGet` with the compiles below it on a
stack. A package records the stamps of everything it was compiled from (a version
of a member's sources, or a published copy), so freshness is a comparison of
stamps and not of contents.

`SolutionBuild`: projects are built dependencies first, each through the actions
of its build system into a staging folder that is promoted on success; any step
may fail, and what one project produced is what the next resolves.

`PackageRegistries`: connections with settings and a secret, the client cache
that is dropped when they change, local and HTTP registries whose publication is
several writes, and the closure of a set of packages.

`TarArchive`: packing and unpacking as functions of bytes, with the widths of the
header's fields as constants.

### Instance data: EntityResolution, Resolution, DataAccess, Cypher

A row of `EntityResolution` gives every field a number, 0 for undefined. It
defines an entity as the least set of live instances closed under `Matching`, its
canonical instance as its least member, and what one pass makes of fields,
references and relationships, without mentioning an order. `Resolution` is the
code: instances in load order, a bucket per rule signature, the union-find with
path compression, clusters in order, `Alias` redirecting edges one alias at a
time, `MergeField` over the contributions in member order. `EntitiesResolved`
says that it implements the former.

`DataAccess`: a target is one row of one source reached through one binding; a
value is the clock of the write that made it. Flushes go out in batches, whose
answer may be lost; other writers change rows at any await; a refresh may run
beside a flush.

`CypherExpressions` has values as tuples headed by their kind in the order of
`TypeRank`. `CypherQuery` compiles a clause to an operator, the sequence of rows
it yields, and its machine is a client that pages through a query while the graph
is rebuilt between pages. `CypherText` renders a query and parses it back, on
tokens. `CypherWrite` runs a statement clause by clause: rows are pulled, eager
barriers hold clauses back, the overlay lets a statement read its own writes, and
a failure or a cancellation at any row undoes them.

### The compiler: Syntax, Loader, RepositoryGraph, Predicates, MemoizedReads, Validation, manifests

`Syntax` has the grammar as data, one definition per production, run by the
cursor operators at its end. Its machine is an author who damages one token of a
file. `RepositoryGraph` is the typed graph with the two-phase commit of staged
edits; ids are sequences of segments, so qualification is concatenation.
`Loader` walks the references of a declaration, has the one resolution law, and
takes one pass of a load a step, over a record that holds what was
staged and diagnosed. `Predicates` are subtype and instance reads and derived
members, `MemoizedReads` a memo beside edits of the graph. `Validation` computes
the set of diagnostics of a graph. `ManifestFile` lowers a graph to rows, writes
and reads the bytes (in numbers of a small base) and has the read surface over one manifest, which the code calls reflection.

## 3. The runs

Times are with two workers. Every property of a passing run has a mutation of the
code that TLC rejects under the same configuration.

| run | configuration | what it shows |
|---|---|---|
| `ls_edits` (2 min) | two solutions, three members (one clashes with another), three files, one edit per file, texts that do not load, one switch, one member opened and closed, one failing warmup, one read; and one reference change beside two failing warmups, a read and compiled packages | `TypeOK`; Ready is said of the active solution (`ReadyIsActive`); idle and Ready, the graph holds the latest texts but of files with a refused one (`InStep`); idle, what a reference change evicted has been resolved again (`EvictedRefreshed`); the retry of a read never overlaps another rebuild (`RetryRunsAlone`) |
| `ls_live` (2 min) | one member, one file, any one awaited read fails; with fairness | `BuildingHasSettler`, `DisposedIsInert`; full builds settle (`BuildSettles`), requests are answered (`RequestsAnswered`) |
| `sg_edits` (3 min) | a chain of three members, two sibling files with a dependent, siblings linked by an edge alone, and texts that collide; subscribers throw, or refused texts linger | `TypeOK`; `RevisionsSound`: no edge dangles, an edit that builds is never reverted, every edit is announced; the refinement and what is left of it for linked siblings (`ImplementsModel`); a change lists everything it touched (`ChangeCovers`) |
| `ad_connections` (1 min) | two callers, one invalidation, two adapters, three connections, three attempts; with fairness | the only connection nobody will close is one that an operation had opened after the retirement of its adapter (`OnlyRevivedLeak`); only a connection that failed is replaced, and everything that was asked ends (`FailuresEnd`) |
| `ws_projects` (3 min) | per part: two folders, two projects, two call slots; a tree of depth two with two changes on disk; two calls on files with editors, one after the other, each failing anywhere; two connections and three documents; four moments in a project's life | `WorkspaceTypeOK`, `SessionSound`, `SolutionsKept`, `TreeMirrorsDisk`, `EditorsFollow`, `NothingOverwritten`, `ProjectKept` |
| `pk_published` (4 min) | per part: diamonds and cycles of six packages and two callers; a chain, a diamond and a cycle of members with two tasks; three projects with every failure; two registries with three publications; archives around the header's widths | `PackagesTypeOK`, `DomainSound`, `BasesLive`, `BuildSound`, `CacheCurrent`, `PublishedIsUsable` |
| `da_instances` (3 min) | per part: one or two sources under one instance; eleven instances in two layers; statements of clauses that disturb one another; queries on small graphs; every expression of depth two | `DataTypeOK`, `EditsKept`, `WritesGuarded`, `EntitiesResolved`, `StatementsSound`, `QueriesSound` |
| `co_files` (4 min) | per part: every token of every body; every list of up to four of a pool's files; edits between reads; every small graph of aspects and concepts; manifests in both forms | `CompilerTypeOK`, `MemberDamageIsLocal`, `LoadSound`, `ReadsAgree`, `TypeFaultsSeen`, `ManifestSound` |

Four more runs end in a violation; section 5 describes them.

**Bounds.** `MaxEdits`, `MaxSwitches` and the other `Max` constants of
`LanguageService` bound events of the environment, never the service. One edit
per file, one switch and one change of membership put every pair of these events
on either side of every await. All of them together do not fit in minutes, so
`Mixes` lists the kinds that one behaviour may combine: `ls_edits` explores
edits with a switch, failing warmup and read; edits of a loaded and an unloaded
file with a switch; an edit with a member opened or closed and a switch; an edit
with one opened and one closed, two with one closed; a change of references with
failing warmups, a read and compiled packages. A change of references is not
combined with a switch there, nor with an edit, since the code breaks
`ReadyIsActive` and `InStep` then (section 5); `ls_live` combines the first two.
`Habits` and `Workloads`
do the same for which texts meet in one workspace and what is loaded together:
chains of three members reach transitive dependents, two sibling files that
refer to each other reach the second round of a cone, and a member that is its
own base reaches the cycle error. Four instances are the fewest that form a
chain through every kind of rule and are collapsed in two layers. In
`SolutionManager` two calls are the fewest that overlap, two names reach the
rename of a manifest onto another. In `AdapterCatalog` a second adapter slot is
opened while the first is being retired, the third connection is open while two
others are closing, and three attempts are the program's own
`DefaultRetryPolicy`; an instance of three adapters and four connections has
two million states and satisfies the safety properties too. Two changes on disk put a
removal and an addition of one inode in either order within a settle window; of two
file operations in a row the second meets what the first, perhaps failed half way,
left; two writes of a working copy are the
fewest of which the second finds the first's version (with three, 1.4 million
states, the properties hold too). Four moments of a project's life are creation,
an opening, a change of references and a fault between them. `SYMMETRY` permutes
call slots and observers in `ws_projects` and tasks in `pk_published`, which no
property tells apart. The pools of texts, files, graphs and queries are listed in
the `MC` modules with the case each is there for.

**Deadlock** is checked in `sg_edits` and `ad_connections`. A language service
with nothing left to do rests, and so do a workspace at its bounds, a finished
build, a loaded list of files and a query that was read to its end; their
configurations say `CHECK_DEADLOCK FALSE`.

**Fairness.** `LanguageService!FairSpec` asks that the queue advances and that
each task takes its next step: the event loop runs every continuation that is
ready, and the awaited storage answers or fails. Users, disks and event sources
are not fair; `TimePasses` is not either, since nothing needs the retry window to
close. `AdapterCatalog!FairSpec` asks the same of drivers and timers, caller by
caller and adapter by adapter: an opening answers or fails, an operation succeeds
or fails, a sleep ends, a disposal settles. Nothing makes them succeed. A driver
that never answers would leave its caller waiting for ever; the code has no
timeout for it.

## 4. The proofs

Eight modules prove 40 named results, each for every value of the constants that
the assumptions of the modelled component allow.

| module | theorem | says | checked by |
|---|---|---|---|
| `LanguageServiceProofs` | `TypeCorrect` | `Spec => []TypeOK` | `ls_edits` |
| | `NeverStranded` | `Spec => []BuildingHasSettler` | `ls_live` |
| | `DisposedInert` | `Spec => DisposedIsInert` | `ls_live` |
| | `RetryAlone` | `Spec => []RetryRunsAlone` | `ls_edits` |
| | `ReadyTrue` | `Spec => []ReadyIsActive`, where no references change | `ls_edits` |
| | `KeptInStep` | `Spec => []InStep`, where neither references nor the disk change and no read fails | `ls_edits` |
| | `KeptFresh` | `Spec => []EvictedRefreshed`, with one change of references, one switch, no other maintenance of a member and no failing read | `ls_edits` |
| `SolutionGraphProofs` | `TypeCorrect` | `Spec => []TypeOK` | `sg_edits` |
| | `EdgesJoin` | no edge of the model dangles, for every habit | |
| | `Revisions` | `Spec => []RevisionsSound`, with steady habits | `sg_edits` |
| | `NodesBuilt` | the nodes are those of a full build, where refused texts are mended | |
| | `KeepsPromise` | members, sources and requests implement `SolutionModel` | |
| `WorkspaceProofs` | `SessionKept` | `WorkspaceSpec => []SessionSound`, with `Apart` | `ws_projects` |
| | `SolutionsAreKept` | `WorkspaceSpec => SolutionsKept`, with `Apart` | `ws_projects` |
| `ProjectProofs` | `EditorsAreFollowed` | `WorkspaceSpec => []EditorsFollow`, with `MaxCalls = 1` | `ws_projects` |
| | `NothingIsOverwritten` | `WorkspaceSpec => NothingOverwritten`, with `MaxCalls = 1` | `ws_projects` |
| | `ProjectIsKept` | `WorkspaceSpec => []ProjectKept`, with `ReadsFail = FALSE` and `LateEdits = FALSE` | `ws_projects` |
| | `FilesAreKept`, `SettingsAreKept`, `LifeIsKept` | the inductive invariants of the calls on files, the settings and the life | |
| | `EditsKept` | no writer writes over an edit made before it looked, without hypotheses | within `NothingOverwritten` |
| `AdapterCatalogProofs` | `TypeCorrect` | `Spec => []TypeOK` | |
| | `OnlyRevivedLeaks` | `Spec => []OnlyRevivedLeak` | `ad_connections` |
| | `FailedReplaced` | a connection is replaced only after it failed | |
| `DataAccessProofs` | `UnwrittenIsPending`, `HandlesAreCurrent` | `Spec => []UnwrittenStaysPending`, `Spec => []HandlesCurrent` | within `EditsKept` |
| | `NoUpdateIsLost`, `ConflictsAreForeign` | `Spec => NoLostUpdate`, `Spec => OnlyForeignConflicts` | within `WritesGuarded` |
| | `CopyIsKept`, `TypeIsOK` | the inductive invariant; `Spec => []TypeOK` | within `DataTypeOK` |
| `PublishingProofs` | `ClientsAreCurrent` | `RegistriesSpec => []CacheCurrent`, with `"build" \notin Overlaps` | within `CacheCurrent` |
| | `RegistriesTyped` | `RegistriesSpec => []RegistriesTypeOK` | within `PackagesTypeOK` |
| | `BuildsInOrder` | `SolutionBuild`'s `Spec => [](TypeOK /\ OrderSound /\ FailureStops /\ PromotedOnSuccess)` | within `BuildSound` |
| | `CompilesAgainstFresh` | `Spec => []CompiledAgainstFresh`, with `SelfContained` requests | within `BuildSound` |
| `PackagesProofs` | `DomainIsSound` | `PackagesSpec => []DomainSound`, when no unload lands inside a load | `pk_published` |
| | `DomainHolds` | what of the domain needs no hypothesis | within `DomainSound` |
| | `CompilesAreSingle` | the base resolver is in the compile of a member once at a time | within `BasesLive` |
| | `BuildsAreSound` | `PackagesSpec => []BuildSound`, with `SelfContained` requests | `pk_published` |
| | `CachesStayCurrent` | `PackagesSpec => []CacheCurrent` | `pk_published` |
| | `PartsAreTyped` | `PackagesSpec => []PackagesTypeOK` | `pk_published` |

### The language service

From `NamesAssumption`, `ShapeAssumption`, `CollidingAssumption` (a load throws on
what is there, never on what is missing) and `BoundAssumption`.
`BuildingHasSettler` says that a service which reports Building has, on its queue
or under way, the full build of the latest generation. It is not inductive: from
a state where a *start* job stood at the await of an assembly, the settler could
vanish. The inductive invariant is

    IInv == TypeOK /\ PcOK /\ NoWarmQueued /\ BuildingHasSettler

where `PcOK` lists the awaits each kind of job can stand at (so that a warmup or
a switch under way always goes on to its settle), and that a warmup runs on the
warmup task only, and `NoWarmQueued` that no warmup is queued (so that dequeuing
never begins a second one). Types are preserved action by action
(`TypeWarmupRejects` to `TypeDispose`). Control is preserved along the shapes
the steps have: `MoveControl` for a task that moves to another await of its own
kind and is not settling, `WakeControl` for a settling warmup that resumes its
awaiters, `MaintControl` for a task that may restart the warmup, `StayControl`
for events that only append to the queue; a switch appends the settler of the
generation it begins. `DisposedInert` needs no invariant: each step that writes
the graph or the build state tests `disposed` first.

`RetryAlone` adds an invariant of the warmup and of who awaits it. `ReadyTrue`
adds what the generations promise: a graph that belongs to another solution is
about to be rebuilt by a job of the latest generation, and only that job can
settle the state; and a full build that throws leaves the state Failed. Its
hypothesis is necessary: a rebuild for a change of references runs beside the queue
and may bring back the solution just left while the state is Ready.

`KeptInStep` says that no keystroke is lost, for any number of switches, of members
opened and closed and of rejected attempts, and any texts that do not load together,
where the run has one of each. Its invariant (`KeepsUp`) has four cases: the service
is disposed; a whole rebuild is still to be assembled, on the queue, ahead of an
attempt, or at the head (`Rebuilding`); an assembly under way is of the present
members and has read present text (`ReadCurrent`); or no assembly is under way and
the graph is present (`Loaded`) or the last full build threw, which a Ready service
has not. Present means, of each file (`Held`): the graph and the record have its
latest text; or its replacement is `Late`, on the queue or at the head and of the
file's latest generation; or it missed a revision. A keystroke makes its file late; a
change of the members or of the solution queues a rebuild; a rejected attempt drops
the maintenance that waited for it, but the next attempt rebuilds all. A replacement
may write a cone of siblings because what it has read of each is its present text or
text that another queued replacement is to follow; it may reload a dependent from
the record because the record is held present too, whatever the repairs
(`KnownOK` keeps the record and the members of the graph together). The hypotheses
are necessary (section 5). TLC checked `KeepsUp` and the rest of the invariant on
the mixes of `ls_edits` before they were proved.

`KeptFresh` is for any members, files, packages compiled and number of rejected
attempts. For every member of the active solution its bases are no older than what
is `owed` or a refresh is `Coming`: the last attempt was rejected, an attempt has the
member still to do, or the one change waits, is about to read the list that has
it, or has it on its own list. `StoresOK` is what makes it inductive: bases read by
an attempt before the change and stored after it are stale, but the change then
waits for that very attempt. A second change, or another maintenance of a member
beside it, may take over the shared list; a second switch may come back to a member
that was left with old bases (section 5). What it does not say is that the evicted
members are all that depend on the changed one: they are not, which is
`ls_stale_bases`.

### The solution graph

From `ShapeAssumption`, `RankAssumption` and the others of `ModelBuild` and
`SolutionGraph`. A load of some files homes their declarations and leaves other
nodes alone, and throws exactly when two of the declarations that would then be
in the graph clash. So stripping and reloading *any* part of a graph that holds
what the sources declare gives one that holds what the edited sources declare,
and throws exactly when a full build of those would (`Reload`). Cones of files,
members with their dependents, repairs and restores are all such reloads; the
induction over rounds of `Cone` and over members in `LoadedPrefix` is an argument
by a least counterexample. `Revisions` then says that a repair either finishes
the edit or restores sources that build. Its hypothesis (`Steady`) excludes one
combination: refused texts that linger *and* a subscriber that throws, where an
edit that builds is reverted (section 5).

`KeepsPromise` is the refinement of `SolutionModel` without its last clause: what
is in force, and which requests take effect. That the *edges* and diagnostics of
the incremental model are those of a full build needs, besides, that references
follow declared bases and that an attribute reference accompanies an edge between
siblings, which is a fact about the texts; it stays with `sg_edits`
(`ImplementsModel`), and so does what is left without the second, while
`NodesBuilt` proves the nodes.

### The adapters

Every action ends in `Become`, which frees what nobody refers to any more. The
invariant (`Sound`) is therefore stated of the five values `Become` is given, each
action is shown to give it sound ones, and one lemma (`BecomeSound`) makes the
next state sound from them. It says which slots refer to a connection in each
stage of opening, reopening and retiring. Of a retired adapter it tells apart the
reopening that was under way when its connection came to be disposed, which the
retirer waits for, from one begun since (`revived`), which nobody waits for: its
connection is the stray one `OnlyRevivedLeak` allows, and the only one.

### The working copy

`DataAccessProofs` is about the specification of `DataAccess` itself, since
`MCData`, which runs it, also reaches recursive operators. The assumption is
`CopyAssumption`, which `MCData` asks TLC to evaluate for its instance: finitely
many rows, each with an owner and a binding, and `None` is no value. The inductive
invariant (`Copied`) has five parts. `Flushing` says that the operations begun
have distinct rows, a batch is of one binding and a binding has one batch, and
how far the batch is (`Progress`); the two together are why a rolled-back
transaction keeps all its operations and nothing else. `Remembered` says of every
target whose last edit is not confirmed that it is still to be flushed: its
operation is unanswered, or is retained, or the flush has not begun. The flush
looks at the mark an operation carries, so both hold while a refresh lands; an
edit during a flush is excluded by the property (section 5).

`Undisturbed` is about versions, and is what the two properties of guarded writes
need. That a row and the copy agree on the version must imply that they agree on
the row, also of versions the copy learns later, so the invariant bounds them:
no version is above `clock + faults + 2`, and one less while a write of that row is
outstanding (`Credit`), which is spent when the write gets its answer or, without
an answer, by the fault. `Agree` then says that the version held is the row's only
if the row did not change since. All steps that answer operations, whole batches,
single ones, conflicts and lost answers, are instances of one relation
(`Answers`), so the invariant is preserved by one lemma (`AnswersKept`) and the
two properties are read off it. TLC checked the invariant before it was proved,
on `da_instances`' plans with `refresh` and `edit` during a flush (629,811 states)
and without them, with three writes and two faults (4.5 million states). Were
`OtherWrites` to begin a re-inserted row at the version of a write whose answer was
lost, TLC would find `NoLostUpdate` violated, at six writes.

### The connections of the package manager

`ClientsAreCurrent` and `RegistriesTyped` are about the specification of
`PackageRegistries` itself; the assumption is `RegistriesAssumption`, that settings
have a first revision. `CacheCurrent` looks
at a connection when no change of it is under way, so its invariant (`Kept`) must
say what a change leaves behind at each of its awaits. `StepsOf` lists what each
kind of change may still have to do. While the first step is ahead (`Untouched`)
the client is current; after it, nothing is known of the client until the step that
drops it, which every change ends with unless it fails (`torn`) or finds that the
connection does not exist. That last way out is the one that matters: a change of
the token stores the secret *before* it looks for the connection, so the invariant
adds that a connection with a client exists at that point (`Stored`), and there the
change cannot leave early. A client that is being built has read the settings as
they are. The hypothesis is the value the run gives the constant, and is
necessary: with `"build"` the client may be built from settings read before a
change and cached after it (section 5). TLC checked the invariant with and without
`"build"` before it was proved (2.5 million states without it).

### Building a solution

The assumption is `BuildAssumption`: a request names known projects only. The
order in which a solution is built is computed by a recursive depth-first search,
a recursive *function* here (`Visit`, on the set of ids on the stack), so that the
definition can be reasoned about at all: a lemma by a least counterexample over
the room that is left, `Cardinality(Ids) - Cardinality(stack)`, says that the
function exists and is the one equation the code has, and the same argument gives
what a visit returns (`VisitOK`): the order is only extended, without repetition,
each project after what it depends on, and a cycle is reported exactly when one is
reachable. Closures are least closed sets.

`BuildInv` has five parts. `PlanOK`: the plan is without repetition, dependencies
first, complete for the target, and empty exactly on a cycle. `StatusOK`: statuses
fill the plan from the front, and after a failure there are only skips.
`PipelineOK` and `OutputOK` are about the actions of one project and its folder:
the output of a project that is not built is what it was, but for the report.
`PushedOK` says that what a published project binds was built. `FailureStops`,
`OrderSound` and `PromotedOnSuccess` follow.

`CompiledAgainstFresh` needs `FreshOK` besides: what was built is registered with
the package it compiled to (`BuiltOK`), every compiled package was made of this
build's packages of its siblings and of nothing external that this build makes
(`CompiledOK`), and the resolved bases of the project under way are the closure of
its bindings, all found (`ReadyOK`). The step that matters is the compile: that no
external copy of a sibling is in a closure. An external package can lead back into
the solution, and then the copy may well be taken. In the smallest such solution
`lib`, external, depends on `m1`; `m2` binds `lib`; `m3` binds `m1` and `m2`. Nothing
orders `m1` before `m2`, so `m2` is compiled against the external `m1` and `m3`
against both. The hypothesis

    SelfContained(s) == no project binds a version of itself, and an external
                        package depends on a project only where it is itself a
                        copy of a project, which binds that project

excludes exactly this: TLC finds `CompiledAgainstFresh` violated by that request,
and all requests of `pk_published` satisfy it. The proof is about the seven
actions of the npm build system in their order (`AllStages`).

### The parts of packages

`PackagesProofs` proves about `MCPackages`' own specification, for any packages,
dependencies (cycles included), seeds, workspaces, requests and bounds, so
`DomainSound`, `BuildSound`, `CacheCurrent` and `PackagesTypeOK` are the formulas
`pk_published` checks. The theorems about the registries and about the build are
those of `PublishingProofs`: a behaviour that starts as one of these parts is a
behaviour of that part's specification (`RegistriesBehave`, `BuildBehaves`), in a
behaviour about another the property holds because the subject never changes.

*The domain* (`DomainInv`), from `DomainAssumption`. `Shape` and `Chained` describe
the recursions under way: each frame is for a dependency of the one below it.
`Guarded` has what the hypothesis buys: what is imported or being loaded is
registered, one recursion holds a package once, and, when loads do not overlap, the
finalized manifests are ordered dependencies first, except within a cycle and after
what a failed load left (`Lost`). `RefcountsHonest` is about the number of edges
into a package, which is no induction hypothesis: a load counts an import before
the manifest that holds it is finalized. `Counts` is therefore stated of `Slots`,
the places that hold a dependency, in a finalized manifest or in a frame that is
still loading; every step moves, adds or drops places one at a time, and at rest the
places are the imports (`ImportsAre`). A count is never below the places, and equal
to them unless a load threw or loads or an unload overlapped: the first half needs
no hypothesis and is in `DomainHolds`. That no unload lands inside a load is
necessary (section 5) and is what the run's mixes are.

*The base resolver* (`Resolved`), from `BasesAssumption`. That a member is compiled
once at a time rests on a mark set before the first await of the compile and taken
away in its `finally`. The invariant says that the marked members are those on the
stacks of the calls (`Marked`) and that they are on them once (`OnceEach`), while
members are bound, opened, closed and edited at any moment; that the stacks are
no deeper than there are members is the pigeonhole principle.

### The solution manager within the workspace

`WorkspaceProofs` proves about `MCWorkspace`'s own specification, for any
folders, projects, names, mixes and bounds, so `SessionSound` and `SolutionsKept`
are the very formulas `ws_projects` checks; in a behaviour about another part
they hold because the manager's variables do not move. The inductive invariant
(`Managed`) has three parts: the shape of the objects and of each call at each
await (`Objects`), what is stored around them, with the recent list
(`Around`), and, when calls do not overlap, what the call under way knows
(`Alone`, `CallFits`): the solution it replaces is clean or was given up, the
content it writes is the active solution's, no member has the path it will add.
Every step of a call is `Step`, which keeps the objects somebody refers to, so
one lemma (`StepKeeps`) says what `Step` needs and each operation has one lemma
on top. That a free slot and a free member id exist is the pigeonhole principle
(`SlotFree`, `MemberIdFree`); that filtering the recent list keeps its order is
shown by a least counterexample (`WithoutShape`). TLC checked the invariant on
all four mixes (876,255 states) before it was proved. The hypothesis is

    Apart == \A M \in Mixes : Single(M) /\ "edit" \in M
                                 => M \cap {"openProject", "closeProject"} = {}

since opening a project into an untitled solution clears the dirty flag of its
edited settings (section 5). The run's mixes satisfy it.

### One project in the workspace

`ProjectProofs` has one part for each of three subjects; in a behaviour about
another subject their variables do not move. Three assumptions of `MCWorkspace`
are used: the disks a behaviour starts with are trees
(`DisksAssumption`), a name has at least one variant (`VariantsAssumption`), and
`None` is none of the values it stands beside (`NoneAssumption`).

*Calls on files* (`FilesInv`). The disk is a tree: it holds the parent folders of
all it holds. The call under way knows that the target it found free still is
free, and every editor holds the path of its own file, unless it is below a path
that a delete has erased and has not yet told the guard. That last disjunct is
what makes `EditorsFollow` inductive, since the guard is told of a batch's
deletes at its end, also when one of them failed. The lemmas about paths carry
the weight: carrying a path to a new folder and back is the identity
(`CarriedBack`), a move leaves what is outside the folder and carries what is
inside (`MoveCarries`), and the result is a tree again (`MoveKeepsTree`), as it is
after a write (`PutTree`) and an erasure (`EraseTree`). `MaxCalls = 1` is
necessary: with two calls at once TLC finds `EditorsFollow` violated (section 5).

*Settings* (`SettingsInv`). Each operation opens its documents, changes them and
writes them across awaits, so the invariant says what is still true of each at
each await (`TaskKnows`): the local document has the key of the last pick unless
the operation writes one, the solution has not been migrated while a migration
runs, the manifest is as the field's editor read it. Of a persister that a host
holds, `HeldKnows` says that a clean one has written what it holds. Adding,
removing and replacing a connection keep a bag with one entry per connection and
at most one default (`PutGood`, `DropGood`, `OnlyDefaultGood`). An unreadable
manifest and an edit during a flush do violate the property (section 5); the two
hypotheses are the values the run gives these constants.

*Life* (`LifeInv`), without hypotheses. At every await of every call, either the
generated model is of the references in force, or something failed and is
excused, or the generator of the model has still to be called for the moment
being raised (`Due`): it is ahead among the subscribers, or running. Subscribers
that unsubscribe while a moment is raised are why `Due` looks at the copy of the
list that the bus iterates. An open member is in the session or its call is about
to add it (`Tracked`). `LooksFirst` says that between its look at a file and its
write no user has written it unnoticed, from which `EditsKept` follows step by
step.

TLC checked the three invariants on the run's instance before they were proved
(198,876, 20,573 and 28,647 distinct states).

### What stays with TLC

- Liveness under fairness: `BuildSettles`, `RequestsAnswered`, and the
  termination half of `FailuresEnd`.
- What a recursive definition computes for every input. `MCData` and `MCCompiler`
  reach `RECURSIVE` operators (the recursion of grammar, expressions and tables),
  in whose presence the SMT backend is not available, and most of their properties
  compare two recursive computations: `ReadsAgree`, `ManifestSound`, `LoadSound`,
  `QueriesSound`, `StatementsSound`, `EntitiesResolved`; and so their type
  invariants. What of `EditsKept` is about one module is proved there
  (`DataAccessProofs`).
- Of `MCPackages`, the last two conjuncts of `BasesLive` and `PublishedIsUsable`.
  `CacheFresh` and `ClosureAgrees` compare a walk that is cut into steps, between
  which members change, with the walk made in one go by a recursive function of
  the bindings; `PublishedIsUsable` is about what `Pack`, `Unpack` and the closure
  of a registry compute from their data, byte by byte and package by package.
- `ReadyIsActive`, `InStep` and `EvictedRefreshed` beyond the hypotheses of their
  theorems, where they do not hold (section 5), and `ChangeCovers`, which like the last clause of
  `ImplementsModel` depends on which references the texts have.
- Of `MCWorkspace`, `WorkspaceTypeOK` and `TreeMirrorsDisk` (section 7). The tree
  agrees with the disk only once all that is under way has settled, so its
  invariant must describe every buffered report of the watchers.

## 5. Where the code departs from its documentation

| run | violated | in short |
|---|---|---|
| `ls_switch_registry` | `EveryMemberHasProject` | a switch rebuilds the graph and never registers the new members' projects, so `ProjectFor` is null for their files |
| `ls_stale_bases` | `BasesFresh` | a change of references refreshes the dependents the resolver has on record, and a service that was only warmed up has none: they keep the bases of before |
| `sm_absolute` | `MembersReopen` | a member outside the solution folder is saved by its absolute path and opened by that path below the folder |
| `mf_annotations` | `AnnotationsResolve` | an annotation type that is also the type of a field gets a second row, and the coded references to the annotations after it name the row before theirs |

Also seen while modelling, each by TLC with the constants given or, where none
are, while reading; the passing runs leave the inputs out, and the hazards of
`PROJECT.json` name the lines of the most serious.

**Language service**

- A `ReferencesChanged` rebuild runs beside the queue: assembled before a
  keystroke and committed after its replace, it takes the text back (`InStep`, with
  an event and an edit in one mix), although the graph is "kept in step by a
  targeted ReplaceMember on each live edit".
- `ls_edits` with `MaxDisk = 1` and `Mixes = {{"disk"}}`: a file that appears while
  a watcher makes its first sweep never reaches the graph (`InStep`). A project
  opened into the active solution is inserted before its storage is known and gets
  no watcher at all.
- `ls_edits` with `{"references", "switch"}` in one mix: Ready is reported for
  another solution's graph (`ReadyIsActive`), when a rebuild assembled before a
  switch commits between the switch's build and its settle.
- `ls_stale_bases` is the comment on `RefreshStaleMembers` ("`Invalidate` evicts the
  changed member PLUS its transitive dependents"). The test of it compiles the
  dependents first (`World.Prime`), which is what fills `baseIdsOf`; a warmup does
  not, an architecture is never compiled that way, and a switch empties it.
- Two changes of references, or one while a member is closed (two `Events`; or
  `"references"` with `"remove"`): `StaleMemberIds` is read after an await and belongs
  to the other invalidation by then; the bases of before stay (`EvictedRefreshed`).
- With `MaxSwitches = 2` and a change of references: a project whose references
  change while its solution is not active keeps its old bases when the solution is
  opened again, since a switch rebuilds the graph and refreshes no bases.
- A text that does not load is replaced by the last-good sources and the call returns:
  the service rests Ready, with no error and behind the text, though
  `LastGraphBuildError` is there "so a consumer can tell the graph is stale rather
  than silently up to date". `InStep` leaves out exactly those files (`missed`). A
  refused text is read again with the next edit of a sibling, which is then refused
  for it; when neither the new nor the recorded sources load, the graph is left
  without the files that were stripped.
- A keystroke whose sources cannot be read, or whose repair throws, sets
  `lastGraphBuildError` while the state stays Ready; a later replace that succeeds
  does not clear it.

**Solution graph and resolution**

- `ReplaceFile` removes the edges into the changed file before it looks for the
  files that refer to it, so a sibling linked by an edge alone (`extends`, a
  relationship) is not reloaded, and keeps neither the edge nor a diagnostic for it.
  A comment says that siblings are found that reference the changed set "by edge,
  instance-type, class, ..." (`solution-graph.ts`, lines 326 to 334), a test that an
  incremental replace leaves the same graph as a full build. The `linked` habit of
  `sg_edits` has these siblings; that the graph is a full build fails there after two
  calls, and `OnlySiblingEdgesLost` says what holds.
- With a habit whose texts are not mended: a repair may throw and end without an
  event, or leave a model that is no full build (`ImplementsModel`). With a
  throwing subscriber besides, an edit that builds is reverted (`RevisionsSound`).
- A member that refers into a member it does not declare as a base is not reloaded
  with it.
- A merge may complete the fields of a rule of several fields, so a second pass can
  merge more (`RepeatKeeps` is stated of one-field rules); a later layer's
  references to instances aliased earlier are not rebound, so the workloads put
  references in one layer.

**Solution manager**

- With `"overlap"` and without the `OneAtATime` of the property: a project opened
  twice at once is a member twice (`MembersOnce`); one opened while the solution is
  replaced is added to the old one (`OpenedIntoActive`); an edit during a save is
  no longer dirty (`UnsavedIsDirty`); an edit during an open is discarded unasked
  (`NothingLostUnasked`); a save that ends after a close makes the closed solution
  the remembered one (`ClosedIsForgotten`).
- With `"edit"` and `"openProject"` together: opening a project into an untitled
  solution clears the dirty flag of its edited settings (`UnsavedIsDirty`).
- Renames and saves can leave two manifests in a folder; opening takes either.

**Project content**

- A subscriber that joins a load misses the entries before it, though
  `ObserveChildren` says it "neither re-loads nor double-emits".
- A renamed collapsed folder is watched again, and the later expansion leaks that
  watcher past dispose; unsubscribing during a load lets it arm one too, and so
  does the load of a folder that was dropped.
- Within one settle window, an entry added and removed leaves a ghost child, and
  two names that swap lose one path. Changes between the listing and the watch
  are missed; removals buffered for a renamed subtree keep the old paths.
- An entry that vanishes before its `Stat` rejects the load, and the folder stays
  `loading`; a failed `Stat` in `onFileChange` is an unhandled rejection.
- A rename while the folder is collapsed loses the id that `byIno` is said to keep.
- Observing an unknown folder id lists the root; a load goes on emitting after
  dispose; re-listing reuses the node of another kind.
- Two file operations at once: `Exists` and then rename or write lets the second
  write over the first's result (`NothingOverwritten` is of one at a time). With
  `MaxCalls = 2` editors are lost too (`EditorsFollow`): a delete has erased `a/b`,
  a rename of `a` carries the editor of the erased file along, and the path that
  the delete then reports closes it no longer.

**Settings and project life**

- A selected connection of *project* scope never takes effect: `ScopeOf` makes an
  address without the project's store, whose key equals no visible one.
- `Flush` marks a persister clean after its await, so an edit during the flush is
  lost when nothing else is edited (`LateEdits = TRUE`, `CleanIsWritten`). A manifest
  that cannot be read at that moment is taken for `{}`, and every field outside the
  bags is dropped (`ReadsFail = TRUE`, `FieldsKept`), though a flush is said to be
  "preserving every other manifest field". Two persisters of one document overwrite
  each other. A crash between the migration's flush and the solution's save runs
  it again; a failed read of the old connections never migrates them.
- Overlapping changes of references may leave the older generated model; a
  generator that fails on creation leaves a folder in which a second try is
  refused; an open whose type does not resolve leaves the member untracked; a
  failure between the two writes of a concept's views leaves them half wired.
- An edit between a generator's check and its write is written over; `late` marks
  such edits and `EditedKept` excludes them.

**Packages**

- `BaseResolver`: "every member that transitively binds it" is dropped by manifest
  bindings alone: a member that binds a published package whose recorded
  dependency is an open member keeps its stale compile (hypothesis
  `PublishedApart`). A second `TryGet` of a member under compile takes the
  published copy; a compile in flight when it is invalidated is cached afterwards.
- `SolutionBuild`: files of an earlier build stay in the output and are reported as
  artifacts; a storage failure leaks the sandbox; a sibling reached through an
  external package may be compiled against the external copy; publication may
  happen for some projects before a later one fails.
- `PackageRegistries`: a client built while its connection changes stays in the
  cache with the old settings or secret (`CacheCurrent`, with `"build"` in a mix);
  `GetContent` throws for a client that cannot be built though it "throws only if
  none do"; `SetToken` of an unknown connection stores the secret and then throws;
  the latest version is chosen as a string; publishing an older version over HTTP
  moves `latest`; a closure fetches `latest` whatever the pins; an interrupted
  local publication leaves a version without a manifest, a repeated one old files.
- `TarArchive`: a path with a space is cut at it when unpacked; a long absolute
  path loses its first slash; the cut at the last fitting `/` refuses paths another
  cut would fit.
- `Domain`: two loads at once register an identity twice; a load that failed leaves
  a husk, so a second composition reports no diagnostic; references counted by a
  failed load are not given back, and members of a cycle cannot be unloaded; an
  unload within a load breaks what `DependentsKept` says, and no mix has it.

**Instance data**

- `DataAccess`: a version is a number the row carries, so both properties of guarded
  writes rest on other writers not using one again: `OtherWrites` begins a
  re-inserted row above every version there was, and a source that begins it at 1
  again lets a stale write match (`NoLostUpdate`). Rows of two sources share one
  version member, so `NoLostUpdate` is of single sources; a deleted row that is upserted comes back; deletes are
  unguarded; a refresh during a flush puts new versions on old attributes and emits
  before it forgets the old entities; edits during a flush are forgotten.
- Cypher: MERGE consults `pending` whenever nothing matches, with the overlay too,
  though that is for a graph that "cannot see this query's own writes"; the names
  of anonymous variables restart with each path; an untyped relationship with
  parallel edges makes a converging join depend on the order; `Literal(-5)` is
  named differently after a round trip through text.

**Compiler**

- `Syntax`: an error in a body that does not recover ends the namespace at that
  body's `}` and silently drops the rest; a bad concurrency value makes recovery eat
  the next member; one malformed declaration may swallow others although
  `synchronize` is said to keep it from that. `MemberDamageIsLocal` says what holds.
- `Loader`: `commit` drops the edges whose target is missing, not those "touching
  undefined ids"; undefined parts of a composite and annotation arguments vanish
  silently; a bare taxonomy term may be reported undefined; a name declared in two
  files of one namespace throws; the merge of a split model depends on the order of
  its files, which `OrderedByCode` excludes from `LoadOrderFree`.
- `Validation`: not every cycle "is reported once"; members of a cyclic type are
  not checked; a record's own `binds` is warned about.
- Manifests: a `fixed` value of a field nobody declares gets field row 0; fields of
  aspects and a second `extends` parent are not in the manifest; a cycle of broader
  terms loops; counts are cut to sixteen bits; concepts in an `extends` cycle emit
  an aspect's invariants nowhere.

**Adapters**

- An operation begun before an invalidation that fails after it, of a lost
  credential or a second time in a row, reopens the retired adapter, and nobody
  disposes that connection; so it goes when the invalidation is awaiting the disposal
  the operation fails under. `Dispose` is documented "Releases any driver
  connection/pool held by this adapter" (`data-source-adapter.ts`, line 25). The
  connections are those of `stray`.
- An authentication failure on a new connection, while the reopening that made it
  still disposes the old one, joins that reopening and is retried on the same
  connection. The streak of transient failures is not reset by the reopening it
  causes, so one more failure reopens again. Both stay within `MaxAttempts`.

## 6. What is not modelled

- The analysis engine and its providers, the graph query API: read-only answers
  over a graph slice; matching itself is in `CypherQuery`. `ContextFor` and the
  cache keyed by the base token are left out; `token` counts the bumps.
- Publishing (a compile and a sequence of writes), code generation, authoring and
  migration, the application facades: text generation and single-caller helpers.
- The language server and checker binaries, grammars, test projects and scripts:
  process entry points, vendored or generated code.
- Storage, registries, archives, drivers: outside the process; they answer, fail
  or are slow in the models that await them. `ProjectFiles` is the storage as its
  callers use it.
- Of the modelled parts: source spans and wording of diagnostics; literals beyond
  what a rule tells apart; string functions and read limits of Cypher;
  `ModelDataSource.Apply` and remote connectors; package contributors and host
  gathering of a domain; secrets and names in bags; deliberate refresh of a
  scaffold, bundles and baked presentations; handles of opened projects; the
  `Decisions` log of the resolution pass; version bumping and provider packs of
  adapters; tokens and the host hop of reflection.

## 7. The plan

The models cover the plan; what is left is proofs, in this order.

1. `WorkspaceTypeOK`, part by part; the invariants of section 4 have most of it.
2. `TreeMirrorsDisk`: what each buffered report and each listing under way lacks.
3. `CacheFresh` of `BaseResolver`: the walk under way against the walk in one go.
4. The edges of `ImplementsModel`, under a hypothesis on the texts.
