--------------------------- MODULE LanguageService ---------------------------
(***************************************************************************)
(* SolutionLanguageService (src/solution-services/lsp/host): one shared    *)
(* solution graph for the active solution, kept in step with live edits,   *)
(* membership, references and the disk by asynchronous maintenance.        *)
(*                                                                         *)
(* The code runs on one JavaScript event loop.  A step of this module is   *)
(* what a task does between two awaits.  The tasks are the warmup, the     *)
(* head of the serialized maintenance queue, and one task per              *)
(* ReferencesChanged event, which the code does not put on the queue.      *)
(***************************************************************************)
EXTENDS Naturals, Sequences, FiniteSets

CONSTANTS
  Solutions,      \* the solutions a user can open
  NoSolution,     \* ActiveSolution === undefined
  Members,        \* projects that can be members of a solution
  Files,          \* .todl URIs the source collect admits
  Owner,          \* Owner[f]: the member under whose root f lies
  BaseIds,        \* BaseIds[m]: the members that m binds as bases
  Producers,      \* members that are a meta-model or a library
  InitialMembers, \* InitialMembers[s]: the members of s when it is opened
  InitialDisk,    \* the files on disk at the start
  Broken,         \* member sets whose build throws (duplicate id, cycle)
  Colliding,      \* <<file, text>> pairs that do not load together
  Events,         \* one task identity per ReferencesChanged event
  Readers,        \* feature requests (ModelView, Resources, ProjectFor)
  MaxEdits, MaxSwitches, MaxInserts, MaxRemoves, MaxDisk,
  MaxWarmFailures, MaxReadFailures,
  Mixes           \* which kinds of event one behaviour may combine

Scopes == Solutions \cup {NoSolution}

ASSUME NamesAssumption ==
  /\ NoSolution \notin Solutions
  /\ {"warm", "head"} \cap Events = {}

ASSUME ShapeAssumption ==
  /\ Owner \in [Files -> Members]
  /\ BaseIds \in [Members -> SUBSET Members] /\ Producers \subseteq Members
  /\ InitialMembers \in [Scopes -> SUBSET Members]
  /\ InitialMembers[NoSolution] = {}
  /\ InitialDisk \subseteq Files
  /\ Broken \subseteq SUBSET Members

(* A load throws on a node that is already there: on what is loaded with    *)
(* it, never on what is missing.                                            *)
ASSUME CollidingAssumption ==
  \A c \in Colliding : c # {} /\ c \subseteq Files \X (Nat \ {0})

ASSUME BoundAssumption ==
  {MaxEdits, MaxSwitches, MaxInserts, MaxRemoves, MaxDisk,
   MaxWarmFailures, MaxReadFailures} \subseteq Nat

Tasks == {"warm", "head"} \cup Events
Absent == 0            \* a file the graph does not hold
Unregistered == 0      \* a member the project registry does not hold

(* MaintainMember, the content watcher and OnProjectEvent all end in InvalidateMember. *)
Invalidating == {"insert", "remove", "changed", "references"}
Replacing == {"replace", "replaceMember"}
Job == [kind : Invalidating, arg : Members, gen : Nat]
       \cup [kind : Replacing, arg : Files, gen : Nat]
       \cup [kind : {"none", "warm", "switch", "start", "retry"}, arg : {NoSolution}, gen : Nat]
Plain(kind, arg) == [kind |-> kind, arg |-> arg, gen |-> 0]
NoJob == Plain("none", NoSolution)

VARIABLES
  active, membersOf,   \* SolutionManagerService.ActiveSolution and its Members
  disk, live,          \* files on disk; edits in each live buffer (0: none)
  want,                \* version of a member's base closure, as manifests now say
  disposed,
  queue,               \* the jobs chained on `pending`, not yet started
  job, pc,             \* what each task runs, and the await it stands at
  todo, scope, origin, snap, resolved,  \* the locals of a task
  warmup, warmupFailed, throttled,      \* the current attempt; failed; < 1000 ms ago
  retryQueued, reader, \* the shared retry of direct reads; each read
  graph, graphMembers, \* text version per loaded file; membersById
  sourcesOf,           \* text version last handed over per file, loaded or not
  lastError,           \* lastGraphBuildError !== undefined
  graphOf,             \* history: the solution the graph was assembled from
  buildFailed,         \* history: the last full build threw
  missed,              \* history: files with a refused revision, not reloaded since
  buildState, switchGen, replaceGen,
  bases, staleIds, token,
  recorded,            \* the members in the resolver's baseIdsOf
  owed,                \* history: the version a change or an eviction calls for
  watcher,
  used                 \* how often the environment used each bounded event

world   == <<active, membersOf, disk, live, want, used>>
locals  == <<todo, scope, origin, snap, resolved>>
warming == <<warmup, warmupFailed, throttled, retryQueued, reader>>
shared  == <<graph, graphMembers, sourcesOf, lastError, graphOf, buildFailed, missed>>
build   == <<buildState, switchGen>>
caches  == <<bases, staleIds, token, recorded, owed>>
vars == <<world, disposed, queue, job, pc, locals, warming, shared, build,
          replaceGen, caches, watcher>>

Opened(s) == membersOf[s]
FilesOf(m) == {f \in Files : Owner[f] = m}
(* Variant: a file with no text is reported as undefined instead of left out. *)
SourceLeaksUndefined(f) ==
  IF live[f] > 0 THEN live[f] + 1 ELSE IF f \in disk THEN 1 ELSE NoSolution
(* SourcesForMember: the live buffer wins over the file on disk. *)
Source(f) == IF live[f] > 0 THEN live[f] + 1 ELSE IF f \in disk THEN 1 ELSE Absent
Has(m) == m \in graphMembers
HasFile(f) == sourcesOf[f] # Absent
EmptyText == [f \in Files |-> Absent]
Loads(text) == \A c \in Colliding : \E p \in c : text[p[1]] # p[2]

(* withDependents, and DependentsOf of the graph: m and those of `among`    *)
(* that bind it, directly or through one another.                           *)
WithDependents(m, among) ==
  LET closed(ms) == \A d \in among : BaseIds[d] \cap ms # {} => d \in ms
  IN {d \in Members : \A ms \in SUBSET Members : m \in ms /\ closed(ms) => d \in ms}

(* The kinds of event that have happened (an edit is of the kind of its     *)
(* file), and whether one more kind goes with them.                         *)
Happened ==
  {what \in DOMAIN used : used[what] > 0} \cup {f \in Files : live[f] > 0}
  \cup {what \in {"switch"} : switchGen > 0}
  \cup {what \in {"compile"} : recorded # {}}
  \cup {what \in {"references"} : \E e \in Events : job[e] # NoJob}
  \cup {what \in {"request"} : \E r \in Readers : reader[r] # "idle"}
Mixable(what) == LET kinds == Happened \cup {what} IN \E mix \in Mixes : kinds \subseteq mix

Use(what) == Mixable(what) /\ used' = [used EXCEPT ![what] = @ + 1]
ReadFails == used["read"] < MaxReadFailures /\ Use("read")   \* an awaited read rejects
Goto(t, to) == pc' = [pc EXCEPT ![t] = to]
Settled(failed) == IF failed THEN "Failed" ELSE "Ready"

Init ==
  /\ active \in Scopes /\ membersOf = InitialMembers
  /\ disk = InitialDisk /\ live = [f \in Files |-> 0]
  /\ want = [m \in Members |-> 1]
  /\ disposed = FALSE
  \* constructor: StartWarmup, then RewireMembers wires watchers but no rebuild
  /\ queue = <<Plain("start", NoSolution)>>
  /\ job = [t \in Tasks |-> IF t = "warm" THEN Plain("warm", NoSolution) ELSE NoJob]
  /\ pc = [t \in Tasks |-> IF t = "warm" THEN "bases" ELSE "idle"]
  /\ todo = [t \in Tasks |-> IF t = "warm" THEN Opened(active) ELSE {}]
  /\ scope = todo
  /\ origin = [t \in Tasks |-> NoSolution]
  /\ snap = [t \in Tasks |-> EmptyText]
  /\ resolved = [t \in Tasks |-> [member |-> NoSolution, version |-> Unregistered]]
  /\ warmup = "running" /\ warmupFailed = FALSE /\ throttled = FALSE
  /\ retryQueued = FALSE /\ reader = [r \in Readers |-> "idle"]
  /\ graph = EmptyText /\ graphMembers = {} /\ sourcesOf = EmptyText
  /\ graphOf = NoSolution /\ lastError = FALSE /\ buildFailed = FALSE /\ missed = {}
  /\ buildState = "Building" /\ switchGen = 0
  /\ replaceGen = [f \in Files |-> 0]
  /\ bases = [m \in Members |-> Unregistered] /\ staleIds = {} /\ token = 0
  /\ recorded = {} /\ owed = [m \in Members |-> 1]
  /\ watcher = [m \in Members |-> IF m \in Opened(active) THEN "warming" ELSE "none"]
  /\ used = [what \in {"insert", "remove", "disk", "warm", "read"} |-> 0]
------------------------------------------------------------------------------
(* The warmup promise: what a task awaiting it does once it settles.  A     *)
(* switch and a retry tolerate a rejection; maintenance is dropped by it.   *)

(* Variants: a rejected warmup strands the switch and the queued retry;     *)
(* maintenance goes on after a rejection.                                   *)
AfterWarmNoCatch(kind, ok) ==
  CASE ok /\ kind = "switch" -> "assemble"
    [] ok /\ kind = "retry"  -> "resolve"
    [] ok /\ kind \in Invalidating -> "invalidate"
    [] ok /\ kind \in Replacing -> "owner"
    [] OTHER -> "idle"
AfterWarmIgnoresRejection(kind, ok) ==
  CASE kind = "switch" -> "assemble" [] kind = "retry" -> "resolve"
    [] kind \in Invalidating -> "invalidate" [] OTHER -> "owner"

AfterWarm(kind, ok) ==
  CASE kind = "switch" -> "assemble"
    [] kind = "retry"  -> "resolve"
    [] ok /\ kind \in Invalidating -> "invalidate"
    [] ok /\ kind \in Replacing -> "owner"
    [] OTHER -> "idle"

(* Variant: a request resumes only when the warmup it awaits succeeds.       *)
ReaderAfterSuccessOnly(w) == CASE w = "ok" -> "served" [] OTHER -> "warm"

ReaderAfter(w) == CASE w = "running" -> "warm" [] w = "ok" -> "served" [] OTHER -> "rejected"

(* StartWarmup, with task t going on to `next` as task job j. *)
StartWarmup(t, j, next) ==
  /\ warmup' = "running" /\ warmupFailed' = FALSE
  /\ job' = [job EXCEPT ![t] = j, !["warm"] = [Plain("warm", NoSolution) EXCEPT !.gen = switchGen]]
  /\ pc' = [pc EXCEPT ![t] = next, !["warm"] = "bases"]
  /\ todo' = [todo EXCEPT !["warm"] = Opened(active)]
  /\ scope' = [scope EXCEPT !["warm"] = Opened(active)]

(* await Warmed(true) by task t running job j: retried inline, at most once *)
(* per MaintenanceRetryMs.                                                  *)
MaintenanceWarmed(t, j) ==
  IF warmupFailed /\ ~throttled
  THEN StartWarmup(t, j, "warm")
  ELSE /\ job' = [job EXCEPT ![t] = j]
       /\ Goto(t, IF warmup = "running" THEN "warm" ELSE AfterWarm(j.kind, warmup = "ok"))
       /\ UNCHANGED <<warmup, warmupFailed, todo, scope>>

(* The attempt settles: every task and read awaiting it resumes. *)
WakeAwaiters(ok) ==
  /\ warmup' = IF ok THEN "ok" ELSE "rejected"
  /\ pc' = [t \in Tasks |-> IF t = "warm" THEN "idle"
                            ELSE IF pc[t] = "warm" THEN AfterWarm(job[t].kind, ok) ELSE pc[t]]
  /\ reader' = [r \in Readers |-> IF reader[r] = "warm" THEN ReaderAfter(warmup') ELSE reader[r]]

WarmupRejects(t) ==
  /\ t = "warm" /\ pc[t] = "bases" /\ todo[t] # {}
  /\ used["warm"] < MaxWarmFailures /\ Use("warm")
  /\ WakeAwaiters(FALSE)
  /\ warmupFailed' = TRUE /\ throttled' = TRUE
  /\ buildState' = IF ~disposed /\ job[t].gen = switchGen THEN "Failed" ELSE buildState
  /\ UNCHANGED <<active, membersOf, disk, live, want, disposed, queue, job, locals,
                 retryQueued, shared, switchGen, replaceGen, caches, watcher>>

TimePasses ==
  /\ throttled /\ throttled' = FALSE
  /\ UNCHANGED <<world, disposed, queue, job, pc, locals, warmup, warmupFailed, retryQueued,
                 reader, shared, build, replaceGen, caches, watcher>>
------------------------------------------------------------------------------
(* The queue: pending = pending.then(work).catch(() => undefined).          *)

(* The first segment of a job, up to its first await. *)
Dequeue ==
  /\ pc["head"] = "idle" /\ queue # <<>>
  /\ queue' = Tail(queue)
  /\ LET j == Head(queue)
         quiet == <<warmup, warmupFailed, scope>>
     IN \/ /\ j.kind = "switch"
           /\ job' = [job EXCEPT !["head"] = j]
           /\ Goto("head", IF warmup = "running" THEN "warm" ELSE "assemble")
           /\ UNCHANGED <<quiet, todo, retryQueued, reader>>
        \/ /\ j.kind = "start"
           /\ job' = [job EXCEPT !["head"] = j] /\ Goto("head", "sweep")
           /\ todo' = [todo EXCEPT !["head"] =
                         {m \in Members : watcher[m] = "warming" /\ j.gen = switchGen}]
           /\ UNCHANGED <<quiet, retryQueued, reader>>
        \/ /\ j.kind = "retry"
           /\ retryQueued' = FALSE
           /\ reader' = [r \in Readers |-> IF reader[r] = "retry" THEN "retrying" ELSE reader[r]]
           /\ IF warmupFailed /\ ~disposed
              THEN StartWarmup("head", j, "warm")
              ELSE /\ job' = [job EXCEPT !["head"] = j] /\ Goto("head", "resolve")
                   /\ UNCHANGED <<quiet, todo>>
        \/ /\ j.kind \in Invalidating \cup {"replace"}
           /\ IF disposed
              THEN UNCHANGED <<job, pc, quiet, todo>>
              ELSE MaintenanceWarmed("head", j)
           /\ UNCHANGED <<retryQueued, reader>>
  /\ UNCHANGED <<world, disposed, origin, snap, resolved, throttled, shared, build,
                 replaceGen, caches, watcher>>

(* MemberContentWatcher.Start has swept the member's folders: report from now on. *)
Sweep(t) ==
  /\ pc[t] = "sweep"
  /\ IF todo[t] = {}
     THEN Goto(t, "idle") /\ UNCHANGED <<todo, watcher>>
     ELSE \E m \in todo[t] :
            /\ todo' = [todo EXCEPT ![t] = @ \ {m}]
            /\ watcher' = [watcher EXCEPT ![m] =
                           IF @ = "warming" /\ job[t].gen = switchGen THEN "live" ELSE @]
            /\ UNCHANGED pc
  /\ UNCHANGED <<world, disposed, queue, job, scope, origin, snap, resolved, warming, shared,
                 build, replaceGen, caches>>

(* The queued retry resolves the reads that shared it. *)
ResolveRetry(t) ==
  /\ pc[t] = "resolve" /\ Goto(t, "idle")
  /\ reader' = [r \in Readers |-> IF reader[r] = "retrying" THEN ReaderAfter(warmup) ELSE reader[r]]
  /\ UNCHANGED <<world, disposed, queue, job, locals, warmup, warmupFailed, throttled,
                 retryQueued, shared, build, replaceGen, caches, watcher>>
------------------------------------------------------------------------------
(* InvalidateMember and the warm base-sets.                                 *)

(* ConsumerIdOf resolved: evict the member and the dependents the resolver  *)
(* has on record.  A manifest that cannot be read skips to the rebuild of   *)
(* the finally block.                                                       *)
Invalidate(t) ==
  /\ pc[t] = "invalidate"
  /\ \/ /\ staleIds' = WithDependents(job[t].arg, recorded)
        /\ owed' = [m \in Members |-> IF m \in staleIds' \cap Opened(active)
                                      THEN want[m] ELSE owed[m]]
        /\ scope' = [scope EXCEPT ![t] = Opened(active)]
        /\ Goto(t, "live") /\ UNCHANGED used
     \/ /\ ReadFails
        /\ Goto(t, "assemble") /\ UNCHANGED <<staleIds, owed, scope>>
  /\ UNCHANGED <<active, membersOf, disk, live, want, disposed, queue, job, todo, origin, snap,
                 resolved, warming, shared, build, replaceGen, bases, token, recorded, watcher>>

(* Variant: only the changed member is refreshed, not its dependents. *)
ReadStaleChangedOnly(t) ==
  /\ pc[t] = "live" /\ Goto(t, "refresh")
  /\ todo' = [todo EXCEPT ![t] = {job[t].arg}]
  /\ UNCHANGED <<world, disposed, queue, job, scope, origin, snap, resolved, warming, shared,
                 build, replaceGen, caches, watcher>>

(* LiveMembersById resolved: only now is resolver.StaleMemberIds read. *)
ReadStale(t) ==
  /\ pc[t] = "live" /\ Goto(t, "refresh")
  /\ todo' = [todo EXCEPT ![t] = staleIds]
  /\ UNCHANGED <<world, disposed, queue, job, scope, origin, snap, resolved, warming, shared,
                 build, replaceGen, caches, watcher>>

(* RefreshWarmBases, first half: ResolveBasesFor reads the closure, ... *)
ResolveBases(t) ==
  /\ pc[t] \in {"bases", "refresh"}
  /\ \E m \in todo[t] \cap scope[t] :
       resolved' = [resolved EXCEPT ![t] = [member |-> m, version |-> want[m]]]
  /\ Goto(t, "register")
  /\ UNCHANGED <<world, disposed, queue, job, todo, scope, origin, snap, warming, shared, build,
                 replaceGen, caches, watcher>>

(* ... second half: Register + SetBases store what was read. *)
Register(t) ==
  /\ pc[t] = "register"
  /\ bases' = [bases EXCEPT ![resolved[t].member] = resolved[t].version]
  /\ todo' = [todo EXCEPT ![t] = @ \ {resolved[t].member}]
  /\ Goto(t, IF t = "warm" THEN "bases" ELSE "refresh")
  /\ UNCHANGED <<world, disposed, queue, job, scope, origin, snap, resolved, warming, shared,
                 build, replaceGen, staleIds, token, recorded, owed, watcher>>

(* A stale id that is no live member: dropped from the registry when it is  *)
(* the member that was removed.                                             *)
DropStale(t) ==
  /\ pc[t] = "refresh"
  /\ \E m \in todo[t] \ scope[t] :
       /\ todo' = [todo EXCEPT ![t] = @ \ {m}]
       /\ bases' = IF job[t].kind = "remove" /\ m = job[t].arg
                   THEN [bases EXCEPT ![m] = Unregistered] ELSE bases
  /\ UNCHANGED <<world, disposed, queue, job, pc, scope, origin, snap, resolved, warming, shared,
                 build, replaceGen, staleIds, token, recorded, owed, watcher>>

(* A resolution that throws skips the token bump; the finally still rebuilds. *)
RefreshFails(t) ==
  /\ pc[t] = "refresh" /\ todo[t] \cap scope[t] # {}
  /\ ReadFails
  /\ Goto(t, "assemble")
  /\ UNCHANGED <<active, membersOf, disk, live, want, disposed, queue, job, locals, warming,
                 shared, build, replaceGen, caches, watcher>>
------------------------------------------------------------------------------
(* RebuildGraphSafely.                                                      *)

AfterRebuild(t) == IF job[t].kind \in {"warm", "switch"} THEN "settle" ELSE "idle"

(* BumpToken, when the refresh went through, and the start of               *)
(* AssembleMembers: the active solution and its members are read here.      *)
Assemble(t) ==
  /\ \/ pc[t] = "assemble" /\ UNCHANGED token
     \/ pc[t] = "refresh" /\ todo[t] = {} /\ token' = token + 1
     \/ pc[t] = "bases" /\ todo[t] = {} /\ UNCHANGED token
  /\ IF disposed
     THEN Goto(t, AfterRebuild(t)) /\ UNCHANGED <<todo, scope, origin, snap>>
     ELSE /\ Goto(t, "read")
          /\ todo' = [todo EXCEPT ![t] = Opened(active)]
          /\ scope' = [scope EXCEPT ![t] = Opened(active)]
          /\ origin' = [origin EXCEPT ![t] = active]
          /\ snap' = [snap EXCEPT ![t] = EmptyText]
  /\ UNCHANGED <<world, disposed, queue, job, resolved, warming, shared, build, replaceGen,
                 bases, staleIds, recorded, owed, watcher>>

(* SourcesForMember of one member: its text as it is at this moment. *)
ReadSources(t) ==
  /\ pc[t] = "read"
  /\ \E m \in todo[t] :
       /\ snap' = [snap EXCEPT ![t] =
                     [f \in Files |-> IF Owner[f] = m THEN Source(f) ELSE snap[t][f]]]
       /\ todo' = [todo EXCEPT ![t] = @ \ {m}]
  /\ UNCHANGED <<world, disposed, queue, job, pc, scope, origin, resolved, warming, shared,
                 build, replaceGen, caches, watcher>>

(* A collect or a TryGet that throws is recorded as the build's failure. *)
AssembleFails(t) ==
  /\ pc[t] = "read" /\ todo[t] # {} /\ ReadFails
  /\ Goto(t, AfterRebuild(t))
  /\ lastError' = TRUE /\ buildFailed' = TRUE
  /\ buildState' = IF disposed \/ buildState = "Building" THEN buildState ELSE "Failed"
  /\ UNCHANGED <<active, membersOf, disk, live, want, disposed, queue, job, locals, warming, graph,
                 graphMembers, sourcesOf, graphOf, missed, switchGen, replaceGen, caches, watcher>>

(* SolutionGraph.Build is synchronous and transactional; the settled state  *)
(* is reconciled with its outcome.                                          *)
BuildThrows(t) == scope[t] \in Broken \/ ~Loads(snap[t])

Build(t) ==
  /\ pc[t] = "read" /\ todo[t] = {}
  /\ Goto(t, AfterRebuild(t))
  /\ IF disposed
     THEN UNCHANGED <<shared, buildState>>
     ELSE /\ lastError' = BuildThrows(t) /\ buildFailed' = BuildThrows(t)
          /\ IF BuildThrows(t)
             THEN UNCHANGED <<graph, graphMembers, sourcesOf, graphOf, missed>>
             ELSE /\ graph' = snap[t] /\ sourcesOf' = snap[t] /\ missed' = {}
                  /\ graphMembers' = scope[t] /\ graphOf' = origin[t]
          /\ buildState' = IF buildState = "Building" THEN buildState ELSE Settled(lastError')
  /\ UNCHANGED <<world, disposed, queue, job, locals, warming, switchGen, replaceGen, caches,
                 watcher>>

(* Variants: a full build settles whatever has happened since it was asked  *)
(* for: another switch, or dispose().                                       *)
SettleBuildOfAnyGeneration(gen) ==
  buildState' = IF disposed THEN buildState ELSE Settled(lastError)
SettleBuildAfterDispose(gen) ==
  buildState' = IF gen # switchGen THEN buildState ELSE Settled(lastError)

SettleBuild(gen) ==
  buildState' = IF disposed \/ gen # switchGen THEN buildState ELSE Settled(lastError)

SettleSwitch(t) ==
  /\ t # "warm" /\ pc[t] = "settle"
  /\ SettleBuild(job[t].gen) /\ Goto(t, "idle")
  /\ UNCHANGED <<world, disposed, queue, job, locals, warming, shared, switchGen, replaceGen,
                 caches, watcher>>

SettleWarmup(t) ==
  /\ t = "warm" /\ pc[t] = "settle"
  /\ SettleBuild(job[t].gen) /\ WakeAwaiters(TRUE)
  /\ UNCHANGED <<world, disposed, queue, job, locals, warmupFailed, throttled, retryQueued,
                 shared, switchGen, replaceGen, caches, watcher>>
------------------------------------------------------------------------------
(* ReplaceOwningFile, and ReplaceOwningMember for a file not yet loaded.    *)

(* Variant: off by one, the latest keystroke counts as superseded too. *)
SupersededByItself(t) == replaceGen[job[t].arg] >= job[t].gen

Superseded(t) == replaceGen[job[t].arg] # job[t].gen

(* Latest-wins per file, then MemberForUri in the solution active now. *)
FindOwner(t) ==
  /\ pc[t] = "owner"
  /\ Goto(t, IF Superseded(t) \/ Owner[job[t].arg] \notin Opened(active) THEN "idle" ELSE "check")
  /\ UNCHANGED <<world, disposed, queue, job, locals, warming, shared, build, replaceGen, caches,
                 watcher>>

CheckLoaded(t) ==
  /\ pc[t] = "check"
  /\ LET f == job[t].arg IN
     IF Has(Owner[f]) /\ job[t].kind = "replace" /\ ~HasFile(f) /\ ~disposed
     THEN MaintenanceWarmed(t, [job[t] EXCEPT !.kind = "replaceMember"])
     ELSE /\ Goto(t, IF ~Has(Owner[f]) \/ (job[t].kind = "replace" /\ ~HasFile(f))
                     THEN "idle" ELSE "sources")
          /\ UNCHANGED <<job, warmup, warmupFailed, todo, scope>>
  /\ UNCHANGED <<world, disposed, queue, origin, snap, resolved, throttled, retryQueued, reader,
                 shared, build, replaceGen, caches, watcher>>

ReadOwnerSources(t) ==
  /\ pc[t] = "sources" /\ Goto(t, "apply")
  /\ snap' = [snap EXCEPT ![t] =
                [f \in Files |-> IF Owner[f] = Owner[job[t].arg] THEN Source(f) ELSE Absent]]
  /\ UNCHANGED <<world, disposed, queue, job, todo, scope, origin, resolved, warming, shared,
                 build, replaceGen, caches, watcher>>

(* A collect that throws: the file path records it, the member path ignores it. *)
ReadOwnerSourcesFails(t) ==
  /\ pc[t] = "sources" /\ ReadFails /\ Goto(t, "idle")
  /\ lastError' = (lastError \/ job[t].kind = "replace")
  /\ UNCHANGED <<active, membersOf, disk, live, want, disposed, queue, job, locals, warming, graph,
                 graphMembers, sourcesOf, graphOf, buildFailed, missed, build, replaceGen, caches,
                 watcher>>

(* A revision of a member, from the text just read of all its files: its    *)
(* sources are recorded, some files are stripped and loaded again in place, *)
(* and a load that throws falls back on whole rebuilds.  Subscribers of     *)
(* Changed are taken not to throw here; SolutionGraph has one that does.    *)
RecordSources(t) ==
  [g \in Files |-> IF Owner[g] = Owner[job[t].arg] THEN snap[t][g] ELSE sourcesOf[g]]
Reloaded(text, files) == [g \in Files |-> IF g \in files THEN text[g] ELSE graph[g]]

(* Every dependent member is reloaded whole, from the sources on record. *)
DependentFiles(m) == UNION {FilesOf(d) : d \in WithDependents(m, graphMembers) \ {m}}

ReloadWith(t, files) ==
  /\ Loads(Reloaded(RecordSources(t), files))
  /\ graph' = Reloaded(RecordSources(t), files) /\ sourcesOf' = RecordSources(t)
  /\ missed' = missed \ (files \cap FilesOf(Owner[job[t].arg]))
  /\ UNCHANGED lastError

(* RebuildFromState, asked for by resolution rules or by a load that threw: *)
(* of the recorded sources or, when those do not load, of the sources of    *)
(* before (RepairFailedReplace): the revision is refused without a word.    *)
RebuildOrRestore(t) ==
  /\ \/ /\ Loads(RecordSources(t))
        /\ graph' = RecordSources(t) /\ sourcesOf' = RecordSources(t)
        /\ missed' = missed \ FilesOf(Owner[job[t].arg])
     \/ /\ ~Loads(RecordSources(t)) /\ Loads(sourcesOf)
        /\ graph' = sourcesOf /\ missed' = missed \cup {job[t].arg}
        /\ UNCHANGED sourcesOf
  /\ UNCHANGED lastError

(* Neither loads and the repair throws: the files stripped by then that had *)
(* not been loaded again are lost.                                          *)
RepairFails(t, files) ==
  /\ ~Loads(RecordSources(t)) /\ ~Loads(sourcesOf)
  /\ \E lost \in SUBSET files :
       /\ graph' = [g \in Files |-> IF g \in lost THEN Absent
                                    ELSE Reloaded(RecordSources(t), files)[g]]
       /\ Loads(graph') /\ missed' = missed \cup lost \cup {job[t].arg}
  /\ lastError' = (lastError \/ job[t].kind = "replace")
  /\ UNCHANGED sourcesOf

ReloadFails(t, files) == ~Loads(Reloaded(RecordSources(t), files)) /\ RepairFails(t, files)

(* SolutionGraph.ReplaceFile reloads the file, then with it the sibling     *)
(* files that refer to it, then the dependents; an unknown file throws.     *)
Cones(f) == {files \in SUBSET FilesOf(Owner[f]) : f \in files}

ReplaceFile(t) ==
  /\ pc[t] = "apply" /\ job[t].kind = "replace" /\ Goto(t, "idle")
  /\ LET f == job[t].arg
         dependents == DependentFiles(Owner[f])
     IN IF disposed THEN UNCHANGED <<graph, sourcesOf, missed, lastError>>
        ELSE IF ~HasFile(f) THEN lastError' = TRUE /\ UNCHANGED <<graph, sourcesOf, missed>>
        ELSE \/ \E cone \in Cones(f) :
                  /\ \A round \in {{f}, cone} : Loads(Reloaded(RecordSources(t), round))
                  /\ ReloadWith(t, cone \cup dependents)
             \/ RebuildOrRestore(t)
             \/ \E cone \in Cones(f) : \/ ReloadFails(t, cone)
                                       \/ ReloadFails(t, cone \cup dependents)
             \/ RepairFails(t, {})       \* with rules: nothing stripped
  /\ UNCHANGED <<world, disposed, queue, job, locals, warming, graphMembers, graphOf, buildFailed,
                 build, replaceGen, caches, watcher>>

ReplaceMember(t) ==
  /\ pc[t] = "apply" /\ job[t].kind = "replaceMember" /\ Goto(t, "idle")
  /\ LET m == Owner[job[t].arg]
         affected == FilesOf(m) \cup DependentFiles(m)
     IN IF disposed \/ ~Has(m) THEN UNCHANGED <<graph, sourcesOf, missed, lastError>>
        ELSE \/ ReloadWith(t, affected)
             \/ RebuildOrRestore(t)
             \/ ReloadFails(t, affected)
             \/ RepairFails(t, {})
  /\ UNCHANGED <<world, disposed, queue, job, locals, warming, graphMembers, graphOf, buildFailed,
                 build, replaceGen, caches, watcher>>
------------------------------------------------------------------------------
(* The editor, the solution manager, the disk and the event bus.            *)

DidChange(f) ==
  /\ live[f] < MaxEdits /\ Mixable(f)
  /\ live' = [live EXCEPT ![f] = @ + 1]
  /\ IF Owner[f] \in Opened(active)
     THEN /\ replaceGen' = [replaceGen EXCEPT ![f] = @ + 1]
          /\ queue' = Append(queue, [kind |-> "replace", arg |-> f, gen |-> replaceGen'[f]])
     ELSE UNCHANGED <<replaceGen, queue>>
  /\ UNCHANGED <<active, membersOf, disk, want, used, disposed, job, pc, locals, warming, shared,
                 build, caches, watcher>>

(* RewireMembers on an ActiveSolution change: new watchers, Building, and a *)
(* queued rebuild that settles its own generation.  The resolver forgets    *)
(* the bindings it has on record (clearCache).                              *)
SwitchSolution(s) ==
  /\ ~disposed /\ s # active /\ switchGen < MaxSwitches /\ Mixable("switch")
  /\ active' = s /\ switchGen' = switchGen + 1 /\ buildState' = "Building"
  /\ watcher' = [m \in Members |-> IF m \in Opened(s) THEN "warming" ELSE "none"]
  /\ queue' = queue \o <<[kind |-> "start", arg |-> NoSolution, gen |-> switchGen + 1],
                         [kind |-> "switch", arg |-> NoSolution, gen |-> switchGen + 1]>>
  /\ recorded' = {}
  /\ UNCHANGED <<membersOf, disk, live, want, used, disposed, job, pc, locals, warming, shared,
                 replaceGen, bases, staleIds, token, owed>>

(* OpenProject: AddMember raises Inserted while the member's Storage is     *)
(* still undefined, so WatchMemberContent returns; the maintenance it       *)
(* queues runs after OpenOne has set the Storage.                           *)
InsertMember(m) ==
  /\ active # NoSolution /\ m \notin Opened(active) /\ used["insert"] < MaxInserts
  /\ Use("insert")
  /\ membersOf' = [membersOf EXCEPT ![active] = @ \cup {m}]
  /\ queue' = IF disposed THEN queue ELSE Append(queue, Plain("insert", m))
  /\ UNCHANGED <<active, disk, live, want, disposed, job, pc, locals, warming, shared, build,
                 replaceGen, caches, watcher>>

RemoveMember(m) ==
  /\ m \in Opened(active) /\ used["remove"] < MaxRemoves
  /\ Use("remove")
  /\ membersOf' = [membersOf EXCEPT ![active] = @ \ {m}]
  /\ IF disposed THEN UNCHANGED <<queue, watcher>>
     ELSE /\ watcher' = [watcher EXCEPT ![m] = "none"]
          /\ queue' = Append(queue, Plain("remove", m))
  /\ UNCHANGED <<active, disk, live, want, disposed, job, pc, locals, warming, shared, build,
                 replaceGen, caches>>

(* A .todl appears on or vanishes from the disk; a watcher still sweeping   *)
(* takes it as its baseline.                                                *)
DiskChange(f) ==
  /\ used["disk"] < MaxDisk /\ Use("disk")
  /\ disk' = IF f \in disk THEN disk \ {f} ELSE disk \cup {f}
  /\ queue' = IF watcher[Owner[f]] = "live" THEN Append(queue, Plain("changed", Owner[f])) ELSE queue
  /\ UNCHANGED <<active, membersOf, live, want, disposed, job, pc, locals, warming, shared, build,
                 replaceGen, caches, watcher>>

(* A project's references are edited and ReferencesChanged is raised: the   *)
(* handler awaits InvalidateMember itself, beside the queue.                *)
ReferencesChanged(e, m) ==
  /\ job[e] = NoJob /\ ~disposed /\ Mixable("references")
  /\ want' = [d \in Members |-> IF d \in WithDependents(m, Members) THEN want[d] + 1 ELSE want[d]]
  /\ owed' = IF m \in Opened(active) THEN [owed EXCEPT ![m] = want'[m]] ELSE owed
  /\ MaintenanceWarmed(e, Plain("references", m))
  /\ UNCHANGED <<active, membersOf, disk, live, used, disposed, queue, origin, snap, resolved,
                 throttled, retryQueued, reader, shared, build, replaceGen, bases, staleIds, token,
                 recorded, watcher>>

(* A composition, a generator or a build asks the resolver for the package  *)
(* of an open producer: compileMember records the bases it binds.  Each     *)
(* base it compiles on the way is another call.  The warmup and the         *)
(* refreshes of warm bases compile without recording anything.              *)
CompileMember(m) ==
  /\ m \in (Opened(active) \cap Producers) \ recorded /\ Mixable("compile")
  /\ recorded' = recorded \cup {m}
  /\ UNCHANGED <<world, disposed, queue, job, pc, locals, warming, shared, build, replaceGen,
                 bases, staleIds, token, owed, watcher>>

(* A feature request awaits Warmed(): after a failure it queues one shared retry. *)
Request(r) ==
  /\ reader[r] = "idle" /\ Mixable("request")
  /\ IF ~warmupFailed \/ disposed
     THEN reader' = [reader EXCEPT ![r] = ReaderAfter(warmup)] /\ UNCHANGED <<queue, retryQueued>>
     ELSE /\ reader' = [reader EXCEPT ![r] = "retry"]
          /\ retryQueued' = TRUE
          /\ queue' = IF retryQueued THEN queue ELSE Append(queue, Plain("retry", NoSolution))
  /\ UNCHANGED <<world, disposed, job, pc, locals, warmup, warmupFailed, throttled, shared, build,
                 replaceGen, caches, watcher>>

Dispose ==
  /\ ~disposed /\ disposed' = TRUE
  /\ watcher' = [m \in Members |-> "none"]
  /\ UNCHANGED <<world, queue, job, pc, locals, warming, shared, build, replaceGen, caches>>
------------------------------------------------------------------------------
Step(t) ==
  \/ WarmupRejects(t) \/ Sweep(t) \/ ResolveRetry(t)
  \/ Invalidate(t) \/ ReadStale(t) \/ ResolveBases(t) \/ Register(t) \/ DropStale(t)
  \/ RefreshFails(t) \/ Assemble(t) \/ ReadSources(t) \/ AssembleFails(t)
  \/ Build(t) \/ SettleSwitch(t) \/ SettleWarmup(t)
  \/ FindOwner(t) \/ CheckLoaded(t) \/ ReadOwnerSources(t) \/ ReadOwnerSourcesFails(t)
  \/ ReplaceFile(t) \/ ReplaceMember(t)

Environment ==
  \/ TimePasses \/ Dispose
  \/ \E f \in Files : DidChange(f) \/ DiskChange(f)
  \/ \E s \in Scopes : SwitchSolution(s)
  \/ \E m \in Members : InsertMember(m) \/ RemoveMember(m) \/ CompileMember(m)
  \/ \E e \in Events, m \in Members : ReferencesChanged(e, m)
  \/ \E r \in Readers : Request(r)

Next == Dequeue \/ (\E t \in Tasks : Step(t)) \/ Environment

Spec == Init /\ [][Next]_vars

(* The event loop runs every continuation that is ready and every awaited   *)
(* read completes; nothing obliges the environment to act.                  *)
FairSpec == Spec /\ WF_vars(Dequeue) /\ \A t \in Tasks : WF_vars(Step(t))
------------------------------------------------------------------------------
Pcs == {"idle", "warm", "invalidate", "live", "refresh", "register", "bases", "assemble", "read",
        "settle", "owner", "check", "sources", "apply", "sweep", "resolve"}

WorldOK ==
  /\ active \in Scopes /\ membersOf \in [Scopes -> SUBSET Members]
  /\ disk \in SUBSET Files /\ live \in [Files -> Nat] /\ want \in [Members -> Nat]
  /\ used \in [{"insert", "remove", "disk", "warm", "read"} -> Nat]
TasksOK ==
  /\ queue \in Seq(Job) /\ job \in [Tasks -> Job] /\ pc \in [Tasks -> Pcs]
LocalsOK ==
  /\ todo \in [Tasks -> SUBSET Members] /\ scope \in [Tasks -> SUBSET Members]
  /\ origin \in [Tasks -> Scopes] /\ snap \in [Tasks -> [Files -> Nat]]
  /\ resolved \in [Tasks -> [member : Members \cup {NoSolution}, version : Nat]]
WarmingOK ==
  /\ warmup \in {"running", "ok", "rejected"}
  /\ warmupFailed \in BOOLEAN /\ throttled \in BOOLEAN /\ retryQueued \in BOOLEAN
  /\ reader \in [Readers -> {"idle", "warm", "retry", "retrying", "served", "rejected"}]
  /\ disposed \in BOOLEAN
GraphOK ==
  /\ graph \in [Files -> Nat] /\ sourcesOf \in [Files -> Nat]
  /\ graphMembers \in SUBSET Members /\ graphOf \in Scopes
  /\ lastError \in BOOLEAN /\ buildFailed \in BOOLEAN /\ missed \in SUBSET Files
  /\ buildState \in {"Building", "Ready", "Failed"} /\ switchGen \in Nat
CachesOK ==
  /\ replaceGen \in [Files -> Nat]
  /\ bases \in [Members -> Nat] /\ staleIds \in SUBSET Members /\ token \in Nat
  /\ recorded \in SUBSET Members /\ owed \in [Members -> Nat]
  /\ watcher \in [Members -> {"none", "warming", "live"}]

(* Every variable of the service keeps to the values its TypeScript type    *)
(* allows: a job carries the member or file its kind works on, and a text   *)
(* or base version is never left undefined.                                 *)
TypeOK == WorldOK /\ TasksOK /\ LocalsOK /\ WarmingOK /\ GraphOK /\ CachesOK

Quiescent == queue = <<>> /\ \A t \in Tasks : pc[t] = "idle"

(* A service that reports Building still has, queued or running, the full   *)
(* build of the latest generation that will settle it (RewireMembers,       *)
(* SettleBuild): no interleaving strands the state in Building.             *)
BuildingHasSettler ==
  ~disposed /\ buildState = "Building" =>
    \/ \E i \in DOMAIN queue : queue[i].kind = "switch" /\ queue[i].gen = switchGen
    \/ \E t \in {"warm", "head"} :
         job[t].kind \in {"warm", "switch"} /\ job[t].gen = switchGen /\ pc[t] # "idle"

(* Once dispose() has run no task still in flight changes the shared graph  *)
(* or the build state it reports.                                           *)
DisposedIsInert == [][disposed => UNCHANGED <<graph, graphMembers, buildState>>]_vars

(* Ready is reported only for a graph that the last full build assembled    *)
(* from the solution that is active: the generation captured by each full   *)
(* build keeps a superseded one from settling.                              *)
ReadyIsActive == ~disposed /\ buildState = "Ready" => graphOf = active /\ ~buildFailed

(* The graph a full assembly of the present world would give. *)
InStepGraph == [f \in Files |-> IF Owner[f] \in Opened(active) THEN Source(f) ELSE Absent]
Rests == Quiescent /\ ~disposed /\ warmup = "ok"

(* When all maintenance has run, a Ready graph holds the latest text of     *)
(* every file of every member of the active solution, and nothing else, but *)
(* for files of which a revision did not load and that have not been loaded *)
(* again since: no keystroke, switch or membership change is lost to an     *)
(* interleaving, nor by a repair to another file.                           *)
InStep ==
  Rests /\ buildState = "Ready" => \A f \in Files \ missed : graph[f] = InStepGraph[f]

(* What the comment on RefreshStaleMembers says: when all maintenance has   *)
(* run, the warm bases held for a live member are those its manifests and   *)
(* those of its bases now ask for.                                          *)
BasesFresh == Rests => \A m \in Opened(active) : bases[m] \in {Unregistered, want[m]}

(* When all maintenance has run, an open member whose references changed,   *)
(* or that an invalidation evicted with a base of its own, does not hold    *)
(* warm bases from before: they were resolved again, whatever attempts were *)
(* rejected and whatever else ran meanwhile.                                *)
EvictedRefreshed ==
  Rests => \A m \in Opened(active) : bases[m] = Unregistered \/ bases[m] >= owed[m]

(* Once the service is warm and idle every member of the active solution    *)
(* has its project: ProjectFor answers for a URI under its root.            *)
EveryMemberHasProject ==
  Rests /\ buildState = "Ready" => \A m \in Opened(active) : bases[m] # Unregistered

(* The retry of a direct read never runs beside another task's rebuild. *)
RetryRunsAlone ==
  job["head"].kind = "retry" /\ pc["head"] = "warm" =>
    \A t \in Tasks \ {"warm"} : pc[t] # "read"

(* Every full build settles, or the service is disposed. *)
BuildSettles == buildState = "Building" ~> (buildState # "Building" \/ disposed)

(* Every feature request is answered, though its retry of a failed warmup   *)
(* waits in the queue behind the maintenance that awaits the same warmup.   *)
RequestsAnswered ==
  \A r \in Readers : reader[r] # "idle" ~> reader[r] \in {"served", "rejected"}
==============================================================================
