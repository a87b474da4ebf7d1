------------------------ MODULE LanguageServiceProofs ------------------------
(***************************************************************************)
(* What holds of LanguageService for every set of solutions, members,      *)
(* files, events and reads and for every bound: its type, that Building is *)
(* never stranded, that a disposed service is inert, that the retry of a   *)
(* read runs alone, what Ready says of the active solution, and that the   *)
(* graph and the bases of a service at rest are in step with the world.    *)
(***************************************************************************)
EXTENDS LanguageService, TLAPS

(* The awaits a task can stand at, by the kind of job it runs. *)
PcsOf(kind) ==
  CASE kind = "none"   -> {"idle"}
    [] kind = "warm"   -> {"idle", "bases", "register", "read", "settle"}
    [] kind = "switch" -> {"idle", "warm", "assemble", "read", "settle"}
    [] kind = "start"  -> {"idle", "sweep"}
    [] kind = "retry"  -> {"idle", "warm", "resolve"}
    [] kind \in Invalidating -> {"idle", "warm", "invalidate", "live", "refresh", "register",
                                 "assemble", "read"}
    [] OTHER -> {"idle", "warm", "owner", "check", "sources", "apply"}

PcOK ==
  \A t \in Tasks :
    /\ pc[t] \in PcsOf(job[t].kind)
    /\ (job[t].kind = "warm") <=> (t = "warm")
    /\ t \in Events => job[t].kind \in {"none", "references"}

NoWarmQueued == \A i \in DOMAIN queue : queue[i].kind # "warm"

IInv == TypeOK /\ PcOK /\ NoWarmQueued /\ BuildingHasSettler

LEMMA NamesFact == "warm" \in Tasks /\ "head" \in Tasks /\ "warm" \notin Events /\ "head" \notin Events
BY NamesAssumption DEF Tasks

USE DEF Invalidating, Replacing, Plain, NoJob, Scopes, Pcs

(* The first state of the service is typed and under the warmup's control. *)
LEMMA InitIInv == Init => IInv
<1> SUFFICES ASSUME Init PROVE IInv
  OBVIOUS
<1> USE DEF Init, Job, Absent, Unregistered, EmptyText, Opened
<1>1. TypeOK
  <2> USE NamesFact, ShapeAssumption, NamesAssumption
  <2>1. WorldOK BY DEF WorldOK
  <2>2. TasksOK BY DEF TasksOK
  <2>3. LocalsOK BY DEF LocalsOK
  <2>4. WarmingOK BY DEF WarmingOK
  <2>5. GraphOK BY DEF GraphOK
  <2>6. CachesOK BY DEF CachesOK
  <2> QED BY <2>1, <2>2, <2>3, <2>4, <2>5, <2>6 DEF TypeOK
<1>2. PcOK
  BY NamesFact DEF PcOK, PcsOf
<1>3. NoWarmQueued
  BY DEF NoWarmQueued
<1>4. BuildingHasSettler
  BY NamesFact DEF BuildingHasSettler
<1> QED BY <1>1, <1>2, <1>3, <1>4 DEF IInv
------------------------------------------------------------------------------
(* Jobs: what the queue and the tasks may hold.                             *)

LEMMA JobTypes ==
  /\ \A m \in Members, k \in Invalidating : Plain(k, m) \in Job
  /\ \A k \in {"none", "warm", "switch", "start", "retry"}, g \in Nat :
       /\ Plain(k, NoSolution) \in Job
       /\ [kind |-> k, arg |-> NoSolution, gen |-> g] \in Job
       /\ [Plain(k, NoSolution) EXCEPT !.gen = g] \in Job
  /\ \A f \in Files, k \in Replacing, g \in Nat : [kind |-> k, arg |-> f, gen |-> g] \in Job
BY DEF Job

LEMMA AppendJob == ASSUME NEW q \in Seq(Job), NEW x \in Job PROVE Append(q, x) \in Seq(Job)
<1> QED OBVIOUS

(* Starting a warmup beside task t, and awaiting it, keep what they change typed. *)
LEMMA StartType ==
  ASSUME IInv, NEW t \in Tasks, NEW j \in Job, NEW next \in Pcs, StartWarmup(t, j, next)
  PROVE  /\ job' \in [Tasks -> Job] /\ pc' \in [Tasks -> Pcs]
         /\ todo' \in [Tasks -> SUBSET Members] /\ scope' \in [Tasks -> SUBSET Members]
         /\ warmup' \in {"running", "ok", "rejected"} /\ warmupFailed' \in BOOLEAN
<1>1. /\ job \in [Tasks -> Job] /\ pc \in [Tasks -> Pcs] /\ switchGen \in Nat
      /\ todo \in [Tasks -> SUBSET Members] /\ scope \in [Tasks -> SUBSET Members]
      /\ Opened(active) \in SUBSET Members
  BY DEF IInv, TypeOK, TasksOK, LocalsOK, WorldOK, GraphOK, Opened
<1>2. [Plain("warm", NoSolution) EXCEPT !.gen = switchGen] \in Job BY <1>1 DEF Job
<1>3. job' \in [Tasks -> Job]
  <2>1. job' = [job EXCEPT ![t] = j, !["warm"] = [Plain("warm", NoSolution) EXCEPT !.gen = switchGen]]
    BY DEF StartWarmup
  <2> HIDE DEF Plain
  <2> QED BY <1>1, <1>2, <2>1
<1>4. pc' \in [Tasks -> Pcs] BY <1>1 DEF StartWarmup
<1>5. todo' \in [Tasks -> SUBSET Members] BY <1>1 DEF StartWarmup
<1>6. scope' \in [Tasks -> SUBSET Members] BY <1>1 DEF StartWarmup
<1> QED BY <1>3, <1>4, <1>5, <1>6 DEF StartWarmup

LEMMA MaintType ==
  ASSUME IInv, NEW t \in Tasks, t # "warm", NEW j \in Job, MaintenanceWarmed(t, j)
  PROVE  /\ job' \in [Tasks -> Job] /\ pc' \in [Tasks -> Pcs]
         /\ todo' \in [Tasks -> SUBSET Members] /\ scope' \in [Tasks -> SUBSET Members]
         /\ warmup' \in {"running", "ok", "rejected"} /\ warmupFailed' \in BOOLEAN
<1>1. CASE warmupFailed /\ ~throttled
  <2>1. StartWarmup(t, j, "warm") BY <1>1 DEF MaintenanceWarmed
  <2> QED BY <2>1, StartType
<1>2. CASE ~(warmupFailed /\ ~throttled)
  <2>0. /\ job \in [Tasks -> Job] /\ pc \in [Tasks -> Pcs]
        /\ todo \in [Tasks -> SUBSET Members] /\ scope \in [Tasks -> SUBSET Members]
        /\ warmup \in {"running", "ok", "rejected"} /\ warmupFailed \in BOOLEAN
    BY DEF IInv, TypeOK, TasksOK, LocalsOK, WarmingOK
  <2>1. AfterWarm(j.kind, warmup = "ok") \in Pcs BY DEF AfterWarm
  <2>2. PICK to \in {"warm", AfterWarm(j.kind, warmup = "ok")} :
          /\ job' = [job EXCEPT ![t] = j] /\ pc' = [pc EXCEPT ![t] = to]
          /\ UNCHANGED <<warmup, warmupFailed, todo, scope>>
    BY <1>2 DEF MaintenanceWarmed, Goto
  <2>3. job' \in [Tasks -> Job] BY <2>0, <2>2
  <2>4. pc' \in [Tasks -> Pcs] BY <2>0, <2>1, <2>2
  <2> QED BY <2>0, <2>2, <2>3, <2>4
<1> QED BY <1>1, <1>2
------------------------------------------------------------------------------
(* The type invariant, one lemma per action.                                *)

USE DEF world, locals, warming, shared, build, caches, Goto, Use, ReadFails, Opened

(* Each part of the type depends on its own variables only. *)
LEMMA KeepOK ==
  /\ WorldOK /\ UNCHANGED world => WorldOK'
  /\ TasksOK /\ UNCHANGED <<queue, job, pc>> => TasksOK'
  /\ LocalsOK /\ UNCHANGED locals => LocalsOK'
  /\ WarmingOK /\ UNCHANGED <<warming, disposed>> => WarmingOK'
  /\ GraphOK /\ UNCHANGED <<shared, build>> => GraphOK'
  /\ CachesOK /\ UNCHANGED <<replaceGen, caches, watcher>> => CachesOK'
<1>1. WorldOK /\ UNCHANGED world => WorldOK' BY DEF WorldOK
<1>2. TasksOK /\ UNCHANGED <<queue, job, pc>> => TasksOK' BY DEF TasksOK
<1>3. LocalsOK /\ UNCHANGED locals => LocalsOK' BY DEF LocalsOK
<1>4. WarmingOK /\ UNCHANGED <<warming, disposed>> => WarmingOK' BY DEF WarmingOK
<1>5. GraphOK /\ UNCHANGED <<shared, build>> => GraphOK' BY DEF GraphOK
<1>6. CachesOK /\ UNCHANGED <<replaceGen, caches, watcher>> => CachesOK' BY DEF CachesOK
<1> QED BY <1>1, <1>2, <1>3, <1>4, <1>5, <1>6

LEMMA TypeWarmupRejects == ASSUME IInv, NEW t \in Tasks, WarmupRejects(t) PROVE TypeOK'
<1>0. WorldOK /\ TasksOK /\ LocalsOK /\ WarmingOK /\ GraphOK /\ CachesOK BY DEF IInv, TypeOK
<1>1. WorldOK' BY <1>0 DEF WarmupRejects, WorldOK
<1>2. TasksOK'
  <2>1. \A u \in Tasks : AfterWarm(job[u].kind, FALSE) \in Pcs BY DEF AfterWarm
  <2> QED BY <1>0, <2>1 DEF WarmupRejects, TasksOK, WakeAwaiters
<1>3. WarmingOK' BY <1>0 DEF WarmupRejects, WarmingOK, WakeAwaiters, ReaderAfter
<1>4. GraphOK' BY <1>0 DEF WarmupRejects, GraphOK
<1>8. LocalsOK' /\ CachesOK' BY <1>0, KeepOK DEF WarmupRejects
<1> QED BY <1>1, <1>2, <1>3, <1>4, <1>8 DEF TypeOK

LEMMA TypeTimePasses == ASSUME IInv, TimePasses PROVE TypeOK'
<1>0. WorldOK /\ TasksOK /\ LocalsOK /\ WarmingOK /\ GraphOK /\ CachesOK BY DEF IInv, TypeOK
<1>1. WarmingOK' BY <1>0 DEF TimePasses, WarmingOK
<1>8. WorldOK' /\ TasksOK' /\ LocalsOK' /\ GraphOK' /\ CachesOK' BY <1>0, KeepOK DEF TimePasses
<1> QED BY <1>1, <1>8 DEF TypeOK

LEMMA TypeSweep == ASSUME IInv, NEW t \in Tasks, Sweep(t) PROVE TypeOK'
<1>0. WorldOK /\ TasksOK /\ LocalsOK /\ WarmingOK /\ GraphOK /\ CachesOK BY DEF IInv, TypeOK
<1>1. TasksOK' BY <1>0 DEF TasksOK, Sweep
<1>2. LocalsOK'
  <2>1. todo \in [Tasks -> SUBSET Members] BY <1>0 DEF LocalsOK
  <2>2. todo' \in [Tasks -> SUBSET Members] BY <2>1 DEF Sweep
  <2> QED BY <1>0, <2>2 DEF Sweep, LocalsOK
<1>3. CachesOK'
  <2>1. watcher \in [Members -> {"none", "warming", "live"}] BY <1>0 DEF CachesOK
  <2>2. watcher' \in [Members -> {"none", "warming", "live"}] BY <2>1 DEF Sweep
  <2> QED BY <1>0, <2>2 DEF Sweep, CachesOK
<1>8. WorldOK' /\ WarmingOK' /\ GraphOK' BY <1>0, KeepOK DEF Sweep
<1> QED BY <1>1, <1>2, <1>3, <1>8 DEF TypeOK

LEMMA TypeResolveRetry == ASSUME IInv, NEW t \in Tasks, ResolveRetry(t) PROVE TypeOK'
<1>0. WorldOK /\ TasksOK /\ LocalsOK /\ WarmingOK /\ GraphOK /\ CachesOK BY DEF IInv, TypeOK
<1>1. TasksOK' BY <1>0 DEF TasksOK, ResolveRetry
<1>2. WarmingOK' BY <1>0 DEF ResolveRetry, WarmingOK, ReaderAfter
<1>8. WorldOK' /\ LocalsOK' /\ GraphOK' /\ CachesOK' BY <1>0, KeepOK DEF ResolveRetry
<1> QED BY <1>1, <1>2, <1>8 DEF TypeOK

LEMMA TypeInvalidate == ASSUME IInv, NEW t \in Tasks, Invalidate(t) PROVE TypeOK'
<1>0. WorldOK /\ TasksOK /\ LocalsOK /\ WarmingOK /\ GraphOK /\ CachesOK BY DEF IInv, TypeOK
<1>1. WorldOK' BY <1>0 DEF Invalidate, WorldOK
<1>2. TasksOK' BY <1>0 DEF TasksOK, Invalidate
<1>3. LocalsOK'
  <2>1. Opened(active) \in SUBSET Members BY <1>0 DEF WorldOK
  <2>2. scope' \in [Tasks -> SUBSET Members] BY <1>0, <2>1 DEF Invalidate, LocalsOK
  <2> QED BY <1>0, <2>2 DEF Invalidate, LocalsOK
<1>4. CachesOK'
  <2>1. WithDependents(job[t].arg, recorded) \in SUBSET Members BY DEF WithDependents
  <2>2. staleIds' \in SUBSET Members BY <1>0, <2>1 DEF Invalidate, CachesOK
  <2>3. want \in [Members -> Nat] /\ owed \in [Members -> Nat] BY <1>0 DEF WorldOK, CachesOK
  <2>4. owed' \in [Members -> Nat]
    <3> HIDE DEF Opened
    <3> QED BY <2>3 DEF Invalidate
  <2> QED BY <1>0, <2>2, <2>4 DEF Invalidate, CachesOK
<1>8. WarmingOK' /\ GraphOK' BY <1>0, KeepOK DEF Invalidate
<1> QED BY <1>1, <1>2, <1>3, <1>4, <1>8 DEF TypeOK

LEMMA TypeReadStale == ASSUME IInv, NEW t \in Tasks, ReadStale(t) PROVE TypeOK'
<1>0. WorldOK /\ TasksOK /\ LocalsOK /\ WarmingOK /\ GraphOK /\ CachesOK BY DEF IInv, TypeOK
<1>1. TasksOK' BY <1>0 DEF TasksOK, ReadStale
<1>2. LocalsOK' BY <1>0 DEF ReadStale, LocalsOK, CachesOK
<1>8. WorldOK' /\ WarmingOK' /\ GraphOK' /\ CachesOK' BY <1>0, KeepOK DEF ReadStale
<1> QED BY <1>1, <1>2, <1>8 DEF TypeOK

LEMMA TypeResolveBases == ASSUME IInv, NEW t \in Tasks, ResolveBases(t) PROVE TypeOK'
<1>0. WorldOK /\ TasksOK /\ LocalsOK /\ WarmingOK /\ GraphOK /\ CachesOK BY DEF IInv, TypeOK
<1>1. TasksOK' BY <1>0 DEF TasksOK, ResolveBases
<1>2. LocalsOK'
  <2>1. want \in [Members -> Nat] BY <1>0 DEF WorldOK
  <2>2. resolved' \in [Tasks -> [member : Members \cup {NoSolution}, version : Nat]]
    BY <1>0, <2>1 DEF ResolveBases, LocalsOK
  <2> QED BY <1>0, <2>2 DEF ResolveBases, LocalsOK
<1>8. WorldOK' /\ WarmingOK' /\ GraphOK' /\ CachesOK' BY <1>0, KeepOK DEF ResolveBases
<1> QED BY <1>1, <1>2, <1>8 DEF TypeOK

LEMMA TypeRegister == ASSUME IInv, NEW t \in Tasks, Register(t) PROVE TypeOK'
<1>0. WorldOK /\ TasksOK /\ LocalsOK /\ WarmingOK /\ GraphOK /\ CachesOK BY DEF IInv, TypeOK
<1>1. TasksOK' BY <1>0 DEF Register, TasksOK
<1>2. LocalsOK'
  <2>1. todo' \in [Tasks -> SUBSET Members] BY <1>0 DEF Register, LocalsOK
  <2> QED BY <1>0, <2>1 DEF Register, LocalsOK
<1>3. CachesOK'
  <2>1. resolved[t].version \in Nat BY <1>0 DEF LocalsOK
  <2>2. bases' \in [Members -> Nat] BY <1>0, <2>1 DEF Register, CachesOK
  <2> QED BY <1>0, <2>2 DEF Register, CachesOK
<1>8. WorldOK' /\ WarmingOK' /\ GraphOK' BY <1>0, KeepOK DEF Register
<1> QED BY <1>1, <1>2, <1>3, <1>8 DEF TypeOK

LEMMA TypeDropStale == ASSUME IInv, NEW t \in Tasks, DropStale(t) PROVE TypeOK'
<1>0. WorldOK /\ TasksOK /\ LocalsOK /\ WarmingOK /\ GraphOK /\ CachesOK BY DEF IInv, TypeOK
<1>1. LocalsOK'
  <2>1. todo' \in [Tasks -> SUBSET Members] BY <1>0 DEF DropStale, LocalsOK
  <2> QED BY <1>0, <2>1 DEF DropStale, LocalsOK
<1>2. CachesOK'
  <2>1. PICK m \in todo[t] \ scope[t] :
          bases' = IF job[t].kind = "remove" /\ m = job[t].arg
                   THEN [bases EXCEPT ![m] = Unregistered] ELSE bases
    BY DEF DropStale
  <2>2. bases' \in [Members -> Nat] BY <1>0, <2>1 DEF CachesOK, Unregistered
  <2> QED BY <1>0, <2>2 DEF DropStale, CachesOK
<1>8. WorldOK' /\ TasksOK' /\ WarmingOK' /\ GraphOK' BY <1>0, KeepOK DEF DropStale
<1> QED BY <1>1, <1>2, <1>8 DEF TypeOK

LEMMA TypeRefreshFails == ASSUME IInv, NEW t \in Tasks, RefreshFails(t) PROVE TypeOK'
<1>0. WorldOK /\ TasksOK /\ LocalsOK /\ WarmingOK /\ GraphOK /\ CachesOK BY DEF IInv, TypeOK
<1>1. WorldOK' BY <1>0 DEF RefreshFails, WorldOK
<1>2. TasksOK' BY <1>0 DEF TasksOK, RefreshFails
<1>8. LocalsOK' /\ WarmingOK' /\ GraphOK' /\ CachesOK' BY <1>0, KeepOK DEF RefreshFails
<1> QED BY <1>1, <1>2, <1>8 DEF TypeOK

LEMMA TypeAssemble == ASSUME IInv, NEW t \in Tasks, Assemble(t) PROVE TypeOK'
<1>0. WorldOK /\ TasksOK /\ LocalsOK /\ WarmingOK /\ GraphOK /\ CachesOK BY DEF IInv, TypeOK
<1>1. TasksOK'
  <2>1. AfterRebuild(t) \in Pcs BY DEF AfterRebuild
  <2>2. PICK to \in {"read", AfterRebuild(t)} : pc' = [pc EXCEPT ![t] = to] BY DEF Assemble
  <2> QED BY <1>0, <2>1, <2>2 DEF Assemble, TasksOK
<1>2. LocalsOK'
  <2>1. CASE disposed BY <1>0, <2>1 DEF Assemble, LocalsOK
  <2>2. CASE ~disposed
    <3>1. Opened(active) \in SUBSET Members /\ active \in Scopes /\ EmptyText \in [Files -> Nat]
      BY <1>0 DEF WorldOK, EmptyText, Absent
    <3>2. /\ todo' = [todo EXCEPT ![t] = Opened(active)] /\ scope' = [scope EXCEPT ![t] = Opened(active)]
          /\ origin' = [origin EXCEPT ![t] = active] /\ snap' = [snap EXCEPT ![t] = EmptyText]
          /\ resolved' = resolved
      BY <2>2 DEF Assemble
    <3> HIDE DEF EmptyText, Opened
    <3> QED BY <1>0, <3>1, <3>2 DEF LocalsOK
  <2> QED BY <2>1, <2>2
<1>3. CachesOK' BY <1>0 DEF Assemble, CachesOK
<1>8. WorldOK' /\ WarmingOK' /\ GraphOK' BY <1>0, KeepOK DEF Assemble
<1> QED BY <1>1, <1>2, <1>3, <1>8 DEF TypeOK

LEMMA TypeReadSources == ASSUME IInv, NEW t \in Tasks, ReadSources(t) PROVE TypeOK'
<1>0. WorldOK /\ TasksOK /\ LocalsOK /\ WarmingOK /\ GraphOK /\ CachesOK BY DEF IInv, TypeOK
<1>1. LocalsOK'
  <2>1. PICK m \in todo[t] :
          /\ snap' = [snap EXCEPT ![t] =
                       [f \in Files |-> IF Owner[f] = m THEN Source(f) ELSE snap[t][f]]]
          /\ todo' = [todo EXCEPT ![t] = @ \ {m}]
    BY DEF ReadSources
  <2>2. \A f \in Files : Source(f) \in Nat BY <1>0 DEF Source, Absent, WorldOK
  <2>3. snap' \in [Tasks -> [Files -> Nat]] BY <1>0, <2>1, <2>2 DEF LocalsOK
  <2>4. todo' \in [Tasks -> SUBSET Members] BY <1>0, <2>1 DEF LocalsOK
  <2> QED BY <1>0, <2>3, <2>4 DEF ReadSources, LocalsOK
<1>8. WorldOK' /\ TasksOK' /\ WarmingOK' /\ GraphOK' /\ CachesOK' BY <1>0, KeepOK DEF ReadSources
<1> QED BY <1>1, <1>8 DEF TypeOK

LEMMA TypeAssembleFails == ASSUME IInv, NEW t \in Tasks, AssembleFails(t) PROVE TypeOK'
<1>0. WorldOK /\ TasksOK /\ LocalsOK /\ WarmingOK /\ GraphOK /\ CachesOK BY DEF IInv, TypeOK
<1>1. WorldOK' BY <1>0 DEF AssembleFails, WorldOK
<1>2. TasksOK' BY <1>0 DEF AssembleFails, TasksOK, AfterRebuild
<1>3. GraphOK' BY <1>0 DEF AssembleFails, GraphOK
<1>8. LocalsOK' /\ WarmingOK' /\ CachesOK' BY <1>0, KeepOK DEF AssembleFails
<1> QED BY <1>1, <1>2, <1>3, <1>8 DEF TypeOK

LEMMA TypeBuild == ASSUME IInv, NEW t \in Tasks, Build(t) PROVE TypeOK'
<1>0. WorldOK /\ TasksOK /\ LocalsOK /\ WarmingOK /\ GraphOK /\ CachesOK BY DEF IInv, TypeOK
<1>1. TasksOK' BY <1>0 DEF Build, TasksOK, AfterRebuild
<1>2. GraphOK'
  <2>1. CASE disposed BY <1>0, <2>1 DEF Build, GraphOK
  <2>0. BuildThrows(t) \in BOOLEAN BY DEF BuildThrows, Loads
  <2>2. CASE ~disposed /\ BuildThrows(t) BY <1>0, <2>0, <2>2 DEF Build, GraphOK, Settled
  <2>3. CASE ~disposed /\ ~BuildThrows(t)
    <3>1. snap[t] \in [Files -> Nat] /\ scope[t] \in SUBSET Members /\ origin[t] \in Scopes
      BY <1>0 DEF LocalsOK
    <3> QED BY <1>0, <2>0, <2>3, <3>1 DEF Build, GraphOK, Settled
  <2> QED BY <2>1, <2>2, <2>3
<1>8. WorldOK' /\ LocalsOK' /\ WarmingOK' /\ CachesOK' BY <1>0, KeepOK DEF Build
<1> QED BY <1>1, <1>2, <1>8 DEF TypeOK

LEMMA TypeSettleSwitch == ASSUME IInv, NEW t \in Tasks, SettleSwitch(t) PROVE TypeOK'
<1>0. WorldOK /\ TasksOK /\ LocalsOK /\ WarmingOK /\ GraphOK /\ CachesOK BY DEF IInv, TypeOK
<1>1. TasksOK' BY <1>0 DEF TasksOK, SettleSwitch
<1>2. GraphOK' BY <1>0 DEF SettleSwitch, GraphOK, SettleBuild, Settled
<1>8. WorldOK' /\ LocalsOK' /\ WarmingOK' /\ CachesOK' BY <1>0, KeepOK DEF SettleSwitch
<1> QED BY <1>1, <1>2, <1>8 DEF TypeOK

LEMMA TypeSettleWarmup == ASSUME IInv, NEW t \in Tasks, SettleWarmup(t) PROVE TypeOK'
<1>0. WorldOK /\ TasksOK /\ LocalsOK /\ WarmingOK /\ GraphOK /\ CachesOK BY DEF IInv, TypeOK
<1>1. TasksOK'
  <2>1. \A u \in Tasks : AfterWarm(job[u].kind, TRUE) \in Pcs BY DEF AfterWarm
  <2> QED BY <1>0, <2>1 DEF SettleWarmup, TasksOK, WakeAwaiters
<1>2. WarmingOK' BY <1>0 DEF SettleWarmup, WarmingOK, WakeAwaiters, ReaderAfter
<1>3. GraphOK' BY <1>0 DEF SettleWarmup, GraphOK, SettleBuild, Settled
<1>8. WorldOK' /\ LocalsOK' /\ CachesOK' BY <1>0, KeepOK DEF SettleWarmup
<1> QED BY <1>1, <1>2, <1>3, <1>8 DEF TypeOK

LEMMA TypeFindOwner == ASSUME IInv, NEW t \in Tasks, FindOwner(t) PROVE TypeOK'
<1>0. WorldOK /\ TasksOK /\ LocalsOK /\ WarmingOK /\ GraphOK /\ CachesOK BY DEF IInv, TypeOK
<1>1. TasksOK' BY <1>0 DEF TasksOK, FindOwner
<1>8. WorldOK' /\ LocalsOK' /\ WarmingOK' /\ GraphOK' /\ CachesOK' BY <1>0, KeepOK DEF FindOwner
<1> QED BY <1>1, <1>8 DEF TypeOK

LEMMA TypeCheckLoaded == ASSUME IInv, NEW t \in Tasks, CheckLoaded(t) PROVE TypeOK'
<1>0. WorldOK /\ TasksOK /\ LocalsOK /\ WarmingOK /\ GraphOK /\ CachesOK BY DEF IInv, TypeOK
<1>1. t # "warm" /\ job[t] \in Job BY <1>0 DEF CheckLoaded, IInv, PcOK, PcsOf, TasksOK
<1>4. TasksOK' /\ LocalsOK' /\ WarmingOK'
  <2>1. CASE Has(Owner[job[t].arg]) /\ job[t].kind = "replace" /\ ~HasFile(job[t].arg) /\ ~disposed
    <3>1. job[t] \in [kind : Replacing, arg : Files, gen : Nat] BY <1>1, <2>1 DEF Job
    <3>2. [job[t] EXCEPT !.kind = "replaceMember"]
            = [kind |-> "replaceMember", arg |-> job[t].arg, gen |-> job[t].gen]
      BY <3>1
    <3>3. [job[t] EXCEPT !.kind = "replaceMember"] \in Job BY <3>1, <3>2 DEF Job
    <3>4. MaintenanceWarmed(t, [job[t] EXCEPT !.kind = "replaceMember"]) BY <2>1 DEF CheckLoaded
    <3>5. /\ job' \in [Tasks -> Job] /\ pc' \in [Tasks -> Pcs]
          /\ todo' \in [Tasks -> SUBSET Members] /\ scope' \in [Tasks -> SUBSET Members]
          /\ warmup' \in {"running", "ok", "rejected"} /\ warmupFailed' \in BOOLEAN
      BY <1>1, <3>3, <3>4, MaintType
    <3>6. TasksOK' BY <1>0, <3>5 DEF CheckLoaded, TasksOK
    <3>7. LocalsOK' BY <1>0, <3>5 DEF CheckLoaded, LocalsOK
    <3>8. WarmingOK' BY <1>0, <3>5 DEF CheckLoaded, WarmingOK
    <3> QED BY <3>6, <3>7, <3>8
  <2>2. CASE ~(Has(Owner[job[t].arg]) /\ job[t].kind = "replace" /\ ~HasFile(job[t].arg) /\ ~disposed)
    <3>1. PICK to \in {"idle", "sources"} : pc' = [pc EXCEPT ![t] = to] BY <2>2 DEF CheckLoaded
    <3>2. UNCHANGED <<job, warmup, warmupFailed, todo, scope>> BY <2>2 DEF CheckLoaded
    <3>3. TasksOK' BY <1>0, <3>1, <3>2 DEF CheckLoaded, TasksOK
    <3> QED BY <1>0, <3>2, <3>3, KeepOK DEF CheckLoaded
  <2> QED BY <2>1, <2>2
<1>8. WorldOK' /\ GraphOK' /\ CachesOK' BY <1>0, KeepOK DEF CheckLoaded
<1> QED BY <1>4, <1>8 DEF TypeOK

LEMMA TypeReadOwnerSources == ASSUME IInv, NEW t \in Tasks, ReadOwnerSources(t) PROVE TypeOK'
<1>0. WorldOK /\ TasksOK /\ LocalsOK /\ WarmingOK /\ GraphOK /\ CachesOK BY DEF IInv, TypeOK
<1>1. TasksOK' BY <1>0 DEF TasksOK, ReadOwnerSources
<1>2. LocalsOK'
  <2>1. \A f \in Files : Source(f) \in Nat BY <1>0 DEF Source, Absent, WorldOK
  <2>2. snap' \in [Tasks -> [Files -> Nat]] BY <1>0, <2>1 DEF ReadOwnerSources, LocalsOK, Absent
  <2> QED BY <1>0, <2>2 DEF ReadOwnerSources, LocalsOK
<1>8. WorldOK' /\ WarmingOK' /\ GraphOK' /\ CachesOK' BY <1>0, KeepOK DEF ReadOwnerSources
<1> QED BY <1>1, <1>2, <1>8 DEF TypeOK

LEMMA TypeReadOwnerSourcesFails == ASSUME IInv, NEW t \in Tasks, ReadOwnerSourcesFails(t) PROVE TypeOK'
<1>0. WorldOK /\ TasksOK /\ LocalsOK /\ WarmingOK /\ GraphOK /\ CachesOK BY DEF IInv, TypeOK
<1>1. WorldOK' BY <1>0 DEF ReadOwnerSourcesFails, WorldOK
<1>2. TasksOK' BY <1>0 DEF TasksOK, ReadOwnerSourcesFails
<1>3. GraphOK' BY <1>0 DEF ReadOwnerSourcesFails, GraphOK
<1>8. LocalsOK' /\ WarmingOK' /\ CachesOK' BY <1>0, KeepOK DEF ReadOwnerSourcesFails
<1> QED BY <1>1, <1>2, <1>3, <1>8 DEF TypeOK

(* Files a revision of the member of t's file may reload. *)
Reach(t) == FilesOf(Owner[job[t].arg]) \cup DependentFiles(Owner[job[t].arg])

(* A revision is left undone, reloads the file among others, rebuilds from  *)
(* the sources on record, or fails with neither set of sources loading.     *)
LEMMA Revision ==
  ASSUME IInv, NEW t \in Tasks, ReplaceFile(t) \/ ReplaceMember(t)
  PROVE  /\ job[t].arg \in Files /\ Reach(t) \in SUBSET Files
         /\ \/ /\ \/ disposed
                  \/ job[t].kind = "replace" /\ ~HasFile(job[t].arg)
                  \/ job[t].kind = "replaceMember" /\ ~Has(Owner[job[t].arg])
               /\ UNCHANGED <<graph, sourcesOf, missed>> /\ lastError' \in {lastError, TRUE}
            \/ /\ ~disposed
               /\ \/ \E files \in SUBSET Reach(t) : job[t].arg \in files /\ ReloadWith(t, files)
                  \/ RebuildOrRestore(t)
                  \/ \E files \in SUBSET Reach(t) : RepairFails(t, files)
<1> DEFINE f == job[t].arg
<1>1. f \in Files BY DEF IInv, TypeOK, TasksOK, Job, ReplaceFile, ReplaceMember
<1>2. FilesOf(Owner[f]) \in SUBSET Files /\ f \in FilesOf(Owner[f]) BY <1>1 DEF FilesOf
<1>3. DependentFiles(Owner[f]) \in SUBSET Files BY DEF DependentFiles, FilesOf
<1>4. Reach(t) \in SUBSET Files BY <1>2, <1>3 DEF Reach
<1>5. \A cone \in Cones(f) : /\ cone \in SUBSET Reach(t) /\ f \in cone
                             /\ cone \cup DependentFiles(Owner[f]) \in SUBSET Reach(t)
  BY DEF Cones, Reach
<1>6. CASE ReplaceFile(t)
  <2>1. CASE disposed \/ ~HasFile(f) BY <1>1, <1>4, <1>6, <2>1 DEF ReplaceFile
  <2>2. CASE ~(disposed \/ ~HasFile(f))
    <3>1. \/ \E cone \in Cones(f) : ReloadWith(t, cone \cup DependentFiles(Owner[f]))
          \/ RebuildOrRestore(t)
          \/ \E cone \in Cones(f) : \/ RepairFails(t, cone)
                                   \/ RepairFails(t, cone \cup DependentFiles(Owner[f]))
          \/ RepairFails(t, {})
      BY <1>6, <2>2 DEF ReplaceFile, ReloadFails
    <3> HIDE DEF f
    <3>2. ASSUME NEW cone \in Cones(f), ReloadWith(t, cone \cup DependentFiles(Owner[f]))
          PROVE \E files \in SUBSET Reach(t) : f \in files /\ ReloadWith(t, files)
      BY <1>5, <3>2
    <3>3. ASSUME NEW cone \in Cones(f), \/ RepairFails(t, cone)
                                       \/ RepairFails(t, cone \cup DependentFiles(Owner[f]))
          PROVE \E files \in SUBSET Reach(t) : RepairFails(t, files)
      BY <1>5, <3>3
    <3> QED BY <1>1, <1>4, <2>2, <3>1, <3>2, <3>3 DEF f
  <2> QED BY <2>1, <2>2
<1>7. CASE ReplaceMember(t)
  <2>1. CASE disposed \/ ~Has(Owner[f]) BY <1>1, <1>4, <1>7, <2>1 DEF ReplaceMember
  <2>2. CASE ~(disposed \/ ~Has(Owner[f]))
    <3>1. ReloadWith(t, Reach(t)) \/ RebuildOrRestore(t) \/ RepairFails(t, Reach(t)) \/ RepairFails(t, {})
      BY <1>7, <2>2 DEF ReplaceMember, ReloadFails, Reach
    <3>2. f \in Reach(t) BY <1>2 DEF Reach
    <3> HIDE DEF f
    <3> QED BY <1>1, <1>4, <2>2, <3>1, <3>2 DEF f
  <2> QED BY <2>1, <2>2
<1> QED BY <1>6, <1>7

(* A revision clears no error and settles no full build. *)
LEMMA RevisionFlags ==
  ASSUME IInv, NEW t \in Tasks, ReplaceFile(t) \/ ReplaceMember(t)
  PROVE  (lastError => lastError') /\ UNCHANGED buildFailed
<1>1. ASSUME NEW files, ReloadWith(t, files) PROVE UNCHANGED lastError BY <1>1 DEF ReloadWith
<1>2. RebuildOrRestore(t) => UNCHANGED lastError BY DEF RebuildOrRestore
<1>3. ASSUME NEW files, RepairFails(t, files) PROVE lastError => lastError' BY <1>3 DEF RepairFails
<1>4. lastError => lastError' BY <1>1, <1>2, <1>3, Revision
<1>5. UNCHANGED buildFailed BY DEF ReplaceFile, ReplaceMember
<1> QED BY <1>4, <1>5

LEMMA TypeRevision ==
  ASSUME IInv, NEW t \in Tasks, ReplaceFile(t) \/ ReplaceMember(t)
  PROVE  GraphOK'
<1>0. GraphOK /\ LocalsOK BY DEF IInv, TypeOK
<1>1. /\ graph \in [Files -> Nat] /\ sourcesOf \in [Files -> Nat] /\ snap[t] \in [Files -> Nat]
      /\ missed \in SUBSET Files /\ lastError \in BOOLEAN
  BY <1>0 DEF GraphOK, LocalsOK
<1>2. RecordSources(t) \in [Files -> Nat] BY <1>1 DEF RecordSources
<1>3. \A files : Reloaded(RecordSources(t), files) \in [Files -> Nat] BY <1>1, <1>2 DEF Reloaded
<1> DEFINE Typed == /\ graph' \in [Files -> Nat] /\ sourcesOf' \in [Files -> Nat]
                    /\ missed' \in SUBSET Files /\ lastError' \in BOOLEAN
<1>4. ASSUME UNCHANGED <<graph, sourcesOf, missed>>, lastError' \in {lastError, TRUE} PROVE Typed
  BY <1>1, <1>4
<1>5. ASSUME NEW files \in SUBSET Reach(t), ReloadWith(t, files) PROVE Typed
  BY <1>1, <1>2, <1>3, <1>5 DEF ReloadWith
<1>6. ASSUME RebuildOrRestore(t) PROVE Typed BY <1>1, <1>2, <1>6, Revision DEF RebuildOrRestore
<1>7. ASSUME NEW files \in SUBSET Reach(t), RepairFails(t, files) PROVE Typed
  <2>1. PICK lost \in SUBSET files :
          /\ graph' = [g \in Files |-> IF g \in lost THEN Absent
                                       ELSE Reloaded(RecordSources(t), files)[g]]
          /\ missed' = missed \cup lost \cup {job[t].arg}
    BY <1>7 DEF RepairFails
  <2>2. graph' \in [Files -> Nat] BY <1>3, <2>1 DEF Absent
  <2>3. missed' \in SUBSET Files BY <1>1, <2>1, Revision
  <2> QED BY <1>1, <1>7, <2>2, <2>3 DEF RepairFails
<1> HIDE DEF Typed
<1>8. Typed BY <1>4, <1>5, <1>6, <1>7, Revision
<1> QED BY <1>0, <1>8 DEF Typed, ReplaceFile, ReplaceMember, GraphOK

LEMMA TypeReplaceFile == ASSUME IInv, NEW t \in Tasks, ReplaceFile(t) PROVE TypeOK'
<1>0. WorldOK /\ TasksOK /\ LocalsOK /\ WarmingOK /\ GraphOK /\ CachesOK BY DEF IInv, TypeOK
<1>1. TasksOK' BY <1>0 DEF TasksOK, ReplaceFile
<1>2. GraphOK' BY TypeRevision
<1>8. WorldOK' /\ LocalsOK' /\ WarmingOK' /\ CachesOK' BY <1>0, KeepOK DEF ReplaceFile
<1> QED BY <1>1, <1>2, <1>8 DEF TypeOK

LEMMA TypeReplaceMember == ASSUME IInv, NEW t \in Tasks, ReplaceMember(t) PROVE TypeOK'
<1>0. WorldOK /\ TasksOK /\ LocalsOK /\ WarmingOK /\ GraphOK /\ CachesOK BY DEF IInv, TypeOK
<1>1. TasksOK' BY <1>0 DEF TasksOK, ReplaceMember
<1>2. GraphOK' BY TypeRevision
<1>8. WorldOK' /\ LocalsOK' /\ WarmingOK' /\ CachesOK' BY <1>0, KeepOK DEF ReplaceMember
<1> QED BY <1>1, <1>2, <1>8 DEF TypeOK

LEMMA TypeDequeue == ASSUME IInv, Dequeue PROVE TypeOK'
<1>0. WorldOK /\ TasksOK /\ LocalsOK /\ WarmingOK /\ GraphOK /\ CachesOK BY DEF IInv, TypeOK
<1> DEFINE j == Head(queue)
<1>1. /\ "head" \in Tasks /\ "head" # "warm" /\ j \in Job /\ Tail(queue) \in Seq(Job)
      /\ queue' = Tail(queue)
  BY <1>0, NamesFact DEF Dequeue, TasksOK
<1> HIDE DEF j
<1>2. /\ job' \in [Tasks -> Job] /\ pc' \in [Tasks -> Pcs]
      /\ todo' \in [Tasks -> SUBSET Members] /\ scope' \in [Tasks -> SUBSET Members]
      /\ warmup' \in {"running", "ok", "rejected"} /\ warmupFailed' \in BOOLEAN
      /\ retryQueued' \in BOOLEAN
      /\ reader' \in [Readers -> {"idle", "warm", "retry", "retrying", "served", "rejected"}]
  <2>0. /\ job \in [Tasks -> Job] /\ pc \in [Tasks -> Pcs] /\ switchGen \in Nat
        /\ todo \in [Tasks -> SUBSET Members] /\ scope \in [Tasks -> SUBSET Members]
        /\ warmup \in {"running", "ok", "rejected"} /\ warmupFailed \in BOOLEAN
        /\ Opened(active) \in SUBSET Members /\ retryQueued \in BOOLEAN
        /\ reader \in [Readers -> {"idle", "warm", "retry", "retrying", "served", "rejected"}]
    BY <1>0 DEF TasksOK, GraphOK, LocalsOK, WarmingOK, WorldOK
  <2>1. CASE j.kind \in {"switch", "start"}
    <3>1. PICK to \in {"warm", "assemble", "sweep"} :
            job' = [job EXCEPT !["head"] = j] /\ pc' = [pc EXCEPT !["head"] = to]
      BY <2>1 DEF Dequeue, j
    <3>2. \/ UNCHANGED todo
          \/ todo' = [todo EXCEPT !["head"] =
                        {m \in Members : watcher[m] = "warming" /\ j.gen = switchGen}]
      BY <2>1 DEF Dequeue, j
    <3>3. todo' \in [Tasks -> SUBSET Members] BY <2>0, <3>2
    <3>4. UNCHANGED <<warmup, warmupFailed, scope, retryQueued, reader>> BY <2>1 DEF Dequeue, j
    <3> QED BY <1>1, <2>0, <3>1, <3>3, <3>4
  <2>2. CASE j.kind = "retry"
    <3>1. /\ retryQueued' = FALSE
          /\ reader' = [r \in Readers |-> IF reader[r] = "retry" THEN "retrying" ELSE reader[r]]
          /\ IF warmupFailed /\ ~disposed
             THEN StartWarmup("head", j, "warm")
             ELSE /\ job' = [job EXCEPT !["head"] = j] /\ pc' = [pc EXCEPT !["head"] = "resolve"]
                  /\ UNCHANGED <<warmup, warmupFailed, scope, todo>>
      BY <2>2 DEF Dequeue, j
    <3>2. reader' \in [Readers -> {"idle", "warm", "retry", "retrying", "served", "rejected"}]
      BY <2>0, <3>1
    <3>3. CASE warmupFailed /\ ~disposed
      <4>1. StartWarmup("head", j, "warm") BY <3>1, <3>3
      <4> QED BY <1>1, <2>0, <3>1, <3>2, <4>1, StartType
    <3>4. CASE ~(warmupFailed /\ ~disposed)
      <4>1. /\ job' = [job EXCEPT !["head"] = j] /\ pc' = [pc EXCEPT !["head"] = "resolve"]
            /\ UNCHANGED <<warmup, warmupFailed, scope, todo>>
        BY <3>1, <3>4
      <4>2. job' \in [Tasks -> Job] BY <1>1, <2>0, <4>1
      <4>3. pc' \in [Tasks -> Pcs] BY <2>0, <4>1
      <4> QED BY <2>0, <3>1, <3>2, <4>1, <4>2, <4>3
    <3> QED BY <3>3, <3>4
  <2>3. CASE j.kind \in Invalidating \cup {"replace"}
    <3>1. UNCHANGED <<retryQueued, reader>> BY <2>3 DEF Dequeue, j
    <3>2. CASE disposed
      <4>1. UNCHANGED <<job, pc, warmup, warmupFailed, scope, todo>> BY <2>3, <3>2 DEF Dequeue, j
      <4> QED BY <2>0, <3>1, <4>1
    <3>3. CASE ~disposed
      <4>1. MaintenanceWarmed("head", j) BY <2>3, <3>3 DEF Dequeue, j
      <4> QED BY <1>1, <2>0, <3>1, <4>1, MaintType
    <3> QED BY <3>2, <3>3
  <2>4. j.kind \in {"switch", "start", "retry"} \cup Invalidating \cup {"replace"} BY DEF Dequeue, j
  <2> QED BY <2>1, <2>2, <2>3, <2>4
<1>3. TasksOK' BY <1>0, <1>1, <1>2 DEF TasksOK
<1>4. LocalsOK' BY <1>0, <1>2 DEF Dequeue, LocalsOK
<1>5. WarmingOK' BY <1>0, <1>2 DEF Dequeue, WarmingOK
<1>8. WorldOK' /\ GraphOK' /\ CachesOK' BY <1>0, KeepOK DEF Dequeue
<1> QED BY <1>3, <1>4, <1>5, <1>8 DEF TypeOK

LEMMA TypeDidChange == ASSUME IInv, NEW f \in Files, DidChange(f) PROVE TypeOK'
<1>0. WorldOK /\ TasksOK /\ LocalsOK /\ WarmingOK /\ GraphOK /\ CachesOK BY DEF IInv, TypeOK
<1>1. WorldOK'
  <2>1. live' \in [Files -> Nat] BY <1>0 DEF DidChange, WorldOK
  <2> QED BY <1>0, <2>1 DEF DidChange, WorldOK
<1>2. TasksOK' /\ CachesOK'
  <2>1. CASE Owner[f] \in Opened(active)
    <3>1. replaceGen' = [replaceGen EXCEPT ![f] = @ + 1] BY <2>1 DEF DidChange
    <3>2. replaceGen' \in [Files -> Nat] BY <1>0, <3>1 DEF CachesOK
    <3>3. [kind |-> "replace", arg |-> f, gen |-> replaceGen'[f]] \in Job BY <3>2 DEF Job
    <3>4. queue' = Append(queue, [kind |-> "replace", arg |-> f, gen |-> replaceGen'[f]])
      BY <2>1 DEF DidChange
    <3>5. queue' \in Seq(Job) BY <1>0, <3>3, <3>4, AppendJob DEF TasksOK
    <3>6. TasksOK' BY <1>0, <3>5 DEF DidChange, TasksOK
    <3>7. CachesOK' BY <1>0, <3>2 DEF DidChange, CachesOK
    <3> QED BY <3>6, <3>7
  <2>2. CASE Owner[f] \notin Opened(active) BY <1>0, <2>2, KeepOK DEF DidChange
  <2> QED BY <2>1, <2>2
<1>8. LocalsOK' /\ WarmingOK' /\ GraphOK' BY <1>0, KeepOK DEF DidChange
<1> QED BY <1>1, <1>2, <1>8 DEF TypeOK

LEMMA TypeDiskChange == ASSUME IInv, NEW f \in Files, DiskChange(f) PROVE TypeOK'
<1>0. WorldOK /\ TasksOK /\ LocalsOK /\ WarmingOK /\ GraphOK /\ CachesOK BY DEF IInv, TypeOK
<1>1. WorldOK'
  <2>1. disk' \in SUBSET Files BY <1>0 DEF DiskChange, WorldOK
  <2>2. used' \in [{"insert", "remove", "disk", "warm", "read"} -> Nat] BY <1>0 DEF DiskChange, WorldOK
  <2> QED BY <1>0, <2>1, <2>2 DEF DiskChange, WorldOK
<1>2. TasksOK'
  <2>1. Plain("changed", Owner[f]) \in Job BY ShapeAssumption DEF Job
  <2>2. queue' \in Seq(Job) BY <1>0, <2>1, AppendJob DEF DiskChange, TasksOK
  <2> QED BY <1>0, <2>2 DEF DiskChange, TasksOK
<1>8. LocalsOK' /\ WarmingOK' /\ GraphOK' /\ CachesOK' BY <1>0, KeepOK DEF DiskChange
<1> QED BY <1>1, <1>2, <1>8 DEF TypeOK

LEMMA TypeSwitchSolution == ASSUME IInv, NEW s \in Scopes, SwitchSolution(s) PROVE TypeOK'
<1>0. WorldOK /\ TasksOK /\ LocalsOK /\ WarmingOK /\ GraphOK /\ CachesOK BY DEF IInv, TypeOK
<1>1. WorldOK' BY <1>0 DEF SwitchSolution, WorldOK
<1>2. TasksOK'
  <2> DEFINE started == [kind |-> "start", arg |-> NoSolution, gen |-> switchGen + 1]
             switched == [kind |-> "switch", arg |-> NoSolution, gen |-> switchGen + 1]
  <2>1. started \in Job /\ switched \in Job BY <1>0 DEF GraphOK, Job
  <2>2. queue \in Seq(Job) /\ queue' = queue \o <<started, switched>> BY <1>0 DEF SwitchSolution, TasksOK
  <2> HIDE DEF started, switched
  <2>3. <<started, switched>> \in Seq(Job) BY <2>1
  <2>4. queue' \in Seq(Job) BY <2>2, <2>3
  <2> QED BY <1>0, <2>4 DEF SwitchSolution, TasksOK
<1>3. GraphOK' BY <1>0 DEF SwitchSolution, GraphOK
<1>4. CachesOK'
  <2>1. watcher' \in [Members -> {"none", "warming", "live"}] BY DEF SwitchSolution
  <2> QED BY <1>0, <2>1 DEF SwitchSolution, CachesOK
<1>8. LocalsOK' /\ WarmingOK' BY <1>0, KeepOK DEF SwitchSolution
<1> QED BY <1>1, <1>2, <1>3, <1>4, <1>8 DEF TypeOK

LEMMA TypeInsertMember == ASSUME IInv, NEW m \in Members, InsertMember(m) PROVE TypeOK'
<1>0. WorldOK /\ TasksOK /\ LocalsOK /\ WarmingOK /\ GraphOK /\ CachesOK BY DEF IInv, TypeOK
<1>1. WorldOK'
  <2>1. membersOf' \in [Scopes -> SUBSET Members] BY <1>0 DEF InsertMember, WorldOK
  <2>2. used' \in [{"insert", "remove", "disk", "warm", "read"} -> Nat] BY <1>0 DEF InsertMember, WorldOK
  <2> QED BY <1>0, <2>1, <2>2 DEF InsertMember, WorldOK
<1>2. TasksOK'
  <2>1. Plain("insert", m) \in Job BY DEF Job
  <2>2. queue' \in Seq(Job) BY <1>0, <2>1, AppendJob DEF InsertMember, TasksOK
  <2> QED BY <1>0, <2>2 DEF InsertMember, TasksOK
<1>8. LocalsOK' /\ WarmingOK' /\ GraphOK' /\ CachesOK' BY <1>0, KeepOK DEF InsertMember
<1> QED BY <1>1, <1>2, <1>8 DEF TypeOK

LEMMA TypeRemoveMember == ASSUME IInv, NEW m \in Members, RemoveMember(m) PROVE TypeOK'
<1>0. WorldOK /\ TasksOK /\ LocalsOK /\ WarmingOK /\ GraphOK /\ CachesOK BY DEF IInv, TypeOK
<1>1. WorldOK'
  <2>1. membersOf' \in [Scopes -> SUBSET Members] BY <1>0 DEF RemoveMember, WorldOK
  <2>2. used' \in [{"insert", "remove", "disk", "warm", "read"} -> Nat] BY <1>0 DEF RemoveMember, WorldOK
  <2> QED BY <1>0, <2>1, <2>2 DEF RemoveMember, WorldOK
<1>2. TasksOK'
  <2>1. Plain("remove", m) \in Job BY DEF Job
  <2>2. queue' \in Seq(Job) BY <1>0, <2>1, AppendJob DEF RemoveMember, TasksOK
  <2> QED BY <1>0, <2>2 DEF RemoveMember, TasksOK
<1>3. CachesOK'
  <2>1. watcher' \in [Members -> {"none", "warming", "live"}] BY <1>0 DEF RemoveMember, CachesOK
  <2> QED BY <1>0, <2>1 DEF RemoveMember, CachesOK
<1>8. LocalsOK' /\ WarmingOK' /\ GraphOK' BY <1>0, KeepOK DEF RemoveMember
<1> QED BY <1>1, <1>2, <1>3, <1>8 DEF TypeOK

LEMMA TypeReferencesChanged == ASSUME IInv, NEW e \in Events, NEW m \in Members, ReferencesChanged(e, m) PROVE TypeOK'
<1>0. WorldOK /\ TasksOK /\ LocalsOK /\ WarmingOK /\ GraphOK /\ CachesOK BY DEF IInv, TypeOK
<1>1. WorldOK'
  <2>1. want' \in [Members -> Nat] BY <1>0 DEF ReferencesChanged, WorldOK
  <2> QED BY <1>0, <2>1 DEF ReferencesChanged, WorldOK
<1>2. TasksOK' /\ LocalsOK' /\ WarmingOK'
  <2>1. e \in Tasks /\ e # "warm" BY NamesFact DEF Tasks
  <2>2. Plain("references", m) \in Job BY DEF Job
  <2>3. MaintenanceWarmed(e, Plain("references", m)) BY DEF ReferencesChanged
  <2>4. /\ job' \in [Tasks -> Job] /\ pc' \in [Tasks -> Pcs]
        /\ todo' \in [Tasks -> SUBSET Members] /\ scope' \in [Tasks -> SUBSET Members]
        /\ warmup' \in {"running", "ok", "rejected"} /\ warmupFailed' \in BOOLEAN
    BY <2>1, <2>2, <2>3, MaintType
  <2>5. TasksOK' BY <1>0, <2>4 DEF ReferencesChanged, TasksOK
  <2>6. LocalsOK' BY <1>0, <2>4 DEF ReferencesChanged, LocalsOK
  <2>7. WarmingOK' BY <1>0, <2>4 DEF ReferencesChanged, WarmingOK
  <2> QED BY <2>5, <2>6, <2>7
<1>3. CachesOK'
  <2>1. want'[m] \in Nat BY <1>1 DEF WorldOK
  <2>2. owed' \in [Members -> Nat] BY <1>0, <2>1 DEF ReferencesChanged, CachesOK
  <2> QED BY <1>0, <2>2 DEF ReferencesChanged, CachesOK
<1>8. GraphOK' BY <1>0, KeepOK DEF ReferencesChanged
<1> QED BY <1>1, <1>2, <1>3, <1>8 DEF TypeOK

LEMMA TypeCompileMember == ASSUME IInv, NEW m \in Members, CompileMember(m) PROVE TypeOK'
<1>0. WorldOK /\ TasksOK /\ LocalsOK /\ WarmingOK /\ GraphOK /\ CachesOK BY DEF IInv, TypeOK
<1>1. CachesOK' BY <1>0 DEF CompileMember, CachesOK
<1>8. WorldOK' /\ TasksOK' /\ LocalsOK' /\ WarmingOK' /\ GraphOK' BY <1>0, KeepOK DEF CompileMember
<1> QED BY <1>1, <1>8 DEF TypeOK

LEMMA TypeRequest == ASSUME IInv, NEW r \in Readers, Request(r) PROVE TypeOK'
<1>0. WorldOK /\ TasksOK /\ LocalsOK /\ WarmingOK /\ GraphOK /\ CachesOK BY DEF IInv, TypeOK
<1>1. TasksOK'
  <2>1. Plain("retry", NoSolution) \in Job BY DEF Job
  <2>2. queue' \in Seq(Job) BY <1>0, <2>1, AppendJob DEF Request, TasksOK
  <2> QED BY <1>0, <2>2 DEF Request, TasksOK
<1>2. WarmingOK' BY <1>0 DEF Request, WarmingOK, ReaderAfter
<1>8. WorldOK' /\ LocalsOK' /\ GraphOK' /\ CachesOK' BY <1>0, KeepOK DEF Request
<1> QED BY <1>1, <1>2, <1>8 DEF TypeOK

LEMMA TypeDispose == ASSUME IInv, Dispose PROVE TypeOK'
<1>0. WorldOK /\ TasksOK /\ LocalsOK /\ WarmingOK /\ GraphOK /\ CachesOK BY DEF IInv, TypeOK
<1>1. WarmingOK' BY <1>0 DEF Dispose, WarmingOK
<1>2. CachesOK'
  <2>1. watcher' \in [Members -> {"none", "warming", "live"}] BY DEF Dispose
  <2> QED BY <1>0, <2>1 DEF Dispose, CachesOK
<1>8. WorldOK' /\ TasksOK' /\ LocalsOK' /\ GraphOK' BY <1>0, KeepOK DEF Dispose
<1> QED BY <1>1, <1>2, <1>8 DEF TypeOK

(* Hence every step keeps the types. *)
LEMMA TypeStep == ASSUME IInv, [Next]_vars PROVE TypeOK'
<1>1. CASE Dequeue BY <1>1, TypeDequeue
<1>2. ASSUME NEW t \in Tasks, Step(t) PROVE TypeOK'
  BY <1>2, TypeWarmupRejects, TypeSweep, TypeResolveRetry, TypeInvalidate, TypeReadStale, TypeResolveBases, TypeRegister, TypeDropStale, TypeRefreshFails, TypeAssemble, TypeReadSources, TypeAssembleFails, TypeBuild, TypeSettleSwitch, TypeSettleWarmup, TypeFindOwner, TypeCheckLoaded, TypeReadOwnerSources, TypeReadOwnerSourcesFails, TypeReplaceFile, TypeReplaceMember DEF Step
<1>3. CASE Environment
  BY <1>3, TypeTimePasses, TypeDispose, TypeDidChange, TypeDiskChange, TypeSwitchSolution,
     TypeInsertMember, TypeRemoveMember, TypeCompileMember, TypeReferencesChanged, TypeRequest
  DEF Environment
<1>4. CASE UNCHANGED vars
  BY <1>4, KeepOK DEF vars, IInv, TypeOK
<1> QED BY <1>1, <1>2, <1>3, <1>4 DEF Next
------------------------------------------------------------------------------
(* Where each task stands, and who settles a build.                         *)

Control == PcOK /\ NoWarmQueued /\ BuildingHasSettler

(* Task t is the one BuildingHasSettler counts on. *)
Settles(t) == job[t].kind \in {"warm", "switch"} /\ job[t].gen = switchGen /\ pc[t] # "idle"

(* A step of one task that only moves its program counter. *)
LEMMA MoveControl ==
  ASSUME IInv, NEW t \in Tasks, NEW to \in PcsOf(job[t].kind),
         pc' = [pc EXCEPT ![t] = to],
         UNCHANGED <<job, queue, disposed, switchGen>>,
         buildState' = "Building" => buildState = "Building",
         Settles(t) /\ to = "idle" /\ ~disposed => buildState' # "Building"
  PROVE  Control'
<1>1. pc \in [Tasks -> Pcs] BY DEF IInv, TypeOK, TasksOK
<1>2. PcOK' BY <1>1 DEF IInv, PcOK
<1>3. NoWarmQueued' BY DEF IInv, NoWarmQueued
<1>4. BuildingHasSettler'
  <2> SUFFICES ASSUME ~disposed, buildState = "Building", buildState' = "Building" PROVE BuildingHasSettler'
    BY DEF BuildingHasSettler
  <2>1. CASE \E i \in DOMAIN queue : queue[i].kind = "switch" /\ queue[i].gen = switchGen
    BY <2>1 DEF BuildingHasSettler
  <2>2. CASE \E u \in {"warm", "head"} : Settles(u)
    <3> PICK u \in {"warm", "head"} : Settles(u) BY <2>2
    <3>1. pc'[u] # "idle" BY <1>1, NamesFact DEF Settles
    <3> QED BY <3>1 DEF BuildingHasSettler, Settles
  <2> QED BY <2>1, <2>2 DEF IInv, BuildingHasSettler, Settles
<1> QED BY <1>2, <1>3, <1>4 DEF Control

(* A step that leaves every task where it is. *)
LEMMA StayControl ==
  ASSUME IInv, UNCHANGED <<job, pc, disposed, switchGen>>,
         buildState' = "Building" => buildState = "Building",
         \/ queue' = queue
         \/ \E j \in Job : j.kind # "warm" /\ queue' = Append(queue, j)
  PROVE  Control'
<1>0. queue \in Seq(Job) BY DEF IInv, TypeOK, TasksOK
<1>1. PcOK' BY DEF IInv, PcOK
<1>2. NoWarmQueued' /\ \A i \in DOMAIN queue : i \in DOMAIN queue' /\ queue'[i] = queue[i]
  <2>1. CASE queue' = queue BY <2>1 DEF IInv, NoWarmQueued
  <2>2. ASSUME NEW j \in Job, j.kind # "warm", queue' = Append(queue, j)
        PROVE NoWarmQueued' /\ \A i \in DOMAIN queue : i \in DOMAIN queue' /\ queue'[i] = queue[i]
    BY <1>0, <2>2 DEF IInv, NoWarmQueued
  <2> QED BY <2>1, <2>2
<1>3. BuildingHasSettler' BY <1>2 DEF IInv, BuildingHasSettler
<1> QED BY <1>1, <1>2, <1>3 DEF Control

(* The attempt settles: the awaiting tasks go on, only the warmup stops. *)
LEMMA WakeControl ==
  ASSUME IInv, NEW ok \in BOOLEAN, WakeAwaiters(ok),
         UNCHANGED <<job, queue, disposed, switchGen>>,
         buildState' = "Building" => buildState = "Building",
         Settles("warm") /\ ~disposed => buildState' # "Building"
  PROVE  Control'
<1>1. pc \in [Tasks -> Pcs] BY DEF IInv, TypeOK, TasksOK
<1>2. PcOK'
  <2> SUFFICES ASSUME NEW t \in Tasks PROVE pc'[t] \in PcsOf(job[t].kind)
    BY DEF IInv, PcOK
  <2>1. CASE t = "warm" BY <2>1 DEF IInv, PcOK, PcsOf, WakeAwaiters
  <2>2. CASE t # "warm" /\ pc[t] # "warm" BY <2>2 DEF IInv, PcOK, WakeAwaiters
  <2>3. CASE t # "warm" /\ pc[t] = "warm"
    <3>1. pc'[t] = AfterWarm(job[t].kind, ok) BY <2>3 DEF WakeAwaiters
    <3>2. "warm" \in PcsOf(job[t].kind) BY <2>3 DEF IInv, PcOK
    <3> QED BY <3>1, <3>2 DEF PcsOf, AfterWarm
  <2> QED BY <2>1, <2>2, <2>3
<1>3. NoWarmQueued' BY DEF IInv, NoWarmQueued
<1>4. BuildingHasSettler'
  <2> SUFFICES ASSUME ~disposed, buildState = "Building", buildState' = "Building" PROVE BuildingHasSettler'
    BY DEF BuildingHasSettler
  <2>1. CASE \E i \in DOMAIN queue : queue[i].kind = "switch" /\ queue[i].gen = switchGen
    BY <2>1 DEF BuildingHasSettler
  <2>2. CASE Settles("head")
    <3>1. job["head"].kind = "switch" /\ pc["head"] # "idle"
      BY <2>2, NamesFact, NamesAssumption DEF IInv, PcOK, Settles
    <3>2. pc'["head"] # "idle" BY <3>1, NamesFact DEF WakeAwaiters, AfterWarm
    <3> QED BY <2>2, <3>2 DEF BuildingHasSettler, Settles
  <2> QED BY <2>1, <2>2 DEF IInv, BuildingHasSettler, Settles
<1> QED BY <1>2, <1>3, <1>4 DEF Control

(* Awaiting the warmup from task t, which was idle or on maintenance: a new *)
(* attempt carries the current generation.                                  *)
LEMMA MaintControl ==
  ASSUME IInv, NEW t \in Tasks, t # "warm", NEW j \in Job,
         j.kind \in Invalidating \cup Replacing, t \in Events => j.kind = "references",
         MaintenanceWarmed(t, j), ~Settles(t)
  PROVE  /\ PcOK'
         /\ UNCHANGED switchGen => \A u \in {"warm", "head"} : Settles(u) => \E v \in {"warm", "head"} : Settles(v)'
<1>1. pc \in [Tasks -> Pcs] /\ job \in [Tasks -> Job] BY DEF IInv, TypeOK, TasksOK
<1>2. CASE warmupFailed /\ ~throttled
  <2>1. /\ job' = [job EXCEPT ![t] = j, !["warm"] = [Plain("warm", NoSolution) EXCEPT !.gen = switchGen]]
        /\ pc' = [pc EXCEPT ![t] = "warm", !["warm"] = "bases"]
    BY <1>2 DEF MaintenanceWarmed, StartWarmup
  <2>2. job'["warm"].kind = "warm" /\ job'["warm"].gen = switchGen /\ pc'["warm"] = "bases"
        /\ job'[t] = j /\ pc'[t] = "warm"
        /\ \A u \in Tasks \ {t, "warm"} : job'[u] = job[u] /\ pc'[u] = pc[u]
    BY <1>1, <2>1, NamesFact
  <2>3. PcOK' BY <2>2 DEF IInv, PcOK, PcsOf
  <2> QED BY <2>2, <2>3 DEF Settles
<1>3. CASE ~(warmupFailed /\ ~throttled)
  <2>1. /\ job' = [job EXCEPT ![t] = j]
        /\ pc' = [pc EXCEPT ![t] = IF warmup = "running" THEN "warm" ELSE AfterWarm(j.kind, warmup = "ok")]
    BY <1>3 DEF MaintenanceWarmed, Goto
  <2>2. job'[t] = j /\ pc'[t] \in {"warm", AfterWarm(j.kind, warmup = "ok")}
        /\ \A u \in Tasks \ {t} : job'[u] = job[u] /\ pc'[u] = pc[u]
    BY <1>1, <2>1
  <2>3. pc'[t] \in PcsOf(j.kind) BY <2>2 DEF PcsOf, AfterWarm
  <2>4. PcOK' BY <2>2, <2>3 DEF IInv, PcOK
  <2> QED BY <2>2, <2>4, NamesFact DEF Settles
<1> QED BY <1>2, <1>3

(* The kind of job a task can run at each await. *)
LEMMA PcKind ==
  ASSUME IInv, NEW t \in Tasks
  PROVE  /\ pc[t] \in {"invalidate", "live", "refresh"} => job[t].kind \in Invalidating
         /\ pc[t] = "sweep" => job[t].kind = "start"
         /\ pc[t] = "resolve" => job[t].kind = "retry"
         /\ pc[t] \in {"owner", "check", "sources", "apply"} => job[t].kind \in Replacing
         /\ pc[t] = "bases" => job[t].kind = "warm"
         /\ pc[t] = "settle" => job[t].kind \in {"warm", "switch"}
         /\ pc[t] = "assemble" => job[t].kind \in {"switch"} \cup Invalidating
         /\ pc[t] = "read" => job[t].kind \in {"warm", "switch"} \cup Invalidating
         /\ pc[t] = "register" => job[t].kind \in {"warm"} \cup Invalidating
<1>1. pc[t] \in PcsOf(job[t].kind) /\ job[t] \in Job BY DEF IInv, PcOK, TypeOK, TasksOK
<1> QED BY <1>1 DEF PcsOf, Job

LEMMA StepControl == ASSUME IInv, NEW t \in Tasks, Step(t) PROVE Control'
<1> USE DEF world, locals, warming, shared, build, caches, Goto
<1>1. CASE WarmupRejects(t)
  BY <1>1, WakeControl DEF WarmupRejects, Settles
<1>2. CASE Sweep(t)
  <2>1. CASE todo[t] = {}
    BY <1>2, <2>1, PcKind, MoveControl DEF Sweep, PcsOf, Settles
  <2>2. CASE todo[t] # {}
    BY <1>2, <2>2, StayControl DEF Sweep
  <2> QED BY <2>1, <2>2
<1>3. CASE ResolveRetry(t)
  BY <1>3, PcKind, MoveControl DEF ResolveRetry, PcsOf, Settles
<1>4. CASE Invalidate(t)
  <2>1. job[t].kind \in Invalidating BY <1>4, PcKind DEF Invalidate
  <2>2. "live" \in PcsOf(job[t].kind) /\ "assemble" \in PcsOf(job[t].kind) BY <2>1 DEF PcsOf
  <2> QED BY <1>4, <2>1, <2>2, MoveControl DEF Invalidate
<1>5. CASE ReadStale(t)
  <2>1. job[t].kind \in Invalidating BY <1>5, PcKind DEF ReadStale
  <2>2. "refresh" \in PcsOf(job[t].kind) BY <2>1 DEF PcsOf
  <2> QED BY <1>5, <2>1, <2>2, MoveControl DEF ReadStale
<1>6. CASE ResolveBases(t)
  <2>1. "register" \in PcsOf(job[t].kind) BY <1>6, PcKind DEF ResolveBases, PcsOf
  <2> QED BY <1>6, <2>1, MoveControl DEF ResolveBases
<1>7. CASE Register(t)
  <2> DEFINE to == IF t = "warm" THEN "bases" ELSE "refresh"
  <2>1. to \in PcsOf(job[t].kind) /\ to # "idle" BY <1>7, PcKind DEF Register, PcsOf, IInv, PcOK
  <2>2. pc' = [pc EXCEPT ![t] = to] BY <1>7 DEF Register
  <2> HIDE DEF to
  <2> QED BY <1>7, <2>1, <2>2, MoveControl DEF Register
<1>8. CASE DropStale(t)
  BY <1>8, StayControl DEF DropStale
<1>9. CASE RefreshFails(t)
  <2>1. "assemble" \in PcsOf(job[t].kind) BY <1>9, PcKind DEF RefreshFails, PcsOf
  <2> QED BY <1>9, <2>1, MoveControl DEF RefreshFails
<1>10. CASE Assemble(t)
  <2>1. job[t].kind \in {"warm", "switch"} \cup Invalidating BY <1>10, PcKind DEF Assemble
  <2>2. "read" \in PcsOf(job[t].kind) /\ AfterRebuild(t) \in PcsOf(job[t].kind)
    BY <2>1 DEF PcsOf, AfterRebuild
  <2>3. AfterRebuild(t) = "idle" => ~Settles(t) BY DEF AfterRebuild, Settles
  <2>4. PICK to \in {"read", AfterRebuild(t)} : pc' = [pc EXCEPT ![t] = to] BY <1>10 DEF Assemble
  <2> HIDE DEF AfterRebuild
  <2> QED BY <1>10, <2>2, <2>3, <2>4, MoveControl DEF Assemble
<1>11. CASE ReadSources(t)
  BY <1>11, StayControl DEF ReadSources
<1>12. CASE AssembleFails(t)
  <2>1. AfterRebuild(t) \in PcsOf(job[t].kind)
    BY <1>12, PcKind DEF AssembleFails, PcsOf, AfterRebuild
  <2>2. AfterRebuild(t) = "idle" => ~Settles(t) BY DEF AfterRebuild, Settles
  <2> QED BY <1>12, <2>1, <2>2, MoveControl DEF AssembleFails
<1>13. CASE Build(t)
  <2>1. AfterRebuild(t) \in PcsOf(job[t].kind)
    BY <1>13, PcKind DEF Build, PcsOf, AfterRebuild
  <2>2. AfterRebuild(t) = "idle" => ~Settles(t) BY DEF AfterRebuild, Settles
  <2>3. buildState' = "Building" => buildState = "Building" BY <1>13 DEF Build, Settled
  <2> QED BY <1>13, <2>1, <2>2, <2>3, MoveControl DEF Build
<1>14. CASE SettleSwitch(t)
  <2>1. "idle" \in PcsOf(job[t].kind) BY <1>14, PcKind DEF SettleSwitch, PcsOf
  <2>2. buildState' = "Building" => buildState = "Building" /\ ~(Settles(t) /\ ~disposed)
    BY <1>14 DEF SettleSwitch, SettleBuild, Settled, Settles
  <2> QED BY <1>14, <2>1, <2>2, MoveControl DEF SettleSwitch
<1>15. CASE SettleWarmup(t)
  <2>1. buildState' = "Building" => buildState = "Building" /\ ~(Settles("warm") /\ ~disposed)
    BY <1>15 DEF SettleWarmup, SettleBuild, Settled, Settles
  <2> QED BY <1>15, <2>1, WakeControl DEF SettleWarmup
<1>16. CASE FindOwner(t)
  <2>1. {"idle", "check"} \subseteq PcsOf(job[t].kind) /\ ~Settles(t)
    BY <1>16, PcKind DEF FindOwner, PcsOf, Settles
  <2>2. PICK to \in {"idle", "check"} : pc' = [pc EXCEPT ![t] = to] BY <1>16 DEF FindOwner
  <2> QED BY <1>16, <2>1, <2>2, MoveControl DEF FindOwner
<1>17. CASE CheckLoaded(t)
  <2>1. {"idle", "sources"} \subseteq PcsOf(job[t].kind) /\ ~Settles(t)
    BY <1>17, PcKind DEF CheckLoaded, PcsOf, Settles
  <2>2. CASE Has(Owner[job[t].arg]) /\ job[t].kind = "replace" /\ ~HasFile(job[t].arg) /\ ~disposed
    <3> DEFINE j == [job[t] EXCEPT !.kind = "replaceMember"]
    <3>1. MaintenanceWarmed(t, j) BY <1>17, <2>2 DEF CheckLoaded
    <3>2. job[t] \in [kind : Replacing, arg : Files, gen : Nat]
      BY <2>2 DEF IInv, TypeOK, TasksOK, Job
    <3>3. j = [kind |-> "replaceMember", arg |-> job[t].arg, gen |-> job[t].gen] BY <3>2
    <3>4. j \in Job /\ j.kind = "replaceMember" BY <3>2, <3>3 DEF Job
    <3>5. t \notin Events /\ t # "warm" BY <2>2 DEF IInv, PcOK
    <3> HIDE DEF j
    <3>6. /\ PcOK'
          /\ UNCHANGED switchGen => \A u \in {"warm", "head"} : Settles(u) => \E v \in {"warm", "head"} : Settles(v)'
      BY <2>1, <3>1, <3>4, <3>5, MaintControl
    <3>7. UNCHANGED <<queue, disposed, buildState, switchGen>> BY <1>17 DEF CheckLoaded
    <3>8. NoWarmQueued' BY <3>7 DEF IInv, NoWarmQueued
    <3>9. BuildingHasSettler' BY <3>6, <3>7 DEF IInv, BuildingHasSettler, Settles
    <3> QED BY <3>6, <3>8, <3>9 DEF Control
  <2>3. CASE ~(Has(Owner[job[t].arg]) /\ job[t].kind = "replace" /\ ~HasFile(job[t].arg) /\ ~disposed)
    <3>1. PICK to \in {"idle", "sources"} : pc' = [pc EXCEPT ![t] = to] BY <1>17, <2>3 DEF CheckLoaded
    <3>2. UNCHANGED job BY <1>17, <2>3 DEF CheckLoaded
    <3> QED BY <1>17, <2>1, <3>1, <3>2, MoveControl DEF CheckLoaded
  <2> QED BY <2>2, <2>3
<1>18. CASE ReadOwnerSources(t)
  <2>1. "apply" \in PcsOf(job[t].kind) BY <1>18, PcKind DEF ReadOwnerSources, PcsOf
  <2> QED BY <1>18, <2>1, MoveControl DEF ReadOwnerSources
<1>19. CASE ReadOwnerSourcesFails(t)
  <2>1. "idle" \in PcsOf(job[t].kind) /\ ~Settles(t)
    BY <1>19, PcKind DEF ReadOwnerSourcesFails, PcsOf, Settles
  <2> QED BY <1>19, <2>1, MoveControl DEF ReadOwnerSourcesFails
<1>20. CASE ReplaceFile(t)
  <2>1. "idle" \in PcsOf(job[t].kind) /\ ~Settles(t)
    BY <1>20, PcKind DEF ReplaceFile, PcsOf, Settles
  <2> QED BY <1>20, <2>1, MoveControl DEF ReplaceFile
<1>21. CASE ReplaceMember(t)
  <2>1. "idle" \in PcsOf(job[t].kind) /\ ~Settles(t)
    BY <1>21, PcKind DEF ReplaceMember, PcsOf, Settles
  <2> QED BY <1>21, <2>1, MoveControl DEF ReplaceMember
<1> QED BY <1>1, <1>2, <1>3, <1>4, <1>5, <1>6, <1>7, <1>8, <1>9, <1>10, <1>11, <1>12, <1>13,
           <1>14, <1>15, <1>16, <1>17, <1>18, <1>19, <1>20, <1>21 DEF Step

LEMMA DequeueControl == ASSUME IInv, Dequeue PROVE Control'
<1> DEFINE j == Head(queue)
<1>1. /\ queue \in Seq(Job) /\ queue # <<>> /\ j \in Job /\ queue' = Tail(queue)
      /\ pc \in [Tasks -> Pcs] /\ job \in [Tasks -> Job] /\ pc["head"] = "idle"
      /\ UNCHANGED <<disposed, buildState, switchGen>>
  BY DEF Dequeue, IInv, TypeOK, TasksOK, build
<1>2. j = queue[1] /\ 1 \in DOMAIN queue /\ j.kind # "warm" BY <1>1 DEF IInv, NoWarmQueued
<1>3. \A i \in DOMAIN queue' : i + 1 \in DOMAIN queue /\ queue'[i] = queue[i + 1]
  BY <1>1
<1>4. \A i \in DOMAIN queue : i # 1 => i - 1 \in DOMAIN queue' /\ queue'[i - 1] = queue[i]
  BY <1>1
<1>5. NoWarmQueued' BY <1>3 DEF IInv, NoWarmQueued
<1>6. ~Settles("head") BY <1>1 DEF Settles
<1> HIDE DEF j
<1>7. /\ PcOK'
      /\ Settles("warm") => \E u \in {"warm", "head"} : Settles(u)'
      /\ j.kind = "switch" => job'["head"] = j /\ pc'["head"] # "idle"
  <2>1. CASE j.kind \in {"switch", "start"}
    <3>1. PICK to \in {"warm", "assemble", "sweep"} :
            /\ job' = [job EXCEPT !["head"] = j] /\ pc' = [pc EXCEPT !["head"] = to]
            /\ j.kind = "switch" <=> to # "sweep"
      BY <1>1, <2>1 DEF Dequeue, Goto, j
    <3>2. /\ job'["head"] = j /\ pc'["head"] = to
          /\ \A u \in Tasks \ {"head"} : job'[u] = job[u] /\ pc'[u] = pc[u]
      BY <1>1, <3>1, NamesFact
    <3>3. to \in PcsOf(j.kind) BY <2>1, <3>1 DEF PcsOf
    <3>4. PcOK' BY <1>2, <3>2, <3>3, NamesFact DEF IInv, PcOK
    <3> QED BY <1>1, <3>1, <3>2, <3>4, NamesFact DEF Settles
  <2>2. CASE j.kind = "retry" /\ warmupFailed /\ ~disposed
    <3>1. StartWarmup("head", j, "warm") BY <2>2 DEF Dequeue, j
    <3>2. /\ job' = [job EXCEPT !["head"] = j, !["warm"] = [Plain("warm", NoSolution) EXCEPT !.gen = switchGen]]
          /\ pc' = [pc EXCEPT !["head"] = "warm", !["warm"] = "bases"]
      BY <3>1 DEF StartWarmup
    <3>3. /\ job'["warm"].kind = "warm" /\ job'["warm"].gen = switchGen /\ pc'["warm"] = "bases"
          /\ job'["head"] = j /\ pc'["head"] = "warm"
          /\ \A u \in Tasks \ {"head", "warm"} : job'[u] = job[u] /\ pc'[u] = pc[u]
      BY <1>1, <3>2, NamesFact
    <3>4. PcOK' BY <2>2, <3>3, NamesFact DEF IInv, PcOK, PcsOf
    <3> QED BY <1>1, <2>2, <3>3, <3>4 DEF Settles
  <2>3. CASE j.kind = "retry" /\ ~(warmupFailed /\ ~disposed)
    <3>1. job' = [job EXCEPT !["head"] = j] /\ pc' = [pc EXCEPT !["head"] = "resolve"]
      BY <2>3 DEF Dequeue, Goto, j
    <3>2. /\ job'["head"] = j /\ pc'["head"] = "resolve"
          /\ \A u \in Tasks \ {"head"} : job'[u] = job[u] /\ pc'[u] = pc[u]
      BY <1>1, <3>1, NamesFact
    <3>3. PcOK' BY <2>3, <3>2, NamesFact DEF IInv, PcOK, PcsOf
    <3> QED BY <1>1, <2>3, <3>2, <3>3, NamesFact DEF Settles
  <2>4. CASE j.kind \in Invalidating \cup {"replace"} /\ disposed
    <3>1. UNCHANGED <<job, pc>> BY <2>4 DEF Dequeue, j
    <3> QED BY <1>1, <2>4, <3>1 DEF IInv, PcOK, Settles
  <2>5. CASE j.kind \in Invalidating \cup {"replace"} /\ ~disposed
    <3>1. MaintenanceWarmed("head", j) BY <2>5 DEF Dequeue, j
    <3> QED BY <1>1, <1>6, <2>5, <3>1, MaintControl, NamesFact
  <2>6. j.kind \in {"switch", "start", "retry"} \cup Invalidating \cup {"replace"}
    BY DEF Dequeue, j
  <2> QED BY <2>1, <2>2, <2>3, <2>4, <2>5, <2>6
<1>8. BuildingHasSettler'
  <2> SUFFICES ASSUME ~disposed, buildState = "Building" PROVE BuildingHasSettler'
    BY <1>1 DEF BuildingHasSettler
  <2>1. CASE \E i \in DOMAIN queue : queue[i].kind = "switch" /\ queue[i].gen = switchGen
    <3> PICK i \in DOMAIN queue : queue[i].kind = "switch" /\ queue[i].gen = switchGen BY <2>1
    <3>1. CASE i = 1
      BY <1>1, <1>2, <1>7, <3>1 DEF BuildingHasSettler
    <3>2. CASE i # 1
      BY <1>1, <1>4, <3>2 DEF BuildingHasSettler
    <3> QED BY <3>1, <3>2
  <2>2. CASE Settles("warm") BY <1>7, <2>2 DEF BuildingHasSettler, Settles
  <2> QED BY <1>6, <2>1, <2>2 DEF IInv, BuildingHasSettler, Settles
<1> QED BY <1>5, <1>7, <1>8 DEF Control

LEMMA SwitchControl == ASSUME IInv, NEW s \in Scopes, SwitchSolution(s) PROVE Control'
<1> DEFINE started == [kind |-> "start", arg |-> NoSolution, gen |-> switchGen + 1]
           switched == [kind |-> "switch", arg |-> NoSolution, gen |-> switchGen + 1]
<1>1. /\ queue \in Seq(Job) /\ switchGen \in Nat /\ switchGen' = switchGen + 1
      /\ queue' = queue \o <<started, switched>> /\ UNCHANGED <<job, pc>>
  BY DEF IInv, TypeOK, TasksOK, GraphOK, SwitchSolution
<1>2. /\ Len(queue) \in Nat
      /\ \A i \in DOMAIN queue' :
           queue'[i] = IF i <= Len(queue) THEN queue[i] ELSE <<started, switched>>[i - Len(queue)]
      /\ DOMAIN queue' = 1..(Len(queue) + 2) /\ DOMAIN queue = 1..Len(queue)
  BY <1>1
<1>3. PcOK' BY <1>1 DEF IInv, PcOK
<1>4. NoWarmQueued'
  <2> SUFFICES ASSUME NEW i \in DOMAIN queue' PROVE queue'[i].kind # "warm"
    BY DEF NoWarmQueued
  <2>1. CASE i <= Len(queue) BY <1>2, <2>1 DEF IInv, NoWarmQueued
  <2>2. CASE i = Len(queue) + 1 BY <1>2, <2>2
  <2>3. CASE i = Len(queue) + 2 BY <1>2, <2>3
  <2> QED BY <1>2, <2>1, <2>2, <2>3
<1>5. BuildingHasSettler'
  <2>1. queue'[Len(queue) + 2] = switched /\ Len(queue) + 2 \in DOMAIN queue' BY <1>2
  <2>2. switched.kind = "switch" /\ switched.gen = switchGen' BY <1>1
  <2> HIDE DEF switched
  <2> QED BY <2>1, <2>2 DEF BuildingHasSettler
<1> QED BY <1>3, <1>4, <1>5 DEF Control

LEMMA EnvironmentControl == ASSUME IInv, Environment PROVE Control'
<1> USE DEF world, locals, warming, shared, build, caches
<1>1. CASE TimePasses BY <1>1, StayControl DEF TimePasses
<1>2. CASE Dispose BY <1>2 DEF Dispose, Control, IInv, PcOK, NoWarmQueued, BuildingHasSettler
<1>3. ASSUME NEW f \in Files, DidChange(f) PROVE Control'
  <2>1. replaceGen \in [Files -> Nat] BY DEF IInv, TypeOK, CachesOK
  <2>2. CASE Owner[f] \in Opened(active)
    <3>1. replaceGen'[f] \in Nat BY <1>3, <2>1, <2>2 DEF DidChange
    <3>2. [kind |-> "replace", arg |-> f, gen |-> replaceGen'[f]] \in Job BY <3>1, JobTypes
    <3> QED BY <1>3, <2>2, <3>2, StayControl DEF DidChange
  <2>3. CASE Owner[f] \notin Opened(active) BY <1>3, <2>3, StayControl DEF DidChange
  <2> QED BY <2>2, <2>3
<1>4. ASSUME NEW f \in Files, DiskChange(f) PROVE Control'
  <2>1. Plain("changed", Owner[f]) \in Job BY ShapeAssumption, JobTypes
  <2> QED BY <1>4, <2>1, StayControl DEF DiskChange
<1>5. ASSUME NEW s \in Scopes, SwitchSolution(s) PROVE Control' BY <1>5, SwitchControl
<1>6. ASSUME NEW m \in Members, InsertMember(m) PROVE Control'
  <2>1. Plain("insert", m) \in Job BY JobTypes
  <2> QED BY <1>6, <2>1, StayControl DEF InsertMember
<1>7. ASSUME NEW m \in Members, RemoveMember(m) PROVE Control'
  <2>1. Plain("remove", m) \in Job BY JobTypes
  <2> QED BY <1>7, <2>1, StayControl DEF RemoveMember
<1>8. ASSUME NEW e \in Events, NEW m \in Members, ReferencesChanged(e, m) PROVE Control'
  <2>1. e \in Tasks /\ e # "warm" /\ e # "head" BY NamesFact DEF Tasks
  <2>2. Plain("references", m) \in Job BY JobTypes
  <2>3. MaintenanceWarmed(e, Plain("references", m)) /\ ~Settles(e)
        /\ UNCHANGED <<queue, disposed, buildState, switchGen>>
    BY <1>8 DEF ReferencesChanged, Settles
  <2>4. /\ PcOK'
        /\ UNCHANGED switchGen => \A u \in {"warm", "head"} : Settles(u) => \E v \in {"warm", "head"} : Settles(v)'
    BY <2>1, <2>2, <2>3, MaintControl
  <2>5. NoWarmQueued' BY <2>3 DEF IInv, NoWarmQueued
  <2>6. BuildingHasSettler' BY <2>3, <2>4 DEF IInv, BuildingHasSettler, Settles
  <2> QED BY <2>4, <2>5, <2>6 DEF Control
<1>9. ASSUME NEW r \in Readers, Request(r) PROVE Control'
  <2>1. Plain("retry", NoSolution) \in Job BY JobTypes
  <2> QED BY <1>9, <2>1, StayControl DEF Request
<1>10. ASSUME NEW m \in Members, CompileMember(m) PROVE Control' BY <1>10, StayControl DEF CompileMember
<1> QED BY <1>1, <1>2, <1>3, <1>4, <1>5, <1>6, <1>7, <1>8, <1>9, <1>10 DEF Environment
------------------------------------------------------------------------------
(* The warmup: who waits for it, and what may run while it has not          *)
(* succeeded.                                                               *)

(* The flag of a failed attempt is exact; the warmup task runs and a task   *)
(* waits only during an attempt; changes of references wait out all but a   *)
(* success.                                                                 *)
WarmupOK ==
  /\ warmupFailed = (warmup = "rejected")
  /\ pc["warm"] # "idle" => warmup = "running"
  /\ \A t \in Tasks : pc[t] = "warm" => warmup = "running"
  /\ warmup # "ok" => \A e \in Events : pc[e] \in {"idle", "warm"}

(* Past its wait a job of the queue is at work; it reads and settles alone. *)
Working == {"invalidate", "live", "refresh", "register", "assemble", "read", "settle", "owner",
            "check", "sources", "apply"}

LEMMA InitWarmup == Init => WarmupOK
BY NamesFact DEF Init, WarmupOK, Tasks

LEMMA StayWarmup == ASSUME WarmupOK, UNCHANGED <<pc, warmup, warmupFailed>> PROVE WarmupOK'
BY DEF WarmupOK

(* A task that is past its wait moves on. *)
LEMMA MoveWarmup ==
  ASSUME IInv, WarmupOK, NEW t \in Tasks, pc[t] \notin {"idle", "warm"}, NEW to, to # "warm",
         pc' = [pc EXCEPT ![t] = to], UNCHANGED <<warmup, warmupFailed>>
  PROVE  WarmupOK'
<1>1. pc \in [Tasks -> Pcs] BY DEF IInv, TypeOK, TasksOK
<1>2. \A u \in Tasks : pc'[u] = IF u = t THEN to ELSE pc[u] BY <1>1
<1>3. warmup # "ok" => t \notin Events BY DEF WarmupOK
<1> QED BY <1>2, <1>3, NamesFact DEF WarmupOK, Tasks

(* A new attempt follows a failed one, awaited by the task that starts it. *)
LEMMA StartedWarmup ==
  ASSUME IInv, WarmupOK, NEW t \in Tasks, t # "warm", NEW j, warmupFailed, StartWarmup(t, j, "warm")
  PROVE  WarmupOK'
<1>1. pc \in [Tasks -> Pcs] BY DEF IInv, TypeOK, TasksOK
<1>2. pc' = [pc EXCEPT ![t] = "warm", !["warm"] = "bases"] BY DEF StartWarmup
<1>3. \A e \in Events : pc'[e] \in {"idle", "warm"}
  <2>1. \A e \in Events : pc'[e] = IF e = t THEN "warm" ELSE pc[e]
    BY <1>1, <1>2, NamesFact DEF Tasks
  <2> QED BY <2>1 DEF WarmupOK
<1> QED BY <1>3 DEF WarmupOK, StartWarmup

LEMMA MaintWarmup ==
  ASSUME IInv, WarmupOK, NEW t \in Tasks, t # "warm", NEW j,
         j.kind \in Invalidating \cup Replacing, MaintenanceWarmed(t, j)
  PROVE  WarmupOK'
<1>1. pc \in [Tasks -> Pcs] BY DEF IInv, TypeOK, TasksOK
<1>2. CASE warmupFailed /\ ~throttled
  BY <1>2, StartedWarmup DEF MaintenanceWarmed
<1>3. CASE ~(warmupFailed /\ ~throttled)
  <2> DEFINE to == IF warmup = "running" THEN "warm" ELSE AfterWarm(j.kind, warmup = "ok")
  <2>1. pc' = [pc EXCEPT ![t] = to] /\ UNCHANGED <<warmup, warmupFailed>>
    BY <1>3 DEF MaintenanceWarmed
  <2>2. to = "warm" => warmup = "running" BY DEF AfterWarm
  <2>3. warmup # "ok" => to \in {"idle", "warm"} BY DEF AfterWarm
  <2> HIDE DEF to
  <2>4. \A u \in Tasks : pc'[u] = IF u = t THEN to ELSE pc[u] BY <1>1, <2>1
  <2> QED BY <2>1, <2>2, <2>3, <2>4, NamesFact DEF WarmupOK, Tasks
<1> QED BY <1>2, <1>3

(* The attempt settles and nobody waits any more. *)
LEMMA WakeWarmup ==
  ASSUME IInv, WarmupOK, NEW ok \in BOOLEAN, pc["warm"] # "idle", WakeAwaiters(ok),
         warmupFailed' = ~ok, UNCHANGED job
  PROVE  WarmupOK'
<1>1. \A t \in Tasks : pc'[t] # "warm" BY DEF WakeAwaiters, AfterWarm
<1>2. pc'["warm"] = "idle" BY NamesFact DEF WakeAwaiters
<1>3. ~ok => \A e \in Events : pc'[e] = "idle"
  <2> SUFFICES ASSUME ~ok, NEW e \in Events PROVE pc'[e] = "idle"
    OBVIOUS
  <2>1. e \in Tasks /\ e # "warm" /\ pc[e] \in {"idle", "warm"}
        /\ job[e].kind \in {"none", "references"}
    BY NamesFact DEF Tasks, WarmupOK, IInv, PcOK
  <2>2. AfterWarm(job[e].kind, ok) = "idle" BY <2>1 DEF AfterWarm
  <2> QED BY <2>1, <2>2 DEF WakeAwaiters
<1> QED BY <1>1, <1>2, <1>3 DEF WarmupOK, WakeAwaiters

(* What a step does to the control of the service, unless it settles the    *)
(* attempt or may start one.                                                *)
Ordinary(t) ==
  /\ pc[t] \notin {"idle", "warm"}
  /\ UNCHANGED <<warmup, warmupFailed, active, disposed, queue, job, switchGen>>
  /\ \/ UNCHANGED pc
     \/ \E to \in Pcs \ {"warm"} :
          /\ pc' = [pc EXCEPT ![t] = to]
          /\ to \in Working => pc[t] \in Working \cup {"bases"}

LEMMA OrdinaryStep ==
  ASSUME NEW t \in Tasks, Step(t), ~(WarmupRejects(t) \/ SettleWarmup(t) \/ CheckLoaded(t))
  PROVE  Ordinary(t)
<1> USE DEF world, locals, warming, shared, build, caches, Goto, Ordinary, Working
<1>1. CASE Sweep(t) BY <1>1 DEF Sweep
<1>2. CASE ResolveRetry(t)
  <2>1. pc[t] = "resolve" /\ pc' = [pc EXCEPT ![t] = "idle"] /\ "idle" \in Pcs \ {"warm"}
    BY <1>2 DEF ResolveRetry
  <2>2. UNCHANGED <<warmup, warmupFailed, active, disposed, queue, job, switchGen>>
    BY <1>2 DEF ResolveRetry
  <2> HIDE DEF Pcs
  <2> QED BY <2>1, <2>2
<1>3. CASE Invalidate(t) BY <1>3 DEF Invalidate
<1>4. CASE ReadStale(t) BY <1>4 DEF ReadStale
<1>5. CASE ResolveBases(t) BY <1>5 DEF ResolveBases
<1>6. CASE Register(t) BY <1>6 DEF Register
<1>7. CASE DropStale(t) BY <1>7 DEF DropStale
<1>8. CASE RefreshFails(t) BY <1>8 DEF RefreshFails
<1>9. CASE Assemble(t) BY <1>9 DEF Assemble, AfterRebuild
<1>10. CASE ReadSources(t) BY <1>10 DEF ReadSources
<1>11. CASE AssembleFails(t) BY <1>11 DEF AssembleFails, AfterRebuild
<1>12. CASE Build(t) BY <1>12 DEF Build, AfterRebuild
<1>13. CASE SettleSwitch(t) BY <1>13 DEF SettleSwitch
<1>14. CASE FindOwner(t) BY <1>14 DEF FindOwner
<1>15. CASE ReadOwnerSources(t) BY <1>15 DEF ReadOwnerSources
<1>16. CASE ReadOwnerSourcesFails(t) BY <1>16 DEF ReadOwnerSourcesFails
<1>17. CASE ReplaceFile(t) BY <1>17 DEF ReplaceFile
<1>18. CASE ReplaceMember(t) BY <1>18 DEF ReplaceMember
<1> QED BY <1>1, <1>2, <1>3, <1>4, <1>5, <1>6, <1>7, <1>8, <1>9, <1>10, <1>11, <1>12,
           <1>13, <1>14, <1>15, <1>16, <1>17, <1>18 DEF Step

LEMMA StepWarmup == ASSUME IInv, WarmupOK, NEW t \in Tasks, Step(t) PROVE WarmupOK'
<1> USE DEF world, locals, warming, shared, build, caches
<1>1. CASE WarmupRejects(t)
  BY <1>1, WakeWarmup DEF WarmupRejects
<1>2. CASE SettleWarmup(t)
  <2>1. warmup = "running" /\ warmupFailed' = FALSE BY <1>2 DEF SettleWarmup, WarmupOK
  <2> QED BY <1>2, <2>1, WakeWarmup DEF SettleWarmup
<1>3. CASE CheckLoaded(t)
  <2>1. pc[t] \notin {"idle", "warm"} BY <1>3 DEF CheckLoaded
  <2>2. CASE Has(Owner[job[t].arg]) /\ job[t].kind = "replace" /\ ~HasFile(job[t].arg) /\ ~disposed
    <3>1. MaintenanceWarmed(t, [job[t] EXCEPT !.kind = "replaceMember"]) BY <1>3, <2>2 DEF CheckLoaded
    <3>2. t # "warm" BY <2>2 DEF IInv, PcOK
    <3>3. job[t] \in Job BY DEF IInv, TypeOK, TasksOK
    <3>4. [job[t] EXCEPT !.kind = "replaceMember"].kind = "replaceMember" BY <3>3 DEF Job
    <3> QED BY <3>1, <3>2, <3>4, MaintWarmup
  <2>3. CASE ~(Has(Owner[job[t].arg]) /\ job[t].kind = "replace" /\ ~HasFile(job[t].arg) /\ ~disposed)
    <3>1. PICK to \in {"idle", "sources"} : pc' = [pc EXCEPT ![t] = to] BY <1>3, <2>3 DEF CheckLoaded
    <3>2. UNCHANGED <<warmup, warmupFailed>> BY <1>3, <2>3 DEF CheckLoaded
    <3> QED BY <2>1, <3>1, <3>2, MoveWarmup
  <2> QED BY <2>2, <2>3
<1>4. CASE ~(WarmupRejects(t) \/ SettleWarmup(t) \/ CheckLoaded(t))
  BY <1>4, OrdinaryStep, StayWarmup, MoveWarmup DEF Ordinary
<1> QED BY <1>1, <1>2, <1>3, <1>4

LEMMA DequeueWarmup == ASSUME IInv, WarmupOK, Dequeue PROVE WarmupOK'
<1> DEFINE j == Head(queue)
<1>1. pc \in [Tasks -> Pcs] /\ pc["head"] = "idle" BY DEF Dequeue, IInv, TypeOK, TasksOK
<1>2. CASE j.kind \in {"switch", "start"} \/ (j.kind = "retry" /\ ~(warmupFailed /\ ~disposed))
  <2>1. PICK to \in {"warm", "assemble", "sweep", "resolve"} :
          /\ pc' = [pc EXCEPT !["head"] = to] /\ UNCHANGED <<warmup, warmupFailed>>
          /\ to = "warm" => warmup = "running"
    BY <1>2 DEF Dequeue, Goto, j
  <2>2. \A u \in Tasks : pc'[u] = IF u = "head" THEN to ELSE pc[u] BY <1>1, <2>1
  <2> QED BY <2>1, <2>2, NamesFact DEF WarmupOK, Tasks
<1>3. CASE j.kind = "retry" /\ warmupFailed /\ ~disposed
  <2>1. StartWarmup("head", j, "warm") BY <1>3 DEF Dequeue, j
  <2> QED BY <1>3, <2>1, NamesFact, StartedWarmup
<1>4. CASE j.kind \in Invalidating \cup {"replace"} /\ disposed
  <2>1. UNCHANGED <<pc, warmup, warmupFailed>> BY <1>4 DEF Dequeue, j
  <2> QED BY <2>1, StayWarmup
<1>5. CASE j.kind \in Invalidating \cup {"replace"} /\ ~disposed
  <2>1. MaintenanceWarmed("head", j) BY <1>5 DEF Dequeue, j
  <2> QED BY <1>5, <2>1, MaintWarmup, NamesFact
<1>6. j.kind \in {"switch", "start", "retry"} \cup Invalidating \cup {"replace"}
  BY DEF Dequeue, j
<1> QED BY <1>2, <1>3, <1>4, <1>5, <1>6

LEMMA EnvironmentWarmup == ASSUME IInv, WarmupOK, Environment PROVE WarmupOK'
<1> USE DEF world, locals, warming, shared, build, caches
<1>1. ASSUME NEW e \in Events, NEW m \in Members, ReferencesChanged(e, m) PROVE WarmupOK'
  <2>1. e \in Tasks /\ e # "warm" BY NamesFact DEF Tasks
  <2>2. MaintenanceWarmed(e, Plain("references", m)) BY <1>1 DEF ReferencesChanged
  <2> QED BY <2>1, <2>2, MaintWarmup
<1>2. CASE ~\E e \in Events, m \in Members : ReferencesChanged(e, m)
  <2>1. UNCHANGED <<pc, warmup, warmupFailed>>
    BY <1>2 DEF Environment, TimePasses, Dispose, DidChange, DiskChange, SwitchSolution,
       InsertMember, RemoveMember, CompileMember, Request
  <2> QED BY <2>1, StayWarmup
<1> QED BY <1>1, <1>2

LEMMA StepWarmupOK == IInv /\ WarmupOK /\ [Next]_vars => WarmupOK'
<1> SUFFICES ASSUME IInv, WarmupOK, [Next]_vars PROVE WarmupOK'
  OBVIOUS
<1>1. CASE UNCHANGED vars BY <1>1, StayWarmup DEF vars, warming
<1> QED BY <1>1, StepWarmup, DequeueWarmup, EnvironmentWarmup DEF Next
------------------------------------------------------------------------------
(* Ready is said of the active solution.  A handler of ReferencesChanged    *)
(* rebuilds beside the queue and can bring back a solution that was left,   *)
(* so what follows is about a service that meets none.                      *)

(* The head of the queue works only between attempts. *)
AloneOK == pc["head"] \in Working => warmup # "running"

(* No full build is of a generation to come. *)
GensOK ==
  /\ \A i \in DOMAIN queue : queue[i].kind = "switch" => queue[i].gen <= switchGen
  /\ \A t \in Tasks : job[t].kind \in {"warm", "switch"} => job[t].gen <= switchGen

(* A graph under assembly is of the active solution when it can settle the  *)
(* state, and when the state is settled already.                            *)
OriginOK ==
  \A t \in Tasks : pc[t] = "read" =>
    /\ buildState # "Building" => origin[t] = active
    /\ job[t].kind \in {"warm", "switch"} /\ job[t].gen = switchGen => origin[t] = active

(* A full build about to settle the state has assembled the active solution. *)
SettleOK ==
  \A t \in Tasks :
    pc[t] = "settle" /\ ~disposed /\ job[t].gen = switchGen /\ ~lastError => graphOf = active

GraphActive == ~disposed /\ buildState = "Ready" => graphOf = active

ActiveInv == WarmupOK /\ AloneOK /\ GensOK /\ OriginOK /\ SettleOK /\ GraphActive

LEMMA InitActive == Init => ActiveInv
<1> SUFFICES ASSUME Init PROVE ActiveInv
  OBVIOUS
<1>1. AloneOK BY NamesFact DEF Init, AloneOK, Working
<1>2. GensOK BY DEF Init, GensOK
<1>3. OriginOK /\ SettleOK /\ GraphActive BY DEF Init, OriginOK, SettleOK, GraphActive
<1> QED BY <1>1, <1>2, <1>3, InitWarmup DEF ActiveInv

LEMMA TwoTasks == ASSUME Events = {} PROVE Tasks = {"warm", "head"}
BY DEF Tasks

(* While the head works the warmup task is idle. *)
LEMMA Exclusive ==
  ASSUME WarmupOK, AloneOK, pc["head"] \in Working PROVE pc["warm"] = "idle"
BY DEF WarmupOK, AloneOK

LEMMA MaintAlone ==
  ASSUME IInv, NEW j, j.kind \in Invalidating \cup Replacing, MaintenanceWarmed("head", j)
  PROVE  AloneOK'
<1>1. pc \in [Tasks -> Pcs] BY DEF IInv, TypeOK, TasksOK
<1>2. CASE warmupFailed /\ ~throttled
  <2>1. pc' = [pc EXCEPT !["head"] = "warm", !["warm"] = "bases"]
    BY <1>2 DEF MaintenanceWarmed, StartWarmup
  <2>2. pc'["head"] = "warm" BY <1>1, <2>1, NamesFact
  <2> QED BY <2>2 DEF AloneOK, Working
<1>3. CASE ~(warmupFailed /\ ~throttled)
  <2>1. /\ warmup' = warmup
        /\ pc' = [pc EXCEPT !["head"] =
                    IF warmup = "running" THEN "warm" ELSE AfterWarm(j.kind, warmup = "ok")]
    BY <1>3 DEF MaintenanceWarmed
  <2>2. warmup = "running" => pc'["head"] = "warm" BY <1>1, <2>1, NamesFact
  <2> QED BY <2>1, <2>2 DEF AloneOK, Working
<1> QED BY <1>2, <1>3

LEMMA StepAlone ==
  ASSUME Events = {}, IInv, ActiveInv, NEW t \in Tasks, Step(t) PROVE AloneOK'
<1>1. pc \in [Tasks -> Pcs] /\ (t = "head" => pc[t] # "bases")
  BY NamesFact DEF IInv, TypeOK, TasksOK, PcOK, PcsOf
<1>2. CASE WarmupRejects(t)
  BY <1>2 DEF WarmupRejects, WakeAwaiters, AloneOK
<1>3. CASE SettleWarmup(t)
  BY <1>3 DEF SettleWarmup, WakeAwaiters, AloneOK
<1>4. CASE CheckLoaded(t)
  <2>1. CASE Has(Owner[job[t].arg]) /\ job[t].kind = "replace" /\ ~HasFile(job[t].arg) /\ ~disposed
    <3>1. MaintenanceWarmed(t, [job[t] EXCEPT !.kind = "replaceMember"]) BY <1>4, <2>1 DEF CheckLoaded
    <3>2. t = "head" BY <2>1, TwoTasks DEF IInv, PcOK
    <3>3. job[t] \in Job BY DEF IInv, TypeOK, TasksOK
    <3>4. [job[t] EXCEPT !.kind = "replaceMember"].kind = "replaceMember" BY <3>3 DEF Job
    <3> QED BY <3>1, <3>2, <3>4, MaintAlone
  <2>2. CASE ~(Has(Owner[job[t].arg]) /\ job[t].kind = "replace" /\ ~HasFile(job[t].arg) /\ ~disposed)
    <3>1. PICK to \in {"idle", "sources"} : pc' = [pc EXCEPT ![t] = to] BY <1>4, <2>2 DEF CheckLoaded
    <3>2. UNCHANGED warmup BY <1>4, <2>2 DEF CheckLoaded
    <3>3. pc[t] = "check" BY <1>4 DEF CheckLoaded
    <3> QED BY <1>1, <3>1, <3>2, <3>3, NamesFact DEF ActiveInv, AloneOK, Working
  <2> QED BY <2>1, <2>2
<1>5. CASE ~(WarmupRejects(t) \/ SettleWarmup(t) \/ CheckLoaded(t))
  <2>1. Ordinary(t) BY <1>5, OrdinaryStep
  <2>2. CASE UNCHANGED pc BY <2>1, <2>2 DEF Ordinary, ActiveInv, AloneOK
  <2>3. ASSUME NEW to \in Pcs, pc' = [pc EXCEPT ![t] = to],
               to \in Working => pc[t] \in Working \cup {"bases"}
        PROVE  AloneOK'
    BY <1>1, <2>1, <2>3, NamesFact DEF Ordinary, ActiveInv, AloneOK
  <2> QED BY <2>1, <2>2, <2>3 DEF Ordinary
<1> QED BY <1>2, <1>3, <1>4, <1>5

LEMMA DequeueAlone == ASSUME Events = {}, IInv, ActiveInv, Dequeue PROVE AloneOK'
<1> DEFINE j == Head(queue)
<1>1. pc \in [Tasks -> Pcs] BY DEF IInv, TypeOK, TasksOK
<1>2. CASE j.kind \in {"switch", "start"}
  <2>1. PICK to \in {"warm", "assemble", "sweep"} :
          /\ pc' = [pc EXCEPT !["head"] = to] /\ warmup' = warmup
          /\ to = "assemble" => warmup # "running"
    BY <1>2 DEF Dequeue, j
  <2>2. pc'["head"] = to BY <1>1, <2>1, NamesFact
  <2> QED BY <2>1, <2>2 DEF AloneOK, Working
<1>3. CASE j.kind = "retry"
  <2>1. PICK to \in {"warm", "resolve"} : pc'["head"] = to
    BY <1>1, <1>3, NamesFact DEF Dequeue, StartWarmup, j
  <2> QED BY <2>1 DEF AloneOK, Working
<1>4. CASE j.kind \in Invalidating \cup {"replace"} /\ disposed
  <2>1. UNCHANGED <<pc, warmup>> BY <1>4 DEF Dequeue, j
  <2> QED BY <2>1 DEF ActiveInv, AloneOK
<1>5. CASE j.kind \in Invalidating \cup {"replace"} /\ ~disposed
  <2>1. MaintenanceWarmed("head", j) BY <1>5 DEF Dequeue, j
  <2> QED BY <1>5, <2>1, MaintAlone
<1>6. j.kind \in {"switch", "start", "retry"} \cup Invalidating \cup {"replace"}
  BY DEF Dequeue, j
<1> QED BY <1>2, <1>3, <1>4, <1>5, <1>6

(* A new attempt is of the present generation. *)
LEMMA StartGens ==
  ASSUME IInv, GensOK, NEW t \in Tasks, NEW j, NEW next, StartWarmup(t, j, next), t # "warm",
         UNCHANGED switchGen, j.kind = "switch" => j.gen <= switchGen, j.kind # "warm"
  PROVE  \A u \in Tasks : job'[u].kind \in {"warm", "switch"} => job'[u].gen <= switchGen'
<1> DEFINE w == [Plain("warm", NoSolution) EXCEPT !.gen = switchGen]
<1>1. job \in [Tasks -> Job] /\ switchGen \in Nat BY DEF IInv, TypeOK, TasksOK, GraphOK
<1>2. job' = [job EXCEPT ![t] = j, !["warm"] = w] BY DEF StartWarmup
<1>3. w.gen = switchGen OBVIOUS
<1> HIDE DEF w
<1>4. \A u \in Tasks : job'[u] = IF u = "warm" THEN w ELSE IF u = t THEN j ELSE job[u]
  BY <1>1, <1>2
<1> QED BY <1>1, <1>3, <1>4 DEF GensOK

LEMMA MaintGens ==
  ASSUME IInv, GensOK, NEW t \in Tasks, t # "warm", NEW j, j.kind \in Invalidating \cup Replacing,
         MaintenanceWarmed(t, j), UNCHANGED switchGen
  PROVE  \A u \in Tasks : job'[u].kind \in {"warm", "switch"} => job'[u].gen <= switchGen'
<1>1. CASE warmupFailed /\ ~throttled
  BY <1>1, StartGens DEF MaintenanceWarmed
<1>2. CASE ~(warmupFailed /\ ~throttled)
  <2>1. job \in [Tasks -> Job] BY DEF IInv, TypeOK, TasksOK
  <2>2. job' = [job EXCEPT ![t] = j] BY <1>2 DEF MaintenanceWarmed
  <2>3. \A u \in Tasks : job'[u] = IF u = t THEN j ELSE job[u] BY <2>1, <2>2
  <2> QED BY <2>3 DEF GensOK
<1> QED BY <1>1, <1>2

LEMMA StepGens == ASSUME IInv, GensOK, NEW t \in Tasks, Step(t) PROVE GensOK'
<1>1. CASE CheckLoaded(t) /\ Has(Owner[job[t].arg]) /\ job[t].kind = "replace"
           /\ ~HasFile(job[t].arg) /\ ~disposed
  <2>1. MaintenanceWarmed(t, [job[t] EXCEPT !.kind = "replaceMember"])
        /\ UNCHANGED <<queue, switchGen>>
    BY <1>1 DEF CheckLoaded
  <2>2. t # "warm" BY <1>1 DEF IInv, PcOK
  <2>3. job[t] \in Job BY DEF IInv, TypeOK, TasksOK
  <2>4. [job[t] EXCEPT !.kind = "replaceMember"].kind = "replaceMember" BY <2>3 DEF Job
  <2>5. \A u \in Tasks : job'[u].kind \in {"warm", "switch"} => job'[u].gen <= switchGen'
    BY <2>1, <2>2, <2>4, MaintGens
  <2> QED BY <2>1, <2>5 DEF GensOK
<1>2. CASE ~(CheckLoaded(t) /\ Has(Owner[job[t].arg]) /\ job[t].kind = "replace"
             /\ ~HasFile(job[t].arg) /\ ~disposed)
  <2>1. UNCHANGED <<queue, job, switchGen>>
    <3>1. CASE WarmupRejects(t) BY <3>1 DEF WarmupRejects
    <3>2. CASE SettleWarmup(t) BY <3>2 DEF SettleWarmup
    <3>3. CASE CheckLoaded(t) BY <1>2, <3>3 DEF CheckLoaded
    <3> QED BY <3>1, <3>2, <3>3, OrdinaryStep DEF Ordinary
  <2> QED BY <2>1 DEF GensOK
<1> QED BY <1>1, <1>2

LEMMA DequeueGens == ASSUME IInv, GensOK, Dequeue PROVE GensOK'
<1> DEFINE j == Head(queue)
<1>1. /\ queue \in Seq(Job) /\ queue # <<>> /\ queue' = Tail(queue) /\ UNCHANGED switchGen
      /\ job \in [Tasks -> Job]
  BY DEF Dequeue, IInv, TypeOK, TasksOK
<1>2. j = queue[1] /\ 1 \in DOMAIN queue BY <1>1
<1>3. j.kind # "warm" /\ (j.kind = "switch" => j.gen <= switchGen)
  BY <1>2 DEF IInv, NoWarmQueued, GensOK
<1>4. \A i \in DOMAIN queue' : i + 1 \in DOMAIN queue /\ queue'[i] = queue[i + 1] BY <1>1
<1>5. \A i \in DOMAIN queue' : queue'[i].kind = "switch" => queue'[i].gen <= switchGen'
  BY <1>1, <1>4 DEF GensOK
<1> HIDE DEF j
<1>6. \A u \in Tasks : job'[u].kind \in {"warm", "switch"} => job'[u].gen <= switchGen'
  <2>1. CASE UNCHANGED job BY <1>1, <2>1 DEF GensOK
  <2>2. CASE job' = [job EXCEPT !["head"] = j]
    <3>1. \A u \in Tasks : job'[u] = IF u = "head" THEN j ELSE job[u] BY <1>1, <2>2
    <3> QED BY <1>1, <1>3, <3>1 DEF GensOK
  <2>3. CASE StartWarmup("head", j, "warm") BY <1>1, <1>3, <2>3, StartGens, NamesFact
  <2>4. CASE MaintenanceWarmed("head", j) /\ j.kind \in Invalidating \cup {"replace"}
    BY <1>1, <2>4, MaintGens, NamesFact
  <2> QED BY <2>1, <2>2, <2>3, <2>4 DEF Dequeue, j
<1> QED BY <1>5, <1>6 DEF GensOK

LEMMA AppendGens ==
  ASSUME IInv, GensOK, UNCHANGED <<job, switchGen>>,
         queue' = queue \/ \E j \in Job : j.kind # "switch" /\ queue' = Append(queue, j)
  PROVE  GensOK'
<1>0. queue \in Seq(Job) BY DEF IInv, TypeOK, TasksOK
<1>1. CASE queue' = queue BY <1>1 DEF GensOK
<1>2. ASSUME NEW j \in Job, j.kind # "switch", queue' = Append(queue, j) PROVE GensOK'
  BY <1>0, <1>2 DEF GensOK
<1> QED BY <1>1, <1>2

LEMMA SwitchGens == ASSUME IInv, GensOK, NEW s \in Scopes, SwitchSolution(s) PROVE GensOK'
<1> DEFINE started == [kind |-> "start", arg |-> NoSolution, gen |-> switchGen + 1]
           switched == [kind |-> "switch", arg |-> NoSolution, gen |-> switchGen + 1]
<1>1. /\ queue \in Seq(Job) /\ switchGen \in Nat /\ switchGen' = switchGen + 1
      /\ queue' = queue \o <<started, switched>> /\ UNCHANGED job /\ job \in [Tasks -> Job]
  BY DEF IInv, TypeOK, TasksOK, GraphOK, SwitchSolution
<1>2. /\ Len(queue) \in Nat
      /\ \A i \in DOMAIN queue' :
           queue'[i] = IF i <= Len(queue) THEN queue[i] ELSE <<started, switched>>[i - Len(queue)]
      /\ DOMAIN queue' = 1..(Len(queue) + 2) /\ DOMAIN queue = 1..Len(queue)
  BY <1>1
<1>3. ASSUME NEW i \in DOMAIN queue', queue'[i].kind = "switch" PROVE queue'[i].gen <= switchGen'
  <2>1. CASE i <= Len(queue)
    <3>1. i \in DOMAIN queue /\ queue'[i] = queue[i] /\ queue[i].gen \in Nat
      BY <1>1, <1>2, <2>1 DEF Job
    <3> QED BY <1>1, <1>3, <3>1 DEF GensOK
  <2>2. CASE i = Len(queue) + 1 BY <1>1, <1>2, <2>2
  <2>3. CASE i = Len(queue) + 2 BY <1>1, <1>2, <2>3
  <2> QED BY <1>2, <2>1, <2>2, <2>3
<1>4. ASSUME NEW t \in Tasks, job'[t].kind \in {"warm", "switch"} PROVE job'[t].gen <= switchGen'
  <2>1. job'[t] = job[t] /\ job[t].gen \in Nat BY <1>1 DEF Job
  <2> QED BY <1>1, <1>4, <2>1 DEF GensOK
<1> QED BY <1>3, <1>4 DEF GensOK

LEMMA EnvironmentGens == ASSUME Events = {}, IInv, GensOK, Environment PROVE GensOK'
<1> USE DEF world, locals, warming, shared, build, caches
<1>1. CASE TimePasses BY <1>1, AppendGens DEF TimePasses
<1>2. CASE Dispose BY <1>2, AppendGens DEF Dispose
<1>3. ASSUME NEW f \in Files, DidChange(f) PROVE GensOK'
  <2>1. replaceGen \in [Files -> Nat] BY DEF IInv, TypeOK, CachesOK
  <2>2. CASE Owner[f] \in Opened(active)
    <3>1. replaceGen'[f] \in Nat BY <1>3, <2>1, <2>2 DEF DidChange
    <3>2. [kind |-> "replace", arg |-> f, gen |-> replaceGen'[f]] \in Job BY <3>1, JobTypes
    <3> QED BY <1>3, <2>2, <3>2, AppendGens DEF DidChange
  <2>3. CASE Owner[f] \notin Opened(active) BY <1>3, <2>3, AppendGens DEF DidChange
  <2> QED BY <2>2, <2>3
<1>4. ASSUME NEW f \in Files, DiskChange(f) PROVE GensOK'
  <2>1. Plain("changed", Owner[f]) \in Job BY ShapeAssumption, JobTypes
  <2> QED BY <1>4, <2>1, AppendGens DEF DiskChange
<1>5. ASSUME NEW m \in Members, InsertMember(m) PROVE GensOK'
  <2>1. Plain("insert", m) \in Job BY JobTypes
  <2> QED BY <1>5, <2>1, AppendGens DEF InsertMember
<1>6. ASSUME NEW m \in Members, RemoveMember(m) PROVE GensOK'
  <2>1. Plain("remove", m) \in Job BY JobTypes
  <2> QED BY <1>6, <2>1, AppendGens DEF RemoveMember
<1>7. ASSUME NEW r \in Readers, Request(r) PROVE GensOK'
  <2>1. Plain("retry", NoSolution) \in Job BY JobTypes
  <2> QED BY <1>7, <2>1, AppendGens DEF Request
<1>8. ASSUME NEW m \in Members, CompileMember(m) PROVE GensOK' BY <1>8, AppendGens DEF CompileMember
<1> QED BY <1>1, <1>2, <1>3, <1>4, <1>5, <1>6, <1>7, <1>8, SwitchGens DEF Environment

(* The three facts about the graph, together. *)
GraphInv == OriginOK /\ SettleOK /\ GraphActive

(* A step that leaves the graph, its solution and the reads under way alone. *)
LEMMA KeepGraphInv ==
  ASSUME GraphInv, UNCHANGED <<origin, active, buildState, switchGen, graphOf>>,
         disposed => disposed', lastError => lastError',
         \A t \in Tasks : pc'[t] \in {"read", "settle"} => pc'[t] = pc[t] /\ job'[t] = job[t]
  PROVE  GraphInv'
<1>1. OriginOK' BY DEF GraphInv, OriginOK
<1>2. SettleOK' BY DEF GraphInv, SettleOK
<1>3. GraphActive' BY DEF GraphInv, GraphActive
<1> QED BY <1>1, <1>2, <1>3 DEF GraphInv

(* Starting an attempt and awaiting it are such steps. *)
LEMMA MaintQuiet ==
  ASSUME IInv, NEW t \in Tasks, t # "warm", NEW j, MaintenanceWarmed(t, j)
  PROVE  \A u \in Tasks : pc'[u] \in {"read", "settle"} => pc'[u] = pc[u] /\ job'[u] = job[u]
<1>1. pc \in [Tasks -> Pcs] /\ job \in [Tasks -> Job] BY DEF IInv, TypeOK, TasksOK
<1>2. CASE warmupFailed /\ ~throttled
  <2>1. /\ \E w : job' = [job EXCEPT ![t] = j, !["warm"] = w]
        /\ pc' = [pc EXCEPT ![t] = "warm", !["warm"] = "bases"]
    BY <1>2 DEF MaintenanceWarmed, StartWarmup
  <2>2. \A u \in Tasks \ {t, "warm"} : pc'[u] = pc[u] /\ job'[u] = job[u] BY <1>1, <2>1
  <2>3. pc'[t] = "warm" /\ pc'["warm"] = "bases" BY <1>1, <2>1, NamesFact
  <2> QED BY <2>2, <2>3
<1>3. CASE ~(warmupFailed /\ ~throttled)
  <2>1. \E to : to \notin {"read", "settle"} /\ pc' = [pc EXCEPT ![t] = to]
    BY <1>3 DEF MaintenanceWarmed, AfterWarm
  <2>2. job' = [job EXCEPT ![t] = j] BY <1>3 DEF MaintenanceWarmed
  <2> QED BY <1>1, <2>1, <2>2
<1> QED BY <1>2, <1>3

LEMMA WakeQuiet ==
  ASSUME IInv, NEW ok \in BOOLEAN, WakeAwaiters(ok), UNCHANGED job
  PROVE  \A u \in Tasks : pc'[u] \in {"read", "settle"} => u # "warm" /\ pc'[u] = pc[u]
BY DEF WakeAwaiters, AfterWarm

LEMMA DequeueGraphInv == ASSUME IInv, GraphInv, Dequeue PROVE GraphInv'
<1> DEFINE j == Head(queue)
<1>1. /\ pc \in [Tasks -> Pcs] /\ job \in [Tasks -> Job] /\ pc["head"] = "idle"
      /\ UNCHANGED <<origin, active, buildState, switchGen, graphOf, disposed, lastError>>
  BY DEF Dequeue, IInv, TypeOK, TasksOK, world, shared, build
<1>2. \A u \in Tasks : pc'[u] \in {"read", "settle"} => pc'[u] = pc[u] /\ job'[u] = job[u]
  <2>1. CASE \E to \in {"warm", "assemble", "sweep", "resolve"} :
                job' = [job EXCEPT !["head"] = j] /\ pc' = [pc EXCEPT !["head"] = to]
    BY <1>1, <2>1
  <2>2. CASE StartWarmup("head", j, "warm")
    <3>1. /\ \E w : job' = [job EXCEPT !["head"] = j, !["warm"] = w]
          /\ pc' = [pc EXCEPT !["head"] = "warm", !["warm"] = "bases"]
      BY <2>2 DEF StartWarmup
    <3>2. \A u \in Tasks \ {"head", "warm"} : pc'[u] = pc[u] /\ job'[u] = job[u] BY <1>1, <3>1
    <3>3. pc'["head"] = "warm" /\ pc'["warm"] = "bases" BY <1>1, <3>1, NamesFact
    <3> QED BY <3>2, <3>3
  <2>3. CASE UNCHANGED <<job, pc>> BY <2>3
  <2>4. CASE MaintenanceWarmed("head", j) BY <2>4, MaintQuiet, NamesFact
  <2> QED BY <2>1, <2>2, <2>3, <2>4 DEF Dequeue, j
<1> QED BY <1>1, <1>2, KeepGraphInv

LEMMA EnvironmentGraphInv ==
  ASSUME Events = {}, IInv, GensOK, GraphInv, Environment PROVE GraphInv'
<1>1. ASSUME NEW s \in Scopes, SwitchSolution(s) PROVE GraphInv'
  <2>1. /\ buildState' = "Building" /\ switchGen' = switchGen + 1 /\ switchGen \in Nat
        /\ UNCHANGED <<pc, job, origin>> /\ job \in [Tasks -> Job]
    BY <1>1 DEF SwitchSolution, IInv, TypeOK, TasksOK, GraphOK
  <2>2. ASSUME NEW t \in Tasks, job[t].kind \in {"warm", "switch"} PROVE job[t].gen # switchGen'
    <3>1. job[t].gen \in Nat /\ job[t].gen <= switchGen BY <2>1, <2>2 DEF GensOK, Job
    <3> QED BY <2>1, <3>1
  <2>3. \A t \in Tasks : pc[t] = "settle" => job[t].kind \in {"warm", "switch"}
    BY DEF IInv, PcOK, PcsOf
  <2>4. OriginOK' BY <2>1, <2>2 DEF OriginOK
  <2>5. SettleOK' BY <2>1, <2>2, <2>3 DEF SettleOK
  <2>6. GraphActive' BY <2>1 DEF GraphActive
  <2> QED BY <2>4, <2>5, <2>6 DEF GraphInv
<1>2. ASSUME UNCHANGED <<origin, active, buildState, switchGen, graphOf, pc, job, lastError>>,
             disposed => disposed'
      PROVE  GraphInv'
  BY <1>2, KeepGraphInv
<1> USE DEF world, locals, warming, shared, build, caches
<1>3. CASE TimePasses BY <1>2, <1>3 DEF TimePasses
<1>4. CASE Dispose BY <1>2, <1>4 DEF Dispose
<1>5. ASSUME NEW f \in Files, DidChange(f) PROVE GraphInv' BY <1>2, <1>5 DEF DidChange
<1>6. ASSUME NEW f \in Files, DiskChange(f) PROVE GraphInv' BY <1>2, <1>6 DEF DiskChange
<1>7. ASSUME NEW m \in Members, InsertMember(m) PROVE GraphInv' BY <1>2, <1>7 DEF InsertMember
<1>8. ASSUME NEW m \in Members, RemoveMember(m) PROVE GraphInv' BY <1>2, <1>8 DEF RemoveMember
<1>9. ASSUME NEW r \in Readers, Request(r) PROVE GraphInv' BY <1>2, <1>9 DEF Request
<1>10. ASSUME NEW m \in Members, CompileMember(m) PROVE GraphInv' BY <1>2, <1>10 DEF CompileMember
<1> QED BY <1>1, <1>3, <1>4, <1>5, <1>6, <1>7, <1>8, <1>9, <1>10 DEF Environment

(* A task that reads or settles does so alone. *)
LEMMA Alone ==
  ASSUME Events = {}, IInv, WarmupOK, AloneOK, NEW t \in Tasks,
         pc[t] \in {"read", "settle"} \/ (t = "warm" /\ pc[t] # "idle")
  PROVE  \A u \in Tasks \ {t} : pc[u] \notin {"read", "settle"}
BY TwoTasks, Exclusive DEF Working, AloneOK, WarmupOK

LEMMA BuildGraphInv ==
  ASSUME Events = {}, IInv, ActiveInv, NEW t \in Tasks, Build(t) PROVE GraphInv'
<1> USE DEF world, locals, warming, shared, build, caches
<1>1. pc \in [Tasks -> Pcs] /\ job \in [Tasks -> Job] BY DEF IInv, TypeOK, TasksOK
<1>2. /\ pc[t] = "read" /\ pc' = [pc EXCEPT ![t] = AfterRebuild(t)]
      /\ UNCHANGED <<job, origin, active, switchGen, disposed>>
  BY DEF Build
<1>3. \A u \in Tasks : pc'[u] # "read" /\ (pc'[u] = "settle" => u = t /\ job[t].kind \in {"warm", "switch"})
  <2>1. \A u \in Tasks \ {t} : pc[u] \notin {"read", "settle"} BY <1>2, Alone DEF ActiveInv
  <2> QED BY <1>1, <1>2, <2>1 DEF AfterRebuild
<1>4. OriginOK' BY <1>3 DEF OriginOK
<1>5. CASE disposed BY <1>2, <1>4, <1>5 DEF GraphInv, SettleOK, GraphActive
<1>6. CASE ~disposed /\ BuildThrows(t)
  <2>1. lastError' = TRUE /\ buildState' # "Ready" BY <1>6 DEF Build, Settled
  <2> QED BY <1>4, <2>1 DEF GraphInv, SettleOK, GraphActive
<1>7. CASE ~disposed /\ ~BuildThrows(t)
  <2>1. graphOf' = origin[t] /\ (buildState' = "Ready" => buildState # "Building") BY <1>7 DEF Build
  <2>2. SettleOK' BY <1>2, <1>3, <2>1 DEF ActiveInv, OriginOK, SettleOK
  <2>3. GraphActive' BY <1>2, <2>1 DEF ActiveInv, OriginOK, GraphActive
  <2> QED BY <1>4, <2>2, <2>3 DEF GraphInv
<1> QED BY <1>5, <1>6, <1>7

LEMMA StepGraphInv ==
  ASSUME Events = {}, IInv, ActiveInv, NEW t \in Tasks, Step(t) PROVE GraphInv'
<1> USE DEF world, locals, warming, shared, build, caches
<1>0. /\ pc \in [Tasks -> Pcs] /\ job \in [Tasks -> Job]
      /\ GraphInv /\ WarmupOK /\ AloneOK /\ OriginOK /\ SettleOK /\ GraphActive
  BY DEF IInv, TypeOK, TasksOK, ActiveInv, GraphInv
<1>1. CASE WarmupRejects(t)
  <2>1. /\ WakeAwaiters(FALSE) /\ t = "warm" /\ pc[t] # "idle"
        /\ UNCHANGED <<job, origin, active, switchGen, disposed, lastError, graphOf>>
        /\ buildState' = "Ready" => buildState = "Ready"
    BY <1>1 DEF WarmupRejects
  <2>2. \A u \in Tasks : pc'[u] \notin {"read", "settle"} BY <1>0, <2>1, WakeQuiet, Alone
  <2> QED BY <1>0, <2>1, <2>2 DEF GraphInv, OriginOK, SettleOK, GraphActive
<1>2. CASE SettleWarmup(t)
  <2>1. /\ WakeAwaiters(TRUE) /\ t = "warm" /\ pc[t] = "settle" /\ SettleBuild(job[t].gen)
        /\ UNCHANGED <<job, origin, active, switchGen, disposed, lastError, graphOf>>
    BY <1>2 DEF SettleWarmup
  <2>2. \A u \in Tasks : pc'[u] \notin {"read", "settle"} BY <1>0, <2>1, WakeQuiet, Alone
  <2>3. GraphActive' BY <1>0, <2>1 DEF SettleBuild, Settled, SettleOK, GraphActive
  <2> QED BY <2>2, <2>3 DEF GraphInv, OriginOK, SettleOK
<1>3. CASE SettleSwitch(t)
  <2>1. /\ pc[t] = "settle" /\ SettleBuild(job[t].gen) /\ pc' = [pc EXCEPT ![t] = "idle"]
        /\ UNCHANGED <<job, origin, active, switchGen, disposed, lastError, graphOf>>
    BY <1>3 DEF SettleSwitch
  <2>2. \A u \in Tasks : pc'[u] \notin {"read", "settle"} BY <1>0, <2>1, Alone
  <2>3. GraphActive' BY <1>0, <2>1 DEF SettleBuild, Settled, SettleOK, GraphActive
  <2> QED BY <2>2, <2>3 DEF GraphInv, OriginOK, SettleOK
<1>4. CASE Build(t) BY <1>4, BuildGraphInv
<1>5. CASE AssembleFails(t)
  <2>1. /\ pc[t] = "read" /\ pc' = [pc EXCEPT ![t] = AfterRebuild(t)] /\ lastError' = TRUE
        /\ UNCHANGED <<job, origin, active, switchGen, disposed, graphOf>>
        /\ ~disposed => buildState' # "Ready"
    BY <1>5 DEF AssembleFails
  <2>2. \A u \in Tasks : pc'[u] # "read"
    BY <1>0, <2>1, Alone DEF AfterRebuild
  <2> QED BY <2>1, <2>2 DEF GraphInv, OriginOK, SettleOK, GraphActive
<1>6. CASE Assemble(t)
  <2>1. UNCHANGED <<job, active, switchGen, disposed, graphOf, lastError, buildState>>
    BY <1>6 DEF Assemble
  <2>2. CASE disposed
    <3>1. pc' = [pc EXCEPT ![t] = AfterRebuild(t)] /\ UNCHANGED origin BY <1>6, <2>2 DEF Assemble
    <3>2. \A u \in Tasks : pc'[u] = "read" => pc[u] = "read" BY <1>0, <3>1 DEF AfterRebuild
    <3>3. OriginOK' BY <1>0, <2>1, <3>1, <3>2 DEF OriginOK
    <3> QED BY <2>1, <2>2, <3>3 DEF GraphInv, SettleOK, GraphActive
  <2>3. CASE ~disposed
    <3>1. pc' = [pc EXCEPT ![t] = "read"] /\ origin' = [origin EXCEPT ![t] = active]
      BY <1>6, <2>3 DEF Assemble
    <3>2. origin \in [Tasks -> Scopes] BY DEF IInv, TypeOK, LocalsOK
    <3>3. \A u \in Tasks : /\ pc'[u] = IF u = t THEN "read" ELSE pc[u]
                           /\ origin'[u] = IF u = t THEN active ELSE origin[u]
      BY <1>0, <3>1, <3>2
    <3>4. OriginOK' BY <1>0, <2>1, <3>3 DEF OriginOK
    <3>5. SettleOK' BY <1>0, <2>1, <3>3 DEF SettleOK
    <3>6. GraphActive' BY <1>0, <2>1 DEF GraphActive
    <3> QED BY <3>4, <3>5, <3>6 DEF GraphInv
  <2> QED BY <2>2, <2>3
<1>7. CASE CheckLoaded(t)
  <2>1. /\ UNCHANGED <<origin, active, buildState, switchGen, graphOf, disposed, lastError>>
        /\ pc[t] = "check"
    BY <1>7 DEF CheckLoaded
  <2>2. CASE Has(Owner[job[t].arg]) /\ job[t].kind = "replace" /\ ~HasFile(job[t].arg) /\ ~disposed
    <3>1. t # "warm" BY <2>2 DEF IInv, PcOK
    <3>2. MaintenanceWarmed(t, [job[t] EXCEPT !.kind = "replaceMember"]) BY <1>7, <2>2 DEF CheckLoaded
    <3> QED BY <1>0, <2>1, <3>1, <3>2, MaintQuiet, KeepGraphInv
  <2>3. CASE ~(Has(Owner[job[t].arg]) /\ job[t].kind = "replace" /\ ~HasFile(job[t].arg) /\ ~disposed)
    <3>1. PICK to \in {"idle", "sources"} : pc' = [pc EXCEPT ![t] = to] BY <1>7, <2>3 DEF CheckLoaded
    <3>2. UNCHANGED job BY <1>7, <2>3 DEF CheckLoaded
    <3>3. \A u \in Tasks : pc'[u] \in {"read", "settle"} => pc'[u] = pc[u] BY <1>0, <3>1
    <3> QED BY <1>0, <2>1, <3>2, <3>3, KeepGraphInv
  <2> QED BY <2>2, <2>3
<1>8. CASE ~(\/ WarmupRejects(t) \/ SettleWarmup(t) \/ SettleSwitch(t) \/ Build(t)
             \/ AssembleFails(t) \/ Assemble(t) \/ CheckLoaded(t))
  <2>1. Ordinary(t) BY <1>8, OrdinaryStep
  <2>2. /\ UNCHANGED <<origin, buildState, graphOf>> /\ (lastError => lastError')
        /\ UNCHANGED pc \/ \E to \in Pcs \ {"read", "settle"} : pc' = [pc EXCEPT ![t] = to]
    <3> DEFINE Quiet ==
          /\ UNCHANGED <<origin, buildState, graphOf>> /\ (lastError => lastError')
          /\ UNCHANGED pc \/ \E to \in Pcs \ {"read", "settle"} : pc' = [pc EXCEPT ![t] = to]
    <3> USE DEF Goto, Pcs
    <3>1. ASSUME Sweep(t) PROVE Quiet BY <3>1 DEF Sweep
    <3>2. ASSUME ResolveRetry(t) PROVE Quiet BY <3>2 DEF ResolveRetry
    <3>3. ASSUME Invalidate(t) PROVE Quiet BY <3>3 DEF Invalidate
    <3>4. ASSUME ReadStale(t) PROVE Quiet BY <3>4 DEF ReadStale
    <3>5. ASSUME ResolveBases(t) PROVE Quiet BY <3>5 DEF ResolveBases
    <3>6. ASSUME Register(t) PROVE Quiet BY <3>6 DEF Register
    <3>7. ASSUME DropStale(t) PROVE Quiet BY <3>7 DEF DropStale
    <3>8. ASSUME RefreshFails(t) PROVE Quiet BY <3>8 DEF RefreshFails
    <3>9. ASSUME ReadSources(t) PROVE Quiet BY <3>9 DEF ReadSources
    <3>10. ASSUME FindOwner(t) PROVE Quiet BY <3>10 DEF FindOwner
    <3>11. ASSUME ReadOwnerSources(t) PROVE Quiet BY <3>11 DEF ReadOwnerSources
    <3>12. ASSUME ReadOwnerSourcesFails(t) PROVE Quiet BY <3>12 DEF ReadOwnerSourcesFails
    <3>13. ASSUME ReplaceFile(t) PROVE Quiet BY <3>13, RevisionFlags DEF ReplaceFile
    <3>14. ASSUME ReplaceMember(t) PROVE Quiet BY <3>14, RevisionFlags DEF ReplaceMember
    <3> HIDE DEF Quiet, world, locals, warming, shared, build, caches
    <3>15. Quiet
      BY <1>8, <3>1, <3>2, <3>3, <3>4, <3>5, <3>6, <3>7, <3>8, <3>9, <3>10, <3>11, <3>12, <3>13, <3>14 DEF Step
    <3> QED BY <3>15 DEF Quiet
  <2>3. \A u \in Tasks : pc'[u] \in {"read", "settle"} => pc'[u] = pc[u] BY <1>0, <2>2
  <2> QED BY <1>0, <2>1, <2>2, <2>3, KeepGraphInv DEF Ordinary
<1> QED BY <1>1, <1>2, <1>3, <1>4, <1>5, <1>6, <1>7, <1>8

LEMMA StepActive == Events = {} /\ IInv /\ ActiveInv /\ [Next]_vars => ActiveInv'
<1> SUFFICES ASSUME Events = {}, IInv, ActiveInv, [Next]_vars PROVE ActiveInv'
  OBVIOUS
<1>0. WarmupOK /\ AloneOK /\ GensOK /\ GraphInv BY DEF ActiveInv, GraphInv
<1>1. WarmupOK' BY <1>0, StepWarmupOK
<1>2. CASE UNCHANGED vars
  BY <1>0, <1>1, <1>2 DEF vars, world, locals, warming, shared, build, caches, ActiveInv, AloneOK,
     GensOK, GraphInv, OriginOK, SettleOK, GraphActive
<1>3. CASE Environment
  <2>1. AloneOK'
    <3>1. UNCHANGED <<pc, warmup>>
      BY <1>3 DEF Environment, TimePasses, Dispose, DidChange, DiskChange, SwitchSolution,
         InsertMember, RemoveMember, CompileMember, Request, world, locals, warming, shared, build, caches
    <3> QED BY <1>0, <3>1 DEF AloneOK
  <2> QED BY <1>0, <1>1, <1>3, <2>1, EnvironmentGens, EnvironmentGraphInv DEF ActiveInv, GraphInv
<1>4. CASE Dequeue
  BY <1>0, <1>1, <1>4, DequeueAlone, DequeueGens, DequeueGraphInv DEF ActiveInv, GraphInv
<1>5. ASSUME NEW t \in Tasks, Step(t) PROVE ActiveInv'
  BY <1>0, <1>1, <1>5, StepAlone, StepGens, StepGraphInv DEF ActiveInv, GraphInv
<1> QED BY <1>2, <1>3, <1>4, <1>5 DEF Next

------------------------------------------------------------------------------
(* Ready is said only after a full build that went through.  An error of a *)
(* keystroke can be on record all the same: a revision leaves the state.    *)

(* The file a keystroke is about to replace is loaded. *)
KnownOK ==
  pc["head"] \in {"sources", "apply"} /\ job["head"].kind = "replace" => HasFile(job["head"].arg)

(* The error of a full build stays on record until the next one. *)
ErrorOK ==
  /\ buildFailed => lastError
  /\ ~disposed /\ buildState = "Ready" => ~buildFailed

LEMMA InitError == Init => KnownOK /\ ErrorOK
BY NamesFact DEF Init, KnownOK, ErrorOK

LEMMA NoReadFails == ASSUME IInv, MaxReadFailures = 0 PROVE ~ReadFails
BY DEF ReadFails, IInv, TypeOK, WorldOK

(* Awaiting an attempt takes the head away from the replacement. *)
LEMMA MaintLeaves ==
  ASSUME IInv, NEW j, MaintenanceWarmed("head", j) PROVE pc'["head"] \notin {"sources", "apply"}
<1>1. pc \in [Tasks -> Pcs] BY DEF IInv, TypeOK, TasksOK
<1>2. CASE warmupFailed /\ ~throttled
  <2>1. pc' = [pc EXCEPT !["head"] = "warm", !["warm"] = "bases"]
    BY <1>2 DEF MaintenanceWarmed, StartWarmup
  <2> QED BY <1>1, <2>1, NamesFact
<1>3. CASE ~(warmupFailed /\ ~throttled)
  <2>1. \E to : to \notin {"sources", "apply"} /\ pc' = [pc EXCEPT !["head"] = to]
    BY <1>3 DEF MaintenanceWarmed, AfterWarm
  <2> QED BY <1>1, <2>1, NamesFact
<1> QED BY <1>2, <1>3

LEMMA StepKnown ==
  ASSUME Events = {}, IInv, ActiveInv, KnownOK, NEW t \in Tasks, Step(t) PROVE KnownOK'
<1> USE DEF world, locals, warming, shared, build, caches, Goto
<1>1. /\ pc \in [Tasks -> Pcs] /\ (t = "warm" \/ t = "head")
      /\ WarmupOK /\ AloneOK /\ "head" \in Tasks
  BY NamesFact, TwoTasks DEF IInv, TypeOK, TasksOK, ActiveInv
<1>2. ASSUME UNCHANGED <<job, sourcesOf>>,
             pc'["head"] \in {"sources", "apply"} => pc["head"] \in {"sources", "apply"}
      PROVE  KnownOK'
  BY <1>2 DEF KnownOK, HasFile
<1>3. CASE WarmupRejects(t) \/ SettleWarmup(t)
  <2>1. UNCHANGED <<job, sourcesOf>> /\ \E ok \in BOOLEAN : WakeAwaiters(ok)
    BY <1>3 DEF WarmupRejects, SettleWarmup
  <2>2. pc'["head"] \in {"sources", "apply"} => pc["head"] \in {"sources", "apply"}
    BY <1>1, <2>1 DEF WakeAwaiters, AfterWarm
  <2> QED BY <1>2, <2>1, <2>2
<1>4. CASE CheckLoaded(t)
  <2>1. t = "head" /\ UNCHANGED sourcesOf BY <1>1, <1>4, PcKind DEF CheckLoaded, IInv, PcOK
  <2>2. CASE Has(Owner[job[t].arg]) /\ job[t].kind = "replace" /\ ~HasFile(job[t].arg) /\ ~disposed
    <3>1. MaintenanceWarmed(t, [job[t] EXCEPT !.kind = "replaceMember"]) BY <1>4, <2>2 DEF CheckLoaded
    <3> QED BY <2>1, <3>1, MaintLeaves DEF KnownOK
  <2>3. CASE ~(Has(Owner[job[t].arg]) /\ job[t].kind = "replace" /\ ~HasFile(job[t].arg) /\ ~disposed)
    <3>1. /\ pc' = [pc EXCEPT !["head"] = IF ~Has(Owner[job[t].arg]) \/ (job[t].kind = "replace" /\ ~HasFile(job[t].arg))
                                         THEN "idle" ELSE "sources"]
          /\ UNCHANGED job
      BY <1>4, <2>1, <2>3 DEF CheckLoaded
    <3> QED BY <1>1, <2>1, <3>1 DEF KnownOK, HasFile
  <2> QED BY <2>2, <2>3
<1>5. CASE ReadOwnerSources(t)
  <2>1. UNCHANGED <<job, sourcesOf>> /\ pc[t] = "sources" /\ pc' = [pc EXCEPT ![t] = "apply"]
    BY <1>5 DEF ReadOwnerSources
  <2> QED BY <1>1, <1>2, <2>1
<1>6. CASE Build(t)
  <2>1. pc[t] = "read" /\ pc' = [pc EXCEPT ![t] = AfterRebuild(t)] BY <1>6 DEF Build
  <2>2. CASE t = "head"
    BY <1>1, <2>1, <2>2 DEF KnownOK, AfterRebuild
  <2>3. CASE t = "warm"
    <3>1. pc["head"] \notin Working BY <2>1, <2>3, <1>1, Exclusive
    <3>2. pc'["head"] = pc["head"] BY <1>1, <2>1, <2>3, NamesFact
    <3> QED BY <3>1, <3>2 DEF KnownOK, Working
  <2> QED BY <1>1, <2>2, <2>3
<1>7. CASE ReplaceFile(t) \/ ReplaceMember(t)
  <2>1. pc[t] = "apply" /\ pc' = [pc EXCEPT ![t] = "idle"] /\ job[t].kind # "warm"
    BY <1>7 DEF ReplaceFile, ReplaceMember
  <2>2. t = "head" BY <1>1, <2>1 DEF IInv, PcOK
  <2> QED BY <1>1, <2>1, <2>2 DEF KnownOK
<1>8. CASE ~(\/ WarmupRejects(t) \/ SettleWarmup(t) \/ CheckLoaded(t) \/ ReadOwnerSources(t)
             \/ Build(t) \/ ReplaceFile(t) \/ ReplaceMember(t))
  <2> DEFINE Quiet ==
        /\ UNCHANGED <<job, sourcesOf>>
        /\ UNCHANGED pc \/ \E to \in Pcs \ {"sources", "apply"} : pc' = [pc EXCEPT ![t] = to]
  <2> USE DEF Pcs, AfterRebuild
  <2>1. ASSUME Sweep(t) PROVE Quiet BY <2>1 DEF Sweep
  <2>2. ASSUME ResolveRetry(t) PROVE Quiet BY <2>2 DEF ResolveRetry
  <2>3. ASSUME Invalidate(t) PROVE Quiet BY <2>3 DEF Invalidate
  <2>4. ASSUME ReadStale(t) PROVE Quiet BY <2>4 DEF ReadStale
  <2>5. ASSUME ResolveBases(t) PROVE Quiet BY <2>5 DEF ResolveBases
  <2>6. ASSUME Register(t) PROVE Quiet BY <2>6 DEF Register
  <2>7. ASSUME DropStale(t) PROVE Quiet BY <2>7 DEF DropStale
  <2>8. ASSUME RefreshFails(t) PROVE Quiet BY <2>8 DEF RefreshFails
  <2>9. ASSUME ReadSources(t) PROVE Quiet BY <2>9 DEF ReadSources
  <2>10. ASSUME SettleSwitch(t) PROVE Quiet BY <2>10 DEF SettleSwitch
  <2>11. ASSUME AssembleFails(t) PROVE Quiet BY <2>11 DEF AssembleFails
  <2>12. ASSUME Assemble(t) PROVE Quiet BY <2>12 DEF Assemble
  <2>13. ASSUME FindOwner(t) PROVE Quiet BY <2>13 DEF FindOwner
  <2>14. ASSUME ReadOwnerSourcesFails(t) PROVE Quiet BY <2>14 DEF ReadOwnerSourcesFails
  <2> HIDE DEF Quiet, world, locals, warming, shared, build, caches
  <2>15. Quiet
    BY <1>8, <2>1, <2>2, <2>3, <2>4, <2>5, <2>6, <2>7, <2>8, <2>9, <2>10, <2>11, <2>12, <2>13, <2>14 DEF Step
  <2> QED BY <1>1, <1>2, <2>15 DEF Quiet
<1> QED BY <1>3, <1>4, <1>5, <1>6, <1>7, <1>8

LEMMA DequeueKnown == ASSUME IInv, Dequeue PROVE KnownOK'
<1> DEFINE j == Head(queue)
<1>1. pc \in [Tasks -> Pcs] /\ pc["head"] = "idle" BY DEF Dequeue, IInv, TypeOK, TasksOK
<1>2. CASE \E to \in {"warm", "assemble", "sweep", "resolve"} : pc' = [pc EXCEPT !["head"] = to]
  BY <1>1, <1>2, NamesFact DEF KnownOK
<1>3. CASE StartWarmup("head", j, "warm")
  <2>1. pc' = [pc EXCEPT !["head"] = "warm", !["warm"] = "bases"] BY <1>3 DEF StartWarmup
  <2> QED BY <1>1, <2>1, NamesFact DEF KnownOK
<1>4. CASE UNCHANGED pc BY <1>1, <1>4 DEF KnownOK
<1>5. CASE MaintenanceWarmed("head", j) BY <1>5, MaintLeaves DEF KnownOK
<1> QED BY <1>2, <1>3, <1>4, <1>5 DEF Dequeue, Goto, j

LEMMA StepErrorOK == ASSUME IInv, ErrorOK, NEW t \in Tasks, Step(t) PROVE ErrorOK'
<1> USE DEF world, locals, warming, shared, build, caches
<1>1. ASSUME UNCHANGED <<disposed, buildFailed>>, lastError => lastError',
             buildState' = "Ready" => buildState = "Ready"
      PROVE  ErrorOK'
  BY <1>1 DEF ErrorOK
<1>2. CASE WarmupRejects(t) BY <1>1, <1>2 DEF WarmupRejects
<1>3. CASE SettleWarmup(t) \/ SettleSwitch(t)
  <2>1. SettleBuild(job[t].gen) /\ UNCHANGED <<disposed, lastError, buildFailed>>
    BY <1>3 DEF SettleWarmup, SettleSwitch
  <2> QED BY <2>1 DEF SettleBuild, Settled, ErrorOK
<1>4. CASE Build(t) BY <1>4 DEF Build, Settled, ErrorOK
<1>5. CASE AssembleFails(t) BY <1>5 DEF AssembleFails, ErrorOK
<1>6. CASE ~(\/ WarmupRejects(t) \/ SettleWarmup(t) \/ SettleSwitch(t) \/ Build(t)
             \/ AssembleFails(t))
  <2> DEFINE Quiet == UNCHANGED <<disposed, buildFailed, buildState>> /\ (lastError => lastError')
  <2>1. ASSUME Sweep(t) PROVE Quiet BY <2>1 DEF Sweep
  <2>2. ASSUME ResolveRetry(t) PROVE Quiet BY <2>2 DEF ResolveRetry
  <2>3. ASSUME Invalidate(t) PROVE Quiet BY <2>3 DEF Invalidate
  <2>4. ASSUME ReadStale(t) PROVE Quiet BY <2>4 DEF ReadStale
  <2>5. ASSUME ResolveBases(t) PROVE Quiet BY <2>5 DEF ResolveBases
  <2>6. ASSUME Register(t) PROVE Quiet BY <2>6 DEF Register
  <2>7. ASSUME DropStale(t) PROVE Quiet BY <2>7 DEF DropStale
  <2>8. ASSUME RefreshFails(t) PROVE Quiet BY <2>8 DEF RefreshFails
  <2>9. ASSUME Assemble(t) PROVE Quiet BY <2>9 DEF Assemble
  <2>10. ASSUME ReadSources(t) PROVE Quiet BY <2>10 DEF ReadSources
  <2>11. ASSUME FindOwner(t) PROVE Quiet BY <2>11 DEF FindOwner
  <2>12. ASSUME CheckLoaded(t) PROVE Quiet BY <2>12 DEF CheckLoaded
  <2>13. ASSUME ReadOwnerSources(t) PROVE Quiet BY <2>13 DEF ReadOwnerSources
  <2>14. ASSUME ReadOwnerSourcesFails(t) PROVE Quiet BY <2>14 DEF ReadOwnerSourcesFails
  <2>15. ASSUME ReplaceFile(t) \/ ReplaceMember(t) PROVE Quiet
    <3>1. UNCHANGED <<disposed, buildState>> BY <2>15 DEF ReplaceFile, ReplaceMember
    <3> QED BY <2>15, <3>1, RevisionFlags
  <2> HIDE DEF Quiet, world, locals, warming, shared, build, caches
  <2>16. Quiet
    BY <1>6, <2>1, <2>2, <2>3, <2>4, <2>5, <2>6, <2>7, <2>8, <2>9, <2>10, <2>11, <2>12, <2>13,
       <2>14, <2>15 DEF Step
  <2> QED BY <1>1, <2>16 DEF Quiet
<1> QED BY <1>2, <1>3, <1>4, <1>5, <1>6

LEMMA StepError == IInv /\ ErrorOK /\ [Next]_vars => ErrorOK'
<1> SUFFICES ASSUME IInv, ErrorOK, [Next]_vars PROVE ErrorOK'
  OBVIOUS
<1> DEFINE Quiet == /\ UNCHANGED <<lastError, buildFailed>> /\ (disposed => disposed')
                    /\ (buildState' = "Ready" => buildState = "Ready")
<1> USE DEF world, locals, warming, shared, build, caches
<1>1. UNCHANGED vars => Quiet BY DEF vars
<1>2. TimePasses \/ Dispose => Quiet BY DEF TimePasses, Dispose
<1>3. \A f \in Files : DidChange(f) \/ DiskChange(f) => Quiet BY DEF DidChange, DiskChange
<1>4. \A s \in Scopes : SwitchSolution(s) => Quiet BY DEF SwitchSolution
<1>5. \A m \in Members : InsertMember(m) \/ RemoveMember(m) \/ CompileMember(m) => Quiet
  BY DEF InsertMember, RemoveMember, CompileMember
<1>6. \A r \in Readers : Request(r) => Quiet BY DEF Request
<1>7. \A e \in Events, m \in Members : ReferencesChanged(e, m) => Quiet BY DEF ReferencesChanged
<1>8. Dequeue => Quiet BY DEF Dequeue
<1>9. ASSUME Quiet PROVE ErrorOK' BY <1>9 DEF ErrorOK
<1> HIDE DEF Quiet, world, locals, warming, shared, build, caches
<1>10. CASE Environment BY <1>2, <1>3, <1>4, <1>5, <1>6, <1>7, <1>9, <1>10 DEF Environment
<1> QED BY <1>1, <1>8, <1>9, <1>10, StepErrorOK DEF Next

LEMMA KnownStep == Events = {} /\ IInv /\ ActiveInv /\ KnownOK /\ [Next]_vars => KnownOK'
<1> SUFFICES ASSUME Events = {}, IInv, ActiveInv, KnownOK, [Next]_vars PROVE KnownOK'
  OBVIOUS
<1> DEFINE Quiet == UNCHANGED <<pc, job, sourcesOf>>
<1> USE DEF world, locals, warming, shared, build, caches
<1>1. UNCHANGED vars => Quiet BY DEF vars
<1>2. TimePasses \/ Dispose => Quiet BY DEF TimePasses, Dispose
<1>3. \A f \in Files : DidChange(f) \/ DiskChange(f) => Quiet BY DEF DidChange, DiskChange
<1>4. \A s \in Scopes : SwitchSolution(s) => Quiet BY DEF SwitchSolution
<1>5. \A m \in Members : InsertMember(m) \/ RemoveMember(m) \/ CompileMember(m) => Quiet
  BY DEF InsertMember, RemoveMember, CompileMember
<1>6. \A r \in Readers : Request(r) => Quiet BY DEF Request
<1>7. Quiet => KnownOK' BY DEF KnownOK, HasFile
<1> HIDE DEF Quiet, world, locals, warming, shared, build, caches
<1>8. CASE Environment BY <1>2, <1>3, <1>4, <1>5, <1>6, <1>7, <1>8 DEF Environment
<1> QED BY <1>1, <1>7, <1>8, DequeueKnown, StepKnown DEF Next
------------------------------------------------------------------------------
(* A quiet, warm and Ready service is in step.  What follows is about a     *)
(* service that meets no change of references, no change of the disk and no *)
(* failing read: after one of those the graph waits for the next rebuild.   *)

Rebuilds == Invalidating \cup {"switch"}

(* A whole rebuild is still to be assembled: queued, ahead of an attempt,   *)
(* or by the job at the head of the queue.                                  *)
RebuildQueued == \E i \in DOMAIN queue : queue[i].kind \in Rebuilds
AttemptAhead == warmup # "ok" /\ pc["warm"] \notin {"read", "settle"}
HeadRebuilds ==
  /\ job["head"].kind \in Rebuilds
  /\ pc["head"] \in {"warm", "invalidate", "live", "refresh", "register", "assemble"}
Rebuilding == RebuildQueued \/ AttemptAhead \/ HeadRebuilds

(* The last keystroke in f has its replacement on the queue, or at the head *)
(* and not yet written.                                                     *)
Queued(f) ==
  \E i \in DOMAIN queue : queue[i].kind = "replace" /\ queue[i].arg = f /\ queue[i].gen = replaceGen[f]
AtHead(f) ==
  /\ job["head"].kind \in Replacing /\ job["head"].arg = f
  /\ \/ pc["head"] \in {"warm", "owner", "check", "sources"} /\ job["head"].gen = replaceGen[f]
     \/ pc["head"] = "apply" /\ snap["head"][f] = Source(f)
Late(f) == Queued(f) \/ AtHead(f)

(* The assembly under way is of the present members, and what it has read   *)
(* is the present text or text that a replacement is to follow.             *)
ReadCurrent(t) ==
  /\ scope[t] = Opened(active) /\ todo[t] \subseteq scope[t]
  /\ \A f \in Files :
       /\ Owner[f] \in scope[t] \ todo[t] => snap[t][f] = Source(f) \/ Late(f)
       /\ Owner[f] \notin scope[t] => snap[t][f] = Absent

(* So are the text the graph holds of f and the text it has on record, but  *)
(* for a file that missed a revision.                                       *)
Held(f) ==
  /\ Owner[f] \in Opened(active) =>
       \/ Late(f) \/ f \in missed
       \/ graph[f] = Source(f) /\ sourcesOf[f] = Source(f)
  /\ Owner[f] \notin Opened(active) => graph[f] = Absent /\ sourcesOf[f] = Absent

(* A replacement under way works on a member the graph holds and from text  *)
(* no older than a replacement that is to follow.                           *)
Loaded ==
  /\ graphMembers = Opened(active)
  /\ \A f \in Files : Held(f)
  /\ pc["head"] \in {"check", "sources", "apply"} => Owner[job["head"].arg] \in Opened(active)
  /\ pc["head"] = "apply" =>
       \A f \in Files : Owner[f] = Owner[job["head"].arg] => snap["head"][f] = Source(f) \/ Queued(f)

Unread == \A t \in Tasks : pc[t] # "read"

KeepsUp ==
  \/ disposed \/ Rebuilding
  \/ \E t \in Tasks : pc[t] = "read" /\ ReadCurrent(t)
  \/ Unread /\ (buildFailed \/ Loaded)

LEMMA InitKeepsUp == Init => KeepsUp
BY NamesFact DEF Init, KeepsUp, Rebuilding, AttemptAhead

(* A step of a task leaves the world and the queue alone. *)
Still == UNCHANGED <<active, membersOf, disk, live, replaceGen, queue, disposed>>

LEMMA StepStill == ASSUME NEW t \in Tasks, Step(t) PROVE Still
<1> USE DEF Still
<1>1. ASSUME WarmupRejects(t) PROVE Still BY <1>1 DEF WarmupRejects
<1>2. ASSUME Sweep(t) PROVE Still BY <1>2 DEF Sweep
<1>3. ASSUME ResolveRetry(t) PROVE Still BY <1>3 DEF ResolveRetry
<1>4. ASSUME Invalidate(t) PROVE Still BY <1>4 DEF Invalidate
<1>5. ASSUME ReadStale(t) PROVE Still BY <1>5 DEF ReadStale
<1>6. ASSUME ResolveBases(t) PROVE Still BY <1>6 DEF ResolveBases
<1>7. ASSUME Register(t) PROVE Still BY <1>7 DEF Register
<1>8. ASSUME DropStale(t) PROVE Still BY <1>8 DEF DropStale
<1>9. ASSUME RefreshFails(t) PROVE Still BY <1>9 DEF RefreshFails
<1>10. ASSUME Assemble(t) PROVE Still BY <1>10 DEF Assemble
<1>11. ASSUME ReadSources(t) PROVE Still BY <1>11 DEF ReadSources
<1>12. ASSUME AssembleFails(t) PROVE Still BY <1>12 DEF AssembleFails
<1>13. ASSUME Build(t) PROVE Still BY <1>13 DEF Build
<1>14. ASSUME SettleSwitch(t) PROVE Still BY <1>14 DEF SettleSwitch
<1>15. ASSUME SettleWarmup(t) PROVE Still BY <1>15 DEF SettleWarmup
<1>16. ASSUME FindOwner(t) PROVE Still BY <1>16 DEF FindOwner
<1>17. ASSUME CheckLoaded(t) PROVE Still BY <1>17 DEF CheckLoaded
<1>18. ASSUME ReadOwnerSources(t) PROVE Still BY <1>18 DEF ReadOwnerSources
<1>19. ASSUME ReadOwnerSourcesFails(t) PROVE Still BY <1>19 DEF ReadOwnerSourcesFails
<1>20. ASSUME ReplaceFile(t) PROVE Still BY <1>20 DEF ReplaceFile
<1>21. ASSUME ReplaceMember(t) PROVE Still BY <1>21 DEF ReplaceMember
<1> HIDE DEF Still
<1> QED BY <1>1, <1>2, <1>3, <1>4, <1>5, <1>6, <1>7, <1>8, <1>9, <1>10, <1>11, <1>12, <1>13,
           <1>14, <1>15, <1>16, <1>17, <1>18, <1>19, <1>20, <1>21 DEF Step

LEMMA StillMeans ==
  ASSUME Still
  PROVE  /\ membersOf' = membersOf /\ active' = active /\ replaceGen' = replaceGen
         /\ disposed' = disposed /\ RebuildQueued' = RebuildQueued
         /\ \A f \in Files : Source(f)' = Source(f) /\ Queued(f)' = Queued(f)
BY DEF Still, RebuildQueued, Queued, Source

(* While the head is at work nothing reads beside it. *)
LEMMA HeadAlone ==
  ASSUME Events = {}, WarmupOK, AloneOK, pc["head"] \in Working \ {"read"}
  PROVE  Unread /\ pc["warm"] = "idle" /\ warmup # "running"
BY TwoTasks, Exclusive DEF Unread, AloneOK

(* An attempt that is to assemble the members keeps up by itself. *)
LEMMA AttemptKeepsUp ==
  ASSUME warmup' # "ok", pc'["warm"] \notin {"read", "settle"} PROVE KeepsUp'
BY DEF KeepsUp, Rebuilding, AttemptAhead

LEMMA HeadKeepsUp ==
  ASSUME job'["head"].kind \in Rebuilds,
         pc'["head"] \in {"warm", "invalidate", "live", "refresh", "register", "assemble"}
  PROVE  KeepsUp'
BY DEF KeepsUp, Rebuilding, HeadRebuilds

(* A step that leaves the graph and the reads under way alone, and moves    *)
(* the head neither from a rebuild nor from a replacement still to write.   *)
LEMMA QuietKeepsUp ==
  ASSUME KeepsUp, Still, UNCHANGED <<graph, graphMembers, sourcesOf, missed, buildFailed, snap>>,
         AttemptAhead => AttemptAhead', HeadRebuilds => HeadRebuilds',
         \A t \in Tasks : (pc'[t] = "read") <=> (pc[t] = "read"),
         \A t \in Tasks : pc[t] = "read" => scope'[t] = scope[t] /\ todo'[t] = todo[t],
         \A f \in Files : Owner[f] \in Opened(active) /\ AtHead(f) => AtHead(f)',
         Loaded /\ pc'["head"] \in {"check", "sources", "apply"} =>
            Owner[job'["head"].arg] \in Opened(active),
         Loaded /\ pc'["head"] = "apply" => pc["head"] = "apply" /\ job'["head"].arg = job["head"].arg
  PROVE  KeepsUp'
<1>1. /\ membersOf' = membersOf /\ active' = active /\ disposed' = disposed
      /\ RebuildQueued' = RebuildQueued
      /\ \A f \in Files : Source(f)' = Source(f) /\ Queued(f)' = Queued(f)
  BY StillMeans
<1>2. \A f \in Files : Owner[f] \in Opened(active) /\ Late(f) => Late(f)' BY <1>1 DEF Late
<1>3. Rebuilding => Rebuilding' BY <1>1 DEF Rebuilding
<1>4. ASSUME NEW t \in Tasks, pc[t] = "read", ReadCurrent(t) PROVE pc'[t] = "read" /\ ReadCurrent(t)'
  <2>1. scope'[t] = scope[t] /\ todo'[t] = todo[t] /\ snap' = snap BY <1>4
  <2> QED BY <1>1, <1>2, <1>4, <2>1 DEF ReadCurrent
<1>5. Loaded => Loaded'
  <2> SUFFICES ASSUME Loaded PROVE Loaded'
    OBVIOUS
  <2>1. graphMembers' = Opened(active)' BY <1>1 DEF Loaded
  <2>2. ASSUME NEW f \in Files PROVE Held(f)'
    BY <1>1, <1>2 DEF Loaded, Held
  <2>3. pc'["head"] = "apply" =>
          \A f \in Files : Owner[f] = Owner[job'["head"].arg] => snap'["head"][f] = Source(f)' \/ Queued(f)'
    BY <1>1 DEF Loaded
  <2>4. pc'["head"] \in {"check", "sources", "apply"} => Owner[job'["head"].arg] \in Opened(active)'
    BY <1>1
  <2> QED BY <2>1, <2>2, <2>3, <2>4 DEF Loaded
<1>6. Unread => Unread' BY DEF Unread
<1> QED BY <1>1, <1>3, <1>4, <1>5, <1>6 DEF KeepsUp
(* The assembly starts with nothing read, ... *)
LEMMA AssembleKeepsUp == ASSUME IInv, KeepsUp, NEW t \in Tasks, Assemble(t) PROVE KeepsUp'
<1>1. CASE disposed BY <1>1 DEF Assemble, KeepsUp
<1>2. CASE ~disposed
  <2>1. /\ pc \in [Tasks -> Pcs] /\ todo \in [Tasks -> SUBSET Members]
        /\ scope \in [Tasks -> SUBSET Members] /\ snap \in [Tasks -> [Files -> Nat]]
    BY DEF IInv, TypeOK, TasksOK, LocalsOK
  <2>2. /\ pc'[t] = "read" /\ todo'[t] = Opened(active)' /\ scope'[t] = Opened(active)'
        /\ snap'[t] = EmptyText
    BY <1>2, <2>1 DEF Assemble
  <2>3. \A f \in Files : snap'[t][f] = Absent BY <2>2 DEF EmptyText
  <2>4. ReadCurrent(t)' BY <2>2, <2>3 DEF ReadCurrent
  <2> QED BY <2>2, <2>4 DEF KeepsUp
<1> QED BY <1>1, <1>2

(* ... each read is of the present text ... *)
LEMMA ReadKeepsUp ==
  ASSUME Events = {}, IInv, WarmupOK, AloneOK, KeepsUp, NEW t \in Tasks, ReadSources(t)
  PROVE  KeepsUp'
<1>1. /\ pc[t] = "read" /\ Still
      /\ UNCHANGED <<pc, job, warmup, scope, graph, graphMembers, sourcesOf, missed, buildFailed>>
  BY StepStill DEF ReadSources, Step
<1>2. /\ membersOf' = membersOf /\ active' = active /\ disposed' = disposed
      /\ RebuildQueued' = RebuildQueued
      /\ \A f \in Files : Source(f)' = Source(f) /\ Queued(f)' = Queued(f)
  BY <1>1, StillMeans
<1>3. CASE disposed \/ Rebuilding
  BY <1>1, <1>2, <1>3 DEF KeepsUp, Rebuilding, AttemptAhead, HeadRebuilds
<1>4. ASSUME NEW u \in Tasks, pc[u] = "read", ReadCurrent(u) PROVE KeepsUp'
  <2>1. u = t BY <1>1, <1>4, Alone
  <2>2. PICK m \in todo[t] :
          /\ snap' = [snap EXCEPT ![t] = [f \in Files |-> IF Owner[f] = m THEN Source(f) ELSE snap[t][f]]]
          /\ todo' = [todo EXCEPT ![t] = @ \ {m}]
    BY DEF ReadSources
  <2>3. todo \in [Tasks -> SUBSET Members] /\ snap \in [Tasks -> [Files -> Nat]]
    BY DEF IInv, TypeOK, LocalsOK
  <2>4. /\ todo'[t] = todo[t] \ {m}
        /\ \A f \in Files : snap'[t][f] = IF Owner[f] = m THEN Source(f) ELSE snap[t][f]
        /\ t # "head" => snap'["head"] = snap["head"]
    BY <2>2, <2>3, NamesFact
  <2>5. \A f \in Files : AtHead(f) => AtHead(f)'
    BY <1>1, <1>2, <2>4 DEF AtHead, Still
  <2>6. ASSUME NEW f \in Files, Owner[f] \in scope'[t] \ todo'[t]
        PROVE  snap'[t][f] = Source(f)' \/ Late(f)'
    BY <1>1, <1>2, <1>4, <2>1, <2>4, <2>5, <2>6 DEF ReadCurrent, Late
  <2>7. ASSUME NEW f \in Files, Owner[f] \notin scope'[t]
        PROVE  snap'[t][f] = Absent
    <3>1. m # Owner[f]
      BY <1>1, <1>4, <2>1, <2>2, <2>7 DEF ReadCurrent
    <3> QED BY <1>1, <1>4, <2>1, <2>4, <2>7, <3>1 DEF ReadCurrent
  <2>8. ReadCurrent(t)' BY <1>1, <1>2, <1>4, <2>1, <2>4, <2>6, <2>7 DEF ReadCurrent
  <2> QED BY <1>1, <2>8 DEF KeepsUp
<1> QED BY <1>1, <1>3, <1>4 DEF KeepsUp, Unread

(* ... and the graph built from it is as current as what was read. *)
LEMMA BuildKeepsUp ==
  ASSUME Events = {}, IInv, WarmupOK, AloneOK, KeepsUp, NEW t \in Tasks, Build(t)
  PROVE  KeepsUp'
<1>1. /\ pc[t] = "read" /\ todo[t] = {} /\ pc' = [pc EXCEPT ![t] = AfterRebuild(t)] /\ Still
      /\ UNCHANGED <<job, snap, warmup>>
  BY StepStill DEF Build, Step
<1>2. /\ membersOf' = membersOf /\ active' = active /\ disposed' = disposed
      /\ RebuildQueued' = RebuildQueued
      /\ \A f \in Files : Source(f)' = Source(f) /\ Queued(f)' = Queued(f)
  BY <1>1, StillMeans
<1>3. /\ pc'[t] \in {"idle", "settle"} /\ (t = "warm" => pc'[t] = "settle")
      /\ \A u \in Tasks \ {t} : pc'[u] = pc[u] /\ pc[u] \notin {"read", "settle"}
  <2>1. pc \in [Tasks -> Pcs] BY DEF IInv, TypeOK, TasksOK
  <2>2. t = "warm" => job[t].kind = "warm" BY NamesFact DEF IInv, PcOK
  <2> QED BY <1>1, <2>1, <2>2, Alone DEF AfterRebuild
<1>4. Unread' BY <1>3 DEF Unread
<1>5. pc'["head"] \notin {"check", "sources", "apply"}
  <2>1. t = "warm" => pc["head"] \notin Working BY <1>1, Exclusive
  <2> QED BY <1>3, <2>1, TwoTasks DEF Working
<1>6. CASE disposed BY <1>2, <1>6 DEF KeepsUp
<1>7. CASE Rebuilding
  <2>1. AttemptAhead => AttemptAhead' BY <1>1, <1>3, NamesFact DEF AttemptAhead
  <2>2. HeadRebuilds => HeadRebuilds' BY <1>1, <1>3, NamesFact DEF HeadRebuilds
  <2> QED BY <1>2, <1>7, <2>1, <2>2 DEF KeepsUp, Rebuilding
<1>8. ASSUME ~disposed, NEW u \in Tasks, pc[u] = "read", ReadCurrent(u) PROVE KeepsUp'
  <2>1. u = t BY <1>3, <1>8
  <2>2. CASE BuildThrows(t)
    <3>1. buildFailed' BY <1>8, <2>2 DEF Build
    <3> QED BY <1>4, <3>1 DEF KeepsUp
  <2>3. CASE ~BuildThrows(t)
    <3>1. graph' = snap[t] /\ sourcesOf' = snap[t] /\ graphMembers' = scope[t] BY <1>8, <2>3 DEF Build
    <3>2. \A f \in Files : AtHead(f) => AtHead(f)'
      BY <1>1, <1>2, <1>3, NamesFact DEF AtHead, Still
    <3>3. ASSUME NEW f \in Files PROVE Held(f)'
      BY <1>1, <1>2, <1>8, <2>1, <3>1, <3>2 DEF ReadCurrent, Late, Held
    <3>4. Loaded' BY <1>2, <1>5, <1>8, <2>1, <3>1, <3>3 DEF Loaded, ReadCurrent
    <3> QED BY <1>4, <3>4 DEF KeepsUp
  <2> QED BY <2>2, <2>3
<1> QED BY <1>1, <1>6, <1>7, <1>8 DEF KeepsUp, Unread

(* The attempt settles: the replacements that waited for it go on. *)
LEMMA SettleWarmupKeepsUp ==
  ASSUME Events = {}, IInv, WarmupOK, AloneOK, KeepsUp, SettleWarmup("warm") PROVE KeepsUp'
<1>1. /\ pc["warm"] = "settle" /\ WakeAwaiters(TRUE) /\ Still
      /\ UNCHANGED <<job, scope, todo, snap, graph, graphMembers, sourcesOf, missed, buildFailed>>
  BY StepStill, NamesFact DEF SettleWarmup, Step
<1>2. pc["head"] \notin Working /\ Unread
  BY <1>1, Exclusive, TwoTasks DEF Unread, Working
<1>3. /\ pc'["warm"] = "idle"
      /\ pc'["head"] = IF pc["head"] = "warm" THEN AfterWarm(job["head"].kind, TRUE) ELSE pc["head"]
  BY <1>1, NamesFact DEF WakeAwaiters
<1>4. HeadRebuilds => KeepsUp'
  <2>1. HeadRebuilds => pc["head"] = "warm" BY <1>2 DEF HeadRebuilds, Working
  <2>2. HeadRebuilds => job'["head"].kind \in Rebuilds /\ pc'["head"] \in {"invalidate", "assemble"}
    BY <1>1, <1>3, <2>1 DEF HeadRebuilds, Rebuilds, AfterWarm
  <2> QED BY <2>2, HeadKeepsUp
<1>5. CASE ~HeadRebuilds
  <2>1. \A t \in Tasks : pc'[t] # "read" BY <1>1, <1>2 DEF WakeAwaiters, AfterWarm, Unread
  <2>2. \A f \in Files : AtHead(f) => AtHead(f)'
    <3> SUFFICES ASSUME NEW f \in Files, AtHead(f) PROVE AtHead(f)'
      OBVIOUS
    <3>1. pc["head"] = "warm" BY <1>2 DEF AtHead, Working
    <3>2. job["head"].kind \in Replacing /\ job["head"].arg = f /\ job["head"].gen = replaceGen[f]
      BY <3>1 DEF AtHead
    <3>3. pc'["head"] = "owner" BY <1>3, <3>1, <3>2 DEF AfterWarm
    <3> QED BY <1>1, <3>2, <3>3 DEF AtHead, Still
  <2>3. pc'["head"] \notin {"check", "sources", "apply"}
    BY <1>2, <1>3 DEF AfterWarm, Working
  <2>4. ~AttemptAhead BY <1>1 DEF AttemptAhead
  <2> QED BY <1>1, <1>2, <1>5, <2>1, <2>2, <2>3, <2>4, QuietKeepsUp DEF Unread
<1> QED BY <1>4, <1>5

(* The steps of a rebuild before its assembly leave it to come. *)
LEMMA RebuildKeepsUp ==
  ASSUME Events = {}, IInv, WarmupOK, NEW t \in Tasks,
         Invalidate(t) \/ ReadStale(t) \/ ResolveBases(t) \/ Register(t) \/ DropStale(t)
  PROVE  KeepsUp'
<1>1. /\ pc \in [Tasks -> Pcs] /\ UNCHANGED <<job, warmup>>
      /\ pc[t] \in {"invalidate", "live", "refresh", "bases", "register"}
  BY DEF IInv, TypeOK, TasksOK, Invalidate, ReadStale, ResolveBases, Register, DropStale
<1>2. CASE t = "warm"
  <2>1. warmup # "ok" BY <1>1, <1>2 DEF WarmupOK
  <2>2. pc[t] \in {"bases", "register"} BY <1>1, <1>2, PcKind DEF IInv, PcOK
  <2>3. pc'[t] \in {"bases", "register"}
    BY <1>1, <1>2, <2>2 DEF Invalidate, ReadStale, ResolveBases, Register, DropStale
  <2> QED BY <1>1, <1>2, <2>1, <2>3, AttemptKeepsUp
<1>3. CASE t = "head"
  <2>1. job[t].kind # "warm" BY <1>3, NamesFact DEF IInv, PcOK
  <2>2. job[t].kind \in Rebuilds BY <1>1, <2>1, PcKind DEF Rebuilds
  <2>3. pc'[t] \in {"live", "assemble", "refresh", "register"}
    BY <1>1, <1>3, NamesFact DEF Invalidate, ReadStale, ResolveBases, Register, DropStale
  <2> QED BY <1>1, <1>3, <2>2, <2>3, HeadKeepsUp
<1> QED BY <1>2, <1>3, TwoTasks

(* A sweep, the end of a retry and the end of a switch concern no text. *)
LEMMA RestKeepsUp ==
  ASSUME Events = {}, IInv, KeepsUp, NEW t \in Tasks, Sweep(t) \/ ResolveRetry(t) \/ SettleSwitch(t)
  PROVE  KeepsUp'
<1>1. /\ Still /\ pc[t] \in {"sweep", "resolve", "settle"}
      /\ UNCHANGED <<job, warmup, scope, snap, graph, graphMembers, sourcesOf, missed, buildFailed>>
  BY StepStill DEF Sweep, ResolveRetry, SettleSwitch, Step
<1>2. t = "head"
  <2>1. t # "warm" BY <1>1, PcKind DEF IInv, PcOK, SettleSwitch, Sweep, ResolveRetry
  <2> QED BY <2>1, TwoTasks
<1>3. pc' = pc \/ pc' = [pc EXCEPT !["head"] = "idle"]
  BY <1>2 DEF Sweep, ResolveRetry, SettleSwitch
<1>4. /\ \A u \in Tasks \ {"head"} : pc'[u] = pc[u] /\ todo'[u] = todo[u]
      /\ pc'["head"] \in {pc["head"], "idle"}
  <2>1. pc \in [Tasks -> Pcs] /\ todo \in [Tasks -> SUBSET Members]
    BY DEF IInv, TypeOK, TasksOK, LocalsOK
  <2>2. todo' = todo \/ \E x : todo' = [todo EXCEPT !["head"] = x]
    BY <1>2 DEF Sweep, ResolveRetry, SettleSwitch
  <2> QED BY <1>3, <2>1, <2>2, NamesFact
<1>5. \A u \in Tasks : (pc'[u] = "read") <=> (pc[u] = "read") BY <1>1, <1>2, <1>4
<1>6. \A u \in Tasks : pc[u] = "read" => scope'[u] = scope[u] /\ todo'[u] = todo[u]
  BY <1>1, <1>2, <1>4
<1>7. AttemptAhead => AttemptAhead' BY <1>1, <1>4, NamesFact DEF AttemptAhead
<1>8. ~HeadRebuilds BY <1>1, <1>2 DEF HeadRebuilds
<1>9. \A f \in Files : ~AtHead(f) BY <1>1, <1>2 DEF AtHead
<1>10. pc'["head"] \notin {"check", "sources", "apply"} BY <1>1, <1>2, <1>4
<1> QED BY <1>1, <1>5, <1>6, <1>7, <1>8, <1>9, <1>10, QuietKeepsUp

(* A replacement that stops here has been superseded or is of a file no     *)
(* member of the active solution owns.                                      *)
LEMMA FindOwnerKeepsUp ==
  ASSUME Events = {}, IInv, WarmupOK, AloneOK, KeepsUp, FindOwner("head") PROVE KeepsUp'
<1> DEFINE f == job["head"].arg
<1> DEFINE stops == Superseded("head") \/ Owner[f] \notin Opened(active)
<1>1. /\ Still /\ pc["head"] = "owner"
      /\ pc' = [pc EXCEPT !["head"] = IF stops THEN "idle" ELSE "check"]
      /\ UNCHANGED <<job, warmup, scope, todo, snap, graph, graphMembers, sourcesOf, missed, buildFailed>>
  BY StepStill, NamesFact DEF FindOwner, Step
<1>2. Unread BY <1>1, HeadAlone DEF Working
<1>3. /\ pc'["head"] = IF stops THEN "idle" ELSE "check"
      /\ \A u \in Tasks \ {"head"} : pc'[u] = pc[u]
  <2>1. pc \in [Tasks -> Pcs] BY DEF IInv, TypeOK, TasksOK
  <2> HIDE DEF stops
  <2> QED BY <1>1, <2>1, NamesFact
<1>4. \A u \in Tasks : pc'[u] # "read" BY <1>2, <1>3 DEF Unread
<1>5. AttemptAhead => AttemptAhead' BY <1>1, <1>3, NamesFact DEF AttemptAhead
<1>6. ~HeadRebuilds BY <1>1 DEF HeadRebuilds
<1>7. ASSUME NEW g \in Files, Owner[g] \in Opened(active), AtHead(g) PROVE AtHead(g)'
  <2>1. g = f /\ job["head"].gen = replaceGen[f] /\ job["head"].kind \in Replacing
    BY <1>1, <1>7 DEF AtHead
  <2>2. ~stops BY <1>7, <2>1 DEF Superseded
  <2>3. pc'["head"] = "check" BY <1>3, <2>2
  <2> QED BY <1>1, <2>1, <2>3 DEF AtHead, Still
<1>8. pc'["head"] # "apply" /\ (pc'["head"] = "check" => Owner[job'["head"].arg] \in Opened(active))
      /\ pc'["head"] # "sources"
  BY <1>1, <1>3
<1> QED BY <1>1, <1>2, <1>4, <1>5, <1>6, <1>7, <1>8, QuietKeepsUp DEF Unread

(* A file not yet loaded goes round again, for its whole member. *)
LEMMA CheckLoadedKeepsUp ==
  ASSUME Events = {}, IInv, WarmupOK, AloneOK, KeepsUp, CheckLoaded("head") PROVE KeepsUp'
<1> DEFINE f == job["head"].arg
<1> DEFINE again == [job["head"] EXCEPT !.kind = "replaceMember"]
<1>1. /\ Still /\ pc["head"] = "check"
      /\ UNCHANGED <<snap, graph, graphMembers, sourcesOf, missed, buildFailed>>
  BY StepStill, NamesFact DEF CheckLoaded, Step
<1>2. Unread /\ pc["warm"] = "idle" /\ warmup # "running" BY <1>1, HeadAlone DEF Working
<1>3. pc \in [Tasks -> Pcs] /\ job \in [Tasks -> Job] BY DEF IInv, TypeOK, TasksOK
<1>4. job["head"].kind \in Replacing BY <1>1, PcKind, NamesFact
<1>5. ~HeadRebuilds BY <1>1 DEF HeadRebuilds
<1>6. CASE disposed BY <1>1, <1>6 DEF Still, KeepsUp
<1>7. CASE MaintenanceWarmed("head", again) /\ ~(warmup = "ok")
  <2>1. CASE warmupFailed /\ ~throttled
    <3>1. warmup' = "running" /\ pc' = [pc EXCEPT !["head"] = "warm", !["warm"] = "bases"]
      BY <1>7, <2>1 DEF MaintenanceWarmed, StartWarmup
    <3>2. pc'["warm"] = "bases" BY <1>3, <3>1, NamesFact
    <3> QED BY <3>1, <3>2, AttemptKeepsUp
  <2>2. CASE ~(warmupFailed /\ ~throttled)
    <3>1. warmup' = warmup /\ \E to : pc' = [pc EXCEPT !["head"] = to]
      BY <1>7, <2>2 DEF MaintenanceWarmed
    <3>2. pc'["warm"] = "idle" BY <1>2, <1>3, <3>1, NamesFact
    <3> QED BY <1>7, <3>1, <3>2, AttemptKeepsUp
  <2> QED BY <2>1, <2>2
<1>8. ASSUME NEW to \in {"owner", "sources", "idle"}, pc' = [pc EXCEPT !["head"] = to],
             UNCHANGED <<warmup, scope, todo>>,
             job'["head"].kind \in Replacing, job'["head"].arg = f, job'["head"].gen = job["head"].gen,
             Loaded => to # "idle"
      PROVE  KeepsUp'
  <2>1. pc'["head"] = to /\ \A u \in Tasks \ {"head"} : pc'[u] = pc[u] BY <1>3, <1>8, NamesFact
  <2>2. \A u \in Tasks : pc'[u] # "read" BY <1>2, <2>1 DEF Unread
  <2>3. AttemptAhead => AttemptAhead' BY <1>8, <2>1, NamesFact DEF AttemptAhead
  <2>4. CASE Loaded
    <3>1. \A g \in Files : AtHead(g) => AtHead(g)' BY <1>1, <1>8, <2>1, <2>4 DEF AtHead, Still
    <3>2. Owner[job'["head"].arg] \in Opened(active) BY <1>1, <1>8, <2>4 DEF Loaded
    <3> QED BY <1>1, <1>2, <1>5, <1>8, <2>1, <2>2, <2>3, <3>1, <3>2, QuietKeepsUp DEF Unread
  <2>5. CASE ~Loaded
    <3>1. RebuildQueued' = RebuildQueued /\ disposed' = disposed BY <1>1, StillMeans
    <3>2. disposed \/ Rebuilding \/ buildFailed BY <1>2, <2>5 DEF KeepsUp, Unread
    <3>3. Unread' BY <2>2 DEF Unread
    <3> QED BY <1>1, <1>5, <2>3, <3>1, <3>2, <3>3 DEF KeepsUp, Rebuilding
  <2> QED BY <2>4, <2>5
<1>9. CASE ~disposed /\ Has(Owner[f]) /\ job["head"].kind = "replace" /\ ~HasFile(f)
  <2>1. MaintenanceWarmed("head", again) BY <1>9 DEF CheckLoaded
  <2>2. CASE warmup = "ok"
    <3>1. ~warmupFailed BY <2>2 DEF WarmupOK
    <3>2. again.kind = "replaceMember" /\ again.arg = f /\ again.gen = job["head"].gen
      BY <1>3, NamesFact DEF Job
    <3>3. AfterWarm("replaceMember", TRUE) = "owner" BY DEF AfterWarm
    <3>4. /\ pc' = [pc EXCEPT !["head"] = "owner"] /\ UNCHANGED <<warmup, scope, todo>>
          /\ job' = [job EXCEPT !["head"] = again]
      BY <2>1, <2>2, <3>1, <3>2, <3>3 DEF MaintenanceWarmed
    <3>5. job'["head"] = again BY <1>3, <3>4, NamesFact
    <3> HIDE DEF again
    <3> QED BY <1>8, <3>2, <3>4, <3>5
  <2> QED BY <1>7, <2>1, <2>2
<1>10. CASE ~disposed /\ ~(Has(Owner[f]) /\ job["head"].kind = "replace" /\ ~HasFile(f))
  <2> DEFINE to == IF ~Has(Owner[f]) \/ (job["head"].kind = "replace" /\ ~HasFile(f))
                   THEN "idle" ELSE "sources"
  <2>1. pc' = [pc EXCEPT !["head"] = to] /\ UNCHANGED <<job, warmup, scope, todo>>
    BY <1>10 DEF CheckLoaded
  <2>2. Loaded => Has(Owner[f]) BY <1>1 DEF Loaded, Has
  <2>3. Loaded => to # "idle" BY <1>10, <2>2
  <2> QED BY <1>4, <1>8, <2>1, <2>3
<1> QED BY <1>6, <1>9, <1>10

(* The replacement reads the present text of the whole member. *)
LEMMA OwnerSourcesKeepsUp ==
  ASSUME Events = {}, IInv, WarmupOK, AloneOK, KeepsUp, ReadOwnerSources("head") PROVE KeepsUp'
<1>1. /\ Still /\ pc["head"] = "sources" /\ pc' = [pc EXCEPT !["head"] = "apply"]
      /\ snap' = [snap EXCEPT !["head"] =
                    [f \in Files |-> IF Owner[f] = Owner[job["head"].arg] THEN Source(f) ELSE Absent]]
      /\ UNCHANGED <<job, warmup, graph, graphMembers, sourcesOf, missed, buildFailed>>
  BY StepStill, NamesFact DEF ReadOwnerSources, Step
<1>2. Unread BY <1>1, HeadAlone DEF Working
<1>3. /\ membersOf' = membersOf /\ active' = active /\ disposed' = disposed
      /\ RebuildQueued' = RebuildQueued
      /\ \A f \in Files : Source(f)' = Source(f) /\ Queued(f)' = Queued(f)
  BY <1>1, StillMeans
<1>4. /\ pc'["head"] = "apply" /\ \A u \in Tasks \ {"head"} : pc'[u] = pc[u]
      /\ \A f \in Files : Owner[f] = Owner[job["head"].arg] => snap'["head"][f] = Source(f)
  <2>1. pc \in [Tasks -> Pcs] /\ snap \in [Tasks -> [Files -> Nat]]
    BY DEF IInv, TypeOK, TasksOK, LocalsOK
  <2> QED BY <1>1, <2>1, NamesFact
<1>5. Unread' BY <1>2, <1>4 DEF Unread
<1>6. Rebuilding => Rebuilding'
  <2>1. ~HeadRebuilds BY <1>1 DEF HeadRebuilds
  <2>2. AttemptAhead => AttemptAhead' BY <1>1, <1>4, NamesFact DEF AttemptAhead
  <2> QED BY <1>3, <2>1, <2>2 DEF Rebuilding
<1>7. Loaded => Loaded'
  <2> SUFFICES ASSUME Loaded PROVE Loaded'
    OBVIOUS
  <2>1. \A f \in Files : AtHead(f) => AtHead(f)' BY <1>1, <1>3, <1>4 DEF AtHead
  <2>2. \A f \in Files : Late(f) => Late(f)' BY <1>3, <2>1 DEF Late
  <2>3. ASSUME NEW f \in Files PROVE Held(f)'
    BY <1>1, <1>3, <2>2 DEF Loaded, Held
  <2>4. graphMembers' = Opened(active)' /\ Owner[job'["head"].arg] \in Opened(active)'
    BY <1>1, <1>3 DEF Loaded
  <2> QED BY <1>1, <1>3, <1>4, <2>3, <2>4 DEF Loaded
<1> QED BY <1>1, <1>2, <1>3, <1>5, <1>6, <1>7 DEF KeepsUp, Unread

(* What is written is the text read, or text a replacement is to follow. *)
LEMMA ReplaceKeepsUp ==
  ASSUME Events = {}, IInv, WarmupOK, AloneOK, KnownOK, KeepsUp,
         ReplaceFile("head") \/ ReplaceMember("head")
  PROVE  KeepsUp'
<1> DEFINE f == job["head"].arg
<1>1. /\ Still /\ pc["head"] = "apply" /\ pc' = [pc EXCEPT !["head"] = "idle"]
      /\ UNCHANGED <<job, warmup, graphMembers, snap>>
  BY StepStill, NamesFact DEF ReplaceFile, ReplaceMember, Step
<1>2. Unread BY <1>1, HeadAlone DEF Working
<1>3. /\ membersOf' = membersOf /\ active' = active /\ disposed' = disposed
      /\ RebuildQueued' = RebuildQueued
      /\ \A g \in Files : Source(g)' = Source(g) /\ Queued(g)' = Queued(g)
  BY <1>1, StillMeans
<1>4. pc'["head"] = "idle" /\ \A u \in Tasks \ {"head"} : pc'[u] = pc[u]
  <2>1. pc \in [Tasks -> Pcs] BY DEF IInv, TypeOK, TasksOK
  <2> QED BY <1>1, <2>1, NamesFact
<1>5. Unread' BY <1>2, <1>4 DEF Unread
<1>6. f \in Files
  <2>1. job["head"] \in Job /\ job["head"].kind \in Replacing
    BY <1>1, PcKind, NamesFact DEF IInv, TypeOK, TasksOK
  <2> QED BY <2>1 DEF Job
<1>7. CASE disposed BY <1>3, <1>7 DEF KeepsUp
<1>8. CASE Rebuilding
  <2>1. ~HeadRebuilds BY <1>1 DEF HeadRebuilds
  <2>2. AttemptAhead => AttemptAhead' BY <1>1, <1>4, NamesFact DEF AttemptAhead
  <2> QED BY <1>3, <1>8, <2>1, <2>2 DEF KeepsUp, Rebuilding
<1>9. CASE ~disposed /\ buildFailed
  <2>1. buildFailed' BY <1>9, RevisionFlags, NamesFact
  <2> QED BY <1>5, <2>1 DEF KeepsUp
<1>10. CASE ~disposed /\ Loaded
  <2> DEFINE text == RecordSources("head")
  <2>1. Owner[f] \in Opened(active) /\ Has(Owner[f]) BY <1>1, <1>10 DEF Loaded, Has
  <2>2. ASSUME NEW g \in Files, g # f PROVE Late(g) => Queued(g) BY <2>2 DEF Late, AtHead
  <2>3. \A g \in Files : Held(g) BY <1>10 DEF Loaded
  <2>4. ASSUME NEW g \in Files, Owner[g] = Owner[f] PROVE text[g] = Source(g) \/ Queued(g)
    BY <1>1, <1>10, <2>4 DEF Loaded, RecordSources
  <2>5. \A g \in Files : Owner[g] # Owner[f] => text[g] = sourcesOf[g] BY DEF RecordSources
  <2>6. ASSUME \A g \in Files : Held(g)' PROVE KeepsUp'
    <3>1. graphMembers' = Opened(active)' BY <1>1, <1>3, <1>10 DEF Loaded
    <3>2. Loaded' BY <1>4, <2>6, <3>1 DEF Loaded
    <3> QED BY <1>5, <3>2 DEF KeepsUp
  <2> HIDE DEF text
  <2>7. ASSUME NEW files \in SUBSET Reach("head"), f \in files, ReloadWith("head", files) PROVE KeepsUp'
    <3>1. /\ graph' = [g \in Files |-> IF g \in files THEN text[g] ELSE graph[g]] /\ sourcesOf' = text
          /\ missed' = missed \ (files \cap FilesOf(Owner[f]))
      BY <2>7 DEF ReloadWith, Reloaded, text
    <3>2. ASSUME NEW g \in Files PROVE Held(g)'
      <4>1. CASE Owner[g] = Owner[f] /\ g \in files
        BY <1>3, <2>1, <2>4, <3>1, <4>1 DEF Held, Late
      <4>2. CASE Owner[g] = Owner[f] /\ g \notin files
        <5>1. g # f /\ graph'[g] = graph[g] /\ sourcesOf'[g] = text[g] /\ (g \in missed => g \in missed')
          BY <2>7, <3>1, <4>2
        <5> QED BY <1>3, <2>1, <2>2, <2>3, <2>4, <4>2, <5>1 DEF Held, Late
      <4>3. CASE Owner[g] # Owner[f]
        <5>1. g # f /\ graph'[g] \in {graph[g], sourcesOf[g]} /\ sourcesOf'[g] = sourcesOf[g]
              /\ (g \in missed => g \in missed')
          BY <2>5, <3>1, <4>3 DEF FilesOf
        <5> QED BY <1>3, <2>2, <2>3, <5>1 DEF Held, Late
      <4> QED BY <4>1, <4>2, <4>3
    <3> QED BY <2>6, <3>2
  <2>8. ASSUME RebuildOrRestore("head") PROVE KeepsUp'
    <3>1. \/ graph' = text /\ sourcesOf' = text /\ missed' = missed \ FilesOf(Owner[f])
          \/ graph' = sourcesOf /\ sourcesOf' = sourcesOf /\ missed' = missed \cup {f}
      BY <2>8 DEF RebuildOrRestore, text
    <3>2. ASSUME NEW g \in Files PROVE Held(g)'
      <4>1. CASE graph' = sourcesOf /\ sourcesOf' = sourcesOf /\ missed' = missed \cup {f}
        <5>1. CASE g = f BY <1>3, <2>1, <4>1, <5>1 DEF Held
        <5>2. CASE g # f BY <1>3, <2>2, <2>3, <4>1, <5>2 DEF Held, Late
        <5> QED BY <5>1, <5>2
      <4>2. CASE graph' = text /\ sourcesOf' = text /\ missed' = missed \ FilesOf(Owner[f])
        <5>1. CASE Owner[g] = Owner[f] BY <1>3, <2>1, <2>4, <4>2, <5>1 DEF Held, Late
        <5>2. CASE Owner[g] # Owner[f]
          <6>1. g # f /\ graph'[g] = sourcesOf[g] /\ sourcesOf'[g] = sourcesOf[g]
                /\ (g \in missed => g \in missed')
            BY <2>5, <4>2, <5>2 DEF FilesOf
          <6> QED BY <1>3, <2>2, <2>3, <6>1 DEF Held, Late
        <5> QED BY <5>1, <5>2
      <4> QED BY <3>1, <4>1, <4>2
    <3> QED BY <2>6, <3>2
  <2>9. ASSUME NEW files \in SUBSET Reach("head"), RepairFails("head", files) PROVE KeepsUp'
    <3>1. PICK lost \in SUBSET files :
            /\ graph' = [g \in Files |-> IF g \in lost THEN Absent
                                         ELSE Reloaded(RecordSources("head"), files)[g]]
            /\ missed' = missed \cup lost \cup {f} /\ sourcesOf' = sourcesOf
      BY <2>9 DEF RepairFails
    <3>2. \A g \in Files \ lost : graph'[g] \in {graph[g], text[g]} BY <3>1 DEF Reloaded, text
    <3>3. lost \subseteq Reach("head") BY <3>1
    <3>4. ASSUME NEW g \in Files, g \notin lost PROVE Held(g)'
      <4>1. CASE g = f BY <1>3, <2>1, <3>1, <4>1 DEF Held
      <4>2. CASE g # f
        <5>1. \/ graph'[g] \in {graph[g], sourcesOf[g]}
              \/ Owner[g] = Owner[f] /\ graph'[g] = text[g]
          BY <2>5, <3>2, <3>4
        <5> QED BY <1>3, <2>1, <2>2, <2>3, <2>4, <3>1, <4>2, <5>1 DEF Held, Late
      <4> QED BY <4>1, <4>2
    <3>5. ASSUME NEW g \in lost, g \in Files PROVE Held(g)'
      <4>1. g \in missed' /\ graph'[g] = Absent /\ sourcesOf'[g] = sourcesOf[g] BY <3>1, <3>5
      <4> QED BY <1>3, <2>3, <3>5, <4>1 DEF Held
    <3> QED BY <2>6, <3>4, <3>5
  <2> QED BY <1>1, <1>10, <2>1, <2>7, <2>8, <2>9, Revision, NamesFact DEF KnownOK, ReplaceFile, ReplaceMember
<1> QED BY <1>2, <1>7, <1>8, <1>9, <1>10 DEF KeepsUp, Unread

LEMMA StepKeepsUp ==
  ASSUME Events = {}, MaxReadFailures = 0, IInv, ActiveInv, KnownOK, KeepsUp, NEW t \in Tasks, Step(t)
  PROVE  KeepsUp'
<1>1. WarmupOK /\ AloneOK BY DEF ActiveInv
<1>2. CASE WarmupRejects(t)
  <2>1. warmup' = "rejected" /\ pc'["warm"] = "idle" BY <1>2, NamesFact DEF WarmupRejects, WakeAwaiters
  <2> QED BY <2>1, AttemptKeepsUp
<1>3. CASE SettleWarmup(t) BY <1>1, <1>3, SettleWarmupKeepsUp DEF SettleWarmup
<1>4. CASE RefreshFails(t) \/ AssembleFails(t) \/ ReadOwnerSourcesFails(t)
  BY <1>4, NoReadFails DEF RefreshFails, AssembleFails, ReadOwnerSourcesFails
<1>5. CASE FindOwner(t) \/ CheckLoaded(t) \/ ReadOwnerSources(t) \/ ReplaceFile(t) \/ ReplaceMember(t)
  <2>1. pc[t] \in {"owner", "check", "sources", "apply"}
    BY <1>5 DEF FindOwner, CheckLoaded, ReadOwnerSources, ReplaceFile, ReplaceMember
  <2>2. t = "head" BY <2>1, PcKind, TwoTasks DEF IInv, PcOK
  <2> QED BY <1>1, <1>5, <2>2, FindOwnerKeepsUp, CheckLoadedKeepsUp, OwnerSourcesKeepsUp, ReplaceKeepsUp
<1>6. CASE Invalidate(t) \/ ReadStale(t) \/ ResolveBases(t) \/ Register(t) \/ DropStale(t)
  BY <1>1, <1>6, RebuildKeepsUp
<1>7. CASE Sweep(t) \/ ResolveRetry(t) \/ SettleSwitch(t) BY <1>7, RestKeepsUp
<1>8. CASE Assemble(t) BY <1>8, AssembleKeepsUp
<1>9. CASE ReadSources(t) BY <1>1, <1>9, ReadKeepsUp
<1>10. CASE Build(t) BY <1>1, <1>10, BuildKeepsUp
<1> QED BY <1>2, <1>3, <1>4, <1>5, <1>6, <1>7, <1>8, <1>9, <1>10 DEF Step

(* A job that rebuilds nothing leaves the queue for the head. *)
LEMMA TakeKeepsUp ==
  ASSUME IInv, KeepsUp, queue # <<>>, queue' = Tail(queue), pc["head"] = "idle",
         Head(queue).kind \notin Rebuilds,
         NEW to \in {"sweep", "resolve", "warm", "owner"}, pc' = [pc EXCEPT !["head"] = to],
         Head(queue).kind = "replace" => to \in {"warm", "owner"},
         job' = [job EXCEPT !["head"] = Head(queue)],
         todo' = todo \/ \E x : todo' = [todo EXCEPT !["head"] = x],
         UNCHANGED <<world, disposed, warmup, scope, snap, graph, graphMembers, sourcesOf, missed, buildFailed, replaceGen>>
  PROVE  KeepsUp'
<1>1. /\ pc \in [Tasks -> Pcs] /\ job \in [Tasks -> Job] /\ queue \in Seq(Job)
      /\ todo \in [Tasks -> SUBSET Members]
  BY DEF IInv, TypeOK, TasksOK, LocalsOK
<1>2. /\ pc'["head"] = to /\ job'["head"] = Head(queue)
      /\ \A u \in Tasks \ {"head"} : pc'[u] = pc[u] /\ todo'[u] = todo[u]
  BY <1>1, NamesFact
<1>3. \A i \in DOMAIN queue : queue[i] = Head(queue) \/ \E k \in DOMAIN queue' : queue'[k] = queue[i]
  <2> SUFFICES ASSUME NEW i \in DOMAIN queue, i # 1 PROVE \E k \in DOMAIN queue' : queue'[k] = queue[i]
    BY <1>1
  <2>1. i \in Nat /\ i > 1 /\ i <= Len(queue) BY <1>1
  <2>2. i - 1 \in DOMAIN queue' /\ queue'[i - 1] = queue[i] BY <1>1, <2>1
  <2> QED BY <2>2
<1>4. RebuildQueued => RebuildQueued' BY <1>3 DEF RebuildQueued
<1>5. AttemptAhead => AttemptAhead' BY <1>2, NamesFact DEF AttemptAhead
<1>6. ~HeadRebuilds /\ \A f \in Files : ~AtHead(f) BY DEF HeadRebuilds, AtHead
<1>7. \A f \in Files : Source(f)' = Source(f) BY DEF Source
<1>8. ASSUME NEW f \in Files, Late(f) PROVE Late(f)'
  <2>1. PICK i \in DOMAIN queue :
          queue[i].kind = "replace" /\ queue[i].arg = f /\ queue[i].gen = replaceGen[f]
    BY <1>6, <1>8 DEF Late, Queued
  <2>2. CASE queue[i] = Head(queue)
    <3>1. AtHead(f)' BY <1>2, <2>1, <2>2 DEF AtHead
    <3> QED BY <3>1 DEF Late
  <2>3. CASE \E k \in DOMAIN queue' : queue'[k] = queue[i]
    <3>1. Queued(f)' BY <2>1, <2>3 DEF Queued
    <3> QED BY <3>1 DEF Late
  <2> QED BY <1>3, <2>2, <2>3
<1>9. ASSUME NEW t \in Tasks, pc[t] = "read", ReadCurrent(t) PROVE pc'[t] = "read" /\ ReadCurrent(t)'
  <2>1. pc'[t] = "read" /\ todo'[t] = todo[t] BY <1>2, <1>9
  <2> QED BY <1>7, <1>8, <1>9, <2>1 DEF ReadCurrent
<1>10. Unread => Unread' BY <1>2 DEF Unread
<1>11. Loaded => Loaded'
  <2> SUFFICES ASSUME Loaded PROVE Loaded'
    OBVIOUS
  <2>1. ASSUME NEW f \in Files PROVE Held(f)'
    BY <1>7, <1>8 DEF Loaded, Held
  <2>2. graphMembers' = Opened(active)' BY DEF Loaded
  <2> QED BY <1>2, <2>1, <2>2 DEF Loaded
<1> QED BY <1>4, <1>5, <1>6, <1>9, <1>10, <1>11 DEF KeepsUp, Rebuilding

(* Maintenance that waits for the warmup, goes on, or is dropped with it. *)
LEMMA TakeMaintenance ==
  ASSUME IInv, WarmupOK, KeepsUp, Dequeue, ~disposed, Head(queue).kind \in Invalidating \cup {"replace"}
  PROVE  KeepsUp'
<1> DEFINE j == Head(queue)
<1>1. /\ MaintenanceWarmed("head", j) /\ queue # <<>> /\ queue' = Tail(queue) /\ pc["head"] = "idle"
      /\ UNCHANGED <<world, disposed, snap, shared, replaceGen>>
  BY DEF Dequeue
<1>2. pc \in [Tasks -> Pcs] /\ job \in [Tasks -> Job] BY DEF IInv, TypeOK, TasksOK
<1>3. CASE warmupFailed /\ ~throttled
  <2>1. warmup' = "running" /\ pc' = [pc EXCEPT !["head"] = "warm", !["warm"] = "bases"]
    BY <1>1, <1>3 DEF MaintenanceWarmed, StartWarmup
  <2>2. pc'["warm"] = "bases" BY <1>2, <2>1, NamesFact
  <2> QED BY <2>1, <2>2, AttemptKeepsUp
<1>4. CASE ~(warmupFailed /\ ~throttled)
  <2> DEFINE to == IF warmup = "running" THEN "warm" ELSE AfterWarm(j.kind, warmup = "ok")
  <2>1. /\ job' = [job EXCEPT !["head"] = j] /\ pc' = [pc EXCEPT !["head"] = to]
        /\ UNCHANGED <<warmup, todo, scope>>
    BY <1>1, <1>4 DEF MaintenanceWarmed
  <2>2. job'["head"] = j /\ pc'["head"] = to /\ pc'["warm"] = pc["warm"]
    <3> HIDE DEF to, j
    <3> QED BY <1>2, <2>1, NamesFact
  <2>3. CASE warmup = "rejected"
    <3>1. pc["warm"] = "idle" BY <2>3 DEF WarmupOK
    <3> QED BY <2>1, <2>2, <2>3, <3>1, AttemptKeepsUp
  <2>4. CASE warmup # "rejected" /\ j.kind \in Invalidating
    <3>1. to \in {"warm", "invalidate"} BY <2>4 DEF AfterWarm, IInv, TypeOK, WarmingOK
    <3> QED BY <2>2, <2>4, <3>1, HeadKeepsUp DEF Rebuilds
  <2>5. CASE warmup # "rejected" /\ j.kind = "replace"
    <3>1. to \in {"warm", "owner"} BY <2>5 DEF AfterWarm, IInv, TypeOK, WarmingOK
    <3>2. j.kind \notin Rebuilds BY <2>5 DEF Rebuilds
    <3> HIDE DEF to
    <3> QED BY <1>1, <2>1, <3>1, <3>2, TakeKeepsUp
  <2> QED BY <2>3, <2>4, <2>5
<1> QED BY <1>3, <1>4

LEMMA DequeueKeepsUp == ASSUME IInv, WarmupOK, KeepsUp, Dequeue PROVE KeepsUp'
<1> DEFINE j == Head(queue)
<1>1. /\ queue # <<>> /\ queue' = Tail(queue) /\ pc["head"] = "idle"
      /\ UNCHANGED <<world, disposed, snap, shared, replaceGen>>
      /\ pc \in [Tasks -> Pcs] /\ job \in [Tasks -> Job]
  BY DEF Dequeue, IInv, TypeOK, TasksOK
<1>2. CASE disposed BY <1>1, <1>2 DEF KeepsUp
<1>3. CASE j.kind = "switch"
  <2>1. /\ job' = [job EXCEPT !["head"] = j]
        /\ pc' = [pc EXCEPT !["head"] = IF warmup = "running" THEN "warm" ELSE "assemble"]
    BY <1>3 DEF Dequeue
  <2>2. job'["head"] = j /\ pc'["head"] \in {"warm", "assemble"} BY <1>1, <2>1, NamesFact
  <2> QED BY <1>3, <2>2, HeadKeepsUp DEF Rebuilds
<1>4. CASE j.kind = "start" \/ (j.kind = "retry" /\ ~(warmupFailed /\ ~disposed))
  <2>1. /\ job' = [job EXCEPT !["head"] = j] /\ UNCHANGED <<warmup, scope>>
        /\ \E to \in {"sweep", "resolve"} : pc' = [pc EXCEPT !["head"] = to]
        /\ todo' = todo \/ \E x : todo' = [todo EXCEPT !["head"] = x]
    BY <1>4 DEF Dequeue
  <2>2. j.kind \notin Rebuilds /\ j.kind # "replace" BY <1>4 DEF Rebuilds
  <2> QED BY <1>1, <2>1, <2>2, TakeKeepsUp
<1>5. CASE j.kind = "retry" /\ warmupFailed /\ ~disposed
  <2>1. warmup' = "running" /\ pc' = [pc EXCEPT !["head"] = "warm", !["warm"] = "bases"]
    BY <1>5 DEF Dequeue, StartWarmup
  <2>2. pc'["warm"] = "bases" BY <1>1, <2>1, NamesFact
  <2> QED BY <2>1, <2>2, AttemptKeepsUp
<1>6. CASE ~disposed /\ j.kind \in Invalidating \cup {"replace"} BY <1>6, TakeMaintenance
<1>7. j.kind \in {"switch", "start", "retry"} \cup Invalidating \cup {"replace"} BY DEF Dequeue
<1> QED BY <1>2, <1>3, <1>4, <1>5, <1>6, <1>7

(* A longer queue, and a keystroke whose replacement is on it. *)
LEMMA GrowKeepsUp ==
  ASSUME IInv, KeepsUp, disposed => disposed',
         UNCHANGED <<active, membersOf, disk, pc, job, warmup, scope, todo, snap, graph, graphMembers,
                     sourcesOf, missed, buildFailed>>,
         \A i \in DOMAIN queue : i \in DOMAIN queue' /\ queue'[i] = queue[i],
         \A f \in Files : \/ live'[f] = live[f] /\ replaceGen'[f] = replaceGen[f]
                          \/ Owner[f] \in Opened(active) => Queued(f)'
  PROVE  KeepsUp'
<1>1. RebuildQueued => RebuildQueued' BY DEF RebuildQueued
<1>2. Rebuilding => Rebuilding' BY <1>1 DEF Rebuilding, AttemptAhead, HeadRebuilds
<1>3. ASSUME NEW f \in Files, Owner[f] \in Opened(active)
      PROVE  Queued(f)' \/ (Source(f)' = Source(f) /\ (Queued(f) => Queued(f)') /\ (AtHead(f) => AtHead(f)'))
  <2>1. CASE live'[f] = live[f] /\ replaceGen'[f] = replaceGen[f]
    <3>1. Source(f)' = Source(f) BY <2>1 DEF Source
    <3>2. Queued(f) => Queued(f)' BY <2>1 DEF Queued
    <3>3. AtHead(f) => AtHead(f)' BY <2>1, <3>1 DEF AtHead
    <3> QED BY <3>1, <3>2, <3>3
  <2> QED BY <1>3, <2>1
<1>4. ASSUME NEW t \in Tasks, pc[t] = "read", ReadCurrent(t) PROVE ReadCurrent(t)'
  <2>1. ASSUME NEW f \in Files, Owner[f] \in scope[t] \ todo[t] PROVE snap[t][f] = Source(f)' \/ Late(f)'
    BY <1>3, <1>4, <2>1 DEF ReadCurrent, Late
  <2> QED BY <1>4, <2>1 DEF ReadCurrent
<1>5. Loaded => Loaded'
  <2> SUFFICES ASSUME Loaded PROVE Loaded'
    OBVIOUS
  <2>1. ASSUME NEW f \in Files PROVE Held(f)'
    BY <1>3 DEF Loaded, Held, Late
  <2>2. graphMembers' = Opened(active)' BY DEF Loaded
  <2>3. pc'["head"] \in {"check", "sources", "apply"} => Owner[job'["head"].arg] \in Opened(active)'
    BY DEF Loaded
  <2>4. ASSUME pc'["head"] = "apply", NEW f \in Files, Owner[f] = Owner[job'["head"].arg]
        PROVE  snap'["head"][f] = Source(f)' \/ Queued(f)'
    <3>1. Owner[f] \in Opened(active) BY <2>3, <2>4
    <3> QED BY <1>3, <2>4, <3>1 DEF Loaded
  <2> QED BY <2>1, <2>2, <2>3, <2>4 DEF Loaded
<1> QED BY <1>2, <1>4, <1>5 DEF KeepsUp, Unread

(* A change of the members queues the rebuild it calls for. *)
LEMMA QueuedKeepsUp ==
  ASSUME IInv, NEW x \in Job, x.kind \in Rebuilds, NEW q \in Seq(Job), queue' = Append(q, x)
  PROVE  KeepsUp'
<1>1. Len(q) + 1 \in DOMAIN queue' /\ queue'[Len(q) + 1] = x OBVIOUS
<1> QED BY <1>1 DEF KeepsUp, Rebuilding, RebuildQueued

LEMMA EnvironmentKeepsUp ==
  ASSUME Events = {}, MaxDisk = 0, IInv, KeepsUp, Environment PROVE KeepsUp'
<1>1. queue \in Seq(Job) BY DEF IInv, TypeOK, TasksOK
<1>2. \A x \in Job : LET q == Append(queue, x) IN
        /\ \A i \in DOMAIN queue : i \in DOMAIN q /\ q[i] = queue[i]
        /\ Len(queue) + 1 \in DOMAIN q /\ q[Len(queue) + 1] = x
  BY <1>1
<1>3. CASE TimePasses \/ Dispose \/ \E m \in Members : CompileMember(m)
  BY <1>3, GrowKeepsUp DEF TimePasses, Dispose, CompileMember
<1>4. ASSUME NEW f \in Files, DiskChange(f) PROVE FALSE
  BY <1>4 DEF DiskChange, IInv, TypeOK, WorldOK
<1>5. ASSUME NEW r \in Readers, Request(r) PROVE KeepsUp'
  <2>1. queue' = queue \/ queue' = Append(queue, Plain("retry", NoSolution)) BY <1>5 DEF Request
  <2>2. Plain("retry", NoSolution) \in Job BY DEF Job
  <2>3. \A i \in DOMAIN queue : i \in DOMAIN queue' /\ queue'[i] = queue[i] BY <1>2, <2>1, <2>2
  <2> QED BY <1>5, <2>3, GrowKeepsUp DEF Request
<1>6. ASSUME NEW f \in Files, DidChange(f) PROVE KeepsUp'
  <2> DEFINE x == [kind |-> "replace", arg |-> f, gen |-> replaceGen'[f]]
  <2>1. /\ live \in [Files -> Nat] /\ replaceGen \in [Files -> Nat]
        /\ live' = [live EXCEPT ![f] = @ + 1]
    BY <1>6 DEF DidChange, IInv, TypeOK, WorldOK, CachesOK
  <2>2. CASE Owner[f] \in Opened(active)
    <3>1. replaceGen' = [replaceGen EXCEPT ![f] = @ + 1] /\ queue' = Append(queue, x)
      BY <1>6, <2>2 DEF DidChange
    <3>2. x \in Job
      <4>1. replaceGen'[f] \in Nat BY <2>1, <3>1
      <4> QED BY <4>1 DEF Job
    <3>3. Queued(f)'
      <4>1. x.kind = "replace" /\ x.arg = f /\ x.gen = replaceGen'[f] OBVIOUS
      <4> HIDE DEF x
      <4> QED BY <1>2, <3>1, <3>2, <4>1 DEF Queued
    <3>4. \A g \in Files \ {f} : live'[g] = live[g] /\ replaceGen'[g] = replaceGen[g]
      BY <2>1, <3>1
    <3>5. \A i \in DOMAIN queue : i \in DOMAIN queue' /\ queue'[i] = queue[i] BY <1>2, <3>1, <3>2
    <3> QED BY <1>6, <3>3, <3>4, <3>5, GrowKeepsUp DEF DidChange
  <2>3. CASE Owner[f] \notin Opened(active)
    <3>1. UNCHANGED <<replaceGen, queue>> BY <1>6, <2>3 DEF DidChange
    <3>2. \A g \in Files \ {f} : live'[g] = live[g] /\ replaceGen'[g] = replaceGen[g]
      BY <2>1, <3>1
    <3> QED BY <1>6, <2>3, <3>1, <3>2, GrowKeepsUp DEF DidChange
  <2> QED BY <2>2, <2>3
<1>7. ASSUME NEW s \in Scopes, SwitchSolution(s) PROVE KeepsUp'
  <2> DEFINE x == [kind |-> "start", arg |-> NoSolution, gen |-> switchGen + 1]
  <2> DEFINE y == [kind |-> "switch", arg |-> NoSolution, gen |-> switchGen + 1]
  <2>1. queue' = queue \o <<x, y>> BY <1>7 DEF SwitchSolution
  <2>2. x \in Job /\ y \in Job /\ y.kind \in Rebuilds
    BY JobTypes DEF Rebuilds, IInv, TypeOK, GraphOK
  <2> HIDE DEF x, y
  <2>3. Len(queue) + 2 \in DOMAIN queue' /\ queue'[Len(queue) + 2] = y BY <1>1, <2>1, <2>2
  <2> QED BY <2>2, <2>3 DEF KeepsUp, Rebuilding, RebuildQueued
<1>8. ASSUME NEW m \in Members, InsertMember(m) PROVE KeepsUp'
  <2>1. CASE disposed BY <1>8, <2>1 DEF InsertMember, KeepsUp
  <2>2. CASE ~disposed
    <3>1. queue' = Append(queue, Plain("insert", m)) BY <1>8, <2>2 DEF InsertMember
    <3>2. Plain("insert", m) \in Job /\ Plain("insert", m).kind \in Rebuilds BY DEF Job, Rebuilds
    <3> QED BY <1>1, <3>1, <3>2, QueuedKeepsUp
  <2> QED BY <2>1, <2>2
<1>9. ASSUME NEW m \in Members, RemoveMember(m) PROVE KeepsUp'
  <2>1. CASE disposed BY <1>9, <2>1 DEF RemoveMember, KeepsUp
  <2>2. CASE ~disposed
    <3>1. queue' = Append(queue, Plain("remove", m)) BY <1>9, <2>2 DEF RemoveMember
    <3>2. Plain("remove", m) \in Job /\ Plain("remove", m).kind \in Rebuilds BY DEF Job, Rebuilds
    <3> QED BY <1>1, <3>1, <3>2, QueuedKeepsUp
  <2> QED BY <2>1, <2>2
<1> QED BY <1>3, <1>4, <1>5, <1>6, <1>7, <1>8, <1>9 DEF Environment

(* With nothing left to do the graph is the one in step. *)
LEMMA KeptUp == ASSUME IInv, WarmupOK, ErrorOK, KeepsUp PROVE InStep
<1> SUFFICES ASSUME Quiescent, ~disposed, warmup = "ok", buildState = "Ready",
                    NEW f \in Files \ missed
             PROVE  graph[f] = InStepGraph[f]
  BY DEF InStep, Rests
<1>1. queue = <<>> /\ \A t \in Tasks : pc[t] = "idle" BY DEF Quiescent
<1>2. pc["head"] = "idle" BY <1>1, NamesFact
<1>3. ~Rebuilding BY <1>1, <1>2 DEF Rebuilding, RebuildQueued, AttemptAhead, HeadRebuilds
<1>4. Held(f) BY <1>1, <1>3 DEF KeepsUp, ErrorOK, Loaded
<1>5. ~Late(f) BY <1>1, <1>2 DEF Late, Queued, AtHead
<1> QED BY <1>4, <1>5 DEF Held, InStepGraph

LEMMA KeepsUpStep ==
  Events = {} /\ MaxReadFailures = 0 /\ MaxDisk = 0 /\ IInv /\ ActiveInv /\ KnownOK /\ KeepsUp /\ [Next]_vars
    => KeepsUp'
<1> SUFFICES ASSUME Events = {}, MaxReadFailures = 0, MaxDisk = 0, IInv, ActiveInv, KnownOK, KeepsUp,
                    [Next]_vars
             PROVE  KeepsUp'
  OBVIOUS
<1>1. WarmupOK BY DEF ActiveInv
<1>2. CASE UNCHANGED vars
  BY <1>2, GrowKeepsUp DEF vars
<1> QED BY <1>1, <1>2, StepKeepsUp, DequeueKeepsUp, EnvironmentKeepsUp DEF Next
------------------------------------------------------------------------------
(* The bases held for the members are no older than the last change or      *)
(* eviction that concerned them.  What follows is about a service that      *)
(* meets at most one change of references and no other maintenance of a     *)
(* member: two of them share staleIds, and one can take the other's.        *)

Rebased(m) == bases[m] = Unregistered \/ bases[m] >= owed[m]

(* A refresh of m is to come: by an attempt, or by the one change. *)
Coming(m) ==
  \/ warmup = "rejected"
  \/ pc["warm"] \in {"bases", "register"} /\ m \in todo["warm"] \cap scope["warm"]
  \/ \E e \in Events :
       \/ pc[e] \in {"warm", "invalidate"}
       \/ pc[e] = "live" /\ m \in staleIds \cap scope[e]
       \/ pc[e] \in {"refresh", "register"} /\ m \in todo[e] \cap scope[e]

FreshOK == \A m \in Opened(active) : Rebased(m) \/ Coming(m)

(* Before the change every member wants the bases it has at first; what is  *)
(* held is of then or of now, and so is what is owed.                       *)
Begun == \E e \in Events : job[e] # NoJob
VersionsOK ==
  \A m \in Members :
    /\ want[m] >= 1 /\ (Begun \/ want[m] = 1)
    /\ bases[m] \in {Unregistered, 1, want[m]} /\ owed[m] \in {1, want[m]}

(* Until the change evicts its dependents only its own member is owed new   *)
(* bases.                                                                   *)
Waits(e) == pc[e] \in {"warm", "invalidate"}
OwedOK == \A e \in Events : Waits(e) => \A m \in Members : owed[m] = 1 \/ m = job[e].arg

(* What is about to be stored is what the manifests ask for, unless the     *)
(* change waits for the attempt that has read it.                           *)
StoreOK(t) ==
  /\ resolved[t].member \in scope[t]
  /\ resolved[t].version \in {1, want[resolved[t].member]}
  /\ resolved[t].version = want[resolved[t].member] \/ \E e \in Events : pc[e] = "warm"
StoresOK == \A t \in Tasks : pc[t] = "register" => StoreOK(t)

(* No other maintenance of a member is queued or running. *)
NoOther ==
  /\ \A i \in DOMAIN queue : queue[i].kind \notin Invalidating
  /\ job["head"].kind \notin Invalidating

(* Before a first switch nothing is held for a member of another solution. *)
UnseenOK ==
  switchGen = 0 =>
    /\ \A t \in Tasks : scope[t] \subseteq Opened(active)
    /\ \A m \in Members \ Opened(active) : bases[m] = Unregistered

FreshInv == FreshOK /\ VersionsOK /\ OwedOK /\ StoresOK /\ NoOther /\ UnseenOK

LEMMA InitFresh == Init => FreshInv
<1> SUFFICES ASSUME Init PROVE FreshInv
  OBVIOUS
<1>1. \A m \in Members : bases[m] = Unregistered /\ want[m] = 1 /\ owed[m] = 1 BY DEF Init
<1>2. \A m \in Opened(active) : m \in Members BY ShapeAssumption DEF Init
<1>3. FreshOK BY <1>1, <1>2 DEF FreshOK, Rebased
<1>4. VersionsOK BY <1>1 DEF VersionsOK
<1>5. StoresOK BY DEF Init, StoresOK
<1>6. NoOther BY NamesFact DEF Init, NoOther
<1>7. UnseenOK BY <1>1 DEF Init, UnseenOK
<1>8. OwedOK BY <1>1 DEF OwedOK
<1> QED BY <1>3, <1>4, <1>5, <1>6, <1>7, <1>8 DEF FreshInv

(* A step that stores nothing and takes no refresh away. *)
LEMMA KeepFresh ==
  ASSUME IInv, FreshInv, UNCHANGED <<active, membersOf, switchGen, want, bases, owed>>,
         \A e \in Events : job'[e] = job[e] /\ (Waits(e)' => Waits(e)),
         \A t \in Tasks : scope'[t] = scope[t] \/ scope'[t] = Opened(active),
         StoresOK', NoOther', FreshOK'
  PROVE  FreshInv'
<1>1. VersionsOK' BY DEF FreshInv, VersionsOK, Begun
<1>2. UnseenOK' BY DEF FreshInv, UnseenOK
<1>3. OwedOK' BY DEF FreshInv, OwedOK
<1> QED BY <1>1, <1>2, <1>3 DEF FreshInv

(* A new attempt is to refresh every member of the active solution. *)
LEMMA StartFresh ==
  ASSUME IInv, NEW t \in Tasks, t # "warm", NEW j, StartWarmup(t, j, "warm"),
         UNCHANGED <<active, membersOf>>
  PROVE  /\ FreshOK' /\ pc'["warm"] = "bases" /\ pc'[t] = "warm" /\ job'[t] = j
         /\ \A u \in Tasks \ {t, "warm"} : pc'[u] = pc[u] /\ job'[u] = job[u]
         /\ \A u \in Tasks : scope'[u] = scope[u] \/ scope'[u] = Opened(active)
<1>1. /\ pc \in [Tasks -> Pcs] /\ job \in [Tasks -> Job] /\ todo \in [Tasks -> SUBSET Members]
      /\ scope \in [Tasks -> SUBSET Members]
  BY DEF IInv, TypeOK, TasksOK, LocalsOK
<1>2. /\ pc' = [pc EXCEPT ![t] = "warm", !["warm"] = "bases"]
      /\ todo' = [todo EXCEPT !["warm"] = Opened(active)]
      /\ scope' = [scope EXCEPT !["warm"] = Opened(active)]
      /\ \E w : job' = [job EXCEPT ![t] = j, !["warm"] = w]
  BY DEF StartWarmup
<1>3. /\ pc'["warm"] = "bases" /\ pc'[t] = "warm" /\ job'[t] = j
      /\ \A u \in Tasks \ {t, "warm"} : pc'[u] = pc[u] /\ job'[u] = job[u]
  BY <1>1, <1>2, NamesFact
<1>4. /\ todo'["warm"] = Opened(active) /\ scope'["warm"] = Opened(active)
      /\ \A u \in Tasks : scope'[u] = scope[u] \/ scope'[u] = Opened(active)
  BY <1>1, <1>2, NamesFact
<1>5. FreshOK' BY <1>3, <1>4 DEF FreshOK, Coming
<1> QED BY <1>3, <1>4, <1>5

(* A task that is neither refreshing nor about to moves by itself. *)
LEMMA MoveFresh ==
  ASSUME IInv, FreshInv, NEW t \in Tasks,
         t = "head" \/ pc[t] \notin {"warm", "invalidate", "live", "refresh", "register", "bases"},
         UNCHANGED <<active, membersOf, switchGen, want, bases, owed, staleIds, resolved, warmup>>, NoOther',
         \A u \in Tasks \ {t} : /\ pc'[u] = pc[u] /\ todo'[u] = todo[u] /\ scope'[u] = scope[u],
         \A e \in Events : job'[e] = job[e], t \in Events => ~Waits(t)',
         pc'[t] # "register", scope'[t] = scope[t] \/ scope'[t] = Opened(active)
  PROVE  FreshInv'
<1>1. \A u \in Tasks : scope'[u] = scope[u] \/ scope'[u] = Opened(active) OBVIOUS
<1>2. \A e \in Events : (pc'[e] = pc[e] /\ todo'[e] = todo[e] /\ scope'[e] = scope[e])
                        \/ (e = t /\ pc[e] \notin {"warm", "invalidate", "live", "refresh", "register"})
  BY NamesFact DEF Tasks
<1>3. t # "warm" \/ pc["warm"] \notin {"bases", "register"} BY NamesFact
<1>4. \A m \in Opened(active) : Coming(m) => Coming(m)'
  <2> SUFFICES ASSUME NEW m \in Opened(active), Coming(m) PROVE Coming(m)'
    OBVIOUS
  <2>1. CASE warmup = "rejected" BY <2>1 DEF Coming
  <2>2. CASE pc["warm"] \in {"bases", "register"} /\ m \in todo["warm"] \cap scope["warm"]
    BY <1>3, <2>2, NamesFact DEF Coming
  <2>3. ASSUME NEW e \in Events,
               \/ pc[e] \in {"warm", "invalidate"}
               \/ pc[e] = "live" /\ m \in staleIds \cap scope[e]
               \/ pc[e] \in {"refresh", "register"} /\ m \in todo[e] \cap scope[e]
        PROVE  Coming(m)'
    BY <1>2, <2>3 DEF Coming
  <2> QED BY <2>1, <2>2, <2>3 DEF Coming
<1>5. FreshOK' BY <1>4 DEF FreshInv, FreshOK, Rebased
<1>6. \A e \in Events : pc[e] = "warm" => pc'[e] = "warm" BY <1>2
<1>7. StoresOK'
  <2> SUFFICES ASSUME NEW u \in Tasks, pc'[u] = "register" PROVE StoreOK(u)'
    BY DEF StoresOK
  <2>1. u # t /\ pc[u] = "register" /\ scope'[u] = scope[u] OBVIOUS
  <2>2. StoreOK(u) BY <2>1 DEF FreshInv, StoresOK
  <2> QED BY <1>6, <2>1, <2>2 DEF StoreOK
<1>8. \A e \in Events : Waits(e)' => Waits(e) BY <1>2 DEF Waits
<1> QED BY <1>1, <1>5, <1>7, <1>8, KeepFresh

(* A task that refreshes bases is the attempt or the one change, alone. *)
Refreshes == {"invalidate", "live", "refresh", "register", "bases"}

LEMMA RefreshAlone ==
  ASSUME \A d, e \in Events : d = e, IInv, WarmupOK, FreshInv, NEW t \in Tasks, pc[t] \in Refreshes
  PROVE  /\ t # "head" /\ \A u \in Tasks \ {t} : pc[u] \notin Refreshes
         /\ t = "warm" => warmup = "running" /\ pc[t] \in {"register", "bases"}
         /\ t # "warm" => /\ t \in Events /\ warmup = "ok" /\ pc["warm"] = "idle" /\ pc[t] # "bases"
                          /\ job[t].kind = "references" /\ \A e \in Events : e = t
<1>1. \A u \in Tasks : pc[u] \in Refreshes => job[u].kind \in {"warm"} \cup Invalidating
  BY PcKind DEF Refreshes
<1>2. \A u \in Tasks : (job[u].kind = "warm") <=> (u = "warm") BY DEF IInv, PcOK
<1>3. pc["head"] \notin Refreshes BY <1>1, <1>2, NamesFact DEF FreshInv, NoOther
<1>4. \A e \in Events : pc[e] \in Refreshes => warmup = "ok" /\ job[e].kind = "references"
  <2>1. \A e \in Events : job[e].kind \in {"none", "references"} BY DEF IInv, PcOK, Tasks
  <2> QED BY <1>1, <2>1 DEF WarmupOK, Refreshes, Tasks
<1>5. pc["warm"] \in Refreshes => warmup = "running" BY DEF WarmupOK, Refreshes
<1>6. CASE t = "warm"
  <2>1. \A u \in Tasks \ {t} : pc[u] \notin Refreshes BY <1>3, <1>4, <1>5, <1>6 DEF Tasks
  <2>2. pc[t] \in {"register", "bases"} BY <1>2, <1>6, PcKind DEF Refreshes
  <2> QED BY <1>3, <1>5, <1>6, <2>1, <2>2
<1>7. CASE t # "warm"
  <2>1. t \in Events /\ warmup = "ok" /\ job[t].kind = "references" BY <1>3, <1>4, <1>7 DEF Tasks
  <2>2. pc["warm"] = "idle" BY <2>1 DEF WarmupOK
  <2>3. \A u \in Tasks \ {t} : pc[u] \notin Refreshes BY <1>3, <2>1, <2>2 DEF Tasks, Refreshes
  <2>4. pc[t] # "bases" BY <1>2, <1>7, PcKind
  <2> QED BY <1>3, <1>7, <2>1, <2>2, <2>3, <2>4
<1> QED BY <1>6, <1>7

(* The change names the members it refreshes, ... *)
LEMMA InvalidateFresh ==
  ASSUME \A d, e \in Events : d = e, MaxReadFailures = 0, IInv, WarmupOK, FreshInv,
         NEW t \in Tasks, Invalidate(t) \/ ReadStale(t)
  PROVE  FreshInv'
<1>1. /\ pc[t] \in {"invalidate", "live"}
      /\ UNCHANGED <<active, membersOf, switchGen, want, bases, job, queue, warmup, resolved>>
      /\ ReadStale(t) => UNCHANGED owed
  BY DEF Invalidate, ReadStale
<1>2. /\ t \in Events /\ warmup = "ok" /\ pc["warm"] = "idle" /\ \A e \in Events : e = t
      /\ t # "head" /\ t # "warm" /\ \A u \in Tasks \ {t} : pc[u] \notin Refreshes
  BY <1>1, RefreshAlone DEF Refreshes
<1>3. /\ pc \in [Tasks -> Pcs] /\ todo \in [Tasks -> SUBSET Members] /\ scope \in [Tasks -> SUBSET Members]
  BY DEF IInv, TypeOK, TasksOK, LocalsOK
<1>4. CASE Invalidate(t)
  <2>1. /\ staleIds' = WithDependents(job[t].arg, recorded) /\ pc' = [pc EXCEPT ![t] = "live"]
        /\ scope' = [scope EXCEPT ![t] = Opened(active)]
        /\ owed' = [m \in Members |-> IF m \in staleIds' \cap Opened(active) THEN want[m] ELSE owed[m]]
    BY <1>4, NoReadFails DEF Invalidate
  <2>2. /\ pc'[t] = "live" /\ scope'[t] = Opened(active)
        /\ \A u \in Tasks \ {t} : pc'[u] = pc[u] /\ scope'[u] = scope[u]
    BY <1>3, <2>1
  <2>3. ASSUME NEW m \in Opened(active) PROVE Rebased(m)' \/ Coming(m)'
    <3>1. m \in Members BY DEF IInv, TypeOK, WorldOK
    <3>2. CASE m \in staleIds' BY <1>1, <1>2, <2>2, <3>2 DEF Coming
    <3>3. CASE m \notin staleIds'
      <4>1. owed'[m] = owed[m] BY <2>1, <3>1, <3>3
      <4>2. m # job[t].arg BY <2>1, <3>1, <3>3 DEF WithDependents
      <4>3. owed[m] = 1 BY <1>1, <1>2, <1>4, <3>1, <4>2 DEF FreshInv, OwedOK, Waits, Invalidate
      <4>4. bases[m] = Unregistered \/ bases[m] >= 1
        BY <3>1 DEF FreshInv, VersionsOK, IInv, TypeOK, WorldOK
      <4> QED BY <1>1, <4>1, <4>3, <4>4 DEF Rebased
    <3> QED BY <3>2, <3>3
  <2>4. FreshOK' BY <1>1, <2>3 DEF FreshOK
  <2>5. StoresOK' BY <1>2, <2>2 DEF StoresOK, Refreshes
  <2>6. NoOther' BY <1>1 DEF FreshInv, NoOther
  <2>7. VersionsOK' BY <1>1, <2>1 DEF FreshInv, VersionsOK, Begun
  <2>8. UnseenOK' BY <1>1, <2>2 DEF FreshInv, UnseenOK
  <2>9. OwedOK' BY <1>2, <2>2 DEF OwedOK, Waits
  <2> QED BY <2>4, <2>5, <2>6, <2>7, <2>8, <2>9 DEF FreshInv
<1>5. CASE ReadStale(t)
  <2>1. /\ pc[t] = "live" /\ pc' = [pc EXCEPT ![t] = "refresh"] /\ todo' = [todo EXCEPT ![t] = staleIds]
        /\ UNCHANGED scope
    BY <1>5 DEF ReadStale
  <2>2. pc'[t] = "refresh" /\ todo'[t] = staleIds /\ \A u \in Tasks \ {t} : pc'[u] = pc[u]
    BY <1>3, <2>1
  <2>3. \A m \in Opened(active) : Coming(m) => Coming(m)' BY <1>2, <2>1, <2>2 DEF Coming
  <2>4. FreshOK' BY <1>1, <1>5, <2>3 DEF FreshInv, FreshOK, Rebased
  <2>5. StoresOK' BY <1>2, <2>2 DEF StoresOK, Refreshes
  <2>6. NoOther' BY <1>1 DEF FreshInv, NoOther
  <2>7. \A e \in Events : Waits(e)' => Waits(e) BY <1>2, <2>2 DEF Waits
  <2> QED BY <1>1, <1>5, <2>1, <2>4, <2>5, <2>6, <2>7, KeepFresh
<1> QED BY <1>4, <1>5

(* ... reads what they are based on, or finds them no members, ... *)
LEMMA ResolveFresh ==
  ASSUME \A d, e \in Events : d = e, IInv, WarmupOK, FreshInv,
         NEW t \in Tasks, ResolveBases(t) \/ DropStale(t)
  PROVE  FreshInv'
<1>1. /\ pc[t] \in {"bases", "refresh"}
      /\ UNCHANGED <<active, membersOf, switchGen, want, owed, job, queue, warmup, staleIds, scope>>
  BY DEF ResolveBases, DropStale
<1>2. /\ t # "head" /\ \A u \in Tasks \ {t} : pc[u] \notin Refreshes
      /\ t # "warm" => t \in Events /\ job[t].kind = "references" /\ pc[t] # "bases"
      /\ t = "warm" => pc[t] = "bases"
  BY <1>1, RefreshAlone DEF Refreshes
<1>3. /\ pc \in [Tasks -> Pcs] /\ todo \in [Tasks -> SUBSET Members]
      /\ resolved \in [Tasks -> [member : Members \cup {NoSolution}, version : Nat]]
  BY DEF IInv, TypeOK, TasksOK, LocalsOK
<1>4. NoOther' BY <1>1 DEF FreshInv, NoOther
<1>5. CASE ResolveBases(t)
  <2>1. PICK m \in todo[t] \cap scope[t] :
          resolved' = [resolved EXCEPT ![t] = [member |-> m, version |-> want[m]]]
    BY <1>5 DEF ResolveBases
  <2>2. pc' = [pc EXCEPT ![t] = "register"] /\ UNCHANGED <<todo, bases>> BY <1>5 DEF ResolveBases
  <2>3. /\ pc'[t] = "register" /\ resolved'[t].member = m /\ resolved'[t].version = want[m]
        /\ \A u \in Tasks \ {t} : pc'[u] = pc[u]
    BY <1>3, <2>1, <2>2
  <2>4. \A n \in Opened(active) : Coming(n) => Coming(n)' BY <1>1, <1>2, <2>2, <2>3 DEF Coming
  <2>5. FreshOK' BY <1>1, <2>2, <2>4 DEF FreshInv, FreshOK, Rebased
  <2>6. StoresOK' BY <1>1, <1>2, <2>1, <2>3 DEF StoresOK, StoreOK, Refreshes
  <2>7. \A e \in Events : Waits(e)' => Waits(e) BY <2>3, NamesFact DEF Waits, Tasks
  <2> QED BY <1>1, <1>4, <2>2, <2>5, <2>6, <2>7, KeepFresh
<1>6. CASE DropStale(t)
  <2>1. PICK m \in todo[t] \ scope[t] : todo' = [todo EXCEPT ![t] = @ \ {m}]
    BY <1>6 DEF DropStale
  <2>2. UNCHANGED <<pc, bases, resolved>> BY <1>1, <1>2, <1>6 DEF DropStale
  <2>3. /\ todo'[t] = todo[t] \ {m} /\ \A u \in Tasks \ {t} : todo'[u] = todo[u]
    BY <1>3, <2>1
  <2>4. \A n \in Opened(active) : Coming(n) => Coming(n)'
    <3> SUFFICES ASSUME NEW n \in Opened(active), Coming(n) PROVE Coming(n)'
      OBVIOUS
    <3>1. \A u \in Tasks : n \in todo[u] \cap scope[u] => n \in todo'[u] \cap scope'[u] BY <1>1, <2>1, <2>3
    <3> QED BY <1>1, <2>2, <3>1, NamesFact DEF Coming, Tasks
  <2>5. FreshOK' BY <1>1, <2>2, <2>4 DEF FreshInv, FreshOK, Rebased
  <2>6. StoresOK' BY <1>1, <2>2 DEF FreshInv, StoresOK, StoreOK
  <2>7. \A e \in Events : Waits(e)' => Waits(e) BY <2>2 DEF Waits
  <2> QED BY <1>1, <1>4, <2>2, <2>5, <2>6, <2>7, KeepFresh
<1> QED BY <1>5, <1>6

(* ... and stores it: a change that arrived meanwhile has yet to refresh. *)
LEMMA RegisterFresh ==
  ASSUME \A d, e \in Events : d = e, IInv, WarmupOK, FreshInv, NEW t \in Tasks, Register(t)
  PROVE  FreshInv'
<1> DEFINE m == resolved[t].member
<1>1. /\ pc[t] = "register" /\ bases' = [bases EXCEPT ![m] = resolved[t].version]
      /\ todo' = [todo EXCEPT ![t] = @ \ {m}]
      /\ pc' = [pc EXCEPT ![t] = IF t = "warm" THEN "bases" ELSE "refresh"]
      /\ UNCHANGED <<active, membersOf, switchGen, want, owed, job, queue, warmup, staleIds, scope,
                     resolved>>
  BY DEF Register
<1>2. /\ \A u \in Tasks \ {t} : pc[u] \notin Refreshes
      /\ t # "head" /\ (t # "warm" => t \in Events /\ \A e \in Events : e = t)
  BY <1>1, RefreshAlone DEF Refreshes
<1>3. /\ pc \in [Tasks -> Pcs] /\ todo \in [Tasks -> SUBSET Members] /\ scope[t] \subseteq Members
      /\ bases \in [Members -> Nat] /\ want \in [Members -> Nat]
      /\ owed \in [Members -> Nat]
  BY DEF IInv, TypeOK, TasksOK, LocalsOK, CachesOK, WorldOK
<1>4. StoreOK(t) BY <1>1 DEF FreshInv, StoresOK
<1>5. m \in scope[t] /\ m \in Members BY <1>3, <1>4 DEF StoreOK
<1>6. /\ bases'[m] = resolved[t].version /\ \A n \in Members \ {m} : bases'[n] = bases[n]
      /\ todo'[t] = todo[t] \ {m} /\ pc'[t] = IF t = "warm" THEN "bases" ELSE "refresh"
      /\ \A u \in Tasks \ {t} : pc'[u] = pc[u] /\ todo'[u] = todo[u]
  BY <1>1, <1>3, <1>5
<1>7. VersionsOK'
  <2>1. Begun' = Begun BY <1>1 DEF Begun
  <2>2. ASSUME NEW n \in Members PROVE bases'[n] \in {Unregistered, 1, want'[n]}
    BY <1>1, <1>4, <1>6 DEF FreshInv, VersionsOK, StoreOK
  <2> QED BY <1>1, <2>1, <2>2 DEF FreshInv, VersionsOK
<1>8. UnseenOK' BY <1>1, <1>3, <1>5, <1>6 DEF FreshInv, UnseenOK
<1>9. StoresOK' BY <1>2, <1>6 DEF StoresOK, Refreshes
<1>10. NoOther' BY <1>1 DEF FreshInv, NoOther
<1>11. FreshOK'
  <2> SUFFICES ASSUME NEW n \in Opened(active) PROVE Rebased(n)' \/ Coming(n)'
    BY <1>1 DEF FreshOK
  <2>1. n \in Members BY DEF IInv, TypeOK, WorldOK
  <2>2. CASE n # m
    <3>1. Rebased(n) => Rebased(n)' BY <1>1, <1>6, <2>1, <2>2 DEF Rebased
    <3>2. Coming(n) => Coming(n)' BY <1>1, <1>2, <1>6, <2>2, NamesFact DEF Coming, Tasks
    <3> QED BY <3>1, <3>2 DEF FreshInv, FreshOK
  <2>3. CASE n = m /\ resolved[t].version = want[m]
    <3>1. want[m] >= 1 /\ owed[m] \in {1, want[m]} BY <1>5 DEF FreshInv, VersionsOK
    <3>2. bases'[n] = want[m] /\ owed'[n] = owed[m] BY <1>1, <1>6, <2>3
    <3> QED BY <1>3, <1>5, <3>1, <3>2 DEF Rebased
  <2>4. ASSUME NEW e \in Events, pc[e] = "warm" PROVE Coming(n)'
    <3>1. pc'[e] = "warm" BY <1>1, <1>6, <2>4 DEF Tasks
    <3> QED BY <3>1 DEF Coming
  <2> QED BY <1>4, <2>2, <2>3, <2>4 DEF StoreOK
<1>12. OwedOK'
  <2>1. \A e \in Events : Waits(e)' => Waits(e) BY <1>6, NamesFact DEF Waits, Tasks
  <2> QED BY <1>1, <2>1 DEF FreshInv, OwedOK
<1> QED BY <1>7, <1>8, <1>9, <1>10, <1>11, <1>12 DEF FreshInv

(* A refresh over starts its rebuild; other rebuilds concern no base. *)
LEMMA AssembleFresh ==
  ASSUME \A d, e \in Events : d = e, IInv, WarmupOK, FreshInv, NEW t \in Tasks, Assemble(t)
  PROVE  FreshInv'
<1>1. /\ pc[t] \in {"assemble", "refresh", "bases"} /\ (pc[t] \in {"refresh", "bases"} => todo[t] = {})
      /\ UNCHANGED <<active, membersOf, switchGen, want, bases, owed, staleIds, resolved, warmup, job, queue>>
  BY DEF Assemble
<1>2. /\ pc \in [Tasks -> Pcs] /\ todo \in [Tasks -> SUBSET Members] /\ scope \in [Tasks -> SUBSET Members]
  BY DEF IInv, TypeOK, TasksOK, LocalsOK
<1>3. /\ pc'[t] \in {"read", "settle", "idle"} /\ (scope'[t] = scope[t] \/ scope'[t] = Opened(active))
      /\ \A u \in Tasks \ {t} : pc'[u] = pc[u] /\ todo'[u] = todo[u] /\ scope'[u] = scope[u]
  <2>1. CASE disposed BY <1>2, <2>1 DEF Assemble, AfterRebuild
  <2>2. CASE ~disposed BY <1>2, <2>2 DEF Assemble
  <2> QED BY <2>1, <2>2
<1>4. NoOther' BY <1>1 DEF FreshInv, NoOther
<1>5. CASE pc[t] = "assemble" BY <1>1, <1>3, <1>4, <1>5, MoveFresh DEF Waits
<1>6. CASE pc[t] \in {"refresh", "bases"}
  <2>1. t # "head" /\ \A u \in Tasks \ {t} : pc[u] \notin Refreshes
    BY <1>6, RefreshAlone DEF Refreshes
  <2>2. \A m \in Opened(active) : Coming(m) => Coming(m)'
    <3> SUFFICES ASSUME NEW m \in Opened(active), Coming(m) PROVE Coming(m)'
      OBVIOUS
    <3>1. CASE warmup = "rejected" BY <1>1, <3>1 DEF Coming
    <3>2. \A u \in Tasks : pc[u] \in {"bases", "register", "refresh"} => m \notin todo[u]
      BY <1>1, <1>6, <2>1 DEF Refreshes
    <3>3. ASSUME NEW e \in Events, pc[e] \in {"warm", "invalidate"} PROVE Coming(m)'
      <4>1. pc'[e] = pc[e] BY <1>3, <1>6, <3>3 DEF Tasks
      <4> QED BY <3>3, <4>1 DEF Coming
    <3>4. \A e \in Events : pc[e] # "live" BY <1>6, <2>1 DEF Refreshes, Tasks
    <3> QED BY <3>1, <3>2, <3>3, <3>4, NamesFact DEF Coming, Tasks
  <2>3. FreshOK' BY <1>1, <2>2 DEF FreshInv, FreshOK, Rebased
  <2>4. StoresOK' BY <1>3, <2>1 DEF StoresOK, Refreshes
  <2>5. \A u \in Tasks : scope'[u] = scope[u] \/ scope'[u] = Opened(active) BY <1>3
  <2>6. \A e \in Events : Waits(e)' => Waits(e) BY <1>3 DEF Waits, Tasks
  <2> QED BY <1>1, <1>4, <2>3, <2>4, <2>5, <2>6, KeepFresh
<1> QED BY <1>1, <1>5, <1>6

(* A new attempt takes over whatever the one before it left. *)
LEMMA AttemptFresh ==
  ASSUME \A d, e \in Events : d = e, IInv, WarmupOK, FreshInv, warmupFailed, NEW j,
         j.kind \notin Invalidating, StartWarmup("head", j, "warm"),
         \A i \in DOMAIN queue' : queue'[i].kind \notin Invalidating,
         UNCHANGED <<active, membersOf, switchGen, want, bases, owed>>
  PROVE  FreshInv'
<1>1. /\ FreshOK' /\ pc'["warm"] = "bases" /\ pc'["head"] = "warm" /\ job'["head"] = j
      /\ \A u \in Tasks \ {"head", "warm"} : pc'[u] = pc[u] /\ job'[u] = job[u]
      /\ \A u \in Tasks : scope'[u] = scope[u] \/ scope'[u] = Opened(active)
  BY StartFresh, NamesFact
<1>2. warmup = "rejected" BY DEF WarmupOK
<1>3. \A u \in Tasks : pc'[u] # "register" BY <1>1, <1>2, RefreshAlone DEF Refreshes
<1>4. StoresOK' BY <1>3 DEF StoresOK
<1>5. NoOther' BY <1>1 DEF NoOther
<1>6. \A e \in Events : job'[e] = job[e] BY <1>1, NamesFact DEF Tasks
<1>7. \A e \in Events : Waits(e)' => Waits(e) BY <1>1, NamesFact DEF Waits, Tasks
<1> QED BY <1>1, <1>4, <1>5, <1>6, <1>7, KeepFresh

(* An attempt that is rejected leaves all to the next; one that succeeds    *)
(* has refreshed all, and wakes a change that arrived meanwhile.            *)
LEMMA WakeFresh ==
  ASSUME \A d, e \in Events : d = e, IInv, WarmupOK, FreshInv, NEW t \in Tasks,
         WarmupRejects(t) \/ SettleWarmup(t)
  PROVE  FreshInv'
<1>1. /\ t = "warm" /\ pc["warm"] \in {"bases", "settle"}
      /\ UNCHANGED <<active, membersOf, switchGen, want, bases, owed, staleIds, resolved, job, queue, scope,
                     todo>>
  BY DEF WarmupRejects, SettleWarmup
<1>2. warmup = "running" /\ \A e \in Events : pc[e] \in {"idle", "warm"} BY <1>1 DEF WarmupOK
<1>3. pc["head"] # "register" BY NamesFact, RefreshAlone DEF Refreshes
<1>4. PICK ok \in BOOLEAN : WakeAwaiters(ok) /\ (ok => SettleWarmup(t)) /\ (~ok => warmup' = "rejected")
  BY DEF WarmupRejects, SettleWarmup, WakeAwaiters
<1>5. \A u \in Tasks : pc'[u] # "register"
  <2>1. \A u \in Tasks : pc[u] = "register" => u = "warm" BY <1>2, <1>3 DEF Tasks
  <2> QED BY <1>4, <2>1 DEF WakeAwaiters, AfterWarm
<1>6. StoresOK' BY <1>5 DEF StoresOK
<1>7. NoOther' BY <1>1 DEF FreshInv, NoOther
<1>8. FreshOK'
  <2>1. CASE ~ok BY <1>4, <2>1 DEF FreshOK, Coming
  <2>2. CASE ok
    <3>1. pc["warm"] = "settle" BY <1>4, <2>2 DEF SettleWarmup
    <3>2. ASSUME NEW m \in Opened(active), Coming(m) PROVE Coming(m)'
      <4>1. PICK e \in Events : pc[e] = "warm" BY <1>2, <3>1, <3>2 DEF Coming
      <4>2. job[e].kind = "references"
        BY <4>1 DEF IInv, PcOK, PcsOf, Tasks
      <4>3. pc'[e] = "invalidate" BY <1>4, <2>2, <4>1, <4>2, NamesFact DEF WakeAwaiters, AfterWarm, Tasks
      <4> QED BY <4>3 DEF Coming
    <3> QED BY <1>1, <3>2 DEF FreshInv, FreshOK, Rebased
  <2> QED BY <2>1, <2>2
<1>9. \A e \in Events : Waits(e)' => Waits(e)
  <2>1. ASSUME NEW e \in Events, pc[e] = "idle" PROVE pc'[e] = "idle"
    BY <1>4, <2>1, NamesFact DEF WakeAwaiters, Tasks
  <2> QED BY <1>2, <2>1 DEF Waits
<1> QED BY <1>1, <1>6, <1>7, <1>8, <1>9, KeepFresh

(* The other steps of a task concern no base, but for a file not yet loaded *)
(* that goes round by a new attempt.                                        *)
LEMMA OtherFresh ==
  ASSUME IInv, FreshInv, NEW t \in Tasks,
         \/ Sweep(t) \/ ResolveRetry(t) \/ ReadSources(t) \/ Build(t) \/ SettleSwitch(t) \/ FindOwner(t)
         \/ ReadOwnerSources(t) \/ ReplaceFile(t) \/ ReplaceMember(t)
  PROVE  FreshInv'
<1>1. /\ pc[t] \in {"sweep", "resolve", "read", "settle", "owner", "sources", "apply"}
      /\ UNCHANGED <<active, membersOf, switchGen, want, bases, owed, staleIds, resolved, warmup, job, queue,
                     scope>>
  BY DEF Sweep, ResolveRetry, ReadSources, Build, SettleSwitch, FindOwner, ReadOwnerSources, ReplaceFile,
     ReplaceMember
<1>2. /\ pc' = pc \/ \E to \in Pcs \ {"register", "warm", "invalidate"} : pc' = [pc EXCEPT ![t] = to]
      /\ todo' = todo \/ \E x : todo' = [todo EXCEPT ![t] = x]
  <2> DEFINE Moved == /\ pc' = pc \/ \E to \in Pcs \ {"register", "warm", "invalidate"} : pc' = [pc EXCEPT ![t] = to]
                      /\ todo' = todo \/ \E x : todo' = [todo EXCEPT ![t] = x]
  <2>1. CASE Sweep(t) BY <2>1 DEF Sweep
  <2>2. CASE ResolveRetry(t) BY <2>2 DEF ResolveRetry
  <2>3. CASE ReadSources(t) BY <2>3 DEF ReadSources
  <2>4. CASE Build(t) BY <2>4 DEF Build, AfterRebuild
  <2>5. CASE SettleSwitch(t) BY <2>5 DEF SettleSwitch
  <2>6. CASE FindOwner(t) BY <2>6 DEF FindOwner
  <2>7. CASE ReadOwnerSources(t) BY <2>7 DEF ReadOwnerSources
  <2>8. CASE ReplaceFile(t) BY <2>8 DEF ReplaceFile
  <2>9. CASE ReplaceMember(t) BY <2>9 DEF ReplaceMember
  <2> HIDE DEF Moved
  <2>10. Moved BY <2>1, <2>2, <2>3, <2>4, <2>5, <2>6, <2>7, <2>8, <2>9 DEF Moved
  <2> QED BY <2>10 DEF Moved
<1>3. /\ pc'[t] \notin {"register", "warm", "invalidate"}
      /\ \A u \in Tasks \ {t} : pc'[u] = pc[u] /\ todo'[u] = todo[u] /\ scope'[u] = scope[u]
  <2>1. pc \in [Tasks -> Pcs] /\ todo \in [Tasks -> SUBSET Members] BY DEF IInv, TypeOK, TasksOK, LocalsOK
  <2> QED BY <1>1, <1>2, <2>1
<1>4. NoOther' BY <1>1 DEF FreshInv, NoOther
<1> QED BY <1>1, <1>3, <1>4, MoveFresh DEF Waits

(* The head awaits, or starts, an attempt on behalf of a replacement. *)
LEMMA MaintFresh ==
  ASSUME \A d, e \in Events : d = e, IInv, WarmupOK, FreshInv, NEW j, j.kind \in Replacing,
         MaintenanceWarmed("head", j), \A i \in DOMAIN queue' : queue'[i].kind \notin Invalidating,
         UNCHANGED <<active, membersOf, switchGen, want, bases, owed, staleIds, resolved>>
  PROVE  FreshInv'
<1>1. pc \in [Tasks -> Pcs] /\ job \in [Tasks -> Job] BY DEF IInv, TypeOK, TasksOK
<1>2. CASE warmupFailed /\ ~throttled
  <2>1. StartWarmup("head", j, "warm") BY <1>2 DEF MaintenanceWarmed
  <2> QED BY <1>2, <2>1, AttemptFresh, NamesFact
<1>3. CASE ~(warmupFailed /\ ~throttled)
  <2>1. PICK to \in {"warm", "owner", "idle"} :
          /\ pc' = [pc EXCEPT !["head"] = to] /\ job' = [job EXCEPT !["head"] = j]
          /\ UNCHANGED <<warmup, todo, scope>>
    BY <1>3 DEF MaintenanceWarmed, AfterWarm
  <2>2. /\ pc'["head"] # "register" /\ job'["head"] = j
        /\ \A u \in Tasks \ {"head"} : pc'[u] = pc[u] /\ job'[u] = job[u]
    BY <1>1, <2>1, NamesFact
  <2>3. NoOther' BY <2>2 DEF NoOther
  <2>4. \A e \in Events : job'[e] = job[e] BY <2>2, NamesFact DEF Tasks
  <2> QED BY <2>1, <2>2, <2>3, <2>4, NamesFact, MoveFresh
<1> QED BY <1>2, <1>3

LEMMA CheckLoadedFresh ==
  ASSUME \A d, e \in Events : d = e, IInv, WarmupOK, FreshInv, NEW t \in Tasks, CheckLoaded(t)
  PROVE  FreshInv'
<1> DEFINE f == job[t].arg
<1>1. /\ pc[t] = "check" /\ job[t] \in Job /\ job[t].kind \in Replacing
      /\ UNCHANGED <<active, membersOf, switchGen, want, bases, owed, staleIds, resolved, queue>>
  BY PcKind DEF CheckLoaded, IInv, TypeOK, TasksOK
<1>2. t = "head" BY <1>1, PcKind DEF IInv, PcOK, Tasks
<1>3. CASE Has(Owner[f]) /\ job[t].kind = "replace" /\ ~HasFile(f) /\ ~disposed
  <2> DEFINE j == [job[t] EXCEPT !.kind = "replaceMember"]
  <2>1. MaintenanceWarmed("head", j) BY <1>2, <1>3 DEF CheckLoaded
  <2>2. j.kind \in Replacing BY <1>1 DEF Job
  <2>3. \A i \in DOMAIN queue' : queue'[i].kind \notin Invalidating BY <1>1 DEF FreshInv, NoOther
  <2> HIDE DEF j
  <2> QED BY <1>1, <2>1, <2>2, <2>3, MaintFresh
<1>4. CASE ~(Has(Owner[f]) /\ job[t].kind = "replace" /\ ~HasFile(f) /\ ~disposed)
  <2>1. PICK to \in {"idle", "sources"} : pc' = [pc EXCEPT ![t] = to] BY <1>4 DEF CheckLoaded
  <2>2. UNCHANGED <<job, warmup, todo, scope>> BY <1>4 DEF CheckLoaded
  <2>3. pc'[t] # "register" /\ \A u \in Tasks \ {t} : pc'[u] = pc[u]
    <3>1. pc \in [Tasks -> Pcs] BY DEF IInv, TypeOK, TasksOK
    <3> QED BY <2>1, <3>1
  <2>4. NoOther' BY <1>1, <2>2 DEF FreshInv, NoOther
  <2> QED BY <1>1, <1>2, <2>2, <2>3, <2>4, NamesFact, MoveFresh
<1> QED BY <1>3, <1>4

LEMMA StepFresh ==
  ASSUME \A d, e \in Events : d = e, MaxReadFailures = 0, IInv, WarmupOK, FreshInv,
         NEW t \in Tasks, Step(t)
  PROVE  FreshInv'
<1>1. CASE RefreshFails(t) \/ AssembleFails(t) \/ ReadOwnerSourcesFails(t)
  BY <1>1, NoReadFails DEF RefreshFails, AssembleFails, ReadOwnerSourcesFails
<1> QED BY <1>1, WakeFresh, OtherFresh, InvalidateFresh, ResolveFresh, RegisterFresh, AssembleFresh,
        CheckLoadedFresh DEF Step

LEMMA DequeueFresh ==
  ASSUME \A d, e \in Events : d = e, IInv, WarmupOK, FreshInv, Dequeue PROVE FreshInv'
<1> DEFINE j == Head(queue)
<1>1. /\ queue # <<>> /\ queue' = Tail(queue) /\ queue \in Seq(Job)
      /\ pc \in [Tasks -> Pcs] /\ job \in [Tasks -> Job] /\ todo \in [Tasks -> SUBSET Members]
      /\ UNCHANGED <<active, membersOf, switchGen, want, bases, owed, staleIds, resolved>>
  BY DEF Dequeue, IInv, TypeOK, TasksOK, LocalsOK
<1>2. /\ j.kind \notin Invalidating
      /\ \A i \in DOMAIN queue' : queue'[i].kind \notin Invalidating
  <2>1. 1 \in DOMAIN queue /\ j = queue[1] BY <1>1
  <2>2. \A i \in DOMAIN queue' : i + 1 \in DOMAIN queue /\ queue'[i] = queue[i + 1] BY <1>1
  <2> QED BY <2>1, <2>2 DEF FreshInv, NoOther
<1>3. CASE j.kind \in {"switch", "start"} \/ (j.kind = "retry" /\ ~(warmupFailed /\ ~disposed))
  <2>1. /\ \E to \in {"warm", "assemble", "sweep", "resolve"} : pc' = [pc EXCEPT !["head"] = to]
        /\ job' = [job EXCEPT !["head"] = j] /\ UNCHANGED <<warmup, scope>>
        /\ todo' = todo \/ \E x : todo' = [todo EXCEPT !["head"] = x]
    BY <1>3 DEF Dequeue
  <2>2. /\ pc'["head"] # "register" /\ job'["head"] = j
        /\ \A u \in Tasks \ {"head"} : pc'[u] = pc[u] /\ job'[u] = job[u] /\ todo'[u] = todo[u]
    BY <1>1, <2>1, NamesFact
  <2>3. NoOther' BY <1>2, <2>2 DEF NoOther
  <2>4. \A e \in Events : job'[e] = job[e] BY <2>2, NamesFact DEF Tasks
  <2> QED BY <1>1, <2>1, <2>2, <2>3, <2>4, NamesFact, MoveFresh
<1>4. CASE j.kind = "retry" /\ warmupFailed /\ ~disposed
  <2>1. StartWarmup("head", j, "warm") BY <1>4 DEF Dequeue
  <2> QED BY <1>1, <1>2, <1>4, <2>1, AttemptFresh, NamesFact
<1>5. CASE j.kind = "replace" /\ disposed
  <2>1. UNCHANGED <<job, pc, warmup, scope, todo>> BY <1>5 DEF Dequeue
  <2>2. NoOther' BY <1>2, <2>1 DEF FreshInv, NoOther
  <2>3. pc["head"] # "register" BY DEF Dequeue
  <2> QED BY <1>1, <2>1, <2>2, <2>3, NamesFact, MoveFresh
<1>6. CASE j.kind = "replace" /\ ~disposed
  <2>1. MaintenanceWarmed("head", j) BY <1>6 DEF Dequeue
  <2> QED BY <1>1, <1>2, <1>6, <2>1, MaintFresh
<1>7. j.kind \in {"switch", "start", "retry", "replace"} BY <1>2 DEF Dequeue
<1> QED BY <1>3, <1>4, <1>5, <1>6, <1>7

(* References change: the dependents want other bases from here on. *)
LEMMA ReferencesFresh ==
  ASSUME \A d, e \in Events : d = e, IInv, WarmupOK, FreshInv,
         NEW e \in Events, NEW m \in Members, ReferencesChanged(e, m)
  PROVE  FreshInv'
<1> DEFINE j == Plain("references", m)
<1>1. /\ job[e] = NoJob /\ MaintenanceWarmed(e, j)
      /\ want' = [d \in Members |-> IF d \in WithDependents(m, Members) THEN want[d] + 1 ELSE want[d]]
      /\ owed' = [owed EXCEPT ![m] = want'[m]] \/ owed' = owed
      /\ UNCHANGED <<active, membersOf, switchGen, bases, staleIds, resolved, queue>>
  BY DEF ReferencesChanged
<1>2. /\ pc \in [Tasks -> Pcs] /\ job \in [Tasks -> Job] /\ e \in Tasks /\ e # "warm" /\ e # "head"
  BY NamesFact DEF IInv, TypeOK, TasksOK, Tasks
<1>3. \A n \in Members : want[n] = 1 /\ bases[n] \in {Unregistered, 1} /\ owed[n] = 1
  <2>1. ~Begun BY <1>1 DEF Begun
  <2> QED BY <2>1 DEF FreshInv, VersionsOK
<1>4. job'[e] = j /\ job'["head"] = job["head"] /\ pc'[e] \in {"warm", "invalidate", "idle"}
      /\ \A u \in Tasks \ {e, "warm"} : pc'[u] = pc[u]
  <2>1. CASE warmupFailed /\ ~throttled
    <3>1. StartWarmup(e, j, "warm") BY <1>1, <2>1 DEF MaintenanceWarmed
    <3>2. UNCHANGED <<active, membersOf>> BY <1>1
    <3> HIDE DEF j
    <3> QED BY <1>2, <3>1, <3>2, StartFresh, NamesFact
  <2>2. CASE ~(warmupFailed /\ ~throttled)
    <3>1. /\ job' = [job EXCEPT ![e] = j]
          /\ \E to \in {"warm", "invalidate", "idle"} : pc' = [pc EXCEPT ![e] = to]
      BY <1>1, <2>2 DEF MaintenanceWarmed, AfterWarm
    <3> QED BY <1>2, <3>1, NamesFact
  <2> QED BY <2>1, <2>2
<1>5. VersionsOK'
  <2>1. Begun' BY <1>4 DEF Begun, NoJob, Plain
  <2>2. \A n \in Members : want'[n] \in {1, 2} /\ owed'[n] \in {1, want'[n]}
    <3>1. owed \in [Members -> Nat] BY DEF IInv, TypeOK, CachesOK
    <3>2. \A n \in Members : want'[n] \in {1, 2} BY <1>1, <1>3
    <3>3. \A n \in Members : owed'[n] = owed[n] \/ owed'[n] = want'[n] BY <1>1, <3>1
    <3> QED BY <1>3, <3>2, <3>3
  <2> QED BY <1>1, <1>3, <2>1, <2>2 DEF VersionsOK
<1>6. NoOther' BY <1>1, <1>4 DEF FreshInv, NoOther
<1>9. OwedOK'
  <2>1. \A n \in Members : owed'[n] = 1 \/ n = m
    <3>1. owed \in [Members -> Nat] BY DEF IInv, TypeOK, CachesOK
    <3> QED BY <1>1, <1>3, <3>1
  <2>2. \A d \in Events : job'[d].arg = m BY <1>4 DEF Plain
  <2> QED BY <2>1, <2>2 DEF OwedOK
<1>7. CASE warmupFailed /\ ~throttled
  <2>1. StartWarmup(e, j, "warm") BY <1>1, <1>7 DEF MaintenanceWarmed
  <2>2. FreshOK' /\ pc'["warm"] = "bases" /\ \A u \in Tasks : scope'[u] = scope[u] \/ scope'[u] = Opened(active)
    BY <1>1, <1>2, <2>1, StartFresh
  <2>3. warmup = "rejected" BY <1>7 DEF WarmupOK
  <2>4. \A u \in Tasks : pc'[u] # "register"
    BY <1>2, <1>4, <2>2, <2>3, RefreshAlone DEF Refreshes
  <2>5. StoresOK' BY <2>4 DEF StoresOK
  <2>6. UnseenOK' BY <1>1, <2>2 DEF FreshInv, UnseenOK
  <2> QED BY <1>5, <1>6, <1>9, <2>2, <2>5, <2>6 DEF FreshInv
<1>8. CASE ~(warmupFailed /\ ~throttled)
  <2>1. /\ pc' = [pc EXCEPT ![e] = IF warmup = "running" THEN "warm" ELSE AfterWarm("references", warmup = "ok")]
        /\ UNCHANGED <<warmup, todo, scope>>
    BY <1>1, <1>8 DEF MaintenanceWarmed
  <2>2. AfterWarm("references", TRUE) = "invalidate" BY DEF AfterWarm
  <2>3. \/ warmup = "running" /\ pc'[e] = "warm"
        \/ warmup = "ok" /\ pc'[e] = "invalidate"
        \/ warmup = "rejected"
    BY <1>2, <2>1, <2>2 DEF IInv, TypeOK, WarmingOK
  <2>4. FreshOK' BY <2>1, <2>3 DEF FreshOK, Coming
  <2>5. \A u \in Tasks : pc'[u] = "register" => u # e /\ pc[u] = "register"
    BY <1>2, <1>4, <2>1
  <2>6. ASSUME NEW u \in Tasks, pc'[u] = "register" PROVE StoreOK(u)'
    <3>1. u = "warm" /\ warmup = "running" BY <1>1, <2>5, <2>6, RefreshAlone DEF Refreshes
    <3>2. pc'[e] = "warm" BY <2>3, <3>1
    <3>3. StoreOK(u) BY <2>5, <2>6 DEF FreshInv, StoresOK
    <3>4. resolved[u].member \in Members
      BY <3>3 DEF StoreOK, IInv, TypeOK, LocalsOK
    <3> QED BY <1>1, <1>3, <2>1, <3>2, <3>3, <3>4 DEF StoreOK
  <2>7. StoresOK' BY <2>6 DEF StoresOK
  <2>8. UnseenOK' BY <1>1, <2>1 DEF FreshInv, UnseenOK
  <2> QED BY <1>5, <1>6, <1>9, <2>4, <2>7, <2>8 DEF FreshInv
<1> QED BY <1>7, <1>8

LEMMA EnvironmentFresh ==
  ASSUME \A d, e \in Events : d = e, MaxSwitches \in {0, 1}, MaxInserts = 0, MaxRemoves = 0, MaxDisk = 0,
         IInv, WarmupOK, FreshInv, Environment
  PROVE  FreshInv'
<1>1. pc["head"] # "register" /\ queue \in Seq(Job)
  BY RefreshAlone, NamesFact DEF Refreshes, IInv, TypeOK, TasksOK
<1>2. ASSUME UNCHANGED <<active, membersOf, switchGen, want, bases, owed, staleIds, resolved, warmup, pc, job,
                         todo, scope>>,
             queue' = queue \/ \E x \in Job : queue' = Append(queue, x) /\ x.kind \in {"retry", "replace"}
      PROVE  FreshInv'
  <2>1. \A i \in DOMAIN queue' : queue'[i].kind \notin Invalidating
    <3>1. ASSUME NEW x \in Job, queue' = Append(queue, x), x.kind \in {"retry", "replace"},
                 NEW i \in DOMAIN queue'
          PROVE  queue'[i].kind \notin Invalidating
      <4>1. (i \in DOMAIN queue /\ queue'[i] = queue[i]) \/ queue'[i] = x BY <1>1, <3>1
      <4> QED BY <3>1, <4>1 DEF FreshInv, NoOther
    <3> QED BY <1>2, <3>1 DEF FreshInv, NoOther
  <2>2. NoOther' BY <1>2, <2>1 DEF FreshInv, NoOther
  <2> QED BY <1>1, <1>2, <2>2, NamesFact, MoveFresh
<1>3. CASE TimePasses \/ Dispose \/ \E m \in Members : CompileMember(m)
  BY <1>2, <1>3 DEF TimePasses, Dispose, CompileMember
<1>4. ASSUME NEW f \in Files, DidChange(f) PROVE FreshInv'
  <2> DEFINE x == [kind |-> "replace", arg |-> f, gen |-> replaceGen'[f]]
  <2>1. queue' = queue \/ (queue' = Append(queue, x) /\ replaceGen' = [replaceGen EXCEPT ![f] = @ + 1])
    BY <1>4 DEF DidChange
  <2>2. CASE queue' = queue BY <1>2, <1>4, <2>2 DEF DidChange
  <2>3. CASE queue' = Append(queue, x) /\ replaceGen' = [replaceGen EXCEPT ![f] = @ + 1]
    <3>1. replaceGen'[f] \in Nat BY <2>3 DEF IInv, TypeOK, CachesOK
    <3>2. x \in Job /\ x.kind = "replace" BY <3>1 DEF Job
    <3> HIDE DEF x
    <3> QED BY <1>2, <1>4, <2>3, <3>2 DEF DidChange
  <2> QED BY <2>1, <2>2, <2>3
<1>5. ASSUME NEW r \in Readers, Request(r) PROVE FreshInv'
  <2>1. Plain("retry", NoSolution) \in Job /\ Plain("retry", NoSolution).kind = "retry" BY DEF Job
  <2>2. queue' = queue \/ queue' = Append(queue, Plain("retry", NoSolution)) BY <1>5 DEF Request
  <2> QED BY <1>2, <1>5, <2>1, <2>2 DEF Request
<1>6. ASSUME NEW f \in Files, DiskChange(f) PROVE FALSE
  BY <1>6 DEF DiskChange, IInv, TypeOK, WorldOK
<1>7. ASSUME NEW m \in Members, InsertMember(m) \/ RemoveMember(m) PROVE FALSE
  BY <1>7 DEF InsertMember, RemoveMember, IInv, TypeOK, WorldOK
<1>8. ASSUME NEW e \in Events, NEW m \in Members, ReferencesChanged(e, m) PROVE FreshInv'
  BY <1>8, ReferencesFresh
<1>9. ASSUME NEW s \in Scopes, SwitchSolution(s) PROVE FreshInv'
  <2> DEFINE x == [kind |-> "start", arg |-> NoSolution, gen |-> switchGen + 1]
  <2> DEFINE y == [kind |-> "switch", arg |-> NoSolution, gen |-> switchGen + 1]
  <2>1. /\ active' = s /\ switchGen' = switchGen + 1 /\ queue' = queue \o <<x, y>>
        /\ UNCHANGED <<membersOf, want, bases, owed, staleIds, resolved, warmup, pc, job, todo, scope>>
    BY <1>9 DEF SwitchSolution
  <2>2. switchGen = 0 /\ switchGen' = 1 BY <1>9, <2>1 DEF SwitchSolution, IInv, TypeOK, GraphOK
  <2>3. x \in Job /\ y \in Job /\ x.kind \notin Invalidating /\ y.kind \notin Invalidating
    BY <2>2, JobTypes DEF IInv, TypeOK, GraphOK
  <2>4. \A i \in DOMAIN queue' : queue'[i].kind \notin Invalidating
    <3> HIDE DEF x, y
    <3> SUFFICES ASSUME NEW i \in DOMAIN queue' PROVE queue'[i].kind \notin Invalidating
      OBVIOUS
    <3>1. (i \in DOMAIN queue /\ queue'[i] = queue[i]) \/ queue'[i] \in {x, y} BY <1>1, <2>1, <2>3
    <3> QED BY <2>3, <3>1 DEF FreshInv, NoOther
  <2>5. NoOther' BY <2>1, <2>4 DEF FreshInv, NoOther
  <2>6. ASSUME NEW m \in membersOf[s] PROVE Rebased(m)' \/ Coming(m)'
    <3>1. m \in Members BY DEF IInv, TypeOK, WorldOK
    <3>2. CASE m \in Opened(active)
      <4>1. Rebased(m) \/ Coming(m) BY <3>2 DEF FreshInv, FreshOK
      <4> QED BY <2>1, <4>1 DEF Rebased, Coming
    <3>3. CASE m \notin Opened(active) BY <2>1, <2>2, <3>1, <3>3 DEF FreshInv, UnseenOK, Rebased
    <3> QED BY <3>2, <3>3
  <2>7. FreshOK' BY <2>1, <2>6 DEF FreshOK
  <2>8. VersionsOK' BY <2>1 DEF FreshInv, VersionsOK, Begun
  <2>9. StoresOK' BY <2>1 DEF FreshInv, StoresOK, StoreOK
  <2>10. UnseenOK' BY <2>2 DEF UnseenOK
  <2>11. OwedOK' BY <2>1 DEF FreshInv, OwedOK, Waits
  <2> QED BY <2>5, <2>7, <2>8, <2>9, <2>10, <2>11 DEF FreshInv
<1> QED BY <1>3, <1>4, <1>5, <1>6, <1>7, <1>8, <1>9 DEF Environment

LEMMA FreshStep ==
  ASSUME \A d, e \in Events : d = e, MaxSwitches \in {0, 1}, MaxInserts = 0, MaxRemoves = 0, MaxDisk = 0,
         MaxReadFailures = 0, IInv, WarmupOK, FreshInv, [Next]_vars
  PROVE  FreshInv'
<1>1. CASE UNCHANGED vars
  BY <1>1 DEF vars, FreshInv, FreshOK, Rebased, Coming, VersionsOK, Begun, OwedOK, Waits, StoresOK,
              StoreOK, NoOther, UnseenOK
<1> QED BY <1>1, StepFresh, DequeueFresh, EnvironmentFresh DEF Next

LEMMA RestedFresh == ASSUME IInv, FreshInv PROVE EvictedRefreshed
<1> SUFFICES ASSUME Quiescent, warmup = "ok", NEW m \in Opened(active) PROVE Rebased(m)
  BY DEF EvictedRefreshed, Rests, Rebased
<1>1. ~Coming(m) BY NamesFact DEF Coming, Quiescent, Tasks
<1> QED BY <1>1 DEF FreshInv, FreshOK
------------------------------------------------------------------------------
(* The theorems.                                                            *)

(* The inductive step: types and control. *)
LEMMA StepIInv == IInv /\ [Next]_vars => IInv'
<1> SUFFICES ASSUME IInv, [Next]_vars PROVE IInv'
  OBVIOUS
<1>1. TypeOK' BY TypeStep
<1>2. Control'
  <2>1. CASE Dequeue BY <2>1, DequeueControl
  <2>2. ASSUME NEW t \in Tasks, Step(t) PROVE Control' BY <2>2, StepControl
  <2>3. CASE Environment BY <2>3, EnvironmentControl
  <2>4. CASE UNCHANGED vars
    BY <2>4 DEF vars, Control, IInv, PcOK, NoWarmQueued, BuildingHasSettler
  <2> QED BY <2>1, <2>2, <2>3, <2>4 DEF Next
<1> QED BY <1>1, <1>2 DEF IInv, Control

(* The inductive invariant: types, the await each kind of task can stand   *)
(* at, no warmup on the queue, and a settler for every Building.            *)
THEOREM Invariance == Spec => []IInv
<1> QED BY InitIInv, StepIInv, PTL DEF Spec

(* Every variable keeps its type, whatever the solutions, members, files    *)
(* and readers are and however often each event occurs.                     *)
THEOREM TypeCorrect == Spec => []TypeOK
<1>1. IInv => TypeOK BY DEF IInv
<1> QED BY Invariance, <1>1, PTL

(* A service reporting Building is never stranded: the full build of the    *)
(* latest generation is queued or running (RewireMembers, SettleBuild).     *)
THEOREM NeverStranded == Spec => []BuildingHasSettler
<1>1. IInv => BuildingHasSettler BY DEF IInv
<1> QED BY Invariance, <1>1, PTL

(* After dispose() no task in flight writes the graph or the build state.   *)
THEOREM DisposedInert == Spec => DisposedIsInert
<1>1. [Next]_vars => [disposed => UNCHANGED <<graph, graphMembers, buildState>>]_vars
  <2> SUFFICES ASSUME [Next]_vars, disposed PROVE UNCHANGED <<graph, graphMembers, buildState>>
    OBVIOUS
  <2>1. ASSUME NEW t \in Tasks, Step(t) PROVE UNCHANGED <<graph, graphMembers, buildState>>
    BY <2>1 DEF Step, WarmupRejects, Sweep, ResolveRetry, Invalidate, ReadStale, ResolveBases, Register, DropStale, RefreshFails, Assemble, ReadSources, AssembleFails, Build, SettleSwitch, SettleWarmup, FindOwner, CheckLoaded, ReadOwnerSources, ReadOwnerSourcesFails, ReplaceFile, ReplaceMember,
       SettleBuild
  <2>2. CASE Environment
    BY <2>2 DEF Environment, TimePasses, Dispose, DidChange, DiskChange, SwitchSolution,
       InsertMember, RemoveMember, CompileMember, ReferencesChanged, Request
  <2>3. CASE Dequeue BY <2>3 DEF Dequeue
  <2>4. CASE UNCHANGED vars BY <2>4 DEF vars
  <2> QED BY <2>1, <2>2, <2>3, <2>4 DEF Next
<1> QED BY <1>1, PTL DEF Spec, DisposedIsInert

(* While the queued retry of a direct read waits for its attempt, no change *)
(* of references is in the middle of a rebuild: its handler waits for a      *)
(* warmup that succeeds, and the attempt follows one that failed.           *)
THEOREM RetryAlone == Spec => []RetryRunsAlone
<1>1. IInv /\ WarmupOK => RetryRunsAlone
  <2> SUFFICES ASSUME IInv, WarmupOK, pc["head"] = "warm", NEW t \in Tasks \ {"warm"}
               PROVE pc[t] # "read"
    BY DEF RetryRunsAlone
  <2>1. warmup = "running" BY NamesFact DEF WarmupOK
  <2> QED BY <2>1 DEF WarmupOK, Tasks
<1>2. Spec => []WarmupOK
  <2>1. IInv /\ WarmupOK /\ [Next]_vars => WarmupOK' BY StepWarmupOK
  <2> QED BY <2>1, InitWarmup, Invariance, PTL DEF Spec
<1> QED BY <1>1, <1>2, Invariance, PTL

(* Where references do not change, Ready is only ever said of a graph that  *)
(* the last full build assembled from the active solution: whatever the     *)
(* interleaving of switches, keystrokes, refused revisions, membership      *)
(* changes, failing reads and warmups, the generation a full build captured *)
(* keeps it from settling another's state.                                  *)
THEOREM ReadyTrue == ASSUME Events = {} PROVE Spec => []ReadyIsActive
<1>1. IInv /\ ActiveInv /\ ErrorOK /\ [Next]_vars => ActiveInv' /\ ErrorOK' BY StepActive, StepError
<1>2. ActiveInv /\ ErrorOK => ReadyIsActive BY DEF ActiveInv, GraphActive, ErrorOK, ReadyIsActive
<1> QED BY <1>1, <1>2, InitActive, InitError, Invariance, PTL DEF Spec

(* Where references and the disk do not change and no awaited read fails, a *)
(* service at rest that is warm and Ready holds the latest text of every    *)
(* file of every member of the active solution, and nothing else, but for a *)
(* file with a revision that did not load, until it is loaded again:        *)
(* whatever the interleaving of keystrokes, switches, members opened and    *)
(* closed, failed attempts, retries and repairs, and whichever texts do not *)
(* load together (DidChange, MaintainMember, ReplaceOwningFile,             *)
(* RepairFailedReplace, RebuildGraphSafely).                                *)
THEOREM KeptInStep ==
  ASSUME Events = {}, MaxReadFailures = 0, MaxDisk = 0 PROVE Spec => []InStep
<1> DEFINE Inv == ActiveInv /\ KnownOK /\ ErrorOK /\ KeepsUp
<1>1. Init => Inv BY InitActive, InitError, InitKeepsUp
<1>2. IInv /\ Inv /\ [Next]_vars => Inv' BY StepActive, KnownStep, StepError, KeepsUpStep
<1>3. IInv /\ Inv => InStep BY KeptUp DEF ActiveInv
<1> QED BY <1>1, <1>2, <1>3, Invariance, PTL DEF Spec

(* Where at most one project's references change and the solution switches  *)
(* at most once, with no other maintenance of a member and no failing read, *)
(* a warm service at rest does not hold, for an open member that changed or *)
(* was evicted with a base the resolver has on record, the bases of before: *)
(* whatever attempts were rejected meanwhile (InvalidateMember,             *)
(* RefreshStaleMembers, RefreshWarmBases).                                  *)
THEOREM KeptFresh ==
  ASSUME \A d, e \in Events : d = e, MaxSwitches \in {0, 1}, MaxInserts = 0, MaxRemoves = 0,
         MaxDisk = 0, MaxReadFailures = 0
  PROVE  Spec => []EvictedRefreshed
<1>1. Init => WarmupOK /\ FreshInv BY InitWarmup, InitFresh
<1>2. IInv /\ (WarmupOK /\ FreshInv) /\ [Next]_vars => (WarmupOK /\ FreshInv)'
  BY StepWarmupOK, FreshStep
<1>3. IInv /\ WarmupOK /\ FreshInv => EvictedRefreshed BY RestedFresh
<1> QED BY <1>1, <1>2, <1>3, Invariance, PTL DEF Spec
==============================================================================
