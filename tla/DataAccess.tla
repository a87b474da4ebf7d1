------------------------------ MODULE DataAccess ------------------------------
(***************************************************************************)
(* The instances of a model that live in external sources: read by the     *)
(* federated connector, edited in a working copy, flushed back, and shown  *)
(* to the application by a ModelDataSource.                                *)
(*                                                                         *)
(* A target is one row of one source, reached through one binding.  Rows   *)
(* that resolve to one entity have one owner, the instance.  A value is    *)
(* the clock of the write that made it.  A step is what runs between two   *)
(* awaits; another writer may change a row at any of them.  The order of   *)
(* batches and of operations inside one is left open.                      *)
(***************************************************************************)
EXTENDS Naturals, FiniteSets, FiniteSetsExt

CONSTANTS Targets, Instances, Bindings,
          Plans,        \* connector plans a behaviour starts from
          MaxWrites,    \* edits and writes of others, in all
          MaxFaults,    \* failures of an adapter, in all
          MaxReads,     \* materializations, in all
          Overlaps,     \* what may happen during a flush, subsets of {"edit", "refresh"}
          None

VARIABLES plan,      \* owner and binding of a target, and the axes of bindings
          row,       \* row[t] : what the source holds, or None
          clock, faults,
          node,      \* node[i] : attributes and version of the instance, or None
          writeTargets, \* writeTargets[i] : the targets it was drawn from
          pending,   \* pending[i] : the operation recorded, or None
          flush,     \* the Flush under way
          read,      \* the Prepare or Refresh under way
          built,     \* how many documents were built: the current one's number
          graph,     \* the document the data source reflects
          entities,  \* the document its cached handles read, or None
          shown,     \* the document the subscriber's handles read
          seen,      \* seen[t] : the row as last read or written there
          mark,      \* mark[i] : when the instance was last marked
          owed,      \* targets whose last mark no write has answered
          meanwhile  \* what happens during a flush in this behaviour

copy == <<node, writeTargets, pending>>
source == <<graph, entities, shown>>
ghosts == <<seen, mark, owed>>
vars == <<plan, row, clock, faults, copy, flush, read, built, source, ghosts,
          meanwhile>>

(* Every row has one owner and one binding, and no value is none of the    *)
(* values it stands beside.                                                *)
CopyAssumption ==
    /\ IsFiniteSet(Targets) /\ MaxWrites \in Nat
    /\ None \notin Targets \cup [val : Nat, ver : Nat] \cup {"upsert", "delete"}
    /\ \A p \in Plans : /\ p.owner \in [Targets -> Instances]
                         /\ p.binding \in [Targets -> Bindings]

TargetsOf(i) == {t \in Targets : plan.owner[t] = i}
Writable(t) == plan.binding[t] \in plan.writable
Optimistic(b) == b \in plan.optimistic
Transactional(b) == b \in plan.transactional

NoFlush == [at |-> "idle", todo |-> {}, batch |-> {}, left |-> {},
            applied |-> {}, failed |-> {}, retained |-> {}]
NoRead == [at |-> "idle", left |-> {}, got |-> [t \in Targets |-> None]]

Init ==
    /\ plan \in Plans
    /\ row = [t \in Targets |-> [val |-> 0, ver |-> 1]]
    /\ clock = 0 /\ faults = 0
    /\ node = [i \in Instances |-> None]
    /\ writeTargets = [i \in Instances |-> {}]
    /\ pending = [i \in Instances |-> None]
    /\ flush = NoFlush
    /\ read = NoRead
    /\ built = 0
    /\ graph = 0 /\ entities = None /\ shown = 0
    /\ seen = [t \in Targets |-> None]
    /\ mark = [i \in Instances |-> 0]
    /\ owed = {}
    /\ meanwhile \in Overlaps

-------------------------------------------------------------------------------
(* Another writer, through an adapter of its own: versions only grow, also *)
(* over those of writes whose answer was lost.                             *)
OtherWrites(t) ==
    /\ clock < MaxWrites
    /\ clock' = clock + 1
    /\ \/ row' = [row EXCEPT ![t] =
                     [val |-> clock', ver |-> IF @ = None THEN clock' + faults + 1 ELSE @.ver + 1]]
       \/ row[t] # None /\ row' = [row EXCEPT ![t] = None]
    /\ UNCHANGED <<plan, faults, copy, flush, read, built, source, ghosts,
                   meanwhile>>

-------------------------------------------------------------------------------
(* The working copy                                                        *)

(* The caller edits the instance, unless it deletes it, and the operation  *)
(* is recorded; it is refused when no binding of the instance is writable. *)
Record(i, kind) ==
    /\ node[i] # None
    /\ clock < MaxWrites
    /\ flush.at = "idle" \/ "edit" \in meanwhile
    /\ \E t \in writeTargets[i] : Writable(t)
    /\ clock' = clock + 1
    /\ node' = IF kind = "upsert" THEN [node EXCEPT ![i].val = clock'] ELSE node
    /\ pending' = [pending EXCEPT ![i] = kind]
    /\ mark' = [mark EXCEPT ![i] = clock']
    /\ owed' = owed \cup {t \in writeTargets[i] : Writable(t)}
    /\ UNCHANGED <<plan, row, faults, writeTargets, flush, read, built, source, seen,
                   meanwhile>>

OperationFor(t) ==
    LET i == plan.owner[t]
    IN [key |-> t, kind |-> pending[i], val |-> node[i].val, ver |-> node[i].ver,
        seen |-> seen[t], mark |-> mark[i]]

(* The operations of a flush, one batch for each writable binding. *)
Batches ==
    LET keys == {t \in UNION {writeTargets[i] : i \in {j \in Instances : pending[j] # None}} :
                    Writable(t)}
    IN {{OperationFor(t) : t \in {u \in keys : plan.binding[u] = b}} :
           b \in {plan.binding[u] : u \in keys}}

(* What stays pending when the flush ends. *)
Kept(retained) ==
    [i \in Instances |-> IF node[i] # None /\ writeTargets[i] \cap retained # {}
                         THEN pending[i] ELSE None]

StartFlush ==
    /\ flush.at = "idle"
    /\ read.at = "idle" \/ "refresh" \in meanwhile
    /\ \E i \in Instances : pending[i] # None
    /\ IF Batches = {}
       THEN pending' = Kept({}) /\ UNCHANGED flush
       ELSE flush' = [NoFlush EXCEPT !.at = "next", !.todo = Batches] /\ UNCHANGED pending
    /\ UNCHANGED <<plan, row, clock, faults, node, writeTargets, read, built, source,
                   ghosts, meanwhile>>

(* The adapter of the next binding is opened. *)
NextBatch(ops) ==
    /\ flush.at = "next"
    /\ ops \in flush.todo
    /\ flush' = [flush EXCEPT !.at = "apply", !.todo = @ \ {ops}, !.batch = ops,
                              !.left = ops, !.applied = {}, !.failed = {}]
    /\ UNCHANGED <<plan, row, clock, faults, copy, read, built, source, ghosts,
                   meanwhile>>

BindingOf(op) == plan.binding[op.key]

Unguarded(op) == TRUE

(* Whether the guard of an upsert finds the version it expects.  A row     *)
(* that is not there is inserted, and a delete has no guard.               *)
Matches(op) ==
    \/ op.kind = "delete" \/ ~Optimistic(BindingOf(op))
    \/ row[op.key] = None
    \/ row[op.key] # None /\ row[op.key].ver = op.ver

(* The row after the operation: a guarded upsert bumps the version. *)
Written(op) ==
    IF op.kind = "delete" THEN None
    ELSE [val |-> op.val,
          ver |-> IF Optimistic(BindingOf(op)) THEN op.ver + 1
                  ELSE IF row[op.key] = None THEN op.ver ELSE row[op.key].ver]

Write(ops) ==
    row' = [t \in Targets |-> IF \E op \in ops : op.key = t
                              THEN Written(CHOOSE op \in ops : op.key = t) ELSE row[t]]

(* What the ghosts learn from operations the source confirmed. *)
Confirm(ops) ==
    /\ seen' = [t \in Targets |-> IF \E op \in ops : op.key = t THEN row'[t] ELSE seen[t]]
    /\ owed' = owed \ {op.key : op \in {o \in ops : mark[plan.owner[o.key]] = o.mark}}
    /\ UNCHANGED mark

(* Opening the adapter throws, or committing a transaction, whether it was *)
(* committed or not: every operation of the batch fails.                   *)
BatchThrows ==
    /\ flush.at = "apply"
    /\ flush.left = flush.batch
    /\ faults < MaxFaults
    /\ faults' = faults + 1
    /\ \/ UNCHANGED row
       \/ /\ \A op \in flush.batch : /\ Transactional(BindingOf(op))
                                      /\ BindingOf(op) \in plan.transacts
                                      /\ Matches(op)
          /\ Write(flush.batch)
    /\ flush' = [flush EXCEPT !.at = "done", !.left = {}, !.failed = flush.batch]
    /\ UNCHANGED <<plan, clock, copy, read, built, source, ghosts, meanwhile>>

(* A sequential batch goes on after a failed operation. *)
ApplyOne(op) ==
    LET rest == IF flush.left = {op} THEN "done" ELSE "apply"
    IN /\ flush.at = "apply"
       /\ op \in flush.left
       /\ ~Transactional(BindingOf(op))
       /\ \/ /\ Matches(op)
             /\ Write({op})
             /\ Confirm({op})
             /\ flush' = [flush EXCEPT !.at = rest, !.left = @ \ {op},
                                       !.applied = @ \cup {op}]
             /\ UNCHANGED faults
          \/ /\ ~Matches(op)
             /\ flush' = [flush EXCEPT !.at = rest, !.left = @ \ {op},
                                       !.failed = @ \cup {op}]
             /\ UNCHANGED <<row, faults, ghosts>>
          \/ /\ faults < MaxFaults          \* an error, with or without effect
             /\ faults' = faults + 1
             /\ flush' = [flush EXCEPT !.at = rest, !.left = @ \ {op},
                                       !.failed = @ \cup {op}]
             /\ \/ UNCHANGED row
                \/ Matches(op) /\ Write({op})
             /\ UNCHANGED ghosts
       /\ UNCHANGED <<plan, clock, copy, read, built, source, meanwhile>>

(* A transactional batch commits when every operation succeeds, and tells  *)
(* only the operations that failed when it does not; a backend without     *)
(* transactions refuses it.                                                *)
ApplyTransactional ==
    LET ops == flush.batch
        clash == {op \in ops : ~Matches(op)}
    IN /\ flush.at = "apply"
       /\ \A op \in ops : Transactional(BindingOf(op))
       /\ \/ /\ \A op \in ops : BindingOf(op) \in plan.transacts
             /\ clash = {}
             /\ Write(ops)
             /\ Confirm(ops)
             /\ flush' = [flush EXCEPT !.at = "done", !.left = {}, !.applied = ops]
             /\ UNCHANGED faults
          \/ /\ \A op \in ops : BindingOf(op) \in plan.transacts
             /\ \E bad \in SUBSET ops :
                   /\ bad # clash => faults < MaxFaults
                   /\ faults' = IF bad = clash THEN faults ELSE faults + 1
                   /\ clash \subseteq bad /\ bad # {}
                   /\ flush' = [flush EXCEPT !.at = "done", !.left = {}, !.failed = bad]
             /\ UNCHANGED <<row, ghosts>>
          \/ /\ \A op \in ops : BindingOf(op) \notin plan.transacts
             /\ flush' = [flush EXCEPT !.at = "done", !.left = {}, !.failed = ops]
             /\ UNCHANGED <<row, faults, ghosts>>
       /\ UNCHANGED <<plan, clock, copy, read, built, source, meanwhile>>

(* The versions the source reports go to instances with a single target.   *)
AdoptVersions ==
    node' = [i \in Instances |->
        IF node[i] = None \/ Cardinality(writeTargets[i]) # 1 THEN node[i]
        ELSE LET mine == {op \in flush.applied : op.key \in writeTargets[i]
                                /\ op.kind = "upsert" /\ Optimistic(BindingOf(op))}
             IN IF mine = {} THEN node[i]
                ELSE [node[i] EXCEPT !.ver = (CHOOSE op \in mine : TRUE).ver + 1]]

RetainedReported == {op.key : op \in flush.failed}

(* The targets whose edit survives: those that failed, and all of a        *)
(* transaction that applied nothing.                                       *)
Retained ==
    LET rolledBack == /\ \E op \in flush.batch : Transactional(BindingOf(op))
                      /\ flush.applied = {}
    IN {op.key : op \in IF rolledBack THEN flush.batch ELSE flush.failed}

BatchDone ==
    LET retained == flush.retained \cup Retained
    IN /\ flush.at = "done"
       /\ AdoptVersions
       /\ IF flush.todo # {}
          THEN /\ flush' = [NoFlush EXCEPT !.at = "next", !.todo = flush.todo,
                                           !.retained = retained]
               /\ UNCHANGED pending
          ELSE flush' = NoFlush /\ pending' = Kept(retained)
       /\ UNCHANGED <<plan, row, clock, faults, writeTargets, read, built, source,
                      ghosts, meanwhile>>

-------------------------------------------------------------------------------
(* Prepare and Refresh: every binding is queried, then what was read is    *)
(* resolved into a new document.                                           *)

StartRead ==
    /\ read.at = "idle"
    /\ flush.at = "idle" \/ "refresh" \in meanwhile
    /\ built < MaxReads
    /\ read' = [NoRead EXCEPT !.at = "query", !.left = Bindings]
    /\ UNCHANGED <<plan, row, clock, faults, copy, flush, built, source, ghosts,
                   meanwhile>>

QueryBinding(b) ==
    /\ read.at = "query"
    /\ b \in read.left
    /\ read' = [at |-> IF read.left = {b} THEN "audit" ELSE "query",
                left |-> read.left \ {b},
                got |-> [t \in Targets |-> IF plan.binding[t] = b THEN row[t] ELSE read.got[t]]]
    /\ UNCHANGED <<plan, row, clock, faults, copy, flush, built, source, ghosts,
                   meanwhile>>

(* A query, the resolution or the audit sink throws: nothing has changed. *)
ReadFails ==
    /\ read.at # "idle"
    /\ faults < MaxFaults
    /\ faults' = faults + 1
    /\ read' = NoRead
    /\ UNCHANGED <<plan, row, clock, copy, flush, built, source, ghosts, meanwhile>>

(* The rows an instance is drawn from. *)
Drawn(got, i) == {t \in TargetsOf(i) : got[t] # None}

Surviving(got, i) == IF Drawn(got, i) = {} THEN None ELSE pending[i]

NodeFrom(got, v, w) == IF v = None THEN None
                       ELSE [val |-> got[v].val, ver |-> IF w = None THEN 0 ELSE got[w].ver]

(* Rebind: the working copy takes the new nodes and targets, and drops an  *)
(* operation whose instance is gone.  An instance drawn from several rows  *)
(* takes each attribute from one of them; only a source with a version     *)
(* column has a version.                                                   *)
Rebind(got) ==
    LET drawn(i) == Drawn(got, i)
        versioned(i) == {t \in drawn(i) : Optimistic(plan.binding[t])}
    IN /\ \E v, w \in [Instances -> Targets \cup {None}] :
             /\ \A i \in Instances :
                   /\ IF drawn(i) = {} THEN v[i] = None ELSE v[i] \in drawn(i)
                   /\ IF versioned(i) = {} THEN w[i] = None ELSE w[i] \in versioned(i)
             /\ node' = [i \in Instances |-> NodeFrom(got, v[i], w[i])]
       /\ writeTargets' = [i \in Instances |-> drawn(i)]
       /\ pending' = [i \in Instances |-> Surviving(got, i)]
       /\ seen' = got
       /\ owed' = owed \cap UNION {drawn(i) : i \in Instances}
       /\ UNCHANGED mark

(* loadDocument replaces the graph and emits DataChanged; the subscriber   *)
(* re-reads the instances through the handles that are cached.  A refresh  *)
(* then clears the cache, a first Prepare finds it empty.                  *)
Handle == IF entities = None THEN graph ELSE entities
Clears == built # 0

Land ==
    /\ read.at = "audit"
    /\ Rebind(read.got)
    /\ read' = NoRead
    /\ built' = built + 1
    /\ graph' = built'
    /\ shown' = IF entities = None THEN built' ELSE entities
    /\ entities' = IF Clears THEN None ELSE shown'
    /\ UNCHANGED <<plan, row, clock, faults, flush, meanwhile>>

(* The application reads an instance: the handle is cached. *)
ReadInstances ==
    /\ graph # 0
    /\ entities' = Handle
    /\ entities' # entities
    /\ UNCHANGED <<plan, row, clock, faults, copy, flush, read, built, graph, shown,
                   ghosts, meanwhile>>

Next ==
    \/ \E t \in Targets : OtherWrites(t)
    \/ \E i \in Instances, kind \in {"upsert", "delete"} : Record(i, kind)
    \/ StartFlush
    \/ \E ops \in flush.todo : NextBatch(ops)
    \/ BatchThrows
    \/ \E op \in flush.left : ApplyOne(op)
    \/ ApplyTransactional
    \/ BatchDone
    \/ StartRead
    \/ \E b \in Bindings : QueryBinding(b)
    \/ ReadFails
    \/ Land
    \/ ReadInstances

Spec == Init /\ [][Next]_vars

-------------------------------------------------------------------------------
(* The shape of the state. *)
TypeOK ==
    /\ \A t \in Targets : row[t] # None => row[t].val \in 0..MaxWrites /\ row[t].ver \in Nat
    /\ \A i \in Instances : node[i] # None <=> writeTargets[i] # {}
    /\ \A i \in Instances : /\ pending[i] \in {None, "upsert", "delete"}
                            /\ pending[i] # None => node[i] # None
    /\ flush.at \in {"idle", "next", "apply", "done"}
    /\ flush.left \subseteq flush.batch
    /\ flush.applied \cap flush.failed = {}
    /\ read.at \in {"idle", "query", "audit"}
    /\ owed \subseteq Targets

(* An edit that no source has confirmed stays pending: a failed operation, *)
(* one whose answer was lost and every operation of a transaction that was *)
(* rolled back are flushed again, until a refresh finds the instance gone. *)
(* Edits are recorded while no flush is under way.                         *)
UnwrittenStaysPending ==
    "edit" \notin meanwhile => \A t \in owed : pending[plan.owner[t]] # None

Single(op) == Cardinality({t \in Targets : plan.owner[t] = plan.owner[op.key]}) = 1
Guarded(op) == op.kind = "upsert" /\ Optimistic(BindingOf(op)) /\ Single(op)

(* An optimistic write replaces a row only when the row holds what the     *)
(* working copy had last read or written there when the flush began: a     *)
(* change of another writer is never overwritten unseen.  The instance is  *)
(* drawn from one row, the row is there, and no refresh lands in a flush.  *)
NoLostUpdate ==
    [][meanwhile = {} => \A op \in flush.left \ flush'.left :
          (Guarded(op) /\ row[op.key] # None /\ row'[op.key] # row[op.key])
             => row[op.key] = op.seen]_vars

(* A guarded write conflicts only with a change the copy has not seen: its *)
(* own writes, whose versions it adopts, never stand in its way.           *)
OnlyForeignConflicts ==
    [][meanwhile = {} => \A op \in flush'.failed \ flush.failed :
          (Guarded(op) /\ faults' = faults /\ BindingOf(op) \in plan.transacts)
             => row[op.key] # op.seen]_vars

(* A cached handle reads the graph the source now reflects. *)
HandlesCurrent == entities \in {None, graph}

===============================================================================
