--------------------------- MODULE DataAccessProofs ---------------------------
(***************************************************************************)
(* What holds of a working copy and its sources, for any rows, instances,  *)
(* bindings, plans and bounds: an edit no source has answered is flushed   *)
(* again, a guarded write replaces only what the copy has seen, and a      *)
(* cached handle reads the document in force.                              *)
(***************************************************************************)
EXTENDS DataAccess, FiniteSetTheorems, TLAPS

(***************************************************************************)
(* The shape of a flush.                                                    *)
(***************************************************************************)

Row == [val : Nat, ver : Nat]
Operation == [key : Targets, kind : {"upsert", "delete"}, val : Nat, ver : Nat,
              seen : Row \cup {None}, mark : Nat]

(* The operations of the flush under way, those no source has confirmed, and *)
(* the targets whose edit may still be flushed again.                        *)
Begun == (UNION flush.todo) \cup flush.batch
Unanswered == (UNION flush.todo) \cup (flush.batch \ flush.applied)
Keys(ops) == {op.key : op \in ops}
Open == Keys(Unanswered) \cup flush.retained

Values ==
    /\ plan \in Plans /\ clock \in Nat /\ faults \in Nat
    /\ row \in [Targets -> Row \cup {None}] /\ seen \in [Targets -> Row \cup {None}]
    /\ node \in [Instances -> Row \cup {None}]
    /\ pending \in [Instances -> {None, "upsert", "delete"}]
    /\ mark \in [Instances -> Nat]
    /\ \A i \in Instances :
          /\ writeTargets[i] \subseteq TargetsOf(i)
          /\ node[i] = None <=> writeTargets[i] = {}
          /\ pending[i] # None => node[i] # None
    /\ writeTargets = [i \in Instances |-> writeTargets[i]]
    /\ owed \subseteq Targets

Reading ==
    /\ read = [at |-> read.at, left |-> read.left, got |-> read.got]
    /\ read.at \in {"idle", "query", "audit"}
    /\ read.got \in [Targets -> Row \cup {None}]

(* How far the batch is: one in a transaction is answered as a whole, and in   *)
(* the end what no source has confirmed is kept.                             *)
Progress ==
    /\ flush.left \cup flush.applied \cup flush.failed \subseteq flush.batch
    /\ flush.left \cap flush.applied = {} /\ flush.left \cap flush.failed = {}
    /\ flush.applied \cap flush.failed = {}
    /\ flush.at = "apply" =>
          /\ flush.batch = flush.left \cup flush.applied \cup flush.failed
          /\ \A op \in flush.batch : Transactional(BindingOf(op)) => flush.left = flush.batch
    /\ flush.at = "done" => flush.left = {} /\ Retained = Keys(flush.batch \ flush.applied)

(* A batch is of one binding and a binding has one batch.                    *)
Flushing ==
    /\ flush = [at |-> flush.at, todo |-> flush.todo, batch |-> flush.batch,
                left |-> flush.left, applied |-> flush.applied,
                failed |-> flush.failed, retained |-> flush.retained]
    /\ flush.at \in {"idle", "next", "apply", "done"}
    /\ flush.at = "idle" => flush = NoFlush
    /\ flush.at = "next" => flush.batch = {} /\ flush.left = {} /\ flush.applied = {}
                            /\ flush.failed = {}
    /\ Begun \subseteq Operation
    /\ \A op \in Begun : Writable(op.key)
    /\ \A op, o \in Begun : op.key = o.key => op = o
    /\ \A A \in flush.todo \cup {flush.batch} : \A op, o \in A : BindingOf(op) = BindingOf(o)
    /\ \A A \in flush.todo : \A op \in A, o \in flush.batch : BindingOf(op) # BindingOf(o)
    /\ \A A, B \in flush.todo : \A op \in A, o \in B : BindingOf(op) = BindingOf(o) => A = B
    /\ flush.retained \cap Keys(Begun) = {}
    /\ Progress

(***************************************************************************)
(* What is owed.                                                            *)
(***************************************************************************)

(* Without edits during a flush: an operation begun is the last marked, and   *)
(* a target whose edit no source has confirmed is still to be flushed.       *)
Remembered ==
    "edit" \notin meanwhile =>
        /\ \A op \in Begun : op.mark = mark[plan.owner[op.key]]
        /\ \A t \in owed : /\ Writable(t) /\ t \in writeTargets[plan.owner[t]]
                           /\ pending[plan.owner[t]] # None
                           /\ flush.at # "idle" => t \in Open

(***************************************************************************)
(* What the copy knows of the versions.                                     *)
(***************************************************************************)

(* A row that is an instance by itself, of a source with versions.           *)
Lone(t) == TargetsOf(plan.owner[t]) = {t} /\ Optimistic(plan.binding[t])

(* The version the copy believes the row to have, once it has adopted those   *)
(* of the operations confirmed.                                              *)
Known(t) ==
    IF \E op \in flush.applied : op.key = t /\ op.kind = "upsert"
    THEN node[plan.owner[t]].ver + 1 ELSE node[plan.owner[t]].ver

(* Versions are bounded by what has happened, less one for an edit that is    *)
(* still to be written.                                                      *)
Credit(t) ==
    IF pending[plan.owner[t]] # None /\ (flush.at = "idle" \/ t \in Open) THEN 1 ELSE 0
Bound(t) == (clock + faults + 2) - Credit(t)

(* A version v held with the row r as it was then, where the bound is b and   *)
(* the row is now x: the row has this version only if it has not changed.    *)
Agree(x, b, v, r) ==
    /\ v <= b
    /\ x = None => v + 1 <= b
    /\ x # None => v <= x.ver /\ (x.ver = v => x = r)

Versioned(t) ==
    /\ row[t] # None => row[t].ver <= Bound(t)
    /\ t \in writeTargets[plan.owner[t]] =>
          /\ Agree(row[t], Bound(t), Known(t), seen[t])
          /\ seen[t] # None => seen[t].ver = Known(t)
    /\ read.at # "idle" /\ read.got[t] # None => 
             Agree(row[t], Bound(t), read.got[t].ver, read.got[t])

(* When nothing else happens during a flush.                                 *)
Undisturbed ==
    meanwhile = {} =>
        /\ flush.at = "idle" \/ read.at = "idle"
        /\ \A op \in Begun :
              /\ op.key \in writeTargets[plan.owner[op.key]]
              /\ op.kind = pending[plan.owner[op.key]]
              /\ op.ver = node[plan.owner[op.key]].ver
        /\ \A op \in Unanswered : op.seen = seen[op.key]
        /\ \A t \in Targets : Lone(t) => Versioned(t)

Copied == Values /\ Reading /\ Flushing /\ Remembered /\ Undisturbed

(* The document of the handles.                                              *)
Documents ==
    /\ graph = built /\ built \in Nat
    /\ entities \in {None, graph} /\ (built = 0 => entities = None)

(* Another writer makes no version agree that did not.                       *)
LEMMA AgreeLater ==
  ASSUME CopyAssumption, NEW x \in Row \cup {None}, NEW y \in Row \cup {None},
         NEW b \in Nat, NEW v \in Nat, NEW r, Agree(x, b, v, r),
         \/ y = x \/ y = None
         \/ x = None /\ y # None /\ y.ver >= b
         \/ x # None /\ y # None /\ y.ver = x.ver + 1
  PROVE  Agree(y, b + 1, v, r)
  BY DEF Agree, Row, CopyAssumption

LEMMA AgreeMore ==
  ASSUME NEW x \in Row \cup {None}, NEW b \in Nat, NEW c \in Nat, NEW v \in Nat, NEW r,
         Agree(x, b, v, r), c >= b
  PROVE  Agree(x, c, v, r)
  BY DEF Agree, Row

LEMMA Owners ==
  ASSUME CopyAssumption, Values, NEW t \in Targets
  PROVE  /\ plan.owner[t] \in Instances /\ plan.binding[t] \in Bindings
         /\ t \in TargetsOf(plan.owner[t])
         /\ t \in writeTargets[plan.owner[t]] =>
               node[plan.owner[t]] \in Row /\ node[plan.owner[t]] # None
  BY DEF CopyAssumption, Values, TargetsOf

LEMMA Bounds ==
  ASSUME CopyAssumption, Values, NEW t \in Targets
  PROVE  /\ Credit(t) \in {0, 1} /\ Bound(t) \in Nat
         /\ Bound(t) = (clock + faults + 2) - Credit(t)
         /\ t \in writeTargets[plan.owner[t]] => Known(t) \in Nat
  <1>1. Credit(t) \in {0, 1}
    BY DEF Credit
  <1>2. clock \in Nat /\ faults \in Nat
    BY DEF Values
  <1>3. Bound(t) \in Nat
    BY <1>1, <1>2 DEF Bound
  <1>4. t \in writeTargets[plan.owner[t]] => Known(t) \in Nat
    BY Owners DEF Known, Row
  <1> QED  BY <1>1, <1>3, <1>4 DEF Bound

LEMMA BoundsLater ==
  ASSUME Values', NEW t \in Targets
  PROVE  /\ Credit(t)' \in {0, 1} /\ Bound(t)' \in Nat
         /\ Bound(t)' = (clock' + faults' + 2) - Credit(t)'
  <1>1. Credit(t)' \in {0, 1} /\ clock' \in Nat /\ faults' \in Nat
    BY DEF Credit, Values
  <1> QED  BY <1>1 DEF Bound

(* When neither the row nor what the copy knows of it changes, a bound that   *)
(* grows keeps the versions.                                                 *)
LEMMA VersionsStay ==
  ASSUME CopyAssumption, Values, Values', Reading, NEW t \in Targets, Versioned(t),
         Bound(t)' >= Bound(t),
         t \in writeTargets[plan.owner[t]] => Known(t)' = Known(t),
         row'[t] = row[t], seen'[t] = seen[t], plan' = plan, writeTargets' = writeTargets,
         read'.at = "idle" \/ read' = read
  PROVE  Versioned(t)'
  <1>1. Bound(t) \in Nat /\ Bound(t)' \in Nat
    BY Bounds, BoundsLater
  <1>2. row[t] \in Row \cup {None} /\ read.got[t] \in Row \cup {None}
    BY DEF Values, Reading
  <1>3. ASSUME t \in writeTargets[plan.owner[t]]
        PROVE  Agree(row[t], Bound(t)', Known(t), seen[t])
    BY <1>1, <1>2, <1>3, Bounds, AgreeMore DEF Versioned
  <1>4. ASSUME read.at # "idle", read.got[t] # None
        PROVE  Agree(row[t], Bound(t)', read.got[t].ver, read.got[t])
    BY <1>1, <1>2, <1>4, AgreeMore DEF Versioned, Row
  <1>5. row[t] # None => row[t].ver <= Bound(t)'
    BY <1>1, <1>2 DEF Versioned, Row
  <1> QED  BY <1>3, <1>4, <1>5 DEF Versioned

(* A flush is not touched by what happens beside it.                          *)
LEMMA FlushStays ==
  ASSUME Flushing, flush' = flush, plan' = plan
  PROVE  Flushing'
  BY DEF Flushing, Progress, Begun, Writable, BindingOf, Transactional, Retained, Keys, NoFlush

LEMMA CopyStarts ==
  ASSUME CopyAssumption, Init
  PROVE  Copied
  <1> USE DEF Init
  <1>1. \A t \in Targets : plan.owner[t] \in Instances
    BY DEF CopyAssumption
  <1>2. Values
    BY DEF Values, Row, CopyAssumption, TargetsOf
  <1>3. Reading
    BY DEF Reading, NoRead
  <1>4. Flushing
    <2>1. flush = NoFlush /\ Begun = {}
      BY DEF Begun, NoFlush
    <2> QED  BY <2>1 DEF Flushing, Progress, NoFlush, Begun, Operation
  <1>5. Remembered
    BY DEF Remembered, NoFlush, Begun
  <1>6. Undisturbed
    <2>1. Begun = {} /\ Unanswered = {} /\ flush.at = "idle" /\ read.at = "idle"
      BY DEF Begun, Unanswered, NoFlush, NoRead
    <2>2. ASSUME NEW t \in Targets, Lone(t)
          PROVE  Versioned(t)
      <3>1. writeTargets[plan.owner[t]] = {} /\ pending[plan.owner[t]] = None
        BY <1>1
      <3>2. Bound(t) = 2 /\ row[t].ver = 1
        BY <3>1 DEF Bound, Credit
      <3>3. ~(t \in writeTargets[plan.owner[t]])
        BY <3>1
      <3> HIDE DEF Init
      <3> QED  BY <2>1, <3>2, <3>3 DEF Versioned
    <2> QED  BY <2>1, <2>2 DEF Undisturbed
  <1> QED  BY <1>2, <1>3, <1>4, <1>5, <1>6 DEF Copied

(***************************************************************************)
(* Another writer, the caller, and the reads.                              *)
(***************************************************************************)

LEMMA OtherWritesKept ==
  ASSUME CopyAssumption, Copied, NEW w \in Targets, OtherWrites(w)
  PROVE  Copied'
  <1> USE DEF Copied
  <1>1. /\ clock' = clock + 1 /\ clock \in Nat /\ faults \in Nat
        /\ plan' = plan /\ faults' = faults /\ node' = node /\ writeTargets' = writeTargets
        /\ pending' = pending /\ flush' = flush /\ read' = read /\ seen' = seen
        /\ mark' = mark /\ owed' = owed /\ meanwhile' = meanwhile
    BY DEF OtherWrites, copy, ghosts, Values
  <1>2. /\ row' \in [Targets -> Row \cup {None}]
        /\ \A t \in Targets :
              \/ row'[t] = row[t] \/ row'[t] = None
              \/ row[t] = None /\ row'[t] \in Row /\ row'[t].ver = clock + faults + 2
              \/ row[t] # None /\ row'[t] \in Row /\ row'[t].ver = row[t].ver + 1
    <2>1. row \in [Targets -> Row \cup {None}]
      BY DEF Values
    <2>2. CASE row[w] # None /\ row' = [row EXCEPT ![w] = None]
      BY <2>1, <2>2
    <2>3. CASE row' = [row EXCEPT ![w] =
                         [val |-> clock', ver |-> IF @ = None THEN clock' + faults + 1
                                                  ELSE @.ver + 1]]
      BY <1>1, <2>1, <2>3 DEF Row
    <2> QED  BY <2>2, <2>3 DEF OtherWrites
  <1>3. Values'
    BY <1>1, <1>2 DEF Values, TargetsOf
  <1>4. Reading' /\ Flushing'
    BY <1>1, FlushStays DEF Reading
  <1>5. Remembered'
    BY <1>1 DEF Remembered, Begun, Writable, Open, Unanswered, Keys
  <1>6. Undisturbed'
    <2> SUFFICES ASSUME meanwhile = {}  PROVE Undisturbed'
      BY <1>1 DEF Undisturbed
    <2>1. Begun' = Begun /\ Unanswered' = Unanswered /\ Open' = Open
      BY <1>1 DEF Begun, Unanswered, Open, Keys
    <2>2. ASSUME NEW t \in Targets, Lone(t)'
          PROVE  Versioned(t)'
      <3>1. Versioned(t)
        BY <1>1, <2>2 DEF Lone, Undisturbed, TargetsOf, Optimistic
      <3>2. Known(t)' = Known(t) /\ Credit(t)' = Credit(t) /\ Bound(t)' = Bound(t) + 1
        BY <1>1, <2>1, Bounds DEF Known, Credit, Bound
      <3>3. row[t] \in Row \cup {None} /\ row'[t] \in Row \cup {None} /\ Bound(t) \in Nat
        BY <1>2, Bounds DEF Values
      <3>4. clock + faults + 2 >= Bound(t)
        BY <1>1, Bounds
      <3>5. ASSUME t \in writeTargets[plan.owner[t]]
            PROVE  Agree(row'[t], Bound(t) + 1, Known(t), seen[t])
        <4>1. Known(t) \in Nat /\ Agree(row[t], Bound(t), Known(t), seen[t])
          BY <3>1, <3>5, Bounds DEF Versioned
        <4> QED  BY <1>2, <3>3, <3>4, <4>1, AgreeLater DEF Row
      <3>6. ASSUME read.at # "idle", read.got[t] # None
            PROVE  Agree(row'[t], Bound(t) + 1, read.got[t].ver, read.got[t])
        <4>1. read.got[t].ver \in Nat /\ Agree(row[t], Bound(t), read.got[t].ver, read.got[t])
          BY <3>1, <3>6 DEF Versioned, Reading, Row
        <4> QED  BY <1>2, <3>3, <3>4, <4>1, AgreeLater DEF Row
      <3>7. row'[t] # None => row'[t].ver <= Bound(t) + 1
        <4>1. row[t] # None => row[t].ver <= Bound(t) /\ row[t].ver \in Nat
          BY <3>1, <3>3 DEF Versioned, Row
        <4>2. row[t] = None => clock + faults + 2 <= Bound(t) + 1
          BY <1>1, Bounds
        <4> QED  BY <1>1, <1>2, <3>3, <4>1, <4>2
      <3> QED  BY <1>1, <3>1, <3>2, <3>5, <3>6, <3>7 DEF Versioned
    <2> QED  BY <1>1, <2>1, <2>2 DEF Undisturbed
  <1> QED  BY <1>3, <1>4, <1>5, <1>6

LEMMA RecordKept ==
  ASSUME CopyAssumption, Copied, NEW i \in Instances, NEW kind \in {"upsert", "delete"},
         Record(i, kind)
  PROVE  Copied'
  <1> USE DEF Copied
  <1>1. /\ clock' = clock + 1 /\ clock \in Nat /\ faults \in Nat /\ node[i] # None
        /\ plan' = plan /\ faults' = faults /\ row' = row /\ writeTargets' = writeTargets
        /\ flush' = flush /\ read' = read /\ seen' = seen /\ meanwhile' = meanwhile
        /\ flush.at = "idle" \/ "edit" \in meanwhile
        /\ pending' = [pending EXCEPT ![i] = kind] /\ mark' = [mark EXCEPT ![i] = clock']
        /\ owed' = owed \cup {t \in writeTargets[i] : Writable(t)}
    BY DEF Record, copy, ghosts, Values
  <1>2. /\ node' \in [Instances -> Row \cup {None}]
        /\ \A j \in Instances : (node'[j] = None <=> node[j] = None)
                                /\ (node[j] # None => node'[j].ver = node[j].ver)
    BY <1>1 DEF Record, Values, Row, CopyAssumption
  <1>3. Values'
    <2>1. \A j \in Instances : writeTargets[j] \subseteq Targets
      BY DEF Values, TargetsOf
    <2>2. owed' \subseteq Targets
      BY <1>1, <2>1 DEF Values
    <2>3. pending' \in [Instances -> {None, "upsert", "delete"}]
          /\ mark' \in [Instances -> Nat]
      BY <1>1 DEF Values
    <2>4. \A j \in Instances : pending'[j] # None => node'[j] # None
      BY <1>1, <1>2 DEF Values
    <2> QED  BY <1>1, <1>2, <2>2, <2>3, <2>4 DEF Values, TargetsOf
  <1>4. Reading' /\ Flushing'
    BY <1>1, FlushStays DEF Reading
  <1>5. flush.at = "idle" => Begun = {} /\ Unanswered = {} /\ flush = NoFlush
    BY DEF Flushing, Begun, Unanswered, NoFlush
  <1>6. Remembered'
    <2> SUFFICES ASSUME "edit" \notin meanwhile  PROVE Remembered'
      BY <1>1 DEF Remembered
    <2>1. flush.at = "idle" /\ Begun' = {}
      BY <1>1, <1>5 DEF Begun
    <2>2. ASSUME NEW t \in owed'
          PROVE  Writable(t) /\ t \in writeTargets[plan.owner[t]] /\ pending'[plan.owner[t]] # None
      <3>1. t \in owed \/ (t \in writeTargets[i] /\ Writable(t) /\ plan.owner[t] = i)
        BY <1>1, <2>2 DEF Values, TargetsOf
      <3>2. t \in Targets /\ plan.owner[t] \in Instances
        BY <1>3, <2>2, Owners, <1>1, <3>1 DEF Values, TargetsOf
      <3>3. pending'[i] = kind /\ kind # None
        BY <1>1 DEF Values, CopyAssumption
      <3>4. pending'[plan.owner[t]] = pending[plan.owner[t]] \/ plan.owner[t] = i
        BY <1>1, <3>2 DEF Values
      <3> QED  BY <3>1, <3>3, <3>4 DEF Remembered
    <2> QED  BY <1>1, <2>1, <2>2 DEF Remembered, Writable
  <1>7. Undisturbed'
    <2> SUFFICES ASSUME meanwhile = {}  PROVE Undisturbed'
      BY <1>1 DEF Undisturbed
    <2>1. flush.at = "idle" /\ Begun' = {} /\ Unanswered' = {}
      BY <1>1, <1>5 DEF Begun, Unanswered
    <2>2. ASSUME NEW t \in Targets, Lone(t)'
          PROVE  Versioned(t)'
      <3>1. Versioned(t)
        BY <1>1, <2>2 DEF Lone, Undisturbed, TargetsOf, Optimistic
      <3>2. Bound(t)' >= Bound(t)
        <4>1. Credit(t) \in {0, 1} /\ Bound(t) = (clock + faults + 2) - Credit(t)
          BY Bounds
        <4>2. Credit(t)' \in {0, 1}
          BY DEF Credit
        <4> QED  BY <1>1, <4>1, <4>2 DEF Bound
      <3>3. t \in writeTargets[plan.owner[t]] => Known(t)' = Known(t)
        BY <1>1, <1>2, <1>5, <2>1, Owners DEF Known, NoFlush
      <3> QED  BY <1>1, <1>3, <3>1, <3>2, <3>3, VersionsStay
    <2> QED  BY <1>1, <2>1, <2>2 DEF Undisturbed
  <1> QED  BY <1>3, <1>4, <1>6, <1>7

LEMMA StartReadKept ==
  ASSUME CopyAssumption, Copied, StartRead
  PROVE  Copied'
  <1> USE DEF Copied
  <1>1. /\ UNCHANGED <<plan, row, clock, faults, node, writeTargets, pending, flush, seen,
                       mark, owed, meanwhile>>
        /\ flush.at = "idle" \/ "refresh" \in meanwhile
        /\ read' = [at |-> "query", left |-> Bindings, got |-> [t \in Targets |-> None]]
    BY DEF StartRead, copy, ghosts, NoRead
  <1>2. Values' /\ Flushing'
    BY <1>1, FlushStays DEF Values, TargetsOf
  <1>3. Reading'
    BY <1>1 DEF Reading
  <1>4. Remembered'
    BY <1>1 DEF Remembered, Begun, Writable, Open, Unanswered, Keys
  <1>5. Begun' = Begun /\ Unanswered' = Unanswered /\ Open' = Open
    BY <1>1 DEF Begun, Unanswered, Open, Keys
  <1>6. \A t \in Targets : Lone(t)' /\ Versioned(t) => Versioned(t)'
    BY <1>1, <1>5 DEF Versioned, Bound, Credit, Known
  <1>7. Undisturbed'
    BY <1>1, <1>5, <1>6 DEF Undisturbed, Lone, TargetsOf, Optimistic
  <1> QED  BY <1>2, <1>3, <1>4, <1>7

LEMMA QueryBindingKept ==
  ASSUME CopyAssumption, Copied, NEW b \in Bindings, QueryBinding(b)
  PROVE  Copied'
  <1> USE DEF Copied
  <1>1. /\ UNCHANGED <<plan, row, clock, faults, node, writeTargets, pending, flush, seen,
                       mark, owed, meanwhile>>
        /\ read.at = "query" /\ read'.at \in {"query", "audit"}
        /\ read'.got = [t \in Targets |-> IF plan.binding[t] = b THEN row[t] ELSE read.got[t]]
        /\ read' = [at |-> read'.at, left |-> read'.left, got |-> read'.got]
    BY DEF QueryBinding, copy, ghosts
  <1>2. Values' /\ Flushing'
    BY <1>1, FlushStays DEF Values, TargetsOf
  <1>3. Reading'
    BY <1>1 DEF Reading, Values
  <1>4. Remembered'
    BY <1>1 DEF Remembered, Begun, Writable, Open, Unanswered, Keys
  <1>5. Begun' = Begun /\ Unanswered' = Unanswered /\ Open' = Open
    BY <1>1 DEF Begun, Unanswered, Open, Keys
  <1>6. ASSUME NEW t \in Targets, Versioned(t)
        PROVE  Versioned(t)'
    <2>1. Bound(t)' = Bound(t) /\ Known(t)' = Known(t)
      BY <1>1, <1>5 DEF Bound, Credit, Known
    <2>2. ASSUME read'.got[t] # None
          PROVE  Agree(row[t], Bound(t), read'.got[t].ver, read'.got[t])
      <3>1. CASE read'.got[t] = row[t]
        <4>1. row[t] \in Row /\ row[t].ver <= Bound(t)
          BY <1>6, <2>2, <3>1 DEF Versioned, Values
        <4> QED  BY <2>2, <3>1, <4>1 DEF Agree, Row
      <3>2. CASE read'.got[t] = read.got[t]
        BY <1>1, <1>6, <2>2, <3>2 DEF Versioned
      <3> QED  BY <1>1, <3>1, <3>2
    <2> QED  BY <1>1, <1>6, <2>1, <2>2 DEF Versioned
  <1>7. Undisturbed'
    BY <1>1, <1>5, <1>6 DEF Undisturbed, Lone, TargetsOf, Optimistic
  <1> QED  BY <1>2, <1>3, <1>4, <1>7

LEMMA ReadFailsKept ==
  ASSUME CopyAssumption, Copied, ReadFails
  PROVE  Copied'
  <1> USE DEF Copied
  <1>1. /\ UNCHANGED <<plan, row, clock, node, writeTargets, pending, flush, seen,
                       mark, owed, meanwhile>>
        /\ faults' = faults + 1 /\ faults \in Nat /\ clock \in Nat
        /\ read' = [at |-> "idle", left |-> {}, got |-> [t \in Targets |-> None]]
    BY DEF ReadFails, copy, ghosts, NoRead, Values
  <1>2. Values' /\ Flushing'
    BY <1>1, FlushStays DEF Values, TargetsOf
  <1>3. Reading'
    BY <1>1 DEF Reading
  <1>4. Remembered'
    BY <1>1 DEF Remembered, Begun, Writable, Open, Unanswered, Keys
  <1>5. Begun' = Begun /\ Unanswered' = Unanswered /\ Open' = Open
    BY <1>1 DEF Begun, Unanswered, Open, Keys
  <1>6. ASSUME NEW t \in Targets, Versioned(t)
        PROVE  Versioned(t)'
    <2>1. Bound(t)' >= Bound(t) /\ Known(t)' = Known(t)
      BY <1>1, <1>5, Bounds DEF Bound, Credit, Known
    <2> QED  BY <1>1, <1>2, <1>6, <2>1, VersionsStay
  <1>7. Undisturbed'
    BY <1>1, <1>5, <1>6 DEF Undisturbed, Lone, TargetsOf, Optimistic
  <1> QED  BY <1>2, <1>3, <1>4, <1>7

LEMMA LandKept ==
  ASSUME CopyAssumption, Copied, Land
  PROVE  Copied'
  <1> USE DEF Copied
  <1> DEFINE got == read.got
  <1>1. /\ UNCHANGED <<plan, row, clock, faults, flush, mark, meanwhile>>
        /\ read.at = "audit" /\ seen' = got
        /\ read' = [at |-> "idle", left |-> {}, got |-> [t \in Targets |-> None]]
        /\ writeTargets' = [i \in Instances |-> Drawn(got, i)]
        /\ pending' = [i \in Instances |-> Surviving(got, i)]
        /\ owed' = owed \cap UNION {Drawn(got, i) : i \in Instances}
    BY DEF Land, Rebind, NoRead
  <1>2. PICK v, w \in [Instances -> Targets \cup {None}] :
           /\ \A i \in Instances :
                 /\ IF Drawn(got, i) = {} THEN v[i] = None ELSE v[i] \in Drawn(got, i)
                 /\ IF {t \in Drawn(got, i) : Optimistic(plan.binding[t])} = {}
                    THEN w[i] = None
                    ELSE w[i] \in {t \in Drawn(got, i) : Optimistic(plan.binding[t])}
           /\ node' = [i \in Instances |-> NodeFrom(got, v[i], w[i])]
    BY DEF Land, Rebind
  <1>3. got \in [Targets -> Row \cup {None}] /\ None \notin Targets /\ None \notin Row
    BY DEF Reading, CopyAssumption, Row
  <1>4. ASSUME NEW i \in Instances
        PROVE  /\ node'[i] \in Row \cup {None}
               /\ node'[i] = None <=> Drawn(got, i) = {}
    <2>1. CASE Drawn(got, i) = {}
      BY <1>2, <2>1 DEF NodeFrom
    <2>2. CASE Drawn(got, i) # {}
      <3>1. v[i] \in Targets /\ got[v[i]] \in Row
        BY <1>2, <1>3, <2>2 DEF Drawn, TargetsOf
      <3>2. w[i] = None \/ (w[i] \in Targets /\ got[w[i]] \in Row)
        <4>1. w[i] = None \/ w[i] \in Drawn(got, i)
          BY <1>2
        <4> QED  BY <1>3, <4>1 DEF Drawn, TargetsOf
      <3>3. node'[i] = [val |-> got[v[i]].val, ver |-> IF w[i] = None THEN 0 ELSE got[w[i]].ver]
        BY <1>2, <1>3, <3>1 DEF NodeFrom
      <3>4. node'[i] \in Row
        BY <3>1, <3>2, <3>3 DEF Row
      <3> QED  BY <1>3, <2>2, <3>4
    <2> QED  BY <2>1, <2>2
  <1>5. Values'
    <2>1. node' \in [Instances -> Row \cup {None}]
      BY <1>2, <1>4
    <2>2. pending' \in [Instances -> {None, "upsert", "delete"}]
      BY <1>1 DEF Surviving, Values
    <2>3. \A i \in Instances : /\ writeTargets'[i] \subseteq TargetsOf(i)
                               /\ node'[i] = None <=> writeTargets'[i] = {}
                               /\ pending'[i] # None => node'[i] # None
      BY <1>1, <1>4 DEF Drawn, Surviving
    <2>4. writeTargets' = [i \in Instances |-> writeTargets'[i]]
      BY <1>1
    <2> QED  BY <1>1, <1>3, <2>1, <2>2, <2>3, <2>4 DEF Values, TargetsOf
  <1>6. Reading' /\ Flushing'
    BY <1>1, FlushStays DEF Reading
  <1>7. Begun' = Begun /\ Unanswered' = Unanswered /\ Open' = Open
    BY <1>1 DEF Begun, Unanswered, Open, Keys
  <1>8. \A t \in Targets : t \in writeTargets'[plan.owner[t]] <=> got[t] # None
    BY <1>1, Owners DEF Drawn, TargetsOf
  <1>9. Remembered'
    <2>1. ASSUME NEW t \in owed', t \in writeTargets[plan.owner[t]],
                 pending[plan.owner[t]] # None
          PROVE  t \in writeTargets'[plan.owner[t]] /\ pending'[plan.owner[t]] # None
      <3>1. t \in Targets /\ got[t] # None /\ plan.owner[t] \in Instances
        BY <1>1, <2>1, Owners DEF Drawn, TargetsOf
      <3>2. t \in Drawn(got, plan.owner[t])
        BY <3>1 DEF Drawn, TargetsOf
      <3> QED  BY <1>1, <1>8, <2>1, <3>1, <3>2 DEF Surviving
    <2> QED  BY <1>1, <1>7, <2>1 DEF Remembered, Writable
  <1>10. Undisturbed'
    <2> SUFFICES ASSUME meanwhile = {}  PROVE Undisturbed'
      BY <1>1 DEF Undisturbed
    <2>1. flush.at = "idle" /\ flush = NoFlush /\ Begun = {} /\ Unanswered = {}
      BY <1>1 DEF Undisturbed, Flushing, NoFlush, Begun, Unanswered
    <2>2. ASSUME NEW t \in Targets, Lone(t)'
          PROVE  Versioned(t)'
      <3>1. Versioned(t) /\ TargetsOf(plan.owner[t]) = {t} /\ Optimistic(plan.binding[t])
        BY <1>1, <2>2 DEF Lone, Undisturbed, TargetsOf, Optimistic
      <3>2. plan.owner[t] \in Instances
        BY Owners
      <3>3. Bound(t)' >= Bound(t) /\ Bound(t)' \in Nat /\ Bound(t) \in Nat
        <4>1. pending'[plan.owner[t]] # None => pending[plan.owner[t]] # None
          BY <1>1, <3>2 DEF Surviving
        <4>2. Credit(t)' <= Credit(t)
          BY <1>1, <1>7, <2>1, <4>1 DEF Credit
        <4>3. Bound(t) \in Nat /\ Bound(t)' \in Nat
          BY <1>5, Bounds, BoundsLater
        <4>4. /\ Bound(t) = (clock + faults + 2) - Credit(t)
              /\ Bound(t)' = (clock + faults + 2) - Credit(t)'
              /\ clock \in Nat /\ faults \in Nat /\ Credit(t) \in {0, 1} /\ Credit(t)' \in {0, 1}
          BY <1>1, <1>5, Bounds, BoundsLater DEF Values
        <4> QED  BY <4>2, <4>3, <4>4
      <3>4. row[t] \in Row \cup {None}
        BY DEF Values
      <3>5. ASSUME t \in writeTargets'[plan.owner[t]]
            PROVE  /\ Agree(row[t], Bound(t)', Known(t)', got[t])
                   /\ got[t].ver = Known(t)'
        <4>1. got[t] # None /\ got[t] \in Row
          BY <1>3, <1>8, <3>5
        <4>2. Drawn(got, plan.owner[t]) = {t}
          BY <3>1, <4>1 DEF Drawn
        <4>3. v[plan.owner[t]] = t /\ w[plan.owner[t]] = t
          BY <1>2, <3>1, <3>2, <4>2
        <4>4. node'[plan.owner[t]].ver = got[t].ver
          BY <1>2, <1>3, <3>2, <4>3 DEF NodeFrom
        <4>5. Known(t)' = got[t].ver
          BY <1>1, <2>1, <4>4 DEF Known, NoFlush
        <4>6. Agree(row[t], Bound(t), got[t].ver, got[t])
          BY <1>1, <3>1, <4>1 DEF Versioned
        <4> QED  BY <3>3, <3>4, <4>1, <4>5, <4>6, AgreeMore DEF Row
      <3>6. row[t] # None => row[t].ver <= Bound(t)'
        BY <3>1, <3>3, <3>4 DEF Versioned, Row
      <3> QED  BY <1>1, <3>5, <3>6 DEF Versioned
    <2> QED  BY <1>1, <1>7, <2>1, <2>2 DEF Undisturbed
  <1> QED  BY <1>5, <1>6, <1>9, <1>10

LEMMA ReadInstancesKept ==
  ASSUME Copied, ReadInstances
  PROVE  Copied'
  <1> USE DEF Copied
  <1>1. UNCHANGED <<plan, row, clock, faults, node, writeTargets, pending, flush, read, seen,
                    mark, owed, meanwhile>>
    BY DEF ReadInstances, copy, ghosts
  <1>2. Values' /\ Reading' /\ Flushing'
    BY <1>1, FlushStays DEF Values, TargetsOf, Reading
  <1>3. Begun' = Begun /\ Unanswered' = Unanswered /\ Open' = Open
    BY <1>1 DEF Begun, Unanswered, Open, Keys
  <1>4. Remembered'
    BY <1>1, <1>3 DEF Remembered, Writable
  <1>5. \A t \in Targets : Versioned(t) => Versioned(t)'
    BY <1>1, <1>3 DEF Versioned, Known, Bound, Credit
  <1>6. Undisturbed'
    BY <1>1, <1>3, <1>5 DEF Undisturbed, Lone, TargetsOf, Optimistic
  <1> QED  BY <1>2, <1>4, <1>6

(***************************************************************************)
(* A flush.                                                                 *)
(***************************************************************************)

(* The targets a flush writes, and its batches.                              *)
Due == {t \in UNION {writeTargets[i] : i \in {j \in Instances : pending[j] # None}} :
            Writable(t)}

LEMMA DueAre ==
  ASSUME CopyAssumption, Values, NEW t
  PROVE  t \in Due <=> /\ t \in Targets /\ Writable(t) /\ t \in writeTargets[plan.owner[t]]
                       /\ pending[plan.owner[t]] # None
  <1>1. ASSUME t \in Due
        PROVE  /\ t \in Targets /\ Writable(t) /\ t \in writeTargets[plan.owner[t]]
               /\ pending[plan.owner[t]] # None
    <2>1. PICK i \in Instances : pending[i] # None /\ t \in writeTargets[i] /\ Writable(t)
      BY <1>1 DEF Due
    <2>2. t \in Targets /\ plan.owner[t] = i
      BY <2>1 DEF Values, TargetsOf
    <2> QED  BY <2>1, <2>2
  <1>2. ASSUME t \in Targets, Writable(t), t \in writeTargets[plan.owner[t]],
               pending[plan.owner[t]] # None
        PROVE  t \in Due
    BY <1>2, Owners DEF Due
  <1> QED  BY <1>1, <1>2

LEMMA DueOperation ==
  ASSUME CopyAssumption, Values, NEW t \in Due
  PROVE  /\ OperationFor(t) \in Operation /\ OperationFor(t).key = t
         /\ OperationFor(t).kind = pending[plan.owner[t]]
         /\ OperationFor(t).ver = node[plan.owner[t]].ver
         /\ OperationFor(t).seen = seen[t] /\ OperationFor(t).mark = mark[plan.owner[t]]
  <1>1. t \in Targets /\ plan.owner[t] \in Instances /\ pending[plan.owner[t]] # None
    BY DueAre, Owners
  <1>2. /\ node[plan.owner[t]] \in Row /\ pending[plan.owner[t]] \in {"upsert", "delete"}
        /\ seen[t] \in Row \cup {None} /\ mark[plan.owner[t]] \in Nat
    BY <1>1 DEF Values
  <1> QED  BY <1>1, <1>2 DEF OperationFor, Operation, Row

LEMMA BatchesAre ==
  ASSUME CopyAssumption, Values
  PROVE  /\ \A A \in Batches : \A op \in A : op.key \in Due /\ op = OperationFor(op.key)
         /\ \A A, B \in Batches : \A op \in A, o \in B : A = B <=> BindingOf(op) = BindingOf(o)
         /\ \A t \in Due : \E A \in Batches : OperationFor(t) \in A
  <1> DEFINE Of(b) == {OperationFor(t) : t \in {u \in Due : plan.binding[u] = b}}
  <1>1. Batches = {Of(b) : b \in {plan.binding[u] : u \in Due}}
    BY DEF Batches, Due
  <1>2. ASSUME NEW b, NEW op \in Of(b)
        PROVE  op.key \in Due /\ op = OperationFor(op.key) /\ BindingOf(op) = b
    <2>1. PICK t \in Due : op = OperationFor(t) /\ plan.binding[t] = b
      OBVIOUS
    <2>2. op.key = t
      BY <2>1, DueOperation
    <2> QED  BY <2>1, <2>2 DEF BindingOf
  <1>3. \A t \in Due : OperationFor(t) \in Of(plan.binding[t])
    OBVIOUS
  <1> HIDE DEF Of
  <1>4. \A A, B \in Batches : \A op \in A, o \in B : A = B <=> BindingOf(op) = BindingOf(o)
    <2> TAKE A, B \in Batches
    <2> TAKE op \in A, o \in B
    <2>1. PICK b, c : A = Of(b) /\ B = Of(c)
      BY <1>1
    <2>2. BindingOf(op) = b /\ BindingOf(o) = c
      BY <1>2, <2>1
    <2>3. A = B => BindingOf(o) = b
      BY <1>2, <2>1
    <2> QED  BY <2>1, <2>2, <2>3
  <1>5. \A t \in Due : Of(plan.binding[t]) \in Batches
    BY <1>1
  <1>6. \A A \in Batches : \A op \in A : op.key \in Due /\ op = OperationFor(op.key)
    BY <1>1, <1>2
  <1>7. \A t \in Due : \E A \in Batches : OperationFor(t) \in A
    BY <1>3, <1>5
  <1> QED  BY <1>4, <1>6, <1>7

LEMMA StartFlushKept ==
  ASSUME CopyAssumption, Copied, StartFlush
  PROVE  Copied'
  <1> USE DEF Copied
  <1>1. /\ UNCHANGED <<plan, row, clock, faults, node, writeTargets, read, seen, mark, owed,
                       meanwhile>>
        /\ flush.at = "idle" /\ flush = NoFlush /\ Begun = {} /\ Unanswered = {} /\ Open = {}
        /\ read.at = "idle" \/ "refresh" \in meanwhile
    BY DEF StartFlush, source, ghosts, Flushing, NoFlush, Begun, Unanswered, Open, Keys
  <1>2. CopyAssumption'
    BY DEF CopyAssumption
  <1>3. CASE Batches = {} /\ pending' = Kept({}) /\ flush' = flush
    <2>1. Due = {}
      BY <1>3, BatchesAre
    <2>2. \A i \in Instances : pending'[i] = None
      BY <1>3 DEF Kept
    <2>3. Values'
      BY <1>1, <1>3, <2>2 DEF Values, TargetsOf, Kept
    <2>4. Reading' /\ Flushing'
      BY <1>1, <1>3, FlushStays DEF Reading
    <2>5. Begun' = {} /\ Unanswered' = {}
      BY <1>1, <1>3 DEF Begun, Unanswered
    <2>6. Remembered'
      <3>1. "edit" \notin meanwhile => owed = {}
        BY <2>1, DueAre DEF Remembered, Values
      <3> QED  BY <1>1, <2>5, <3>1 DEF Remembered
    <2>7. ASSUME NEW t \in Targets, Versioned(t)
          PROVE  Versioned(t)'
      <3>1. Credit(t)' = 0
        BY <1>1, <2>2, Owners DEF Credit
      <3>2. Bound(t)' >= Bound(t)
        <4>1. clock \in Nat /\ faults \in Nat
          BY DEF Values
        <4> QED  BY <1>1, <2>3, <3>1, <4>1, Bounds, BoundsLater
      <3>3. Known(t)' = Known(t)
        BY <1>1, <1>3 DEF Known
      <3> QED  BY <1>1, <2>3, <2>7, <3>2, <3>3, VersionsStay
    <2>8. Undisturbed'
      BY <1>1, <1>3, <2>5, <2>7 DEF Undisturbed, Lone, TargetsOf, Optimistic
    <2> QED  BY <2>3, <2>4, <2>6, <2>8
  <1>4. CASE Batches # {} /\ flush' = [NoFlush EXCEPT !.at = "next", !.todo = Batches]
             /\ pending' = pending
    <2>1. flush' = [at |-> "next", todo |-> Batches, batch |-> {}, left |-> {}, applied |-> {},
                    failed |-> {}, retained |-> {}]
      BY <1>4 DEF NoFlush
    <2>2. Begun' = UNION Batches /\ Unanswered' = UNION Batches /\ Open' = Keys(UNION Batches)
      BY <2>1 DEF Begun, Unanswered, Open, Keys
    <2>3. Values' /\ Reading'
      BY <1>1, <1>4 DEF Values, TargetsOf, Reading
    <2>4. \A op \in UNION Batches : op.key \in Due /\ op = OperationFor(op.key)
      BY BatchesAre
    <2>5. \A op \in UNION Batches : op \in Operation /\ op.key \in Targets /\ Writable(op.key)
      BY <2>4, DueOperation, DueAre
    <2>6. Flushing'
      <3>1. \A op, o \in Begun' : op.key = o.key => op = o
        BY <2>2, <2>4
      <3>2. \A A \in Batches : \A op, o \in A : BindingOf(op) = BindingOf(o)
        BY BatchesAre
      <3>3. \A A, B \in Batches : \A op \in A, o \in B : BindingOf(op) = BindingOf(o) => A = B
        BY BatchesAre
      <3>4. \A op : BindingOf(op)' = BindingOf(op)
        BY <1>1 DEF BindingOf
      <3>5. \A t : Writable(t)' <=> Writable(t)
        BY <1>1 DEF Writable
      <3> QED  BY <2>1, <2>2, <2>5, <3>1, <3>2, <3>3, <3>4, <3>5 DEF Flushing, Progress
    <2>7. Remembered'
      <3> SUFFICES ASSUME "edit" \notin meanwhile  PROVE Remembered'
        BY <1>1 DEF Remembered
      <3>1. \A op \in UNION Batches : op.mark = mark[plan.owner[op.key]]
        BY <2>4, DueOperation
      <3>2. ASSUME NEW t \in owed
            PROVE  t \in Keys(UNION Batches)
        <4>1. t \in Due
          BY <3>2, DueAre DEF Remembered, Values
        <4> QED  BY <4>1, BatchesAre, DueOperation DEF Keys
      <3> QED  BY <1>1, <1>4, <2>2, <3>1, <3>2 DEF Remembered, Writable
    <2>8. Undisturbed'
      <3> SUFFICES ASSUME meanwhile = {}  PROVE Undisturbed'
        BY <1>1 DEF Undisturbed
      <3>1. \A op \in UNION Batches : /\ op.key \in writeTargets[plan.owner[op.key]]
                                      /\ op.kind = pending[plan.owner[op.key]]
                                      /\ op.ver = node[plan.owner[op.key]].ver
                                      /\ op.seen = seen[op.key]
        BY <2>4, DueOperation, DueAre
      <3>2. ASSUME NEW t \in Targets, Versioned(t)
            PROVE  Versioned(t)'
        <4>1. Credit(t)' <= Credit(t) /\ Credit(t) \in {0, 1} /\ Credit(t)' \in {0, 1}
          BY <1>1, <1>4 DEF Credit
        <4>2. Bound(t)' >= Bound(t)
          <5>1. clock \in Nat /\ faults \in Nat
            BY DEF Values
          <5> QED  BY <1>1, <2>3, <4>1, <5>1, Bounds, BoundsLater
        <4>3. Known(t)' = Known(t)
          BY <1>1, <2>1 DEF Known, NoFlush
        <4> QED  BY <1>1, <2>3, <3>2, <4>2, <4>3, VersionsStay
      <3> QED  BY <1>1, <1>4, <2>2, <3>1, <3>2 DEF Undisturbed, Lone, TargetsOf, Optimistic
    <2> QED  BY <2>3, <2>6, <2>7, <2>8
  <1> QED  BY <1>3, <1>4 DEF StartFlush

LEMMA NextBatchKept ==
  ASSUME CopyAssumption, Copied, NEW ops \in flush.todo, NextBatch(ops)
  PROVE  Copied'
  <1> USE DEF Copied
  <1>1. /\ UNCHANGED <<plan, row, clock, faults, node, writeTargets, pending, read, seen, mark,
                       owed, meanwhile>>
        /\ flush.at = "next" /\ flush.batch = {} /\ flush.applied = {}
        /\ flush' = [at |-> "apply", todo |-> flush.todo \ {ops}, batch |-> ops, left |-> ops,
                     applied |-> {}, failed |-> {}, retained |-> flush.retained]
    BY DEF NextBatch, copy, ghosts, Flushing
  <1>2. Begun' = Begun /\ Unanswered' = Unanswered /\ Open' = Open
    <2>1. Begun' = UNION flush.todo /\ Unanswered' = UNION flush.todo
      <3>1. (UNION (flush.todo \ {ops})) \cup ops = UNION flush.todo
        <4>1. ASSUME NEW op \in UNION flush.todo
              PROVE  op \in (UNION (flush.todo \ {ops})) \cup ops
          <5>1. PICK A \in flush.todo : op \in A
            OBVIOUS
          <5>2. A = ops \/ A \in flush.todo \ {ops}
            OBVIOUS
          <5> QED  BY <5>1, <5>2
        <4>2. ASSUME NEW op \in (UNION (flush.todo \ {ops})) \cup ops
              PROVE  op \in UNION flush.todo
          <5>1. CASE op \in ops
            BY <5>1
          <5>2. CASE op \in UNION (flush.todo \ {ops})
            BY <5>2
          <5> QED  BY <5>1, <5>2
        <4> QED  BY <4>1, <4>2
      <3>2. Begun' = (UNION (flush.todo \ {ops})) \cup ops
        BY <1>1 DEF Begun
      <3>3. Unanswered' = (UNION (flush.todo \ {ops})) \cup (ops \ {})
        BY <1>1 DEF Unanswered
      <3> QED  BY <3>1, <3>2, <3>3
    <2>2. Begun = UNION flush.todo /\ Unanswered = UNION flush.todo
      BY <1>1 DEF Begun, Unanswered
    <2> QED  BY <1>1, <2>1, <2>2 DEF Open, Keys
  <1>3. Values' /\ Reading'
    BY <1>1 DEF Values, TargetsOf, Reading
  <1>4. Flushing'
    <2>1. \A op : BindingOf(op)' = BindingOf(op)
      BY <1>1 DEF BindingOf
    <2>2. \A t : Writable(t)' <=> Writable(t)
      BY <1>1 DEF Writable
    <2>3. \A A \in (flush.todo \ {ops}) \cup {ops} : \A op, o \in A : BindingOf(op) = BindingOf(o)
      BY DEF Flushing
    <2>4. \A A \in flush.todo \ {ops} : \A op \in A, o \in ops : BindingOf(op) # BindingOf(o)
      BY DEF Flushing
    <2>5. /\ Begun \subseteq Operation /\ \A op \in Begun : Writable(op.key)
          /\ \A op, o \in Begun : op.key = o.key => op = o
          /\ \A A, B \in flush.todo : \A op \in A, o \in B : BindingOf(op) = BindingOf(o) => A = B
      BY DEF Flushing
    <2>6. flush.retained \cap Keys(Begun) = {}
      BY DEF Flushing
    <2>7. Progress'
      BY <1>1 DEF Progress
    <2> QED  BY <1>1, <1>2, <2>1, <2>2, <2>3, <2>4, <2>5, <2>6, <2>7 DEF Flushing, Keys
  <1>5. Remembered'
    BY <1>1, <1>2 DEF Remembered, Writable
  <1>6. \A t \in Targets : Versioned(t) => Versioned(t)'
    BY <1>1, <1>2 DEF Versioned, Known, Bound, Credit
  <1>7. Undisturbed'
    BY <1>1, <1>2, <1>6 DEF Undisturbed, Lone, TargetsOf, Optimistic
  <1> QED  BY <1>3, <1>4, <1>5, <1>7

(* A step that answers operations of the batch: `wrote` were carried out, and  *)
(* the source confirmed `told`, which is all of them or, with a fault, none.  *)
Answers(wrote, told) ==
    /\ UNCHANGED <<plan, clock, node, writeTargets, pending, read, mark, meanwhile>>
    /\ flush.at = "apply"
    /\ flush' = [at |-> flush'.at, todo |-> flush.todo, batch |-> flush.batch,
                 left |-> flush'.left, applied |-> flush.applied \cup told,
                 failed |-> flush'.failed, retained |-> flush.retained]
    /\ flush'.at \in {"apply", "done"}
    /\ Progress'
    /\ wrote \subseteq flush.left /\ told \in {wrote, {}}
    /\ \A op \in wrote : Matches(op)
    /\ row' = [t \in Targets |-> IF \E op \in wrote : op.key = t
                                 THEN Written(CHOOSE op \in wrote : op.key = t) ELSE row[t]]
    /\ seen' = [t \in Targets |-> IF \E op \in told : op.key = t THEN row'[t] ELSE seen[t]]
    /\ owed' = owed \ {op.key : op \in {o \in told : mark[plan.owner[o.key]] = o.mark}}
    /\ faults' \in Nat /\ faults' >= faults /\ (told # wrote => faults' >= faults + 1)
    /\ \A op \in flush'.failed \ flush.failed :
          faults' = faults /\ BindingOf(op) \in plan.transacts =>
             op \in flush.left /\ ~Matches(op)

LEMMA SameBinding ==
  ASSUME Flushing, NEW op \in flush.batch, NEW o \in flush.batch
  PROVE  BindingOf(op) = BindingOf(o)
  BY DEF Flushing

LEMMA BatchThrowsAnswers ==
  ASSUME CopyAssumption, Copied, BatchThrows
  PROVE  \E wrote : Answers(wrote, {})
  <1> USE DEF Copied
  <1>1. /\ UNCHANGED <<plan, clock, node, writeTargets, pending, read, mark, meanwhile>>
        /\ seen' = seen /\ owed' = owed /\ faults' = faults + 1 /\ faults \in Nat
        /\ flush.at = "apply" /\ flush.left = flush.batch
    BY DEF BatchThrows, copy, ghosts, Values
  <1>2. flush.applied = {} /\ flush.failed = {}
    BY <1>1 DEF Flushing, Progress
  <1>3. flush' = [at |-> "done", todo |-> flush.todo, batch |-> flush.batch, left |-> {},
                  applied |-> flush.applied, failed |-> flush.batch, retained |-> flush.retained]
    BY DEF BatchThrows, Flushing
  <1>4. Progress'
    <2>1. Retained' = Keys(flush.batch)
      BY <1>2, <1>3 DEF Retained, Keys
    <2>2. (Keys(flush.batch \ flush.applied))' = Keys(flush.batch)
      BY <1>2, <1>3 DEF Keys
    <2> QED  BY <1>2, <1>3, <2>1, <2>2 DEF Progress
  <1>5. seen' = [t \in Targets |-> IF \E op \in {} : op.key = t THEN row'[t] ELSE seen[t]]
    BY <1>1 DEF Values
  <1>7. CASE row' = row
    <2>1. row' = [t \in Targets |-> IF \E op \in {} : op.key = t
                                    THEN Written(CHOOSE op \in {} : op.key = t) ELSE row[t]]
      BY <1>7 DEF Values
    <2> QED  BY <1>1, <1>2, <1>3, <1>4, <1>5, <2>1 DEF Answers
  <1>8. CASE (\A op \in flush.batch : Matches(op)) /\ Write(flush.batch)
    <2>1. PICK ops : ops = flush.batch
      OBVIOUS
    <2>2. Answers(ops, {})
      BY <1>1, <1>2, <1>3, <1>4, <1>5, <1>8, <2>1 DEF Answers, Write
    <2> QED  BY <2>2
  <1> QED  BY <1>7, <1>8 DEF BatchThrows

LEMMA ApplyOneAnswers ==
  ASSUME CopyAssumption, Copied, NEW op \in flush.left, ApplyOne(op)
  PROVE  \E wrote, told : Answers(wrote, told)
  <1> USE DEF Copied
  <1> DEFINE rest == IF flush.left = {op} THEN "done" ELSE "apply"
  <1>1. /\ UNCHANGED <<plan, clock, node, writeTargets, pending, read, mark, meanwhile>>
        /\ flush.at = "apply" /\ faults \in Nat
        /\ op \in flush.batch /\ ~Transactional(BindingOf(op))
        /\ flush.batch = flush.left \cup flush.applied \cup flush.failed
        /\ flush.left \cap flush.applied = {} /\ flush.left \cap flush.failed = {}
        /\ flush.applied \cap flush.failed = {}
    BY DEF ApplyOne, copy, ghosts, Values, Flushing, Progress, Confirm
  <1>2. \A o \in flush.batch : ~Transactional(BindingOf(o))
    BY <1>1, SameBinding
  <1>3. CASE /\ Matches(op) /\ Write({op}) /\ Confirm({op}) /\ faults' = faults
             /\ flush' = [flush EXCEPT !.at = rest, !.left = @ \ {op}, !.applied = @ \cup {op}]
    <2>1. flush' = [at |-> rest, todo |-> flush.todo, batch |-> flush.batch,
                    left |-> flush.left \ {op}, applied |-> flush.applied \cup {op},
                    failed |-> flush.failed, retained |-> flush.retained]
      BY <1>3 DEF Flushing
    <2>2. Progress'
      <3>1. rest = "done" => Retained' = (Keys(flush.batch \ flush.applied))'
        <4> SUFFICES ASSUME flush.left = {op}
                     PROVE  Retained' = (Keys(flush.batch \ flush.applied))'
          OBVIOUS
        <4>1. Retained' = Keys(flush.failed)
          BY <1>1, <1>2, <2>1 DEF Retained, Keys, BindingOf, Transactional
        <4>2. flush.batch \ (flush.applied \cup {op}) = flush.failed
          BY <1>1
        <4> QED  BY <2>1, <4>1, <4>2 DEF Keys
      <3>2. \A o \in flush.batch : ~Transactional(BindingOf(o))'
        BY <1>1, <1>2 DEF BindingOf, Transactional
      <3> QED  BY <1>1, <2>1, <3>1, <3>2 DEF Progress
    <2>3. Answers({op}, {op})
      <3>1. op \notin flush.applied /\ {op} \subseteq flush.left /\ flush'.failed \ flush.failed = {}
        BY <1>1, <2>1
      <3>2. row' = [t \in Targets |-> IF \E o \in {op} : o.key = t
                                      THEN Written(CHOOSE o \in {op} : o.key = t) ELSE row[t]]
        BY <1>3 DEF Write
      <3>3. seen' = [t \in Targets |-> IF \E o \in {op} : o.key = t THEN row'[t] ELSE seen[t]]
        BY <1>3 DEF Confirm
      <3>4. owed' = owed \ {u.key : u \in {o \in {op} : mark[plan.owner[o.key]] = o.mark}}
        BY <1>3 DEF Confirm
      <3>5. flush' = [at |-> flush'.at, todo |-> flush.todo, batch |-> flush.batch,
                      left |-> flush'.left, applied |-> flush.applied \cup {op},
                      failed |-> flush'.failed, retained |-> flush.retained]
            /\ flush'.at \in {"apply", "done"}
        BY <2>1
      <3>6. faults' \in Nat /\ faults' >= faults /\ Matches(op)
        BY <1>1, <1>3
      <3> QED  BY <1>1, <2>2, <3>1, <3>2, <3>3, <3>4, <3>5, <3>6 DEF Answers
    <2> QED  BY <2>3
  <1>4. ASSUME flush' = [flush EXCEPT !.at = rest, !.left = @ \ {op}, !.failed = @ \cup {op}],
               seen' = seen, owed' = owed
        PROVE  /\ flush' = [at |-> rest, todo |-> flush.todo, batch |-> flush.batch,
                            left |-> flush.left \ {op}, applied |-> flush.applied \cup {},
                            failed |-> flush.failed \cup {op}, retained |-> flush.retained]
               /\ seen' = [t \in Targets |-> IF \E o \in {} : o.key = t THEN row'[t] ELSE seen[t]]
               /\ owed' = owed \ {o.key : o \in {u \in {} : mark[plan.owner[u.key]] = u.mark}}
               /\ Progress'
    <2>1. flush' = [at |-> rest, todo |-> flush.todo, batch |-> flush.batch,
                    left |-> flush.left \ {op}, applied |-> flush.applied \cup {},
                    failed |-> flush.failed \cup {op}, retained |-> flush.retained]
      BY <1>4 DEF Flushing
    <2>2. Progress'
      <3>1. rest = "done" => Retained' = (Keys(flush.batch \ flush.applied))'
        <4> SUFFICES ASSUME flush.left = {op}
                     PROVE  Retained' = (Keys(flush.batch \ flush.applied))'
          OBVIOUS
        <4>1. Retained' = Keys(flush.failed \cup {op})
          BY <1>1, <1>2, <2>1 DEF Retained, Keys, BindingOf, Transactional
        <4>2. flush.batch \ flush.applied = flush.failed \cup {op}
          BY <1>1
        <4> QED  BY <2>1, <4>1, <4>2 DEF Keys
      <3>2. \A o \in flush.batch : ~Transactional(BindingOf(o))'
        BY <1>1, <1>2 DEF BindingOf, Transactional
      <3> QED  BY <1>1, <2>1, <3>1, <3>2 DEF Progress
    <2>3. seen' = [t \in Targets |-> IF \E o \in {} : o.key = t THEN row'[t] ELSE seen[t]]
      BY <1>4 DEF Values
    <2>4. owed' = owed \ {o.key : o \in {u \in {} : mark[plan.owner[u.key]] = u.mark}}
      BY <1>4
    <2> QED  BY <2>1, <2>2, <2>3, <2>4
  <1>5. CASE /\ ~Matches(op) /\ row' = row /\ faults' = faults /\ seen' = seen /\ owed' = owed
             /\ flush' = [flush EXCEPT !.at = rest, !.left = @ \ {op}, !.failed = @ \cup {op}]
    <2>1. row' = [t \in Targets |-> IF \E o \in {} : o.key = t
                                    THEN Written(CHOOSE o \in {} : o.key = t) ELSE row[t]]
      BY <1>5 DEF Values
    <2>2. Answers({}, {})
      BY <1>1, <1>4, <1>5, <2>1 DEF Answers
    <2> QED  BY <2>2
  <1>6. CASE /\ faults' = faults + 1 /\ seen' = seen /\ owed' = owed
             /\ flush' = [flush EXCEPT !.at = rest, !.left = @ \ {op}, !.failed = @ \cup {op}]
             /\ row' = row \/ (Matches(op) /\ Write({op}))
    <2>1. CASE row' = row
      <3>1. row' = [t \in Targets |-> IF \E o \in {} : o.key = t
                                      THEN Written(CHOOSE o \in {} : o.key = t) ELSE row[t]]
        BY <2>1 DEF Values
      <3>2. Answers({}, {})
        BY <1>1, <1>4, <1>6, <3>1 DEF Answers
      <3> QED  BY <3>2
    <2>2. CASE Matches(op) /\ Write({op})
      <3>1. Answers({op}, {})
        BY <1>1, <1>4, <1>6, <2>2 DEF Answers, Write
      <3> QED  BY <3>1
    <2> QED  BY <1>6, <2>1, <2>2
  <1> QED  BY <1>3, <1>5, <1>6 DEF ApplyOne, ghosts

LEMMA ApplyTransactionalAnswers ==
  ASSUME CopyAssumption, Copied, ApplyTransactional
  PROVE  \E wrote, told : Answers(wrote, told)
  <1> USE DEF Copied
  <1>1. PICK ops : ops = flush.batch
    OBVIOUS
  <1> DEFINE clash == {op \in ops : ~Matches(op)}
  <1>2. /\ UNCHANGED <<plan, clock, node, writeTargets, pending, read, mark, meanwhile>>
        /\ flush.at = "apply" /\ faults \in Nat
        /\ \A op \in ops : Transactional(BindingOf(op))
    BY <1>1 DEF ApplyTransactional, copy, ghosts, Values, Confirm
  <1>3. flush.left = ops /\ flush.applied = {} /\ flush.failed = {}
    BY <1>1, <1>2 DEF Flushing, Progress
  <1>4. ASSUME NEW bad \in SUBSET ops, seen' = seen, owed' = owed, row' = row,
               flush' = [flush EXCEPT !.at = "done", !.left = {}, !.failed = bad],
               faults' \in Nat, faults' >= faults,
               \A op \in bad : faults' = faults /\ BindingOf(op) \in plan.transacts =>
                                  ~Matches(op)
        PROVE  Answers({}, {})
    <2>1. flush' = [at |-> "done", todo |-> flush.todo, batch |-> flush.batch, left |-> {},
                    applied |-> flush.applied \cup {}, failed |-> bad, retained |-> flush.retained]
      BY <1>4 DEF Flushing
    <2>2. Progress'
      <3>1. Retained' = Keys(ops)
        <4>1. \A op \in ops : Transactional(BindingOf(op))'
          BY <1>2 DEF BindingOf, Transactional
        <4> QED  BY <1>1, <1>3, <2>1, <4>1 DEF Retained, Keys
      <3>2. (Keys(flush.batch \ flush.applied))' = Keys(ops)
        BY <1>1, <1>3, <2>1 DEF Keys
      <3> QED  BY <1>1, <1>3, <2>1, <3>1, <3>2 DEF Progress
    <2>3. row' = [t \in Targets |-> IF \E o \in {} : o.key = t
                                    THEN Written(CHOOSE o \in {} : o.key = t) ELSE row[t]]
      BY <1>4 DEF Values
    <2>4. seen' = [t \in Targets |-> IF \E o \in {} : o.key = t THEN row'[t] ELSE seen[t]]
      BY <1>4 DEF Values
    <2> QED  BY <1>2, <1>3, <1>4, <2>1, <2>2, <2>3, <2>4 DEF Answers
  <1>5. CASE /\ clash = {} /\ Write(ops) /\ Confirm(ops) /\ faults' = faults
             /\ flush' = [flush EXCEPT !.at = "done", !.left = {}, !.applied = ops]
    <2>1. flush' = [at |-> "done", todo |-> flush.todo, batch |-> flush.batch, left |-> {},
                    applied |-> flush.applied \cup ops, failed |-> flush.failed,
                    retained |-> flush.retained]
      BY <1>3, <1>5 DEF Flushing
    <2>2. Progress'
      <3>1. Retained' = {}
        BY <1>1, <1>3, <2>1 DEF Retained
      <3>2. (Keys(flush.batch \ flush.applied))' = {}
        BY <1>1, <1>3, <2>1 DEF Keys
      <3> QED  BY <1>1, <1>3, <2>1, <3>1, <3>2 DEF Progress
    <2>3. Answers(ops, ops)
      <3>1. \A op \in ops : Matches(op)
        BY <1>5
      <3>2. row' = [t \in Targets |-> IF \E o \in ops : o.key = t
                                      THEN Written(CHOOSE o \in ops : o.key = t) ELSE row[t]]
        BY <1>5 DEF Write
      <3>3. seen' = [t \in Targets |-> IF \E o \in ops : o.key = t THEN row'[t] ELSE seen[t]]
        BY <1>5 DEF Confirm
      <3>4. owed' = owed \ {u.key : u \in {o \in ops : mark[plan.owner[o.key]] = o.mark}}
        BY <1>5 DEF Confirm
      <3>5. flush'.failed \ flush.failed = {} /\ ops \subseteq flush.left
        BY <1>3, <2>1
      <3>6. flush' = [at |-> flush'.at, todo |-> flush.todo, batch |-> flush.batch,
                      left |-> flush'.left, applied |-> flush.applied \cup ops,
                      failed |-> flush'.failed, retained |-> flush.retained]
            /\ flush'.at \in {"apply", "done"}
        BY <2>1
      <3>7. faults' \in Nat /\ faults' >= faults
        BY <1>2, <1>5
      <3> QED  BY <1>2, <2>2, <3>1, <3>2, <3>3, <3>4, <3>5, <3>6, <3>7 DEF Answers
    <2> QED  BY <2>3
  <1>6. CASE /\ row' = row /\ seen' = seen /\ owed' = owed
             /\ \E bad \in SUBSET ops :
                   /\ faults' = IF bad = clash THEN faults ELSE faults + 1
                   /\ flush' = [flush EXCEPT !.at = "done", !.left = {}, !.failed = bad]
    <2>1. PICK bad \in SUBSET ops :
                   /\ faults' = IF bad = clash THEN faults ELSE faults + 1
                   /\ flush' = [flush EXCEPT !.at = "done", !.left = {}, !.failed = bad]
      BY <1>6
    <2>2. \A op \in bad : faults' = faults => ~Matches(op)
      BY <1>2, <2>1
    <2>3. faults' \in Nat /\ faults' >= faults
      BY <1>2, <2>1
    <2>4. Answers({}, {})
      BY <1>4, <1>6, <2>1, <2>2, <2>3
    <2> QED  BY <2>4
  <1>7. CASE /\ \A op \in ops : BindingOf(op) \notin plan.transacts
             /\ flush' = [flush EXCEPT !.at = "done", !.left = {}, !.failed = ops]
             /\ row' = row /\ faults' = faults /\ seen' = seen /\ owed' = owed
    <2>1. faults' \in Nat /\ faults' >= faults
      BY <1>2, <1>7
    <2>2. PICK bad \in SUBSET ops : bad = ops
      OBVIOUS
    <2>3. Answers({}, {})
      BY <1>4, <1>7, <2>1, <2>2
    <2> QED  BY <2>3
  <1> QED  BY <1>1, <1>5, <1>6, <1>7 DEF ApplyTransactional, ghosts

LEMMA AnswersKept ==
  ASSUME CopyAssumption, Copied, NEW wrote, NEW told, Answers(wrote, told)
  PROVE  Copied'
  <1> USE DEF Copied
  <1>1. /\ UNCHANGED <<plan, clock, node, writeTargets, pending, read, mark, meanwhile>>
        /\ flush.at = "apply" /\ flush'.at \in {"apply", "done"}
        /\ flush'.todo = flush.todo /\ flush'.batch = flush.batch
        /\ flush'.applied = flush.applied \cup told /\ flush'.retained = flush.retained
        /\ wrote \subseteq flush.left /\ told \subseteq wrote
        /\ clock \in Nat /\ faults \in Nat /\ faults' \in Nat /\ faults' >= faults
    BY DEF Answers, Values
  <1>2. wrote \subseteq flush.batch \ flush.applied /\ wrote \subseteq Unanswered
        /\ wrote \subseteq Begun
    BY <1>1 DEF Flushing, Progress, Unanswered, Begun
  <1>3. \A op \in Begun : /\ op.key \in Targets /\ op.kind \in {"upsert", "delete"}
                          /\ op.val \in Nat /\ op.ver \in Nat
    BY DEF Flushing, Operation
  <1>4. \A op, o \in Begun : op.key = o.key => op = o
    BY DEF Flushing
  <1>5. ASSUME NEW op \in wrote
        PROVE  row'[op.key] = Written(op) /\ Matches(op)
    <2>1. op.key \in Targets
      BY <1>2, <1>3
    <2>2. (CHOOSE o \in wrote : o.key = op.key) = op
      BY <1>2, <1>4
    <2> QED  BY <2>1, <2>2 DEF Answers
  <1>6. \A t \in Targets : (\A op \in wrote : op.key # t) => row'[t] = row[t] /\ seen'[t] = seen[t]
    BY <1>1 DEF Answers
  <1>7. \A op \in told : seen'[op.key] = row'[op.key]
    BY <1>1, <1>2, <1>3 DEF Answers
  <1>8. told = {} => seen' = seen /\ owed' = owed
    BY DEF Answers, Values
  <1>9. Values'
    <2>1. \A op \in wrote : row'[op.key] \in Row \cup {None}
      <3> TAKE op \in wrote
      <3>1. op.key \in Targets /\ op.val \in Nat /\ op.ver \in Nat /\ row[op.key] \in Row \cup {None}
        BY <1>2, <1>3 DEF Values
      <3> DEFINE v == IF Optimistic(BindingOf(op)) THEN op.ver + 1
                      ELSE IF row[op.key] = None THEN op.ver ELSE row[op.key].ver
      <3>2. row[op.key] # None => row[op.key].ver \in Nat
        BY <3>1 DEF Row
      <3>3. v \in Nat
        BY <3>1, <3>2
      <3>4. Written(op) \in {None, [val |-> op.val, ver |-> v]}
        BY DEF Written
      <3> QED  BY <1>5, <3>1, <3>3, <3>4 DEF Row
    <2>2. row' \in [Targets -> Row \cup {None}]
      <3>1. \A t \in Targets : row'[t] \in Row \cup {None}
        BY <1>6, <2>1 DEF Values
      <3> QED  BY <3>1 DEF Answers
    <2>3. seen' \in [Targets -> Row \cup {None}]
      BY <2>2 DEF Answers, Values
    <2>4. owed' \subseteq Targets
      BY DEF Answers, Values
    <2> QED  BY <1>1, <2>2, <2>3, <2>4 DEF Values, TargetsOf
  <1>10. Reading'
    BY <1>1 DEF Reading
  <1>11. Begun' = Begun
    BY <1>1 DEF Begun
  <1>12. Flushing'
    <2>1. \A op : BindingOf(op)' = BindingOf(op)
      BY <1>1 DEF BindingOf
    <2>2. \A t : Writable(t)' <=> Writable(t)
      BY <1>1 DEF Writable
    <2>3. flush' = [at |-> flush'.at, todo |-> flush'.todo, batch |-> flush'.batch,
                    left |-> flush'.left, applied |-> flush'.applied,
                    failed |-> flush'.failed, retained |-> flush'.retained]
      BY DEF Answers
    <2>4. Progress'
      BY DEF Answers
    <2>5. /\ Begun \subseteq Operation /\ \A op \in Begun : Writable(op.key)
          /\ \A A \in flush.todo \cup {flush.batch} : \A op, o \in A : BindingOf(op) = BindingOf(o)
          /\ \A A \in flush.todo : \A op \in A, o \in flush.batch : BindingOf(op) # BindingOf(o)
          /\ \A A, B \in flush.todo : \A op \in A, o \in B : BindingOf(op) = BindingOf(o) => A = B
          /\ flush.retained \cap Keys(Begun) = {}
      BY DEF Flushing
    <2> QED  BY <1>1, <1>4, <1>11, <2>1, <2>2, <2>3, <2>4, <2>5 DEF Flushing, Keys
  <1>13. \A op \in Unanswered' : op \in Unanswered /\ op \notin told
    <2> SUFFICES ASSUME NEW op \in Unanswered'
                 PROVE  op \in Unanswered /\ op \notin told
      OBVIOUS
    <2>1. op \in UNION flush.todo \/ op \in flush.batch \ (flush.applied \cup told)
      BY <1>1 DEF Unanswered
    <2>2. CASE op \in UNION flush.todo
      <3>1. op \notin flush.batch
        BY <2>2 DEF Flushing
      <3> QED  BY <1>1, <1>2, <2>2, <3>1 DEF Unanswered
    <2>3. CASE op \in flush.batch \ (flush.applied \cup told)
      BY <2>3 DEF Unanswered
    <2> QED  BY <2>1, <2>2, <2>3
  <1>14. \A op \in Unanswered : op \in told \/ op \in Unanswered'
    BY <1>1 DEF Unanswered
  <1>15. Remembered'
    <2> SUFFICES ASSUME "edit" \notin meanwhile  PROVE Remembered'
      BY <1>1 DEF Remembered
    <2>1. \A op \in Begun : op.mark = mark[plan.owner[op.key]]
      BY DEF Remembered
    <2>2. owed' = owed \ Keys(told)
      <3>1. {o \in told : mark[plan.owner[o.key]] = o.mark} = told
        BY <1>1, <1>2, <2>1
      <3> QED  BY <3>1 DEF Answers, Keys
    <2>3. ASSUME NEW t \in owed'
          PROVE  t \in Open'
      <3>1. t \in Open /\ t \notin Keys(told)
        BY <1>1, <2>2, <2>3 DEF Remembered
      <3> QED  BY <1>1, <1>14, <3>1 DEF Open, Keys
    <2> QED  BY <1>1, <1>11, <2>1, <2>2, <2>3 DEF Remembered, Writable
  <1>16. Undisturbed'
    <2> SUFFICES ASSUME meanwhile = {}  PROVE Undisturbed'
      BY <1>1 DEF Undisturbed
    <2>1. /\ read.at = "idle"
          /\ \A op \in Begun : /\ op.key \in writeTargets[plan.owner[op.key]]
                               /\ op.kind = pending[plan.owner[op.key]]
                               /\ op.ver = node[plan.owner[op.key]].ver
          /\ \A op \in Unanswered : op.seen = seen[op.key]
      BY <1>1 DEF Undisturbed
    <2>2. ASSUME NEW op \in Unanswered'
          PROVE  op.seen = seen'[op.key]
      <3>1. op \in Unanswered /\ op \in Begun /\ op \notin told
        BY <1>13 DEF Unanswered, Begun
      <3>2. \A o \in told : o.key # op.key
        BY <1>1, <1>2, <1>4, <3>1
      <3>3. seen'[op.key] = seen[op.key]
        BY <1>3, <3>1, <3>2 DEF Answers
      <3> QED  BY <2>1, <3>1, <3>3
    <2>3. \A t \in Targets : t \in Open' => t \in Open
      BY <1>1, <1>13 DEF Open, Keys
    <2>4. ASSUME NEW t \in Targets, Lone(t)'
          PROVE  Versioned(t)'
      <3> DEFINE i == plan.owner[t]
      <3>1. Versioned(t) /\ Optimistic(plan.binding[t])
        BY <1>1, <2>4 DEF Lone, Undisturbed, TargetsOf, Optimistic
      <3>2. /\ Bound(t) \in Nat /\ Bound(t)' \in Nat
            /\ Bound(t) = (clock + faults + 2) - Credit(t)
            /\ Bound(t)' = (clock + faults' + 2) - Credit(t)'
            /\ Credit(t) \in {0, 1} /\ Credit(t)' \in {0, 1}
        BY <1>1, <1>9, Bounds, BoundsLater
      <3>3. Credit(t)' <= Credit(t)
        BY <1>1, <2>3 DEF Credit
      <3>4. CASE \A op \in wrote : op.key # t
        <4>1. Known(t)' = Known(t)
          BY <1>1, <3>4 DEF Known
        <4>2. Bound(t)' >= Bound(t)
          BY <1>1, <3>2, <3>3
        <4> QED  BY <1>1, <1>6, <1>9, <3>1, <3>4, <4>1, <4>2, VersionsStay
      <3>5. ASSUME NEW op \in wrote, op.key = t
            PROVE  Versioned(t)'
        <4>1. /\ t \in writeTargets[i] /\ op.kind = pending[i] /\ op.ver = node[i].ver
              /\ op.ver \in Nat /\ op.kind \in {"upsert", "delete"} /\ op \in Begun
          BY <1>2, <1>3, <2>1, <3>5
        <4>2. \A o \in flush.applied : o.key # t
          <5>1. flush.applied \subseteq Begun
            BY DEF Flushing, Progress, Begun
          <5> QED  BY <1>2, <1>4, <3>5, <5>1
        <4>3. Known(t) = op.ver
          BY <4>1, <4>2 DEF Known
        <4>4. Credit(t) = 1
          <5>1. t \in Open
            BY <1>2, <3>5 DEF Open, Keys
          <5>2. pending[i] # None
            BY <4>1 DEF CopyAssumption
          <5> QED  BY <5>1, <5>2 DEF Credit
        <4>5. Agree(row[t], Bound(t), op.ver, seen[t]) /\ (seen[t] # None => seen[t].ver = op.ver)
          BY <3>1, <4>1, <4>3 DEF Versioned
        <4>6. op.ver <= Bound(t)
          BY <4>5 DEF Agree
        <4>7. Bound(t)' >= Bound(t) + 1
          <5>1. CASE told = {} /\ told # wrote
            BY <1>1, <3>2, <4>4, <5>1 DEF Answers
          <5>2. CASE told = wrote
            <6>1. t \notin Open'
              <7>1. t \notin flush.retained
                BY <3>5, <4>1 DEF Flushing, Keys
              <7>2. ASSUME NEW o \in Unanswered'
                    PROVE  o.key # t
                <8>1. o \in Begun /\ o \notin wrote
                  BY <1>13, <5>2, <7>2 DEF Unanswered, Begun
                <8> QED  BY <1>4, <3>5, <4>1, <8>1
              <7> QED  BY <1>1, <7>1, <7>2 DEF Open, Keys
            <6>2. Credit(t)' = 0
              BY <1>1, <6>1 DEF Credit
            <6>3. clock \in Nat /\ faults \in Nat /\ faults' \in Nat /\ faults' >= faults
              BY <1>1
            <6>4. Bound(t) = (clock + faults + 2) - 1
              BY <3>2, <4>4
            <6>5. Bound(t)' = (clock + faults' + 2) - 0
              BY <3>2, <6>2
            <6>6. Bound(t) + 1 = clock + faults + 2
              BY <6>3, <6>4
            <6>7. Bound(t)' = clock + faults' + 2
              BY <6>3, <6>5
            <6> QED  BY <6>3, <6>6, <6>7
          <5> QED  BY <5>1, <5>2 DEF Answers
        <4>8. /\ op.kind = "delete" => row'[t] = None
              /\ op.kind = "upsert" => row'[t] = [val |-> op.val, ver |-> op.ver + 1]
          BY <1>5, <3>1, <3>5, <4>1 DEF Written, BindingOf
        <4>9. \A r \in Row : r # None
          BY DEF CopyAssumption, Row
        <4>10. op.kind = "upsert" => row'[t] \in Row /\ row'[t] # None /\ row'[t].ver = op.ver + 1
          BY <1>2, <1>3, <3>5, <4>8, <4>9 DEF Row
        <4>11. CASE told = {}
          <5>1. Known(t)' = op.ver /\ seen'[t] = seen[t]
            BY <1>1, <1>8, <4>1, <4>2, <4>11 DEF Known
          <5>2. Agree(row'[t], Bound(t)', op.ver, seen[t])
            BY <3>2, <4>1, <4>6, <4>7, <4>8, <4>10 DEF Agree
          <5>3. row'[t] # None => row'[t].ver <= Bound(t)'
            BY <3>2, <4>1, <4>6, <4>7, <4>8, <4>10
          <5> QED  BY <1>1, <2>1, <4>5, <5>1, <5>2, <5>3 DEF Versioned
        <4>12. CASE told = wrote
          <5>1. seen'[t] = row'[t]
            BY <1>7, <3>5, <4>12
          <5>2. op.kind = "upsert" => Known(t)' = op.ver + 1
            BY <1>1, <3>5, <4>1, <4>12 DEF Known
          <5>3. op.kind = "delete" => Known(t)' = op.ver
            <6>1. \A o \in wrote : o.key = t => o = op
              BY <1>2, <1>4, <3>5
            <6> QED  BY <1>1, <4>1, <4>2, <4>12, <6>1 DEF Known
          <5>4. Agree(row'[t], Bound(t)', Known(t)', seen'[t])
            BY <3>2, <4>1, <4>6, <4>7, <4>8, <4>10, <5>1, <5>2, <5>3 DEF Agree
          <5>5. row'[t] # None => row'[t].ver <= Bound(t)' /\ row'[t].ver = Known(t)'
            BY <3>2, <4>1, <4>6, <4>7, <4>8, <4>10, <5>2
          <5> QED  BY <1>1, <2>1, <5>1, <5>4, <5>5 DEF Versioned
        <4> QED  BY <4>11, <4>12 DEF Answers
      <3> QED  BY <3>4, <3>5
    <2> QED  BY <1>1, <1>11, <2>1, <2>2, <2>4 DEF Undisturbed
  <1> QED  BY <1>9, <1>10, <1>12, <1>15, <1>16

(***************************************************************************)
(* The end of a batch.                                                      *)
(***************************************************************************)

LEMMA FlushDone ==
  ASSUME Flushing, flush.at = "done"
  PROVE  /\ flush.applied \subseteq flush.batch /\ flush.applied \subseteq Begun
         /\ Retained = Keys(flush.batch \ flush.applied)
         /\ Open = Keys(UNION flush.todo) \cup (flush.retained \cup Retained)
  <1>1. flush.applied \subseteq flush.batch /\ Retained = Keys(flush.batch \ flush.applied)
    BY DEF Flushing, Progress
  <1>2. Keys(Unanswered) = Keys(UNION flush.todo) \cup Keys(flush.batch \ flush.applied)
    BY DEF Unanswered, Keys
  <1> QED  BY <1>1, <1>2 DEF Begun, Open

(* The targets of an instance whose version is adopted: the only one.        *)
LEMMA OnlyTarget ==
  ASSUME CopyAssumption, Values, NEW t \in Targets, t \in writeTargets[plan.owner[t]],
         Cardinality(writeTargets[plan.owner[t]]) = 1
  PROVE  writeTargets[plan.owner[t]] = {t}
  <1>1. writeTargets[plan.owner[t]] \subseteq Targets
    BY Owners DEF Values, TargetsOf
  <1>2. IsFiniteSet(writeTargets[plan.owner[t]])
    BY <1>1, FS_Subset DEF CopyAssumption
  <1> QED  BY <1>2, FS_Singleton

LEMMA Adopted ==
  ASSUME CopyAssumption, Values, Flushing, flush.at = "done", AdoptVersions
  PROVE  /\ node' \in [Instances -> Row \cup {None}]
         /\ \A i \in Instances : node'[i] = None <=> node[i] = None
  <1> DEFINE mine(i) == {op \in flush.applied : op.key \in writeTargets[i]
                            /\ op.kind = "upsert" /\ Optimistic(BindingOf(op))}
  <1>1. ASSUME NEW i \in Instances
        PROVE  \/ node'[i] = node[i]
               \/ node[i] # None /\ node'[i] \in Row
    <2>1. CASE node[i] = None \/ Cardinality(writeTargets[i]) # 1 \/ mine(i) = {}
      BY <2>1 DEF AdoptVersions
    <2>2. CASE node[i] # None /\ Cardinality(writeTargets[i]) = 1 /\ mine(i) # {}
      <3>1. node'[i] = [node[i] EXCEPT !.ver = (CHOOSE op \in mine(i) : TRUE).ver + 1]
        BY <2>2 DEF AdoptVersions
      <3>2. PICK o : o = CHOOSE op \in mine(i) : TRUE
        OBVIOUS
      <3>3. o \in mine(i)
        BY <2>2, <3>2
      <3>4. o \in Operation
        BY <3>3, FlushDone DEF Flushing
      <3>5. o.ver \in Nat /\ node[i] \in Row
        BY <2>2, <3>4 DEF Operation, Values
      <3> QED  BY <2>2, <3>1, <3>2, <3>5 DEF Row
    <2> QED  BY <2>1, <2>2
  <1>2. \A r \in Row : r # None
    BY DEF CopyAssumption, Row
  <1>3. node \in [Instances -> Row \cup {None}] /\ node' = [i \in Instances |-> node'[i]]
    BY DEF Values, AdoptVersions
  <1>4. \A i \in Instances : node'[i] \in Row \cup {None}
    BY <1>1, <1>3
  <1> QED  BY <1>1, <1>2, <1>3, <1>4

(* An instance of one target adopts the version its confirmed upsert made.   *)
LEMMA AdoptedVersion ==
  ASSUME CopyAssumption, Copied, meanwhile = {}, flush.at = "done", AdoptVersions,
         NEW t \in Targets, t \in writeTargets[plan.owner[t]]
  PROVE  node'[plan.owner[t]].ver =
           IF /\ writeTargets[plan.owner[t]] = {t}
              /\ \E op \in flush.applied : op.key = t /\ op.kind = "upsert"
                                           /\ Optimistic(plan.binding[t])
           THEN node[plan.owner[t]].ver + 1 ELSE node[plan.owner[t]].ver
  <1> USE DEF Copied
  <1> DEFINE i == plan.owner[t]
  <1> DEFINE mine == {op \in flush.applied : op.key \in writeTargets[i]
                            /\ op.kind = "upsert" /\ Optimistic(BindingOf(op))}
  <1>1. i \in Instances /\ node[i] \in Row /\ node[i] # None
    BY Owners
  <1>2. writeTargets[i] = {t} <=> Cardinality(writeTargets[i]) = 1
    BY OnlyTarget, FS_Singleton
  <1>3. CASE writeTargets[i] = {t} /\ mine # {}
    <2>1. node'[i] = [node[i] EXCEPT !.ver = (CHOOSE op \in mine : TRUE).ver + 1]
      BY <1>1, <1>2, <1>3 DEF AdoptVersions
    <2>2. PICK o : o = CHOOSE op \in mine : TRUE
      OBVIOUS
    <2>3. o \in mine
      BY <1>3, <2>2
    <2>4. o.key = t /\ o.kind = "upsert" /\ Optimistic(plan.binding[t]) /\ o \in flush.applied
      BY <1>3, <2>3 DEF BindingOf
    <2>5. o.ver = node[i].ver
      BY <2>4, FlushDone DEF Undisturbed
    <2> QED  BY <1>1, <1>3, <2>1, <2>2, <2>4, <2>5 DEF Row
  <1>4. CASE ~(writeTargets[i] = {t} /\ mine # {})
    <2>1. node'[i] = node[i]
      BY <1>1, <1>2, <1>4 DEF AdoptVersions
    <2>2. ASSUME writeTargets[i] = {t}, NEW op \in flush.applied, op.key = t,
                 op.kind = "upsert", Optimistic(plan.binding[t])
          PROVE  FALSE
      BY <1>4, <2>2 DEF BindingOf
    <2> QED  BY <2>1, <2>2
  <1> QED  BY <1>3, <1>4

LEMMA BatchDoneKept ==
  ASSUME CopyAssumption, Copied, BatchDone
  PROVE  Copied'
  <1> USE DEF Copied
  <1> DEFINE retained == flush.retained \cup Retained
  <1>1. /\ UNCHANGED <<plan, row, clock, faults, writeTargets, read, seen, mark, owed, meanwhile>>
        /\ flush.at = "done" /\ AdoptVersions
    BY DEF BatchDone, ghosts
  <1>2. /\ flush.applied \subseteq flush.batch /\ flush.applied \subseteq Begun
        /\ Retained = Keys(flush.batch \ flush.applied)
        /\ Open = Keys(UNION flush.todo) \cup retained
    BY <1>1, FlushDone
  <1>3. /\ node' \in [Instances -> Row \cup {None}]
        /\ \A i \in Instances : node'[i] = None <=> node[i] = None
    BY <1>1, Adopted
  <1>4. \/ /\ flush.todo # {} /\ pending' = pending
           /\ flush' = [NoFlush EXCEPT !.at = "next", !.todo = flush.todo, !.retained = retained]
        \/ flush.todo = {} /\ flush' = NoFlush /\ pending' = Kept(retained)
    BY DEF BatchDone
  <1>5. \A i \in Instances : /\ pending'[i] \in {pending[i], None}
                             /\ pending[i] # None /\ writeTargets[i] \cap retained # {} =>
                                   pending'[i] = pending[i]
    BY <1>4 DEF Kept, Values
  <1>6. Values'
    <2>1. pending' \in [Instances -> {None, "upsert", "delete"}]
      BY <1>4, <1>5 DEF Kept, Values
    <2>2. \A i \in Instances : pending'[i] # None => node'[i] # None
      BY <1>3, <1>5 DEF Values
    <2>3. \A i \in Instances : /\ writeTargets'[i] \subseteq TargetsOf(i)'
                               /\ node'[i] = None <=> writeTargets'[i] = {}
      BY <1>1, <1>3 DEF Values, TargetsOf
    <2>4. writeTargets' = [i \in Instances |-> writeTargets'[i]] /\ seen' \in [Targets -> Row \cup {None}]
          /\ row' \in [Targets -> Row \cup {None}] /\ mark' \in [Instances -> Nat]
          /\ plan' \in Plans /\ clock' \in Nat /\ faults' \in Nat /\ owed' \subseteq Targets
      BY <1>1 DEF Values
    <2> QED  BY <1>3, <2>1, <2>2, <2>3, <2>4 DEF Values
  <1>7. Reading'
    BY <1>1 DEF Reading
  <1>8. /\ Begun' = UNION flush.todo /\ Unanswered' = UNION flush.todo
        /\ flush'.applied = {} /\ flush'.at \in {"next", "idle"}
        /\ flush'.at = "next" => Open' = Open
        /\ flush'.at = "idle" => flush.todo = {} /\ Open = retained
    <2>1. CASE flush.todo # {}
      <3>1. flush' = [at |-> "next", todo |-> flush.todo, batch |-> {}, left |-> {},
                      applied |-> {}, failed |-> {}, retained |-> retained]
        BY <1>4, <2>1 DEF NoFlush
      <3>2. Begun' = UNION flush.todo /\ Unanswered' = UNION flush.todo
        BY <3>1 DEF Begun, Unanswered
      <3> QED  BY <1>2, <3>1, <3>2 DEF Open, Keys
    <2>2. CASE flush.todo = {}
      <3>1. flush' = [at |-> "idle", todo |-> {}, batch |-> {}, left |-> {},
                      applied |-> {}, failed |-> {}, retained |-> {}]
        BY <1>4, <2>2 DEF NoFlush
      <3>2. Keys(UNION flush.todo) = {}
        BY <2>2 DEF Keys
      <3> QED  BY <1>2, <2>2, <3>1, <3>2 DEF Begun, Unanswered
    <2> QED  BY <2>1, <2>2
  <1>9. \A op \in UNION flush.todo : op \in Begun /\ op \in Unanswered /\ op \notin flush.batch
    <2> TAKE op \in UNION flush.todo
    <2>1. PICK A \in flush.todo : op \in A
      OBVIOUS
    <2>2. op \notin flush.batch
      BY <2>1 DEF Flushing
    <2> QED  BY <2>2 DEF Begun, Unanswered
  <1>10. Flushing'
    <2>1. \A op : BindingOf(op)' = BindingOf(op)
      BY <1>1 DEF BindingOf
    <2>2. \A t : Writable(t)' <=> Writable(t)
      BY <1>1 DEF Writable
    <2>3. /\ Begun \subseteq Operation /\ \A op \in Begun : Writable(op.key)
          /\ \A op, o \in Begun : op.key = o.key => op = o
          /\ \A A \in flush.todo : \A op, o \in A : BindingOf(op) = BindingOf(o)
          /\ \A A, B \in flush.todo : \A op \in A, o \in B : BindingOf(op) = BindingOf(o) => A = B
          /\ flush.retained \cap Keys(Begun) = {}
      BY DEF Flushing
    <2>4. retained \cap Keys(UNION flush.todo) = {}
      <3> SUFFICES ASSUME NEW op \in UNION flush.todo, op.key \in retained
                   PROVE  FALSE
        BY DEF Keys
      <3>1. op.key \notin flush.retained
        BY <1>9, <2>3 DEF Keys
      <3>2. PICK o \in flush.batch : o.key = op.key
        BY <1>2, <3>1 DEF Keys
      <3>3. o = op
        BY <1>9, <2>3, <3>2 DEF Begun
      <3> QED  BY <1>9, <3>2, <3>3
    <2>5. CASE flush.todo # {}
      <3>1. flush' = [at |-> "next", todo |-> flush.todo, batch |-> {}, left |-> {},
                      applied |-> {}, failed |-> {}, retained |-> retained]
        BY <1>4, <2>5 DEF NoFlush
      <3>2. Progress'
        BY <3>1 DEF Progress
      <3> QED  BY <1>8, <1>9, <2>1, <2>2, <2>3, <2>4, <3>1, <3>2 DEF Flushing, Keys
    <2>6. CASE flush.todo = {}
      <3>1. flush' = NoFlush /\ Begun' = {}
        BY <1>4, <1>8, <2>6
      <3> QED  BY <3>1 DEF Flushing, Progress, NoFlush, Keys
    <2> QED  BY <2>5, <2>6
  <1>11. Remembered'
    <2> SUFFICES ASSUME "edit" \notin meanwhile  PROVE Remembered'
      BY <1>1 DEF Remembered
    <2>1. \A op \in Begun' : op.mark = mark'[plan'.owner[op.key]]
      BY <1>1, <1>8, <1>9 DEF Remembered
    <2>2. ASSUME NEW t \in owed
          PROVE  /\ Writable(t) /\ t \in writeTargets[plan.owner[t]] /\ t \in Open
                 /\ pending[plan.owner[t]] # None /\ t \in Targets
      BY <1>1 DEF Remembered, Values
    <2>3. ASSUME NEW t \in owed
          PROVE  pending'[plan.owner[t]] # None
      <3>1. CASE flush.todo # {}
        BY <1>4, <2>2, <3>1
      <3>2. CASE flush.todo = {}
        <4>1. t \in retained
          BY <1>2, <2>2, <3>2 DEF Keys
        <4>2. plan.owner[t] \in Instances
          BY <2>2, Owners
        <4> QED  BY <1>5, <2>2, <4>1, <4>2
      <3> QED  BY <3>1, <3>2
    <2>4. ASSUME NEW t \in owed, flush'.at # "idle"
          PROVE  t \in Open'
      BY <1>8, <2>2, <2>4
    <2> QED  BY <1>1, <2>1, <2>2, <2>3, <2>4 DEF Remembered, Writable
  <1>12. Undisturbed'
    <2> SUFFICES ASSUME meanwhile = {}  PROVE Undisturbed'
      BY <1>1 DEF Undisturbed
    <2>1. /\ read.at = "idle"
          /\ \A op \in Begun : /\ op.key \in writeTargets[plan.owner[op.key]]
                               /\ op.kind = pending[plan.owner[op.key]]
                               /\ op.ver = node[plan.owner[op.key]].ver
          /\ \A op \in Unanswered : op.seen = seen[op.key]
      BY <1>1 DEF Undisturbed
    <2>2. ASSUME NEW op \in Begun'
          PROVE  /\ op.key \in writeTargets'[plan'.owner[op.key]]
                 /\ op.kind = pending'[plan'.owner[op.key]]
                 /\ op.ver = node'[plan'.owner[op.key]].ver
                 /\ op.seen = seen'[op.key]
      <3>1. op \in Begun /\ op \in Unanswered /\ op \notin flush.batch /\ flush.todo # {}
        BY <1>8, <1>9, <2>2
      <3>2. pending' = pending /\ op.key \in Targets
        BY <1>4, <3>1 DEF Flushing, Operation
      <3>3. \A o \in flush.applied : o.key # op.key
        BY <1>2, <3>1 DEF Flushing
      <3>4. node'[plan.owner[op.key]].ver = node[plan.owner[op.key]].ver
        BY <1>1, <2>1, <3>1, <3>2, <3>3, AdoptedVersion
      <3> QED  BY <1>1, <2>1, <3>1, <3>2, <3>4
    <2>3. ASSUME NEW t \in Targets, Lone(t)'
          PROVE  Versioned(t)'
      <3> DEFINE i == plan.owner[t]
      <3>1. Versioned(t) /\ Optimistic(plan.binding[t]) /\ TargetsOf(i) = {t} /\ i \in Instances
        BY <1>1, <2>3, Owners DEF Lone, Undisturbed, TargetsOf, Optimistic
      <3>2. writeTargets[i] \subseteq {t}
        BY <3>1 DEF Values
      <3>3. ASSUME t \in writeTargets[i]
            PROVE  Known(t)' = Known(t)
        <4>1. writeTargets[i] = {t}
          BY <3>2, <3>3
        <4>2. node'[i].ver = Known(t)
          BY <1>1, <3>1, <3>3, <4>1, AdoptedVersion DEF Known
        <4>3. Known(t)' = node'[i].ver
          BY <1>1, <1>8 DEF Known
        <4> QED  BY <4>2, <4>3
      <3>4. Credit(t)' <= Credit(t) /\ Credit(t) \in {0, 1} /\ Credit(t)' \in {0, 1}
        <4>1. CASE flush.todo # {}
          <5>1. Credit(t)' = Credit(t)
            BY <1>1, <1>4, <1>8, <4>1 DEF Credit, NoFlush
          <5> QED  BY <5>1 DEF Credit
        <4>2. CASE flush.todo = {}
          <5>1. pending'[i] # None => pending[i] # None /\ t \in Open
            <6>1. pending' = Kept(retained) /\ Open = retained
              BY <1>2, <1>4, <4>2 DEF Keys
            <6> QED  BY <3>1, <3>2, <6>1 DEF Kept
          <5> QED  BY <1>1, <5>1 DEF Credit
        <4> QED  BY <4>1, <4>2
      <3>5. Bound(t)' >= Bound(t)
        <4>1. clock \in Nat /\ faults \in Nat
          BY DEF Values
        <4> QED  BY <1>1, <1>6, <3>4, <4>1, Bounds, BoundsLater
      <3> QED  BY <1>1, <1>6, <3>1, <3>3, <3>5, VersionsStay
    <2> QED  BY <1>1, <1>8, <2>1, <2>2, <2>3 DEF Undisturbed
  <1> QED  BY <1>6, <1>7, <1>10, <1>11, <1>12

(***************************************************************************)
(* A step.                                                                  *)
(***************************************************************************)

LEMMA ReadsAreKept ==
  ASSUME CopyAssumption, Copied,
         StartRead \/ (\E b \in Bindings : QueryBinding(b)) \/ ReadFails \/ Land \/ ReadInstances
  PROVE  Copied'
  BY StartReadKept, QueryBindingKept, ReadFailsKept, LandKept, ReadInstancesKept

(* What is kept by a step, and which steps answer operations.                *)
LEMMA CopyGoesOn ==
  ASSUME CopyAssumption, Copied, [Next]_vars
  PROVE  /\ Copied'
         /\ \/ \E wrote, told : Answers(wrote, told)
            \/ flush.left \ flush'.left = {} /\ flush'.failed \ flush.failed = {}
  <1> DEFINE Quiet == flush.left \ flush'.left = {} /\ flush'.failed \ flush.failed = {}
  <1>1. CASE UNCHANGED vars
    <2>1. UNCHANGED <<plan, row, clock, faults, node, writeTargets, pending, flush, read, seen,
                      mark, owed, meanwhile>>
      BY <1>1 DEF vars, copy, ghosts
    <2>2. Values' /\ Reading'
      BY <2>1 DEF Copied, Values, TargetsOf, Reading
    <2>3. Flushing' /\ Remembered'
      BY <2>1, FlushStays DEF Copied, Remembered, Begun, Writable, Open, Unanswered, Keys
    <2>4. \A t \in Targets : (Lone(t)' <=> Lone(t)) /\ (Versioned(t) => Versioned(t)')
      BY <2>1 DEF Lone, TargetsOf, Optimistic, Versioned, Known, Bound, Credit, Open, Unanswered,
         Keys
    <2>5. Undisturbed'
      BY <2>1, <2>4 DEF Copied, Undisturbed, Begun, Unanswered
    <2> QED  BY <2>1, <2>2, <2>3, <2>5 DEF Copied
  <1>2. CASE \E t \in Targets : OtherWrites(t)
    BY <1>2, OtherWritesKept DEF OtherWrites
  <1>3. CASE \E i \in Instances, kind \in {"upsert", "delete"} : Record(i, kind)
    BY <1>3, RecordKept DEF Record
  <1>4. CASE StartFlush
    <2>1. Copied'
      BY <1>4, StartFlushKept
    <2>2. flush.left = {} /\ flush'.failed \in {{}, flush.failed}
      <3>1. flush = NoFlush
        BY <1>4 DEF StartFlush, Copied, Flushing
      <3>2. flush' = flush \/ flush' = [NoFlush EXCEPT !.at = "next", !.todo = Batches]
        BY <1>4 DEF StartFlush
      <3>3. flush' = flush \/ flush'.failed = {}
        BY <3>2 DEF NoFlush
      <3> QED  BY <3>1, <3>3 DEF NoFlush
    <2> QED  BY <2>1, <2>2
  <1>5. CASE \E ops \in flush.todo : NextBatch(ops)
    <2>1. PICK ops \in flush.todo : NextBatch(ops)
      BY <1>5
    <2>2. Copied'
      BY <2>1, NextBatchKept
    <2>3. flush.left = {} /\ flush'.failed = {}
      BY <2>1 DEF NextBatch, Copied, Flushing
    <2> QED  BY <2>2, <2>3
  <1>6. ASSUME NEW wrote, NEW told, Answers(wrote, told)
        PROVE  Copied'
    BY <1>6, AnswersKept
  <1>7. CASE BatchThrows
    BY <1>6, <1>7, BatchThrowsAnswers
  <1>8. CASE \E op \in flush.left : ApplyOne(op)
    BY <1>6, <1>8, ApplyOneAnswers
  <1>9. CASE ApplyTransactional
    BY <1>6, <1>9, ApplyTransactionalAnswers
  <1>10. CASE BatchDone
    <2>1. Copied'
      BY <1>10, BatchDoneKept
    <2>2. flush.left = {}
      BY <1>10 DEF BatchDone, Copied, Flushing, Progress
    <2>3. flush'.failed = {}
      <3>1. \/ flush' = [NoFlush EXCEPT !.at = "next", !.todo = flush.todo,
                                       !.retained = flush.retained \cup Retained]
            \/ flush' = NoFlush
        BY <1>10 DEF BatchDone
      <3>2. \/ flush' = [at |-> "next", todo |-> flush.todo, batch |-> {}, left |-> {},
                        applied |-> {}, failed |-> {}, retained |-> flush.retained \cup Retained]
            \/ flush' = NoFlush
        BY <3>1 DEF NoFlush
      <3> QED  BY <3>2 DEF NoFlush
    <2> QED  BY <2>1, <2>2, <2>3
  <1>11. CASE StartRead \/ (\E b \in Bindings : QueryBinding(b)) \/ ReadFails \/ Land
              \/ ReadInstances
    <2>1. flush' = flush
      BY <1>11 DEF StartRead, QueryBinding, ReadFails, Land, ReadInstances
    <2> QED  BY <1>11, <2>1, ReadsAreKept
  <1> QED  BY <1>1, <1>2, <1>3, <1>4, <1>5, <1>7, <1>8, <1>9, <1>10, <1>11 DEF Next

(* What a flush holds of a copy and its sources, whatever the plan, and      *)
(* whatever is edited or refreshed while it runs.                            *)
THEOREM CopyIsKept ==
  ASSUME CopyAssumption
  PROVE  Spec => []Copied
  <1>1. Init => Copied
    BY CopyStarts
  <1>2. Copied /\ [Next]_vars => Copied'
    BY CopyGoesOn
  <1> QED  BY <1>1, <1>2, PTL DEF Spec

(* An edit no source has confirmed stays pending.                            *)
THEOREM UnwrittenIsPending ==
  ASSUME CopyAssumption
  PROVE  Spec => []UnwrittenStaysPending
  <1>1. Copied => UnwrittenStaysPending
    BY DEF Copied, Remembered, UnwrittenStaysPending
  <1> QED  BY <1>1, CopyIsKept, PTL

(* A cached handle reads the document the source now reflects.               *)
THEOREM HandlesAreCurrent ==
  ASSUME CopyAssumption
  PROVE  Spec => []HandlesCurrent
  <1>1. Init => Documents
    BY DEF Init, Documents
  <1>2. Documents /\ [Next]_vars => Documents'
    <2> SUFFICES ASSUME Documents, [Next]_vars  PROVE Documents'
      OBVIOUS
    <2>1. CASE Land
      BY <2>1 DEF Land, Documents, Clears
    <2>2. CASE ReadInstances
      BY <2>2 DEF ReadInstances, Documents, Handle
    <2>3. CASE UNCHANGED <<graph, built, entities>>
      BY <2>3 DEF Documents
    <2>4. Land \/ ReadInstances \/ UNCHANGED <<graph, built, entities>>
      BY DEF Next, vars, source, OtherWrites, Record, StartFlush, NextBatch, BatchThrows, ApplyOne,
         ApplyTransactional, BatchDone, StartRead, QueryBinding, ReadFails
    <2> QED  BY <2>1, <2>2, <2>3, <2>4
  <1>3. Documents => HandlesCurrent
    BY DEF Documents, HandlesCurrent
  <1> QED  BY <1>1, <1>2, <1>3, PTL DEF Spec

(* What an operation that is not answered expects of the row it is for.       *)
LEMMA Expected ==
  ASSUME CopyAssumption, Copied, meanwhile = {}, NEW op \in flush.left, Guarded(op)
  PROVE  /\ op.key \in Targets
         /\ row[op.key] # None /\ row[op.key].ver = op.ver => row[op.key] = op.seen
         /\ op.seen # None => op.seen.ver = op.ver
  <1> USE DEF Copied
  <1>1. op \in flush.batch \ flush.applied
    BY DEF Flushing, Progress
  <1>2. op \in Begun /\ op \in Unanswered
    BY <1>1 DEF Begun, Unanswered
  <1> DEFINE t == op.key
  <1>3. t \in Targets /\ op.kind = "upsert" /\ Optimistic(plan.binding[t])
    BY <1>2 DEF Flushing, Operation, Guarded, BindingOf
  <1>4. TargetsOf(plan.owner[t]) = {t}
    <2>1. TargetsOf(plan.owner[t]) \subseteq Targets /\ t \in TargetsOf(plan.owner[t])
      BY <1>3 DEF TargetsOf
    <2>2. IsFiniteSet(TargetsOf(plan.owner[t]))
      BY <2>1, FS_Subset DEF CopyAssumption
    <2>3. Cardinality(TargetsOf(plan.owner[t])) = 1
      BY DEF Guarded, Single, TargetsOf
    <2> QED  BY <2>1, <2>2, <2>3, FS_Singleton
  <1>5. /\ Versioned(t) /\ t \in writeTargets[plan.owner[t]]
        /\ op.ver = node[plan.owner[t]].ver /\ op.seen = seen[t]
    BY <1>2, <1>3, <1>4 DEF Undisturbed, Lone
  <1>6. \A o \in flush.applied : o.key # t
    <2>1. flush.applied \subseteq Begun
      BY DEF Flushing, Progress, Begun
    <2> QED  BY <1>1, <1>2, <2>1 DEF Flushing
  <1>7. Known(t) = op.ver
    BY <1>5, <1>6 DEF Known
  <1> QED  BY <1>3, <1>5, <1>7 DEF Versioned, Agree

(* A guarded write replaces only what the copy has seen.                     *)
THEOREM NoUpdateIsLost ==
  ASSUME CopyAssumption
  PROVE  Spec => NoLostUpdate
  <1> DEFINE Seen == meanwhile = {} => \A op \in flush.left \ flush'.left :
                        (Guarded(op) /\ row[op.key] # None /\ row'[op.key] # row[op.key])
                           => row[op.key] = op.seen
  <1>1. Copied /\ [Next]_vars => [Seen]_vars
    <2> SUFFICES ASSUME Copied, [Next]_vars, meanwhile = {}, NEW op \in flush.left \ flush'.left,
                        Guarded(op), row[op.key] # None, row'[op.key] # row[op.key]
                 PROVE  row[op.key] = op.seen
      OBVIOUS
    <2>1. PICK wrote, told : Answers(wrote, told)
      BY CopyGoesOn
    <2>2. op.key \in Targets
      BY Expected
    <2>3. PICK o \in wrote : o.key = op.key
      BY <2>1, <2>2 DEF Answers
    <2>4. o = op
      <3>1. o \in flush.left
        BY <2>1, <2>3 DEF Answers
      <3>2. flush.left \subseteq Begun
        BY DEF Copied, Flushing, Progress, Begun
      <3> QED  BY <2>3, <3>1, <3>2 DEF Copied, Flushing
    <2>5. Matches(op)
      BY <2>1, <2>3, <2>4 DEF Answers
    <2>6. row[op.key].ver = op.ver
      BY <2>5 DEF Matches, Guarded
    <2> QED  BY <2>6, Expected
  <1>2. Spec => []Copied
    BY CopyIsKept
  <1> QED  BY <1>1, <1>2, PTL DEF Spec, NoLostUpdate

(* A guarded write conflicts only with what another writer did.              *)
THEOREM ConflictsAreForeign ==
  ASSUME CopyAssumption
  PROVE  Spec => OnlyForeignConflicts
  <1> DEFINE Foreign == meanwhile = {} => \A op \in flush'.failed \ flush.failed :
                           (Guarded(op) /\ faults' = faults /\ BindingOf(op) \in plan.transacts)
                              => row[op.key] # op.seen
  <1>1. Copied /\ [Next]_vars => [Foreign]_vars
    <2> SUFFICES ASSUME Copied, [Next]_vars, meanwhile = {},
                        NEW op \in flush'.failed \ flush.failed,
                        Guarded(op), faults' = faults, BindingOf(op) \in plan.transacts
                 PROVE  row[op.key] # op.seen
      OBVIOUS
    <2>1. PICK wrote, told : Answers(wrote, told)
      BY CopyGoesOn
    <2>2. op \in flush.left /\ ~Matches(op)
      BY <2>1 DEF Answers
    <2>3. row[op.key] # None /\ row[op.key].ver # op.ver
      BY <2>2 DEF Matches, Guarded
    <2> QED  BY <2>2, <2>3, Expected
  <1>2. Spec => []Copied
    BY CopyIsKept
  <1> QED  BY <1>1, <1>2, PTL DEF Spec, OnlyForeignConflicts

(***************************************************************************)
(* The shape of the state.                                                  *)
(***************************************************************************)

(* A value is the clock of the write that made it, wherever it is held.      *)
Old(r) == r # None => r.val <= clock
Dated ==
    /\ clock <= MaxWrites
    /\ \A t \in Targets : Old(row[t]) /\ Old(read.got[t])
    /\ \A i \in Instances : Old(node[i])
    /\ \A op \in Begun : op.val <= clock

(* Without a write, what is held was held before.                            *)
LEMMA DatedStays ==
  ASSUME Dated, clock' = clock,
         \A t \in Targets : \/ row'[t] \in {None, row[t]}
                            \/ \E op \in Begun : row'[t].val = op.val,
         \A t \in Targets : read'.got[t] \in {None, read.got[t], row[t]},
         \A i \in Instances : \/ node'[i] = None
                              \/ (node'[i].val = node[i].val /\ node[i] # None)
                              \/ \E t \in Targets : /\ read.got[t] # None
                                                    /\ node'[i].val = read.got[t].val,
         \A op \in Begun' : \/ op \in Begun
                            \/ \E i \in Instances : node[i] # None /\ op.val = node[i].val
  PROVE  Dated'
  <1>1. \A t \in Targets : Old(row[t])' /\ Old(read.got[t])'
    <2> TAKE t \in Targets
    <2>1. /\ row[t] # None => row[t].val <= clock
          /\ read.got[t] # None => read.got[t].val <= clock
          /\ \A op \in Begun : op.val <= clock
      BY DEF Dated, Old
    <2>2. row'[t] \in {None, row[t]} \/ row'[t].val <= clock
      BY <2>1
    <2>3. read'.got[t] \in {None, read.got[t], row[t]}
      OBVIOUS
    <2> QED  BY <2>1, <2>2, <2>3 DEF Old
  <1>2. \A i \in Instances : Old(node[i])'
    BY DEF Dated, Old
  <1>3. \A op \in Begun' : op.val <= clock'
    BY DEF Dated, Old
  <1> QED  BY <1>1, <1>2, <1>3 DEF Dated

(* A write is dated later than all the others.                               *)
LEMMA DatedLater ==
  ASSUME Dated, clock \in Nat, clock < MaxWrites, MaxWrites \in Nat, clock' = clock + 1,
         Values, Reading, Flushing, read' = read, flush' = flush,
         \A t \in Targets : row'[t] \in {None, row[t]} \/ row'[t].val = clock',
         \A i \in Instances : node'[i] = node[i] \/ node'[i].val = clock'
  PROVE  Dated'
  <1>1. \A r \in Row \cup {None} : Old(r) => (r # None => r.val <= clock')
    BY DEF Old, Row
  <1>2. \A t \in Targets : Old(row[t])' /\ Old(read.got[t])'
    BY <1>1 DEF Dated, Old, Values, Reading
  <1>3. \A i \in Instances : Old(node[i])'
    BY <1>1 DEF Dated, Old, Values
  <1>4. \A op \in Begun' : op.val <= clock'
    BY DEF Begun, Dated, Flushing, Operation
  <1> QED  BY <1>2, <1>3, <1>4 DEF Dated

LEMMA DatedGoesOn ==
  ASSUME CopyAssumption, Copied, Dated, [Next]_vars
  PROVE  Dated'
  <1> USE DEF Copied
  <1>1. ASSUME clock' = clock, node' = node, read' = read \/ read' = NoRead,
               Begun' \subseteq Begun, NEW wrote, wrote \subseteq Begun,
               \A t \in Targets : row'[t] = row[t]
                                  \/ \E op \in wrote : op.key = t /\ row'[t] = Written(op)
        PROVE  Dated'
    <2>1. \A t \in Targets : \/ row'[t] \in {None, row[t]}
                             \/ \E op \in Begun : row'[t].val = op.val
      <3> SUFFICES ASSUME NEW t \in Targets, row'[t] # row[t], row'[t] # None
                   PROVE  \E op \in Begun : row'[t].val = op.val
        OBVIOUS
      <3>1. PICK op \in wrote : row'[t] = Written(op)
        BY <1>1
      <3>2. Written(op).val = op.val
        BY <3>1 DEF Written
      <3> QED  BY <1>1, <3>1, <3>2
    <2>2. \A t \in Targets : read'.got[t] \in {None, read.got[t], row[t]}
      BY <1>1 DEF NoRead
    <2>3. \A i \in Instances : node'[i] = None \/ (node'[i].val = node[i].val /\ node[i] # None)
      BY <1>1
    <2>4. \A op \in Begun' : op \in Begun
      BY <1>1
    <2> QED  BY <1>1, <2>1, <2>2, <2>3, <2>4, DatedStays
  <1>2. ASSUME NEW wrote, NEW told, Answers(wrote, told)
        PROVE  Dated'
    <2>1. wrote \subseteq Begun /\ Begun' = Begun
      BY <1>2 DEF Answers, Flushing, Progress, Begun
    <2>2. \A t \in Targets : row'[t] = row[t]
                             \/ \E op \in wrote : op.key = t /\ row'[t] = Written(op)
      BY <1>2 DEF Answers
    <2> QED  BY <1>1, <1>2, <2>1, <2>2 DEF Answers
  <1>3. CASE \E t \in Targets : OtherWrites(t)
    <2>1. PICK w \in Targets : OtherWrites(w)
      BY <1>3
    <2>2. /\ clock' = clock + 1 /\ clock \in Nat /\ clock < MaxWrites
          /\ node' = node /\ read' = read /\ flush' = flush
      BY <2>1 DEF OtherWrites, copy, Values
    <2>3. \A t \in Targets : \/ row'[t] \in {None, row[t]}
                             \/ row'[t].val = clock'
      <3>1. row \in [Targets -> Row \cup {None}]
        BY DEF Values
      <3> QED  BY <2>1, <3>1 DEF OtherWrites
    <2>4. MaxWrites \in Nat /\ \A i \in Instances : node'[i] = node[i]
      BY <2>2 DEF CopyAssumption
    <2> QED  BY <2>2, <2>3, <2>4, DatedLater
  <1>4. CASE \E i \in Instances, kind \in {"upsert", "delete"} : Record(i, kind)
    <2>1. PICK i \in Instances, kind \in {"upsert", "delete"} : Record(i, kind)
      BY <1>4
    <2>2. /\ clock' = clock + 1 /\ clock \in Nat /\ clock < MaxWrites
          /\ row' = row /\ read' = read /\ flush' = flush /\ node[i] # None
      BY <2>1 DEF Record, Values
    <2>3. \A j \in Instances : node'[j] = node[j] \/ node'[j].val = clock'
      <3>1. node \in [Instances -> Row \cup {None}]
        BY DEF Values
      <3>2. node' \in {node, [node EXCEPT ![i].val = clock']}
        BY <2>1 DEF Record
      <3> QED  BY <2>2, <3>1, <3>2 DEF Row
    <2>4. MaxWrites \in Nat /\ \A t \in Targets : row'[t] \in {None, row[t]}
      BY <2>2 DEF CopyAssumption
    <2> QED  BY <2>2, <2>3, <2>4, DatedLater
  <1>5. CASE StartFlush
    <2>1. clock' = clock /\ node' = node /\ read' = read /\ row' = row
      BY <1>5 DEF StartFlush
    <2>2. \A op \in Begun' : \/ op \in Begun
                            \/ \E i \in Instances : node[i] # None /\ op.val = node[i].val
      <3> SUFFICES ASSUME NEW op \in Begun', op \notin Begun
                   PROVE  \E i \in Instances : node[i] # None /\ op.val = node[i].val
        OBVIOUS
      <3>1. flush' = [NoFlush EXCEPT !.at = "next", !.todo = Batches]
        BY <1>5 DEF StartFlush, Begun
      <3>2. Begun' = UNION Batches
        BY <3>1 DEF NoFlush, Begun
      <3>3. op.key \in Due /\ op = OperationFor(op.key)
        BY <3>2, BatchesAre
      <3>4. op.val = node[plan.owner[op.key]].val
        BY <3>3 DEF OperationFor
      <3>5. node[plan.owner[op.key]] # None /\ plan.owner[op.key] \in Instances
        BY <3>3, DueAre, Owners
      <3> QED  BY <3>4, <3>5
    <2>3. \A i \in Instances : node'[i] = None \/ (node'[i].val = node[i].val /\ node[i] # None)
      BY <2>1
    <2> QED  BY <2>1, <2>2, <2>3, DatedStays
  <1>6. CASE (\E ops \in flush.todo : NextBatch(ops)) \/ BatchDone
    <2>1. clock' = clock /\ read' = read /\ row' = row
      BY <1>6 DEF NextBatch, BatchDone
    <2>2. Begun' \subseteq Begun
      <3>1. CASE \E ops \in flush.todo : NextBatch(ops)
        <4>1. PICK ops \in flush.todo :
                 flush' = [flush EXCEPT !.at = "apply", !.todo = @ \ {ops}, !.batch = ops,
                              !.left = ops, !.applied = {}, !.failed = {}]
          BY <3>1 DEF NextBatch
        <4>2. Begun' = (UNION (flush.todo \ {ops})) \cup ops
          BY <4>1 DEF Begun, Flushing
        <4> QED  BY <4>2 DEF Begun
      <3>2. CASE BatchDone
        <4>1. \/ flush' = [NoFlush EXCEPT !.at = "next", !.todo = flush.todo,
                                         !.retained = flush.retained \cup Retained]
              \/ flush' = NoFlush
          BY <3>2 DEF BatchDone
        <4>2. \/ flush' = [at |-> "next", todo |-> flush.todo, batch |-> {}, left |-> {},
                          applied |-> {}, failed |-> {},
                          retained |-> flush.retained \cup Retained]
              \/ flush' = NoFlush
          BY <4>1 DEF NoFlush
        <4> QED  BY <4>2 DEF Begun, NoFlush
      <3> QED  BY <1>6, <3>1, <3>2
    <2>3. \A i \in Instances : node'[i] = None \/ (node'[i].val = node[i].val /\ node[i] # None)
      <3>1. CASE node' = node
        BY <3>1
      <3>2. CASE AdoptVersions
        <4> SUFFICES ASSUME NEW i \in Instances, node[i] # None
                     PROVE  node'[i].val = node[i].val
          BY <3>2 DEF AdoptVersions
        <4>1. node[i] \in Row
          BY DEF Values
        <4> QED  BY <3>2, <4>1 DEF AdoptVersions, Row
      <3> QED  BY <1>6, <3>1, <3>2 DEF NextBatch, BatchDone, copy
    <2> QED  BY <2>1, <2>2, <2>3, DatedStays
  <1>7. CASE Land
    <2>1. clock' = clock /\ read' = NoRead /\ row' = row /\ flush' = flush /\ Rebind(read.got)
      BY <1>7 DEF Land
    <2>2. \A i \in Instances : \/ node'[i] = None
                              \/ \E t \in Targets : /\ read.got[t] # None
                                                    /\ node'[i].val = read.got[t].val
      <3> TAKE i \in Instances
      <3>1. PICK v, w \in [Instances -> Targets \cup {None}] :
               /\ IF Drawn(read.got, i) = {} THEN v[i] = None ELSE v[i] \in Drawn(read.got, i)
               /\ node'[i] = NodeFrom(read.got, v[i], w[i])
        BY <2>1 DEF Rebind
      <3>2. v[i] # None => v[i] \in Targets /\ read.got[v[i]] # None
        BY <3>1 DEF Drawn, TargetsOf
      <3>3. v[i] = None => node'[i] = None
        BY <3>1 DEF NodeFrom
      <3>4. v[i] # None => node'[i].val = read.got[v[i]].val
        BY <3>1 DEF NodeFrom
      <3> QED  BY <3>2, <3>3, <3>4
    <2>3. \A t \in Targets : read'.got[t] \in {None, read.got[t], row[t]}
      BY <2>1 DEF NoRead
    <2>4. Begun' = Begun
      BY <2>1 DEF Begun
    <2> QED  BY <2>1, <2>2, <2>3, <2>4, DatedStays
  <1>8. CASE \/ StartRead \/ (\E b \in Bindings : QueryBinding(b)) \/ ReadFails \/ ReadInstances
            \/ UNCHANGED vars
    <2>1. clock' = clock /\ node' = node /\ row' = row /\ flush' = flush
      BY <1>8 DEF StartRead, QueryBinding, ReadFails, ReadInstances, vars, copy
    <2>2. \A t \in Targets : read'.got[t] \in {None, read.got[t], row[t]}
      <3>1. CASE read' = read \/ read' = NoRead
        BY <3>1 DEF NoRead
      <3>2. CASE StartRead
        <4>1. read'.got = NoRead.got
          BY <3>2 DEF StartRead, NoRead
        <4> QED  BY <4>1 DEF NoRead
      <3>3. CASE \E b \in Bindings : QueryBinding(b)
        BY <3>3 DEF QueryBinding
      <3> QED  BY <1>8, <3>1, <3>2, <3>3 DEF ReadFails, ReadInstances, vars
    <2>3. Begun' = Begun
      BY <2>1 DEF Begun
    <2>4. \A i \in Instances : node'[i] = None \/ (node'[i].val = node[i].val /\ node[i] # None)
      BY <2>1
    <2> QED  BY <2>1, <2>2, <2>3, <2>4, DatedStays
  <1>9. CASE BatchThrows \/ (\E op \in flush.left : ApplyOne(op)) \/ ApplyTransactional
    BY <1>2, <1>9, BatchThrowsAnswers, ApplyOneAnswers, ApplyTransactionalAnswers
  <1> QED  BY <1>3, <1>4, <1>5, <1>6, <1>7, <1>8, <1>9 DEF Next

(* The shape of the state: no value is of a write that was not made.         *)
THEOREM TypeIsOK ==
  ASSUME CopyAssumption
  PROVE  Spec => []TypeOK
  <1>1. Init => Dated
    BY DEF Init, Dated, Old, NoRead, NoFlush, Begun, CopyAssumption
  <1>2. Copied /\ Dated /\ [Next]_vars => Dated'
    BY DatedGoesOn
  <1>3. Copied /\ Dated => TypeOK
    <2> SUFFICES ASSUME Copied, Dated  PROVE TypeOK
      OBVIOUS
    <2>1. \A t \in Targets : row[t] # None => row[t].val \in 0 .. MaxWrites /\ row[t].ver \in Nat
      BY DEF Copied, Values, Dated, Old, Row, CopyAssumption
    <2> QED  BY <2>1 DEF TypeOK, Copied, Values, Flushing, Progress, Reading
  <1>4. Spec => []Copied
    BY CopyIsKept
  <1> QED  BY <1>1, <1>2, <1>3, <1>4, PTL DEF Spec

===============================================================================
