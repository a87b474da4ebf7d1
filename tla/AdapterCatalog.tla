---------------------------- MODULE AdapterCatalog ----------------------------
(***************************************************************************)
(* The data-source adapters of one connector: the catalog that opens and   *)
(* remembers one (DataSourceAdapterCatalog), and the wrapper that retries  *)
(* its operations and replaces its connection (ReconnectingAdapter).       *)
(*                                                                         *)
(* Calls, invalidations and drivers interleave at every await; a step is   *)
(* what one settled promise sets off.  A slot nobody refers to is free.    *)
(* A Dispose that fails ends like one that succeeds: both are swallowed.   *)
(***************************************************************************)
EXTENDS Integers

CONSTANTS
    Callers,            \* callers of the connector, one operation at a time each
    Retirers,           \* callers of Invalidate and Dispose
    Adapters,           \* slots for ReconnectingAdapter objects
    Conns,              \* slots for driver connections
    MaxAttempts,        \* policy.MaxAttempts
    None

ASSUME SlotsAssumption == Adapters \subseteq Nat /\ Conns \subseteq Nat /\ None \notin Adapters \cup Conns
ASSUME PolicyAssumption == MaxAttempts \in Nat \ {0}

VARIABLES
    memo,       \* the adapter `opened` remembers for the connector, or None
    adapter,    \* each adapter: how far its opening is, its connection, its reopening
    conn,       \* each connection: "open", "closing" (being disposed) or "closed" (its Dispose ended)
    stray,      \* history: the open ones a retired adapter was given by a reopening begun since
    call,       \* each caller's operation
    retire      \* each invalidation

vars == <<memo, adapter, conn, stray, call, retire>>

Idle == [pc |-> "idle", adapter |-> None]
Free == [stage |-> "free", inner |-> None, reopening |-> "no", previous |-> None, revived |-> FALSE]
Opening == [Free EXCEPT !.stage = "opening"]

Init ==
    /\ memo = None
    /\ adapter = [a \in Adapters |-> Free]
    /\ conn = [k \in Conns |-> "closed"] /\ stray = {}
    /\ call = [c \in Callers |-> Idle]
    /\ retire = [r \in Retirers |-> Idle]

Lowest(S) == CHOOSE x \in S : \A y \in S : x <= y

(* The connections the objects refer to. *)
ConnsOf(ads) == {ads[a].inner : a \in Adapters} \cup {ads[a].previous : a \in Adapters}
InUse(calls) == {calls[c].current : c \in {d \in Callers : calls[d].pc = "op"}}
Disposing(rets) == {rets[r].conn : r \in {x \in Retirers : rets[x].pc = "disposing"}}
FreeAdapters == {a \in Adapters : adapter[a] = Free}
FreeConns == Conns \ (ConnsOf(adapter) \cup InUse(call) \cup Disposing(retire))

(* The state the objects m, ads, ks, calls and rets make, what nobody refers *)
(* to freed.                                                                *)
Become(m, ads, ks, calls, rets) ==
    LET held(a) == \/ m = a
                   \/ \E c \in Callers : calls[c].adapter = a
                   \/ \E r \in Retirers : rets[r].adapter = a
    IN  /\ memo' = m /\ call' = calls /\ retire' = rets /\ conn' = ks
        /\ adapter' = [a \in Adapters |-> IF held(a) THEN ads[a] ELSE Free]

Strays(ks) == stray' = {k \in ks : conn'[k] = "open"}

(***************************************************************************)
(* Operations: what each of their promises sets off.                       *)
(***************************************************************************)

Waiting(pc, a) == [pc |-> pc, adapter |-> a]

(* Mutant: a reopened connection gets all the attempts again. *)
AttemptAnew(a, n, streak, current) ==
    [pc |-> "op", adapter |-> a, attempt |-> IF streak = 1 THEN n ELSE 1,
     streak |-> IF streak = 1 THEN 1 ELSE 0, current |-> current]

(* Run begins an attempt, n times tried, on the connection of the moment. *)
Attempt(a, n, streak, current) ==
    [pc |-> "op", adapter |-> a, attempt |-> n, streak |-> streak, current |-> current]

(* Every caller at pc on adapter a goes on as next says. *)
Resume(pc, a, next(_)) ==
    [c \in Callers |-> IF call[c].pc = pc /\ call[c].adapter = a THEN next(call[c]) ELSE call[c]]

Closing(ks, k) == [ks EXCEPT ![k] = IF @ = "open" THEN "closing" ELSE @]

(* Mutant: a disposal does not wait for a reopening. *)
DisposeAtOnce(ads, a) == [pc |-> "disposing", adapter |-> a, conn |-> ads[a].inner]

(* ReconnectingAdapter.Dispose of an open adapter, once a reopening ended. *)
DisposeAdapter(ads, a) ==
    IF ads[a].reopening # "no" THEN Waiting("reopening", a)
    ELSE [pc |-> "disposing", adapter |-> a, conn |-> ads[a].inner]

(* The retirers of rs go on to dispose adapter a, and begin to close its     *)
(* connection unless it is being reopened.                                  *)
Retire(rs, ads, a) ==
    [r \in Retirers |-> IF r \in rs THEN DisposeAdapter(ads, a) ELSE retire[r]]
CloseFor(ks, rs, ads, a) ==
    IF rs # {} /\ DisposeAdapter(ads, a).pc = "disposing" THEN Closing(ks, ads[a].inner) ELSE ks

(***************************************************************************)
(* Opening: DataSourceAdapterCatalog.Open.                                 *)
(***************************************************************************)

Ask(c) ==
    /\ call[c].pc = "idle"
    /\ IF memo = None
       THEN /\ FreeAdapters # {}
            /\ LET a == Lowest(FreeAdapters) IN
               Become(a, [adapter EXCEPT ![a] = Opening], conn, [call EXCEPT ![c] = Waiting("open", a)], retire)
       ELSE Become(memo, adapter, conn,
                   [call EXCEPT ![c] = IF adapter[memo].stage = "open"
                                       THEN Attempt(memo, 1, 0, adapter[memo].inner)
                                       ELSE Waiting("open", memo)], retire)
    /\ Strays(stray)

(* OpenCore answers: whoever awaits the adapter goes on with it. *)
Opened(a) ==
    /\ adapter[a].stage = "opening" /\ FreeConns # {}
    /\ LET k == Lowest(FreeConns)
           ads == [adapter EXCEPT ![a].stage = "open", ![a].inner = k]
           rs == {r \in Retirers : retire[r] = Waiting("open", a)}
       IN  /\ Become(memo, ads, CloseFor([conn EXCEPT ![k] = "open"], rs, ads, a),
                     Resume("open", a, LAMBDA x : Attempt(a, 1, 0, k)), Retire(rs, ads, a))
           /\ Strays(stray \ {k})

(* Only the failed opening itself is forgotten. *)
Evict(a) == IF memo = a THEN None ELSE memo

OpenFails(a) ==
    /\ adapter[a].stage = "opening"
    /\ Become(Evict(a), adapter, conn, Resume("open", a, LAMBDA x : Idle),
              [r \in Retirers |-> IF retire[r].adapter = a THEN Idle ELSE retire[r]])
    /\ Strays(stray)

(***************************************************************************)
(* ReconnectingAdapter.Run.                                                *)
(***************************************************************************)

OpSucceeds(c) ==
    /\ call[c].pc = "op"
    /\ Become(memo, adapter, conn, [call EXCEPT ![c] = Idle], retire)
    /\ Strays(stray)

(* MaxAttempts bounds the attempts of an operation, reopenings or not. *)
Exhausted(k) == k.attempt >= MaxAttempts

Replaced(k) == adapter[k.adapter].inner # k.current

(* Reopen: one at a time; whoever needs it while it runs awaits the same.  *)
(* Nothing tells it that the catalog has let the adapter go (revived).      *)
StartReopen(a) ==
    IF adapter[a].reopening # "no" THEN adapter
    ELSE [adapter EXCEPT ![a].reopening = "opening", ![a].previous = adapter[a].inner, ![a].revived = memo # a]

OpFails(c, kind) ==
    LET k == call[c]
        streak == IF kind = "auth" \/ Replaced(k) THEN 0 ELSE k.streak + 1
        reopen == ~Replaced(k) /\ (kind = "auth" \/ streak >= 2)
        asleep == [pc |-> "sleep", adapter |-> k.adapter, attempt |-> k.attempt, streak |-> streak]
    IN  /\ k.pc = "op"
        /\ IF kind = "permanent" \/ Exhausted(k)
             THEN Become(memo, adapter, conn, [call EXCEPT ![c] = Idle], retire)
             ELSE Become(memo, IF reopen THEN StartReopen(k.adapter) ELSE adapter, conn,
                         [call EXCEPT ![c] = IF reopen THEN [asleep EXCEPT !.pc = "reopen"] ELSE asleep], retire)
        /\ Strays(stray)

Wake(c) ==
    /\ call[c].pc = "sleep"
    /\ LET k == call[c] IN
       Become(memo, adapter, conn,
              [call EXCEPT ![c] = Attempt(k.adapter, k.attempt + 1, k.streak, adapter[k.adapter].inner)], retire)
    /\ Strays(stray)

(* The replacement is in place; the old connection is being disposed. *)
Reopened(a) ==
    /\ adapter[a].reopening = "opening" /\ FreeConns # {}
    /\ LET k == Lowest(FreeConns) IN
       /\ Become(memo, [adapter EXCEPT ![a].inner = k, ![a].reopening = "disposing"],
                 Closing([conn EXCEPT ![k] = "open"], adapter[a].previous), call, retire)
       /\ Strays(IF adapter[a].revived THEN stray \cup {k} ELSE stray \ {k})

(* The reopening is over: `reopening` is undefined again. *)
Settled(a) == [adapter EXCEPT ![a].reopening = "no", ![a].previous = None, ![a].revived = FALSE]
AwaitingReopen(a) == {r \in Retirers : retire[r] = Waiting("reopening", a)}

(* A reopening that fails leaves the connection and fails its callers. *)
ReopenFails(a) ==
    /\ adapter[a].reopening = "opening"
    /\ Become(memo, Settled(a), CloseFor(conn, AwaitingReopen(a), Settled(a), a),
              Resume("reopen", a, LAMBDA x : Idle), Retire(AwaitingReopen(a), Settled(a), a))
    /\ Strays(stray)

PreviousDisposed(a) ==
    /\ adapter[a].reopening = "disposing"
    /\ LET ks == [conn EXCEPT ![adapter[a].previous] = "closed"] IN
       Become(memo, Settled(a), CloseFor(ks, AwaitingReopen(a), Settled(a), a),
              Resume("reopen", a, LAMBDA x : [x EXCEPT !.pc = "sleep"]), Retire(AwaitingReopen(a), Settled(a), a))
    /\ Strays(stray)

(***************************************************************************)
(* DataSourceAdapterCatalog.Invalidate and Dispose.                        *)
(***************************************************************************)

Invalidate(r) ==
    /\ retire[r] = Idle /\ memo # None
    /\ IF adapter[memo].stage = "opening"
         THEN Become(None, adapter, conn, call, [retire EXCEPT ![r] = Waiting("open", memo)])
         ELSE Become(None, adapter, CloseFor(conn, {r}, adapter, memo), call, Retire({r}, adapter, memo))
    /\ Strays(stray)

Disposed(r) ==
    /\ retire[r].pc = "disposing"
    /\ Become(memo, adapter, [conn EXCEPT ![retire[r].conn] = "closed"], call, [retire EXCEPT ![r] = Idle])
    /\ Strays(stray)

OfCaller(c) == OpSucceeds(c) \/ (\E kind \in {"transient", "auth", "permanent"} : OpFails(c, kind)) \/ Wake(c)
OfAdapter(a) == Opened(a) \/ OpenFails(a) \/ Reopened(a) \/ ReopenFails(a) \/ PreviousDisposed(a)

Next ==
    \/ \E c \in Callers : Ask(c) \/ OfCaller(c)
    \/ \E a \in Adapters : OfAdapter(a)
    \/ \E r \in Retirers : Invalidate(r) \/ Disposed(r)

Spec == Init /\ [][Next]_vars

(* Drivers and timers answer; nothing obliges a caller to ask or to retire. *)
FairSpec ==
    /\ Spec
    /\ \A c \in Callers : WF_vars(OfCaller(c))
    /\ \A a \in Adapters : WF_vars(OfAdapter(a))
    /\ \A r \in Retirers : WF_vars(Disposed(r))

(***************************************************************************)
(* Properties.                                                             *)
(***************************************************************************)

(* Every object is in a stage of its own, and what it refers to exists.     *)
TypeOK ==
    /\ memo \in Adapters \cup {None} /\ (memo # None => adapter[memo] # Free)
    /\ \A a \in Adapters :
        /\ adapter[a].stage \in {"free", "opening", "open"}
        /\ adapter[a].reopening \in {"no", "opening", "disposing"}
        /\ (adapter[a].inner \in Conns) = (adapter[a].stage = "open")
        /\ (adapter[a].previous \in Conns) = (adapter[a].reopening # "no")
    /\ conn \in [Conns -> {"open", "closing", "closed"}] /\ stray \subseteq Conns
    /\ \A c \in Callers : call[c].pc # "idle" => adapter[call[c].adapter] # Free
    /\ \A r \in Retirers : retire[r].pc # "idle" => adapter[retire[r].adapter] # Free

(* Somebody will dispose connection k: its adapter is the one the catalog   *)
(* remembers, or a retirer awaits the reopening it is in.                   *)
Owned(k) ==
    \E a \in Adapters :
        adapter[a].inner = k /\ (memo = a \/ \E r \in Retirers : retire[r] = Waiting("reopening", a))

(* A retirement leaves no connection behind, whatever openings, reopenings  *)
(* and failed disposals it meets: the one way to an open connection nobody  *)
(* will dispose is an operation that outlives the retirement of its adapter *)
(* and has it reopened afterwards.  The interface promises more of Dispose  *)
(* ("Releases any driver connection/pool held by this adapter").            *)
OnlyRevivedLeak == \A k \in Conns : conn[k] = "open" => Owned(k) \/ k \in stray

(* A connection is replaced only by an operation that failed on it: a       *)
(* failure on the one before it does not cost the new one ("retries on the  *)
(* fresh one without a second reopen").                                     *)
OnlyFailedReplaced ==
    [][\A a \in Adapters :
         adapter[a].reopening = "no" /\ adapter'[a].reopening = "opening" =>
           \E c \in Callers : /\ call[c].pc = "op" /\ call'[c].pc = "reopen"
                             /\ call[c].adapter = a /\ call[c].current = adapter[a].inner]_vars

(* Every operation and every invalidation ends, though they await each      *)
(* other's openings, reopenings and disposals.                              *)
EverythingEnds ==
    /\ \A c \in Callers : call[c].pc # "idle" ~> call[c].pc = "idle"
    /\ \A r \in Retirers : retire[r].pc # "idle" ~> retire[r].pc = "idle"

(* Failures are got over: only a failed connection is replaced, and all     *)
(* that was asked ends.                                                     *)
FailuresEnd == OnlyFailedReplaced /\ EverythingEnds
=============================================================================
