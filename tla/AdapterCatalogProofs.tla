------------------------- MODULE AdapterCatalogProofs -------------------------
(***************************************************************************)
(* The safety of a connector's adapters, for any number of callers,        *)
(* retirers, adapters and connections.                                     *)
(*                                                                         *)
(* Every step of the model ends in Become, which frees what nobody refers  *)
(* to any more.  So the invariant is stated of any five values Become can  *)
(* be given (Sound), each action is shown to give it sound ones, and one   *)
(* lemma shows that Become makes the next state sound from them.           *)
(***************************************************************************)
EXTENDS AdapterCatalog, FiniteSetTheorems, WellFoundedInduction, TLAPS

Links == Conns \cup {None}

AdapterStates ==
    [stage : {"free", "opening", "open"}, inner : Links,
     reopening : {"no", "opening", "disposing"}, previous : Links, revived : BOOLEAN]

OpStates == [pc : {"op"}, adapter : Adapters, attempt : Nat, streak : Nat, current : Conns]
PauseStates == [pc : {"sleep", "reopen"}, adapter : Adapters, attempt : Nat, streak : Nat]
WaitStates == [pc : {"open"}, adapter : Adapters]
CallStates == {Idle} \cup WaitStates \cup OpStates \cup PauseStates
RetireStates ==
    {Idle} \cup [pc : {"open", "reopening"}, adapter : Adapters]
           \cup [pc : {"disposing"}, adapter : Adapters, conn : Conns]

(* An adapter has a connection once it is open, and only then is it         *)
(* reopened; until the replacement is there it keeps the one it had.        *)
AdapterOK(y) ==
    /\ y.stage = "open" <=> y.inner \in Conns
    /\ y.reopening # "no" <=> y.previous \in Conns
    /\ y.reopening # "no" => y.stage = "open"
    /\ y.reopening = "opening" => y.previous = y.inner
    /\ y.revived => y.reopening # "no"

(* Whoever waits for an opening waits for one that runs, and so on.         *)
CallOK(x, ads) ==
    /\ x.pc = "open" => ads[x.adapter].stage = "opening"
    /\ x.pc \in {"op", "sleep", "reopen"} => ads[x.adapter].stage = "open"
RetireOK(x, ads) ==
    /\ x.pc = "open" => ads[x.adapter].stage = "opening"
    /\ x.pc = "reopening" => ads[x.adapter].reopening # "no"
    /\ x.pc = "disposing" => ads[x.adapter].stage = "open"

Held(a, m, calls, rets) ==
    \/ m = a
    \/ \E c \in Callers : calls[c].adapter = a
    \/ \E r \in Retirers : rets[r].adapter = a

(* Someone is left to dispose adapter a: the catalog remembers it, or a     *)
(* retirer awaits the end of what a is doing.                               *)
Kept(a, pc, m, rets) == m = a \/ \E r \in Retirers : rets[r] = Waiting(pc, a)

ShapesOK(m, ads, ks, calls, rets) ==
    /\ m \in Adapters \cup {None}
    /\ ads \in [Adapters -> AdapterStates]
    /\ ks \in [Conns -> {"open", "closing", "closed"}]
    /\ calls \in [Callers -> CallStates]
    /\ rets \in [Retirers -> RetireStates]

StagesOK(m, ads, calls, rets) ==
    /\ m # None => ads[m].stage # "free"
    /\ \A a \in Adapters : AdapterOK(ads[a])
    /\ \A c \in Callers : CallOK(calls[c], ads)
    /\ \A r \in Retirers : RetireOK(rets[r], ads)

(* No two adapters share a connection.                                      *)
OwnConns(ads) ==
    \A a, b \in Adapters : ads[a].inner \in Conns /\ ads[a].inner = ads[b].inner => a = b

(* What is being opened or reopened has someone left to dispose it, unless  *)
(* it was reopened after its retirement.                                    *)
WorkKept(m, ads, calls, rets) ==
    \A a \in Adapters :
        /\ Held(a, m, calls, rets) /\ ads[a].stage = "opening" => Kept(a, "open", m, rets)
        /\ ads[a].reopening # "no" /\ ~ads[a].revived => Kept(a, "reopening", m, rets)

(* So has every open connection but a stray one.                            *)
OpenKept(m, ads, ks, str, rets) ==
    \A k \in Conns \ str : ks[k] = "open" =>
        \E a \in Adapters : ads[a].inner = k /\ Kept(a, "reopening", m, rets)

Sound(m, ads, ks, str, calls, rets) ==
    /\ ShapesOK(m, ads, ks, calls, rets)
    /\ StagesOK(m, ads, calls, rets)
    /\ OwnConns(ads)
    /\ WorkKept(m, ads, calls, rets)
    /\ OpenKept(m, ads, ks, str, rets)

NothingLoose == \A a \in Adapters : adapter[a] # Free => Held(a, memo, call, retire)

Inv == Sound(memo, adapter, conn, stray, call, retire) /\ NothingLoose
       /\ stray \subseteq Conns

-----------------------------------------------------------------------------
(* Lemmas about the operators.                                             *)

(* A set of numbers has a least one: no choice of Lowest is empty.          *)
LEMMA LeastNatural == ASSUME NEW S \in SUBSET Nat, S # {} PROVE \E x \in S : \A y \in S : x <= y
<1> DEFINE W == {0..n : n \in S}
<1>1. W # {} /\ W \subseteq FiniteSubsetsOf(Nat)
  <2>1. PICK n \in S : TRUE OBVIOUS
  <2>2. 0..n \in W BY <2>1
  <2>3. ASSUME NEW w \in W PROVE w \in FiniteSubsetsOf(Nat)
    <3>1. PICK i \in S : w = 0..i OBVIOUS
    <3>2. IsFiniteSet(0..i) BY FS_Interval
    <3>3. 0..i \in SUBSET Nat OBVIOUS
    <3> QED BY <3>1, <3>2, <3>3 DEF FiniteSubsetsOf
  <2> QED BY <2>2, <2>3
<1>2. PICK X \in W : \A Y \in W : <<Y, X>> \notin StrictSubsetOrdering(Nat)
  <2> HIDE DEF W
  <2> QED BY <1>1, FS_StrictSubsetOrderingWellFounded, WFMin
<1>3. PICK x \in S : X = 0..x OBVIOUS
<1>4. ASSUME NEW y \in S PROVE x <= y
  <2>1. <<0..y, 0..x>> \notin StrictSubsetOrdering(Nat) BY <1>2, <1>3
  <2>2. SUFFICES ASSUME y < x PROVE FALSE OBVIOUS
  <2>3. 0..y \subseteq 0..x /\ x \in 0..x /\ x \notin 0..y /\ 0..x \subseteq Nat BY <2>2
  <2> QED BY <2>1, <2>3 DEF StrictSubsetOrdering
<1> QED BY <1>4

(* Lowest picks a member: the slot taken is one of the slots.               *)
LEMMA LowestIn == ASSUME NEW S \in SUBSET Nat, S # {} PROVE Lowest(S) \in S
BY LeastNatural DEF Lowest

(* The adapter Ask opens is a free one.                                     *)
LEMMA FreeAdapterIn ==
    ASSUME FreeAdapters # {}
    PROVE  Lowest(FreeAdapters) \in Adapters /\ adapter[Lowest(FreeAdapters)] = Free
<1>1. FreeAdapters \in SUBSET Nat BY SlotsAssumption DEF FreeAdapters
<1>2. Lowest(FreeAdapters) \in FreeAdapters BY <1>1, LowestIn
<1> QED BY <1>2 DEF FreeAdapters

(* The connection a driver gives is a fresh one, no adapter's already.      *)
LEMMA FreeConnIn ==
    ASSUME FreeConns # {}
    PROVE  /\ Lowest(FreeConns) \in Conns
           /\ \A a \in Adapters : adapter[a].inner # Lowest(FreeConns)
<1>1. FreeConns \in SUBSET Nat BY SlotsAssumption DEF FreeConns
<1>2. Lowest(FreeConns) \in FreeConns BY <1>1, LowestIn
<1> QED BY <1>2 DEF FreeConns, ConnsOf

(* The field that tells the shapes apart.                                   *)
LEMMA CallShapes ==
    ASSUME NEW x \in CallStates
    PROVE  /\ x.pc = "idle" => x = Idle
           /\ x.pc = "open" => x.adapter \in Adapters /\ x = Waiting("open", x.adapter)
           /\ x.pc = "op" => x \in OpStates
           /\ x.pc \in {"sleep", "reopen"} => x \in PauseStates
           /\ (x.adapter \in Adapters <=> x # Idle) /\ (x.adapter \in Adapters <=> x.pc # "idle")
           /\ x.pc \in {"idle", "open", "op", "sleep", "reopen"}
BY SlotsAssumption DEF CallStates, WaitStates, OpStates, PauseStates, Idle, Waiting

LEMMA RetireShapes ==
    ASSUME NEW x \in RetireStates
    PROVE  /\ x.pc = "idle" => x = Idle
           /\ x.pc \in {"open", "reopening"} => x.adapter \in Adapters /\ x = Waiting(x.pc, x.adapter)
           /\ x.pc = "disposing" => x.adapter \in Adapters /\ x.conn \in Conns
           /\ (x.adapter \in Adapters <=> x # Idle) /\ (x.adapter \in Adapters <=> x.pc # "idle")
           /\ x.pc \in {"idle", "open", "reopening", "disposing"}
BY SlotsAssumption DEF RetireStates, Idle, Waiting

(* A free slot is an adapter without a connection.                          *)
LEMMA FreeOK == Free \in AdapterStates /\ AdapterOK(Free) /\ Free.stage = "free"
                /\ Free.inner \notin Conns /\ Free.reopening = "no"
BY SlotsAssumption DEF Free, AdapterStates, AdapterOK, Links

(* An idle caller or retirer waits for nothing.                             *)
LEMMA IdleOK == Idle.pc = "idle" /\ Idle.adapter = None /\ Idle \in CallStates /\ Idle \in RetireStates
                /\ (\A ads : CallOK(Idle, ads) /\ RetireOK(Idle, ads))
BY DEF Idle, CallStates, RetireStates, CallOK, RetireOK

(* An adapter somebody is left to dispose is an adapter somebody refers to. *)
LEMMA KeptIsHeld ==
    ASSUME NEW a, NEW pc, NEW m, NEW calls, NEW rets, Kept(a, pc, m, rets)
    PROVE  Held(a, m, calls, rets)
BY DEF Kept, Held, Waiting

(* Become keeps the adapters somebody refers to, and the others are Free.   *)
LEMMA BecomeAdapters ==
    ASSUME NEW m, NEW ads, NEW ks, NEW calls, NEW rets, Become(m, ads, ks, calls, rets)
    PROVE  /\ memo' = m /\ conn' = ks /\ call' = calls /\ retire' = rets
           /\ adapter' = [a \in Adapters |-> IF Held(a, m, calls, rets) THEN ads[a] ELSE Free]
BY DEF Become, Held

(* The invariant's step, once for all actions.                              *)
LEMMA BecomeSound ==
    ASSUME NEW m, NEW ads, NEW ks, NEW str, NEW calls, NEW rets,
           Sound(m, ads, ks, str, calls, rets), Become(m, ads, ks, calls, rets), Strays(str)
    PROVE  (Sound(memo, adapter, conn, stray, call, retire) /\ NothingLoose)'
<1> DEFINE kept(a) == Held(a, m, calls, rets)
           new == [a \in Adapters |-> IF kept(a) THEN ads[a] ELSE Free]
<1>1. memo' = m /\ conn' = ks /\ call' = calls /\ retire' = rets /\ adapter' = new
  BY BecomeAdapters
<1>2. \A a \in Adapters : IF kept(a) THEN new[a] = ads[a] ELSE new[a] = Free
  OBVIOUS
<1>3. ShapesOK(m, new, ks, calls, rets)
  BY FreeOK DEF Sound, ShapesOK
<1>4. \A c \in Callers : calls[c].adapter \in Adapters => new[calls[c].adapter] = ads[calls[c].adapter]
  BY <1>2 DEF Held
<1>5. \A r \in Retirers : rets[r].adapter \in Adapters => new[rets[r].adapter] = ads[rets[r].adapter]
  BY <1>2 DEF Held
<1>6. StagesOK(m, new, calls, rets)
  <2> HIDE DEF new
  <2>1. m # None => new[m].stage # "free"
    BY <1>2 DEF Sound, StagesOK, ShapesOK, Held
  <2>2. \A a \in Adapters : AdapterOK(new[a])
    BY <1>2, FreeOK DEF Sound, StagesOK
  <2>3. ASSUME NEW c \in Callers PROVE CallOK(calls[c], new)
    <3>1. calls[c] \in CallStates /\ CallOK(calls[c], ads) BY DEF Sound, ShapesOK, StagesOK
    <3>2. CASE calls[c] = Idle BY <3>2, IdleOK
    <3>3. CASE calls[c] # Idle
      <4>1. calls[c].adapter \in Adapters BY <3>1, <3>3, CallShapes
      <4> QED BY <4>1, <1>4, <3>1 DEF CallOK
    <3> QED BY <3>2, <3>3
  <2>4. ASSUME NEW r \in Retirers PROVE RetireOK(rets[r], new)
    <3>1. rets[r] \in RetireStates /\ RetireOK(rets[r], ads) BY DEF Sound, ShapesOK, StagesOK
    <3>2. CASE rets[r] = Idle BY <3>2, IdleOK
    <3>3. CASE rets[r] # Idle
      <4>1. rets[r].adapter \in Adapters BY <3>1, <3>3, RetireShapes
      <4> QED BY <4>1, <1>5, <3>1 DEF RetireOK
    <3> QED BY <3>2, <3>3
  <2> QED BY <2>1, <2>2, <2>3, <2>4 DEF StagesOK
<1> HIDE DEF new
<1>7. OwnConns(new)
  BY <1>2, FreeOK DEF Sound, OwnConns
<1>8. WorkKept(m, new, calls, rets)
  BY <1>2, FreeOK DEF Sound, WorkKept
<1>9. OpenKept(m, new, ks, stray', rets)
  <2>1. stray' = {k \in str : ks[k] = "open"} BY <1>1 DEF Strays
  <2> QED BY <1>2, <2>1, KeptIsHeld DEF Sound, OpenKept
<1>10. \A a \in Adapters : new[a] # Free => kept(a)
  BY <1>2
<1> QED
  BY <1>1, <1>3, <1>6, <1>7, <1>8, <1>9, <1>10 DEF Sound, NothingLoose

(* What the invariant says of an adapter that somebody refers to or not.    *)
LEMMA InvWork ==
    ASSUME Inv, NEW a \in Adapters
    PROVE  /\ adapter[a] \in AdapterStates /\ AdapterOK(adapter[a])
           /\ adapter[a].stage = "opening" => Kept(a, "open", memo, retire)
           /\ adapter[a].reopening # "no" /\ ~adapter[a].revived => Kept(a, "reopening", memo, retire)
           /\ adapter[a].stage # "open" => adapter[a].inner \notin Conns
<1>1. adapter[a].stage = "opening" => Held(a, memo, call, retire)
  BY FreeOK DEF Inv, NothingLoose
<1> QED BY <1>1 DEF Inv, Sound, ShapesOK, StagesOK, WorkKept, AdapterOK

(* Nothing is opened at first.                                              *)
LEMMA InitInv == Init => Inv
<1> SUFFICES ASSUME Init PROVE Inv OBVIOUS
<1>1. ShapesOK(memo, adapter, conn, call, retire)
  BY FreeOK, IdleOK DEF Init, ShapesOK
<1>2. StagesOK(memo, adapter, call, retire)
  BY FreeOK, IdleOK DEF Init, StagesOK
<1>3. OwnConns(adapter) /\ WorkKept(memo, adapter, call, retire)
  BY FreeOK DEF Init, OwnConns, WorkKept, Free
<1>4. OpenKept(memo, adapter, conn, stray, retire) /\ NothingLoose
  BY DEF Init, OpenKept, NothingLoose
<1> QED BY <1>1, <1>2, <1>3, <1>4 DEF Init, Inv, Sound

-----------------------------------------------------------------------------
(* What each action gives Become is sound.                                 *)

(* A caller that goes on by itself disturbs nobody else.                    *)
LEMMA CallerSound ==
    ASSUME Inv, NEW c \in Callers, NEW x \in CallStates, CallOK(x, adapter)
    PROVE  Sound(memo, adapter, conn, stray, [call EXCEPT ![c] = x], retire)
<1> DEFINE calls == [call EXCEPT ![c] = x]
<1>1. calls \in [Callers -> CallStates] /\ \A d \in Callers : calls[d] = IF d = c THEN x ELSE call[d]
  BY DEF Inv, Sound, ShapesOK
<1> HIDE DEF calls
<1>2. ShapesOK(memo, adapter, conn, calls, retire) BY <1>1 DEF Inv, Sound, ShapesOK
<1>3. StagesOK(memo, adapter, calls, retire) BY <1>1 DEF Inv, Sound, StagesOK
<1>4. WorkKept(memo, adapter, calls, retire) BY InvWork DEF WorkKept
<1> QED BY <1>2, <1>3, <1>4 DEF Inv, Sound, calls

(* DataSourceAdapterCatalog.Open: a new opening, or the one remembered.     *)
LEMMA AskSound ==
    ASSUME Inv, NEW c \in Callers, Ask(c) PROVE (Sound(memo, adapter, conn, stray, call, retire) /\ NothingLoose)'
<1>0. ShapesOK(memo, adapter, conn, call, retire) /\ StagesOK(memo, adapter, call, retire)
  BY DEF Inv, Sound
<1>1. CASE memo = None
  <2> DEFINE a == Lowest(FreeAdapters)
             ads == [adapter EXCEPT ![a] = Opening]
             calls == [call EXCEPT ![c] = Waiting("open", a)]
  <2>1. a \in Adapters /\ adapter[a] = Free
    BY <1>1, FreeAdapterIn DEF Ask
  <2>2. Become(a, ads, conn, calls, retire)
    BY <1>1 DEF Ask
  <2>12. Strays(stray) BY DEF Ask
  <2> HIDE DEF a
  <2>3. Opening \in AdapterStates /\ AdapterOK(Opening) /\ Opening.stage = "opening"
        /\ Opening.inner \notin Conns /\ Opening.reopening = "no"
    BY SlotsAssumption DEF Opening, Free, AdapterStates, AdapterOK, Links
  <2>4. ads \in [Adapters -> AdapterStates] /\ \A b \in Adapters : ads[b] = IF b = a THEN Opening ELSE adapter[b]
    BY <1>0, <2>1, <2>3 DEF ShapesOK
  <2>5. Waiting("open", a) \in CallStates /\ Waiting("open", a).pc = "open" /\ Waiting("open", a).adapter = a
    BY <2>1 DEF Waiting, CallStates, WaitStates
  <2>6. calls \in [Callers -> CallStates] /\ \A d \in Callers : calls[d] = IF d = c THEN Waiting("open", a) ELSE call[d]
    BY <1>0, <2>5 DEF ShapesOK
  <2> HIDE DEF ads, calls
  <2>7. ShapesOK(a, ads, conn, calls, retire)
    BY <1>0, <2>1, <2>4, <2>6 DEF ShapesOK
  <2>8. StagesOK(a, ads, calls, retire)
    <3>1. ASSUME NEW d \in Callers PROVE CallOK(calls[d], ads)
      <4>1. CASE d = c BY <4>1, <2>1, <2>3, <2>4, <2>5, <2>6 DEF CallOK
      <4>2. CASE d # c
        <5>1. call[d] \in CallStates /\ CallOK(call[d], adapter) /\ calls[d] = call[d]
          BY <4>2, <1>0, <2>6 DEF ShapesOK, StagesOK
        <5> QED BY <5>1, <2>1, <2>3, <2>4, FreeOK, CallShapes DEF CallOK
      <4> QED BY <4>1, <4>2
    <3>2. ASSUME NEW r \in Retirers PROVE RetireOK(retire[r], ads)
      BY <1>0, <2>1, <2>3, <2>4, FreeOK, RetireShapes DEF ShapesOK, StagesOK, RetireOK
    <3> QED BY <1>0, <2>1, <2>3, <2>4, <3>1, <3>2 DEF StagesOK
  <2>9. OwnConns(ads)
    BY <2>3, <2>4 DEF Inv, Sound, OwnConns
  <2>10. WorkKept(a, ads, calls, retire)
    BY <1>1, <2>1, <2>3, <2>4, InvWork, SlotsAssumption DEF WorkKept, Kept
  <2>11. OpenKept(a, ads, conn, stray, retire)
    BY <1>1, <2>1, <2>3, <2>4, FreeOK, SlotsAssumption DEF Inv, Sound, OpenKept, Kept
  <2> QED BY <2>2, <2>7, <2>8, <2>9, <2>10, <2>11, <2>12, BecomeSound DEF Sound
<1>2. CASE memo # None
  <2> DEFINE x == IF adapter[memo].stage = "open"
                  THEN Attempt(memo, 1, 0, adapter[memo].inner)
                  ELSE Waiting("open", memo)
             calls == [call EXCEPT ![c] = x]
  <2>1. memo \in Adapters /\ adapter[memo].stage \in {"opening", "open"}
        /\ (adapter[memo].stage = "open" => adapter[memo].inner \in Conns)
    BY <1>0, <1>2, InvWork DEF ShapesOK, StagesOK, AdapterStates, AdapterOK
  <2>2. Become(memo, adapter, conn, calls, retire) /\ Strays(stray)
    BY <1>2 DEF Ask
  <2>3. x \in CallStates /\ CallOK(x, adapter) /\ x.adapter = memo
    BY <2>1 DEF Attempt, Waiting, CallStates, WaitStates, OpStates, CallOK
  <2> HIDE DEF x
  <2> QED BY <2>2, <2>3, CallerSound, BecomeSound
<1> QED BY <1>1, <1>2

(* The connection an opening gives goes to the adapter, and to whoever is   *)
(* left to dispose it: the catalog, or the retirers that awaited it.        *)
LEMMA OpenedSound ==
    ASSUME Inv, NEW a \in Adapters, Opened(a)
    PROVE  (Sound(memo, adapter, conn, stray, call, retire) /\ NothingLoose)'
<1> DEFINE k == Lowest(FreeConns)
           ads == [adapter EXCEPT ![a].stage = "open", ![a].inner = k]
           rs == {r \in Retirers : retire[r] = Waiting("open", a)}
           ks == CloseFor([conn EXCEPT ![k] = "open"], rs, ads, a)
           calls == Resume("open", a, LAMBDA x : Attempt(a, 1, 0, k))
           rets == Retire(rs, ads, a)
<1>0. ShapesOK(memo, adapter, conn, call, retire) /\ StagesOK(memo, adapter, call, retire)
  BY DEF Inv, Sound
<1>1. Become(memo, ads, ks, calls, rets) /\ Strays(stray \ {k})
  BY DEF Opened
<1>2. adapter[a].stage = "opening" /\ k \in Conns /\ \A b \in Adapters : adapter[b].inner # k
  BY FreeConnIn DEF Opened
<1> HIDE DEF k
<1>3. adapter[a] \in AdapterStates /\ AdapterOK(adapter[a])
  BY InvWork
<1>4. /\ ads \in [Adapters -> AdapterStates]
      /\ \A b \in Adapters \ {a} : ads[b] = adapter[b]
      /\ ads[a].stage = "open" /\ ads[a].inner = k /\ ads[a].reopening = "no"
      /\ ads[a].previous \notin Conns /\ AdapterOK(ads[a])
  BY <1>0, <1>2, <1>3 DEF ShapesOK, AdapterStates, Links, AdapterOK
<1> HIDE DEF ads
<1>5. ks = IF rs = {} THEN [conn EXCEPT ![k] = "open"] ELSE [conn EXCEPT ![k] = "closing"]
  <2>1. DisposeAdapter(ads, a).pc = "disposing" BY <1>4 DEF DisposeAdapter
  <2> QED BY <1>0, <1>2, <1>4, <2>1 DEF CloseFor, Closing, ShapesOK
<1>6. calls \in [Callers -> CallStates]
      /\ \A c \in Callers : calls[c] = IF call[c].pc = "open" /\ call[c].adapter = a
                                       THEN Attempt(a, 1, 0, k) ELSE call[c]
  BY <1>0, <1>2 DEF ShapesOK, Resume, Attempt, CallStates, OpStates
<1>7. rets \in [Retirers -> RetireStates]
      /\ \A r \in Retirers : rets[r] = IF r \in rs THEN [pc |-> "disposing", adapter |-> a, conn |-> k] ELSE retire[r]
  BY <1>0, <1>2, <1>4 DEF ShapesOK, Retire, DisposeAdapter, RetireStates
<1>8. \A b \in Adapters \ {a}, pc \in {"open", "reopening"} :
        Kept(b, pc, memo, retire) => Kept(b, pc, memo, rets)
  BY <1>7 DEF Kept, Waiting
<1> HIDE DEF ks, calls, rets
<1>9. ShapesOK(memo, ads, ks, calls, rets)
  BY <1>0, <1>4, <1>5, <1>6, <1>7 DEF ShapesOK
<1>10. StagesOK(memo, ads, calls, rets)
  <2>1. memo # None => ads[memo].stage # "free" BY <1>0, <1>4 DEF ShapesOK, StagesOK
  <2>2. \A b \in Adapters : AdapterOK(ads[b]) BY <1>0, <1>4 DEF StagesOK
  <2>3. ASSUME NEW c \in Callers PROVE CallOK(calls[c], ads)
    <3>1. call[c] \in CallStates /\ CallOK(call[c], adapter) BY <1>0 DEF ShapesOK, StagesOK
    <3>2. CASE call[c].pc = "open" /\ call[c].adapter = a BY <3>2, <1>4, <1>6 DEF CallOK, Attempt
    <3>3. CASE ~(call[c].pc = "open" /\ call[c].adapter = a)
      BY <3>1, <3>3, <1>2, <1>4, <1>6, CallShapes DEF CallOK
    <3> QED BY <3>2, <3>3
  <2>4. ASSUME NEW r \in Retirers PROVE RetireOK(rets[r], ads)
    <3>1. retire[r] \in RetireStates /\ RetireOK(retire[r], adapter) BY <1>0 DEF ShapesOK, StagesOK
    <3>2. CASE r \in rs BY <3>2, <1>4, <1>7 DEF RetireOK
    <3>3. CASE r \notin rs
      BY <3>1, <3>3, <1>2, <1>3, <1>4, <1>7, RetireShapes DEF RetireOK, AdapterOK
    <3> QED BY <3>2, <3>3
  <2> QED BY <2>1, <2>2, <2>3, <2>4 DEF StagesOK
<1>11. OwnConns(ads)
  BY <1>2, <1>4 DEF Inv, Sound, OwnConns
<1>12. WorkKept(memo, ads, calls, rets)
  BY <1>4, <1>8, InvWork DEF WorkKept
<1>13. OpenKept(memo, ads, ks, stray \ {k}, rets)
  <2>1. SUFFICES ASSUME NEW q \in Conns \ (stray \ {k}), ks[q] = "open"
                 PROVE  \E b \in Adapters : ads[b].inner = q /\ Kept(b, "reopening", memo, rets)
    BY DEF OpenKept
  <2>2. CASE q = k
    <3>1. rs = {} BY <2>1, <2>2, <1>0, <1>2, <1>5 DEF ShapesOK
    <3>2. memo = a BY <3>1, <1>2, InvWork DEF Kept
    <3> QED BY <2>2, <3>2, <1>4 DEF Kept
  <2>3. CASE q # k
    <3>1. conn[q] = "open" BY <2>1, <2>3, <1>0, <1>5 DEF ShapesOK
    <3>2. PICK b \in Adapters : adapter[b].inner = q /\ Kept(b, "reopening", memo, retire)
      BY <2>3, <3>1 DEF Inv, Sound, OpenKept
    <3>3. b # a BY <3>2, <1>2, InvWork
    <3> QED BY <3>2, <3>3, <1>4, <1>8
  <2> QED BY <2>2, <2>3
<1> QED BY <1>1, <1>9, <1>10, <1>11, <1>12, <1>13, BecomeSound DEF Sound

(* An opening that fails leaves nobody who refers to its adapter.           *)
LEMMA OpenFailsSound ==
    ASSUME Inv, NEW a \in Adapters, OpenFails(a)
    PROVE  (Sound(memo, adapter, conn, stray, call, retire) /\ NothingLoose)'
<1> DEFINE m == Evict(a)
           calls == Resume("open", a, LAMBDA x : Idle)
           rets == [r \in Retirers |-> IF retire[r].adapter = a THEN Idle ELSE retire[r]]
<1>0. ShapesOK(memo, adapter, conn, call, retire) /\ StagesOK(memo, adapter, call, retire)
  BY DEF Inv, Sound
<1>1. Become(m, adapter, conn, calls, rets) /\ adapter[a].stage = "opening" /\ Strays(stray)
  BY DEF OpenFails
<1>2. m \in Adapters \cup {None} /\ m # a /\ (m # None => m = memo) /\ (memo # a => m = memo)
  BY <1>0, SlotsAssumption DEF ShapesOK, Evict
<1>3. calls \in [Callers -> CallStates]
      /\ \A c \in Callers : calls[c] = IF call[c].pc = "open" /\ call[c].adapter = a THEN Idle ELSE call[c]
  BY <1>0, IdleOK DEF ShapesOK, Resume
<1>4. rets \in [Retirers -> RetireStates]
      /\ \A r \in Retirers : rets[r] = IF retire[r].adapter = a THEN Idle ELSE retire[r]
  BY <1>0, IdleOK DEF ShapesOK
<1>5. \A b \in Adapters \ {a}, pc \in {"open", "reopening"} :
        Kept(b, pc, memo, retire) => Kept(b, pc, m, rets)
  BY <1>2, <1>4 DEF Kept, Waiting
<1> HIDE DEF m, calls, rets
<1>6. ShapesOK(m, adapter, conn, calls, rets)
  BY <1>0, <1>2, <1>3, <1>4 DEF ShapesOK
<1>7. StagesOK(m, adapter, calls, rets)
  BY <1>0, <1>2, <1>3, <1>4, IdleOK DEF StagesOK
<1>8. ~Held(a, m, calls, rets)
  <2>1. ASSUME NEW c \in Callers, calls[c].adapter = a PROVE FALSE
    <3>1. calls[c] = call[c] /\ call[c].pc # "open" BY <2>1, <1>3, IdleOK, SlotsAssumption
    <3>2. call[c] \in CallStates /\ CallOK(call[c], adapter) BY <1>0 DEF ShapesOK, StagesOK
    <3> QED BY <2>1, <3>1, <3>2, <1>1, CallShapes DEF CallOK
  <2>2. \A r \in Retirers : rets[r].adapter # a
    BY <1>4, IdleOK, SlotsAssumption
  <2> QED BY <1>2, <2>1, <2>2 DEF Held
<1>9. WorkKept(m, adapter, calls, rets)
  <2>1. adapter[a].reopening = "no" BY <1>1, InvWork DEF AdapterOK, AdapterStates
  <2> QED BY <2>1, <1>5, <1>8, InvWork DEF WorkKept
<1>10. OpenKept(m, adapter, conn, stray, rets)
  <2>1. adapter[a].inner \notin Conns BY <1>1, InvWork
  <2> QED BY <2>1, <1>5 DEF Inv, Sound, OpenKept
<1> QED BY <1>1, <1>6, <1>7, <1>9, <1>10, BecomeSound DEF Inv, Sound

(* An operation that ends well touches its caller only.                     *)
LEMMA OpSucceedsSound ==
    ASSUME Inv, NEW c \in Callers, OpSucceeds(c)
    PROVE  (Sound(memo, adapter, conn, stray, call, retire) /\ NothingLoose)'
BY CallerSound, BecomeSound, IdleOK DEF OpSucceeds

(* The next attempt is on the connection of the moment, which there is.     *)
LEMMA WakeSound ==
    ASSUME Inv, NEW c \in Callers, Wake(c)
    PROVE  (Sound(memo, adapter, conn, stray, call, retire) /\ NothingLoose)'
<1> DEFINE k == call[c]
           x == Attempt(k.adapter, k.attempt + 1, k.streak, adapter[k.adapter].inner)
<1>1. k \in CallStates /\ CallOK(k, adapter) BY DEF Inv, Sound, ShapesOK, StagesOK
<1>2. k \in PauseStates /\ k.pc = "sleep" BY <1>1, CallShapes DEF Wake
<1>3. k.adapter \in Adapters /\ k.attempt \in Nat /\ k.streak \in Nat BY <1>2 DEF PauseStates
<1>4. adapter[k.adapter].stage = "open" BY <1>1, <1>2 DEF CallOK
<1>5. adapter[k.adapter].inner \in Conns BY <1>3, <1>4, InvWork DEF AdapterOK
<1>6. x \in CallStates /\ CallOK(x, adapter)
  BY <1>3, <1>4, <1>5 DEF Attempt, CallStates, OpStates, CallOK
<1>7. Become(memo, adapter, conn, [call EXCEPT ![c] = x], retire) /\ Strays(stray) BY DEF Wake
<1> QED BY <1>6, <1>7, CallerSound, BecomeSound

(* An operation that fails and has its adapter reopened leaves somebody to  *)
(* dispose what the reopening gives, or the adapter was retired before it.  *)
LEMMA OpFailsSound ==
    ASSUME Inv, NEW c \in Callers, NEW kind \in {"transient", "auth", "permanent"}, OpFails(c, kind)
    PROVE  (Sound(memo, adapter, conn, stray, call, retire) /\ NothingLoose)'
<1> DEFINE k == call[c]
           a == k.adapter
           streak == IF kind = "auth" \/ Replaced(k) THEN 0 ELSE k.streak + 1
           reopen == ~Replaced(k) /\ (kind = "auth" \/ streak >= 2)
           asleep == [pc |-> "sleep", adapter |-> a, attempt |-> k.attempt, streak |-> streak]
           x == IF reopen THEN [asleep EXCEPT !.pc = "reopen"] ELSE asleep
           ads == IF reopen THEN StartReopen(a) ELSE adapter
           calls == [call EXCEPT ![c] = x]
<1>0. ShapesOK(memo, adapter, conn, call, retire) /\ StagesOK(memo, adapter, call, retire)
  BY DEF Inv, Sound
<1>1. k \in CallStates /\ CallOK(k, adapter) BY <1>0 DEF ShapesOK, StagesOK
<1>2. k \in OpStates /\ k.pc = "op" BY <1>1, CallShapes DEF OpFails
<1>3. a \in Adapters /\ k.attempt \in Nat /\ k.streak \in Nat /\ k.current \in Conns BY <1>2 DEF OpStates
<1>4. adapter[a].stage = "open" /\ adapter[a] \in AdapterStates /\ AdapterOK(adapter[a])
  BY <1>1, <1>2, <1>3, InvWork DEF CallOK
<1>5. x \in CallStates /\ CallOK(x, adapter)
  <2>1. streak \in Nat BY <1>3
  <2> HIDE DEF streak
  <2>2. x \in PauseStates /\ x.adapter = a BY <2>1, <1>3 DEF PauseStates
  <2> QED BY <2>2, <1>4 DEF CallStates, CallOK, PauseStates
<1>6. CASE kind = "permanent" \/ Exhausted(k)
  <2>1. Become(memo, adapter, conn, [call EXCEPT ![c] = Idle], retire) /\ Strays(stray) BY <1>6 DEF OpFails
  <2> QED BY <2>1, IdleOK, CallerSound, BecomeSound
<1>7. CASE ~(kind = "permanent" \/ Exhausted(k))
  <2>1. Become(memo, ads, conn, calls, retire) /\ Strays(stray) BY <1>7 DEF OpFails
  <2>2. Sound(memo, adapter, conn, stray, calls, retire) BY <1>5, CallerSound
  <2>3. CASE ~reopen \/ adapter[a].reopening # "no"
    <3>1. ads = adapter BY <2>3 DEF StartReopen
    <3> QED BY <3>1, <2>1, <2>2, BecomeSound
  <2>4. CASE reopen /\ adapter[a].reopening = "no"
    <3>1. ads = [adapter EXCEPT ![a].reopening = "opening", ![a].previous = adapter[a].inner, ![a].revived = memo # a]
      BY <2>4 DEF StartReopen
    <3>2. memo = a => Kept(a, "reopening", memo, retire) BY DEF Kept
    <3> HIDE DEF x, calls, ads
    <3>4. /\ ads \in [Adapters -> AdapterStates]
          /\ \A b \in Adapters \ {a} : ads[b] = adapter[b]
          /\ ads[a].stage = "open" /\ ads[a].inner = adapter[a].inner
          /\ ads[a].reopening = "opening" /\ ads[a].revived = (memo # a) /\ AdapterOK(ads[a])
      BY <3>1, <1>0, <1>3, <1>4 DEF ShapesOK, AdapterStates, AdapterOK
    <3>5. ShapesOK(memo, ads, conn, calls, retire) BY <2>2, <3>4 DEF Sound, ShapesOK
    <3>6. StagesOK(memo, ads, calls, retire)
      <4>1. \A b \in Adapters : ads[b].stage = adapter[b].stage
                               /\ (adapter[b].reopening # "no" => ads[b].reopening # "no")
        BY <3>4, <1>4
      <4>2. ASSUME NEW d \in Callers PROVE CallOK(calls[d], ads)
        <5>1. calls[d] \in CallStates /\ CallOK(calls[d], adapter) BY <2>2 DEF Sound, ShapesOK, StagesOK
        <5> QED BY <5>1, <4>1, CallShapes DEF CallOK
      <4>3. ASSUME NEW r \in Retirers PROVE RetireOK(retire[r], ads)
        <5>1. retire[r] \in RetireStates /\ RetireOK(retire[r], adapter) BY <1>0 DEF ShapesOK, StagesOK
        <5> QED BY <5>1, <4>1, RetireShapes DEF RetireOK
      <4> QED BY <1>0, <3>4, <4>1, <4>2, <4>3 DEF StagesOK, ShapesOK
    <3>7. OwnConns(ads) BY <3>4 DEF Inv, Sound, OwnConns
    <3>8. WorkKept(memo, ads, calls, retire)
      BY <3>2, <3>4, InvWork DEF WorkKept
    <3>9. OpenKept(memo, ads, conn, stray, retire)
      BY <3>4 DEF Inv, Sound, OpenKept
    <3> QED BY <2>1, <3>5, <3>6, <3>7, <3>8, <3>9, BecomeSound DEF Sound
  <2> QED BY <2>3, <2>4
<1> QED BY <1>6, <1>7

(* The replacement takes the old connection's place and its disposer; it is *)
(* stray if the reopening was begun too late to have one.                   *)
LEMMA ReopenedSound ==
    ASSUME Inv, NEW a \in Adapters, Reopened(a)
    PROVE  (Sound(memo, adapter, conn, stray, call, retire) /\ NothingLoose)'
<1> DEFINE k == Lowest(FreeConns)
           old == adapter[a].previous
           ads == [adapter EXCEPT ![a].inner = k, ![a].reopening = "disposing"]
           ks == Closing([conn EXCEPT ![k] = "open"], old)
           str == IF adapter[a].revived THEN stray \cup {k} ELSE stray \ {k}
<1>0. ShapesOK(memo, adapter, conn, call, retire) /\ StagesOK(memo, adapter, call, retire)
  BY DEF Inv, Sound
<1>1. Become(memo, ads, ks, call, retire) /\ Strays(str) BY DEF Reopened
<1>2. adapter[a].reopening = "opening" /\ k \in Conns /\ \A b \in Adapters : adapter[b].inner # k
  BY FreeConnIn DEF Reopened
<1> HIDE DEF k
<1>3. adapter[a] \in AdapterStates /\ AdapterOK(adapter[a]) BY InvWork
<1>4. old = adapter[a].inner /\ old \in Conns /\ old # k BY <1>2, <1>3 DEF AdapterOK
<1>5. /\ ads \in [Adapters -> AdapterStates]
      /\ \A b \in Adapters \ {a} : ads[b] = adapter[b]
      /\ ads[a].stage = adapter[a].stage /\ ads[a].inner = k
      /\ ads[a].reopening = "disposing" /\ ads[a].revived = adapter[a].revived /\ AdapterOK(ads[a])
  BY <1>0, <1>2, <1>3 DEF ShapesOK, AdapterStates, Links, AdapterOK
<1>6. /\ ks \in [Conns -> {"open", "closing", "closed"}] /\ ks[old] # "open"
      /\ \A q \in Conns \ {k} : ks[q] = "open" => conn[q] = "open"
  BY <1>0, <1>2, <1>4 DEF ShapesOK, Closing
<1> HIDE DEF ads, ks, old
<1>7. ShapesOK(memo, ads, ks, call, retire) BY <1>0, <1>5, <1>6 DEF ShapesOK
<1>8. StagesOK(memo, ads, call, retire)
  <2>1. \A b \in Adapters : ads[b].stage = adapter[b].stage
                           /\ (adapter[b].reopening # "no" => ads[b].reopening # "no")
    BY <1>5
  <2>2. ASSUME NEW d \in Callers PROVE CallOK(call[d], ads)
    <3>1. call[d] \in CallStates /\ CallOK(call[d], adapter) BY <1>0 DEF ShapesOK, StagesOK
    <3> QED BY <3>1, <2>1, CallShapes DEF CallOK
  <2>3. ASSUME NEW r \in Retirers PROVE RetireOK(retire[r], ads)
    <3>1. retire[r] \in RetireStates /\ RetireOK(retire[r], adapter) BY <1>0 DEF ShapesOK, StagesOK
    <3> QED BY <3>1, <2>1, RetireShapes DEF RetireOK
  <2> QED BY <1>0, <1>5, <2>1, <2>2, <2>3 DEF StagesOK, ShapesOK
<1>9. OwnConns(ads) BY <1>2, <1>5 DEF Inv, Sound, OwnConns
<1>10. WorkKept(memo, ads, call, retire)
  <2>1. ~adapter[a].revived => Kept(a, "reopening", memo, retire) BY <1>2, InvWork
  <2> QED BY <2>1, <1>5, InvWork DEF WorkKept
<1>11. OpenKept(memo, ads, ks, str, retire)
  <2>1. SUFFICES ASSUME NEW q \in Conns \ str, ks[q] = "open"
                 PROVE  \E b \in Adapters : ads[b].inner = q /\ Kept(b, "reopening", memo, retire)
    BY DEF OpenKept
  <2>2. CASE q = k BY <2>2, <1>2, <1>5, InvWork
  <2>3. CASE q # k
    <3>1. PICK b \in Adapters : adapter[b].inner = q /\ Kept(b, "reopening", memo, retire)
      BY <2>1, <2>3, <1>6 DEF Inv, Sound, OpenKept
    <3> QED BY <3>1, <2>1, <1>4, <1>5, <1>6
  <2> QED BY <2>2, <2>3
<1> HIDE DEF str
<1> QED BY <1>1, <1>7, <1>8, <1>9, <1>10, <1>11, BecomeSound DEF Sound

(* A reopening is over: the retirers that awaited it go on, and the         *)
(* connection the adapter is left with is closed if there are any.          *)
LEMMA SettledSound ==
    ASSUME Inv, NEW a \in Adapters, adapter[a].reopening # "no",
           NEW ks0 \in [Conns -> {"open", "closing", "closed"}],
           \A q \in Conns : ks0[q] = "open" => conn[q] = "open",
           NEW calls \in [Callers -> CallStates], \A c \in Callers : CallOK(calls[c], adapter)
    PROVE  LET rs == AwaitingReopen(a)
           IN  Sound(memo, Settled(a), CloseFor(ks0, rs, Settled(a), a), stray, calls, Retire(rs, Settled(a), a))
<1> DEFINE rs == AwaitingReopen(a)
           k == adapter[a].inner
           ads == Settled(a)
           ks == CloseFor(ks0, rs, ads, a)
           rets == Retire(rs, ads, a)
<1>0. ShapesOK(memo, adapter, conn, call, retire) /\ StagesOK(memo, adapter, call, retire)
  BY DEF Inv, Sound
<1>1. adapter[a] \in AdapterStates /\ AdapterOK(adapter[a]) /\ adapter[a].stage = "open" /\ k \in Conns
  BY InvWork DEF AdapterOK
<1>2. /\ ads \in [Adapters -> AdapterStates]
      /\ \A b \in Adapters \ {a} : ads[b] = adapter[b]
      /\ ads[a].stage = "open" /\ ads[a].inner = k
      /\ ads[a].reopening = "no" /\ AdapterOK(ads[a])
  BY <1>0, <1>1, SlotsAssumption DEF ShapesOK, AdapterStates, Links, AdapterOK, Settled
<1> HIDE DEF ads
<1>3. /\ ks \in [Conns -> {"open", "closing", "closed"}] /\ (rs # {} => ks[k] # "open")
      /\ \A q \in Conns : ks[q] = "open" => conn[q] = "open"
  <2>1. DisposeAdapter(ads, a).pc = "disposing" BY <1>2 DEF DisposeAdapter
  <2>2. CASE rs = {} BY <2>2 DEF CloseFor
  <2>3. CASE rs # {}
    <3>1. ks = [ks0 EXCEPT ![k] = IF @ = "open" THEN "closing" ELSE @]
      BY <2>1, <2>3, <1>2 DEF CloseFor, Closing
    <3> QED BY <3>1, <1>1
  <2> QED BY <2>2, <2>3
<1>4. rets \in [Retirers -> RetireStates]
      /\ \A r \in Retirers : rets[r] = IF r \in rs THEN [pc |-> "disposing", adapter |-> a, conn |-> k] ELSE retire[r]
  BY <1>0, <1>1, <1>2 DEF ShapesOK, Retire, DisposeAdapter, RetireStates
<1>5. \A r \in Retirers : r \in rs <=> retire[r] = Waiting("reopening", a)
  BY DEF AwaitingReopen
<1>6. \A b \in Adapters, pc \in {"open", "reopening"} :
        b # a \/ pc = "open" => (Kept(b, pc, memo, retire) => Kept(b, pc, memo, rets))
  BY <1>4, <1>5 DEF Kept, Waiting
<1> HIDE DEF ks, rets, rs
<1>7. ShapesOK(memo, ads, ks, calls, rets) BY <1>0, <1>2, <1>3, <1>4 DEF ShapesOK
<1>8. StagesOK(memo, ads, calls, rets)
  <2>1. \A b \in Adapters : ads[b].stage = adapter[b].stage BY <1>1, <1>2
  <2>2. ASSUME NEW d \in Callers PROVE CallOK(calls[d], ads)
    BY <2>1, CallShapes DEF CallOK
  <2>3. ASSUME NEW r \in Retirers PROVE RetireOK(rets[r], ads)
    <3>1. retire[r] \in RetireStates /\ RetireOK(retire[r], adapter) BY <1>0 DEF ShapesOK, StagesOK
    <3>2. CASE r \in rs BY <3>2, <1>2, <1>4 DEF RetireOK
    <3>3. CASE r \notin rs
      <4>1. rets[r] = retire[r] /\ retire[r] # Waiting("reopening", a) BY <3>3, <1>4, <1>5
      <4> QED BY <3>1, <4>1, <2>1, <1>2, RetireShapes DEF RetireOK
    <3> QED BY <3>2, <3>3
  <2> QED BY <1>0, <1>2, <2>1, <2>2, <2>3 DEF StagesOK, ShapesOK
<1>9. OwnConns(ads) BY <1>2 DEF Inv, Sound, OwnConns
<1>10. WorkKept(memo, ads, calls, rets) BY <1>1, <1>2, <1>6, InvWork DEF WorkKept
<1>11. OpenKept(memo, ads, ks, stray, rets)
  <2>1. SUFFICES ASSUME NEW q \in Conns \ stray, ks[q] = "open"
                 PROVE  \E b \in Adapters : ads[b].inner = q /\ Kept(b, "reopening", memo, rets)
    BY DEF OpenKept
  <2>2. PICK b \in Adapters : adapter[b].inner = q /\ Kept(b, "reopening", memo, retire)
    BY <2>1, <1>3 DEF Inv, Sound, OpenKept
  <2>3. CASE b # a BY <2>2, <2>3, <1>2, <1>6
  <2>4. CASE b = a
    <3>1. rs = {} BY <2>1, <2>2, <2>4, <1>3
    <3>2. memo = a BY <3>1, <2>2, <2>4, <1>5 DEF Kept
    <3> QED BY <3>2, <2>2, <2>4, <1>2 DEF Kept
  <2> QED BY <2>3, <2>4
<1> QED BY <1>7, <1>8, <1>9, <1>10, <1>11 DEF Sound, ads, ks, rets, rs

(* A reopening that fails leaves the adapter with the connection it had.    *)
LEMMA ReopenFailsSound ==
    ASSUME Inv, NEW a \in Adapters, ReopenFails(a)
    PROVE  (Sound(memo, adapter, conn, stray, call, retire) /\ NothingLoose)'
<1> DEFINE calls == Resume("reopen", a, LAMBDA x : Idle)
<1>1. calls \in [Callers -> CallStates] /\ \A c \in Callers : CallOK(calls[c], adapter)
  BY IdleOK DEF Inv, Sound, ShapesOK, StagesOK, Resume
<1>2. conn \in [Conns -> {"open", "closing", "closed"}] BY DEF Inv, Sound, ShapesOK
<1>3. adapter[a].reopening # "no" BY DEF ReopenFails
<1>4. Become(memo, Settled(a), CloseFor(conn, AwaitingReopen(a), Settled(a), a),
             calls, Retire(AwaitingReopen(a), Settled(a), a)) /\ Strays(stray)
  BY DEF ReopenFails
<1> HIDE DEF calls
<1> QED BY <1>1, <1>2, <1>3, <1>4, SettledSound, BecomeSound

(* A reopening that succeeds ends with the old connection closed.           *)
LEMMA PreviousDisposedSound ==
    ASSUME Inv, NEW a \in Adapters, PreviousDisposed(a)
    PROVE  (Sound(memo, adapter, conn, stray, call, retire) /\ NothingLoose)'
<1> DEFINE calls == Resume("reopen", a, LAMBDA x : [x EXCEPT !.pc = "sleep"])
           ks == [conn EXCEPT ![adapter[a].previous] = "closed"]
<1>0. ShapesOK(memo, adapter, conn, call, retire) /\ StagesOK(memo, adapter, call, retire)
  BY DEF Inv, Sound
<1>1. ASSUME NEW c \in Callers PROVE calls[c] \in CallStates /\ CallOK(calls[c], adapter)
  <2>1. call[c] \in CallStates /\ CallOK(call[c], adapter) BY <1>0 DEF ShapesOK, StagesOK
  <2>2. CASE ~(call[c].pc = "reopen" /\ call[c].adapter = a) BY <2>1, <2>2 DEF Resume
  <2>3. CASE call[c].pc = "reopen" /\ call[c].adapter = a
    <3>1. call[c] \in PauseStates BY <2>1, <2>3, CallShapes
    <3>2. calls[c] = [call[c] EXCEPT !.pc = "sleep"] BY <2>3 DEF Resume
    <3>3. calls[c] \in PauseStates /\ calls[c].adapter = call[c].adapter BY <3>1, <3>2 DEF PauseStates
    <3> QED BY <2>1, <2>3, <3>3 DEF CallStates, CallOK, PauseStates
  <2> QED BY <2>2, <2>3
<1>2. calls \in [Callers -> CallStates]
  BY <1>1 DEF Resume
<1>3. ks \in [Conns -> {"open", "closing", "closed"}] /\ \A q \in Conns : ks[q] = "open" => conn[q] = "open"
  BY <1>0 DEF ShapesOK
<1>4. adapter[a].reopening # "no" BY DEF PreviousDisposed
<1>5. Become(memo, Settled(a), CloseFor(ks, AwaitingReopen(a), Settled(a), a),
             calls, Retire(AwaitingReopen(a), Settled(a), a)) /\ Strays(stray)
  BY DEF PreviousDisposed
<1> HIDE DEF calls, ks
<1> QED BY <1>1, <1>2, <1>3, <1>4, <1>5, SettledSound, BecomeSound

(* Forgotten by the catalog, an adapter is left to the retirer that did it. *)
LEMMA InvalidateSound ==
    ASSUME Inv, NEW r \in Retirers, Invalidate(r)
    PROVE  (Sound(memo, adapter, conn, stray, call, retire) /\ NothingLoose)'
<1> DEFINE a == memo
           x == IF adapter[a].stage = "opening" THEN Waiting("open", a) ELSE DisposeAdapter(adapter, a)
           rets == [retire EXCEPT ![r] = x]
           ks == IF adapter[a].stage # "opening" /\ adapter[a].reopening = "no"
                 THEN Closing(conn, adapter[a].inner) ELSE conn
<1>0. ShapesOK(memo, adapter, conn, call, retire) /\ StagesOK(memo, adapter, call, retire)
  BY DEF Inv, Sound
<1>1. a \in Adapters /\ adapter[a] \in AdapterStates /\ AdapterOK(adapter[a])
      /\ adapter[a].stage \in {"opening", "open"} /\ retire[r] = Idle
  BY <1>0, SlotsAssumption DEF Invalidate, ShapesOK, StagesOK, AdapterStates
<1>2. adapter[a].stage = "open" => adapter[a].inner \in Conns BY <1>1 DEF AdapterOK
<1>3. x \in RetireStates /\ RetireOK(x, adapter)
      /\ (adapter[a].stage = "opening" => x = Waiting("open", a))
      /\ (adapter[a].reopening # "no" => x = Waiting("reopening", a))
  BY <1>1, <1>2 DEF Waiting, DisposeAdapter, RetireStates, RetireOK, AdapterOK
<1>4. Become(None, adapter, ks, call, rets) /\ Strays(stray)
  <2>0. Strays(stray) BY DEF Invalidate
  <2>1. CASE adapter[a].stage = "opening" BY <2>0, <2>1 DEF Invalidate
  <2>2. CASE adapter[a].stage # "opening"
    <3>1. Retire({r}, adapter, a) = rets BY <2>2, <1>0 DEF Retire, ShapesOK
    <3>2. CloseFor(conn, {r}, adapter, a) = ks
      BY <2>2 DEF CloseFor, DisposeAdapter, Waiting
    <3> QED BY <2>0, <2>2, <3>1, <3>2 DEF Invalidate
  <2> QED BY <2>1, <2>2
<1>5. ks \in [Conns -> {"open", "closing", "closed"}]
      /\ (\A q \in Conns : ks[q] = "open" => conn[q] = "open")
      /\ (adapter[a].stage = "open" /\ adapter[a].reopening = "no" => ks[adapter[a].inner] # "open")
  BY <1>0, <1>1, <1>2 DEF ShapesOK, Closing
<1>6. rets \in [Retirers -> RetireStates] /\ \A q \in Retirers : rets[q] = IF q = r THEN x ELSE retire[q]
  BY <1>0, <1>3 DEF ShapesOK
<1> HIDE DEF x, rets, ks
<1>7. \A b \in Adapters \ {a}, pc \in {"open", "reopening"} :
        Kept(b, pc, memo, retire) => Kept(b, pc, None, rets)
  BY <1>1, <1>6 DEF Kept, Waiting, Idle
<1>8. /\ adapter[a].stage = "opening" => Kept(a, "open", None, rets)
      /\ adapter[a].reopening # "no" => Kept(a, "reopening", None, rets)
  BY <1>3, <1>6 DEF Kept
<1>9. ShapesOK(None, adapter, ks, call, rets) BY <1>0, <1>5, <1>6 DEF ShapesOK
<1>10. StagesOK(None, adapter, call, rets) BY <1>0, <1>3, <1>6 DEF StagesOK
<1>11. WorkKept(None, adapter, call, rets) BY <1>7, <1>8, InvWork DEF WorkKept
<1>12. OpenKept(None, adapter, ks, stray, rets)
  <2>1. SUFFICES ASSUME NEW q \in Conns \ stray, ks[q] = "open"
                 PROVE  \E b \in Adapters : adapter[b].inner = q /\ Kept(b, "reopening", None, rets)
    BY DEF OpenKept
  <2>2. PICK b \in Adapters : adapter[b].inner = q /\ Kept(b, "reopening", memo, retire)
    BY <2>1, <1>5 DEF Inv, Sound, OpenKept
  <2>3. CASE b # a BY <2>2, <2>3, <1>7
  <2>4. CASE b = a
    <3>1. adapter[a].stage = "open" BY <2>2, <2>4, <1>1 DEF AdapterOK
    <3>2. adapter[a].reopening # "no" BY <2>1, <2>2, <2>4, <3>1, <1>5
    <3> QED BY <2>2, <2>4, <3>2, <1>8
  <2> QED BY <2>3, <2>4
<1> QED BY <1>4, <1>9, <1>10, <1>11, <1>12, BecomeSound DEF Inv, Sound

(* A disposal that ends leaves no connection of its own open.               *)
LEMMA DisposedSound ==
    ASSUME Inv, NEW r \in Retirers, Disposed(r)
    PROVE  (Sound(memo, adapter, conn, stray, call, retire) /\ NothingLoose)'
<1> DEFINE ks == [conn EXCEPT ![retire[r].conn] = "closed"]
           rets == [retire EXCEPT ![r] = Idle]
<1>0. ShapesOK(memo, adapter, conn, call, retire) /\ StagesOK(memo, adapter, call, retire)
  BY DEF Inv, Sound
<1>1. Become(memo, adapter, ks, call, rets) /\ retire[r].pc = "disposing" /\ Strays(stray)
  BY DEF Disposed
<1>2. ks \in [Conns -> {"open", "closing", "closed"}] /\ \A q \in Conns : ks[q] = "open" => conn[q] = "open"
  BY <1>0 DEF ShapesOK
<1>3. rets \in [Retirers -> RetireStates] /\ \A q \in Retirers : rets[q] = IF q = r THEN Idle ELSE retire[q]
  BY <1>0, IdleOK DEF ShapesOK
<1> HIDE DEF ks, rets
<1>4. \A b \in Adapters, pc \in {"open", "reopening"} :
        Kept(b, pc, memo, retire) => Kept(b, pc, memo, rets)
  BY <1>1, <1>3 DEF Kept, Waiting
<1>5. ShapesOK(memo, adapter, ks, call, rets) BY <1>0, <1>2, <1>3 DEF ShapesOK
<1>6. StagesOK(memo, adapter, call, rets) BY <1>0, <1>3, IdleOK DEF StagesOK
<1>7. WorkKept(memo, adapter, call, rets) BY <1>4, InvWork DEF WorkKept
<1>8. OpenKept(memo, adapter, ks, stray, rets) BY <1>2, <1>4 DEF Inv, Sound, OpenKept
<1> QED BY <1>1, <1>5, <1>6, <1>7, <1>8, BecomeSound DEF Inv, Sound

-----------------------------------------------------------------------------
(* The theorems.                                                           *)

(* Every action keeps the invariant.                                        *)
LEMMA NextSound ==
    ASSUME Inv, Next
    PROVE  (Sound(memo, adapter, conn, stray, call, retire) /\ NothingLoose)'
<1>1. CASE \E c \in Callers : Ask(c) \/ OfCaller(c)
  BY <1>1, AskSound, OpSucceedsSound, OpFailsSound, WakeSound DEF OfCaller
<1>2. CASE \E a \in Adapters : OfAdapter(a)
  BY <1>2, OpenedSound, OpenFailsSound, ReopenedSound, ReopenFailsSound, PreviousDisposedSound DEF OfAdapter
<1>3. CASE \E r \in Retirers : Invalidate(r) \/ Disposed(r)
  BY <1>3, InvalidateSound, DisposedSound
<1> QED BY <1>1, <1>2, <1>3 DEF Next

(* Only a connection a driver gave is stray.                                *)
LEMMA StrayOK ==
    ASSUME Inv, Next PROVE (stray \subseteq Conns)'
<1>1. CASE Strays(stray) BY <1>1 DEF Inv, Strays
<1>2. ASSUME NEW a \in Adapters, Opened(a) \/ Reopened(a) PROVE (stray \subseteq Conns)'
  BY <1>2, FreeConnIn DEF Opened, Reopened, Strays, Inv
<1> QED
  BY <1>1, <1>2 DEF Next, OfCaller, OfAdapter, Ask, OpenFails, OpSucceeds, OpFails, Wake,
     ReopenFails, PreviousDisposed, Invalidate, Disposed

(* The invariant holds of every reachable state.                            *)
THEOREM Invariance == Spec => []Inv
<1>1. Inv /\ [Next]_vars => Inv'
  <2> SUFFICES ASSUME Inv, [Next]_vars PROVE Inv' OBVIOUS
  <2>1. CASE Next BY <2>1, NextSound, StrayOK DEF Inv
  <2>2. CASE UNCHANGED vars
    BY <2>2 DEF vars, Inv, Sound, NothingLoose, ShapesOK, StagesOK, CallOK, RetireOK, OwnConns,
       WorkKept, OpenKept, Kept, Held
  <2> QED BY <2>1, <2>2
<1> QED BY <1>1, InitInv, PTL DEF Spec

(* A retirement leaves no connection behind, in ReconnectingAdapter and the *)
(* catalog together: whatever is open, an adapter somebody will dispose has *)
(* it, or an operation had it opened after the adapter was retired.         *)
THEOREM OnlyRevivedLeaks == Spec => []OnlyRevivedLeak
<1>1. Inv => OnlyRevivedLeak
  <2> SUFFICES ASSUME Inv, NEW k \in Conns \ stray, conn[k] = "open" PROVE Owned(k)
    BY DEF OnlyRevivedLeak
  <2>1. PICK a \in Adapters : adapter[a].inner = k /\ Kept(a, "reopening", memo, retire)
    BY DEF Inv, Sound, OpenKept
  <2> QED BY <2>1 DEF Kept, Owned
<1> QED BY <1>1, Invariance, PTL

(* Every object is in a stage of its own, and refers to what exists.        *)
THEOREM TypeCorrect == Spec => []TypeOK
<1>1. Inv => TypeOK
  <2> SUFFICES ASSUME Inv PROVE TypeOK OBVIOUS
  <2>0. ShapesOK(memo, adapter, conn, call, retire) /\ StagesOK(memo, adapter, call, retire)
    BY DEF Inv, Sound
  <2>1. memo \in Adapters \cup {None} /\ (memo # None => adapter[memo] # Free)
    BY <2>0, FreeOK DEF ShapesOK, StagesOK
  <2>2. ASSUME NEW a \in Adapters
        PROVE  /\ adapter[a].stage \in {"free", "opening", "open"}
               /\ adapter[a].reopening \in {"no", "opening", "disposing"}
               /\ (adapter[a].inner \in Conns) = (adapter[a].stage = "open")
               /\ (adapter[a].previous \in Conns) = (adapter[a].reopening # "no")
    BY InvWork DEF AdapterStates, AdapterOK
  <2>3. ASSUME NEW c \in Callers, call[c].pc # "idle" PROVE adapter[call[c].adapter] # Free
    <3>1. call[c] \in CallStates /\ CallOK(call[c], adapter) BY <2>0 DEF ShapesOK, StagesOK
    <3> QED BY <2>3, <3>1, CallShapes, FreeOK DEF CallOK
  <2>4. ASSUME NEW r \in Retirers, retire[r].pc # "idle" PROVE adapter[retire[r].adapter] # Free
    <3>1. retire[r] \in RetireStates /\ RetireOK(retire[r], adapter) BY <2>0 DEF ShapesOK, StagesOK
    <3> QED BY <2>4, <3>1, RetireShapes, FreeOK DEF RetireOK
  <2> QED BY <2>0, <2>1, <2>2, <2>3, <2>4 DEF TypeOK, ShapesOK, Inv
<1> QED BY <1>1, Invariance, PTL

(* Only a failed connection is replaced: Reopen runs for the connection     *)
(* that the failing operation was on, never for the one put in its place.   *)
THEOREM FailedReplaced == Spec => OnlyFailedReplaced
<1> DEFINE By(a) == \E c \in Callers : /\ call[c].pc = "op" /\ call'[c].pc = "reopen"
                                      /\ call[c].adapter = a /\ call[c].current = adapter[a].inner
           Fine == \A a \in Adapters :
                     adapter[a].reopening = "no" /\ adapter'[a].reopening = "opening" => By(a)
<1>1. Inv /\ [Next]_vars => Fine
  <2> SUFFICES ASSUME Inv, [Next]_vars, NEW a \in Adapters,
                      adapter[a].reopening = "no", adapter'[a].reopening = "opening"
               PROVE  By(a)
    OBVIOUS
  <2>0. adapter \in [Adapters -> AdapterStates] BY DEF Inv, Sound, ShapesOK
  <2>1. ASSUME NEW m, NEW ads, NEW ks, NEW calls, NEW rets, Become(m, ads, ks, calls, rets)
        PROVE  adapter'[a] = ads[a] /\ ads[a].reopening = "opening"
    BY <2>1, BecomeAdapters, FreeOK
  <2>2. ASSUME NEW c \in Callers, NEW kind \in {"transient", "auth", "permanent"}, OpFails(c, kind)
        PROVE  By(a)
    <3> DEFINE k == call[c]
    <3>1. Become(memo, StartReopen(k.adapter), conn, call', retire) /\ ~Replaced(k) /\ kind # "permanent"
      BY <2>1, <2>2, BecomeAdapters DEF OpFails
    <3>2. k \in OpStates
      BY <2>2, CallShapes DEF OpFails, Inv, Sound, ShapesOK
    <3>3. StartReopen(k.adapter)[a].reopening = "opening" /\ adapter'[a] = StartReopen(k.adapter)[a]
      BY <2>1, <3>1
    <3>4. a = k.adapter
      BY <2>0, <3>2, <3>3 DEF StartReopen, OpStates, AdapterStates
    <3>5. adapter[a].inner = k.current BY <3>1, <3>4 DEF Replaced
    <3>6. call'[c].pc = "reopen"
      <4> DEFINE streak == IF kind = "auth" \/ Replaced(k) THEN 0 ELSE k.streak + 1
                 asleep == [pc |-> "sleep", adapter |-> k.adapter, attempt |-> k.attempt, streak |-> streak]
                 reopen == ~Replaced(k) /\ (kind = "auth" \/ streak >= 2)
      <4>1. kind # "permanent" /\ ~Exhausted(k) /\ reopen
        <5>1. ASSUME NEW calls, Become(memo, adapter, conn, calls, retire) PROVE FALSE
          BY <2>1, <5>1
        <5> QED BY <2>2, <5>1 DEF OpFails
      <4>2. call' = [call EXCEPT ![c] = [asleep EXCEPT !.pc = "reopen"]]
        BY <2>2, <4>1, BecomeAdapters DEF OpFails
      <4>3. call \in [Callers -> CallStates] BY DEF Inv, Sound, ShapesOK
      <4> QED BY <4>2, <4>3
    <3> QED BY <2>2, <3>4, <3>5, <3>6 DEF OpFails
  <2>3. ASSUME NEW c \in Callers, Ask(c) \/ OpSucceeds(c) \/ Wake(c) PROVE FALSE
    <3>1. CASE Ask(c) /\ memo = None
      <4>1. Lowest(FreeAdapters) \in Adapters BY <3>1, FreeAdapterIn DEF Ask
      <4>2. [adapter EXCEPT ![Lowest(FreeAdapters)] = Opening][a].reopening = "no"
        BY <2>0, <4>1 DEF Opening, Free
      <4> QED BY <2>1, <3>1, <4>2 DEF Ask
    <3>2. CASE Ask(c) /\ memo # None BY <2>1, <3>2 DEF Ask
    <3>3. CASE OpSucceeds(c) \/ Wake(c) BY <2>1, <3>3 DEF OpSucceeds, Wake
    <3> QED BY <2>3, <3>1, <3>2, <3>3
  <2>4. ASSUME NEW b \in Adapters, OfAdapter(b) PROVE FALSE
    <3>1. CASE Opened(b)
      <4>1. ASSUME NEW k PROVE [adapter EXCEPT ![b].stage = "open", ![b].inner = k][a].reopening = "no"
        BY <2>0 DEF AdapterStates
      <4> QED BY <2>1, <3>1, <4>1 DEF Opened
    <3>2. CASE OpenFails(b) BY <2>1, <3>2 DEF OpenFails
    <3>3. CASE Reopened(b)
      <4>1. ASSUME NEW k PROVE [adapter EXCEPT ![b].inner = k, ![b].reopening = "disposing"][a].reopening # "opening"
        BY <2>0 DEF AdapterStates
      <4> QED BY <2>1, <3>3, <4>1 DEF Reopened
    <3>4. CASE ReopenFails(b) \/ PreviousDisposed(b)
      <4>1. Settled(b)[a].reopening = "no" BY <2>0 DEF AdapterStates, Settled
      <4> QED BY <2>1, <3>4, <4>1 DEF ReopenFails, PreviousDisposed
    <3> QED BY <2>4, <3>1, <3>2, <3>3, <3>4 DEF OfAdapter
  <2>5. ASSUME NEW r \in Retirers, Invalidate(r) \/ Disposed(r) PROVE FALSE
    BY <2>1, <2>5 DEF Invalidate, Disposed
  <2>6. CASE UNCHANGED vars BY <2>6 DEF vars
  <2> QED BY <2>2, <2>3, <2>4, <2>5, <2>6 DEF Next, OfCaller
<1>2. Inv /\ [Next]_vars => [Fine]_vars BY <1>1
<1> QED BY <1>2, Invariance, PTL DEF Spec, OnlyFailedReplaced
=============================================================================
