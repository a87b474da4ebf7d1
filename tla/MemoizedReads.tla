---------------------------- MODULE MemoizedReads ----------------------------
(* A Repository under edits: every write of the Graph emits an event that      *)
(* clears the memos, and a listener of the event may read at once (model.ts,   *)
(* graph.ts, derivations.ts, reactive.ts).  An alias is a series of writes.    *)
EXTENDS Predicates

CONSTANTS Base,       \* the graph a loader handed over
          EdgePool,   \* the edges that edits add and remove
          Writable,   \* the nodes whose attribute edits set, remove or alias
          MaxWrites,  \* bound: edits of one behaviour
          MaxMemo     \* bound: answers remembered at a time

VARIABLES graph, memo, pending, writes
memoVars == <<graph, memo, pending, writes>>

MemoInit == graph = Base /\ memo = NoMemo /\ pending = <<>> /\ writes = 0

----------------------------------------------------------------------------
(* Reads fill the memo of what they compute.                                   *)

\* What a read computes while it finds m; a carrier set is remembered apart.
Computed(g, m, key) ==
  CASE key[1] = "aspects"  -> Range(AspectsOf(g, key[2]))
    [] key[1] = "carriers" -> CarriersOf(g, key[2])
    [] key[1] = "domain"   ->
         IF MetaKindOf(g, key[2]) = "aspect" /\ CarriersKey(key[2]) \in DOMAIN m
         THEN InstancesOf(g, m[CarriersKey(key[2])]) ELSE InstancesMatching(g, key[2])
    [] key[1] = "derived"  -> Evaluate(g, m, DerivedMembers[key[3]], key[2]).nodes

Keys ==
  {AspectsKey(c)  : c \in {n \in DOMAIN graph.nodes : MetaKindOf(graph, n) = "concept"}}
  \cup {CarriersKey(a) : a \in {n \in DOMAIN graph.nodes : MetaKindOf(graph, n) = "aspect"}}
  \cup {DomainKey(t)   : t \in {n \in DOMAIN graph.nodes : MetaKindOf(graph, n) \in {"concept", "aspect"}}}
  \cup {DerivedKey(i, n) : i \in Writable \cap DOMAIN graph.nodes, n \in DOMAIN DerivedMembers}

Read ==
  \E key \in Keys \ DOMAIN memo :
    /\ Cardinality(DOMAIN memo) < MaxMemo
    /\ memo' = (key :> Computed(graph, memo, key)) @@ memo
    /\ UNCHANGED <<graph, pending, writes>>

----------------------------------------------------------------------------
(* Writes.  InvalidateAspectCaches and the derivations' handler run on every   *)
(* event, before any later listener.                                           *)

\* Mutant: only structural events clear the memos.
WriteNoAttr(g) ==
  /\ graph' = g
  /\ memo' = IF g.edges = graph.edges /\ DOMAIN g.nodes = DOMAIN graph.nodes THEN memo ELSE NoMemo

Write(g) == graph' = g /\ memo' = NoMemo

Idle == pending = <<>> /\ writes < MaxWrites
Plus(g, e)  == [g EXCEPT !.edges = Append(@, e)]
Minus(g, e) == [g EXCEPT !.edges = SelectSeq(@, LAMBDA x : x # e)]

AddEdge ==
  \E e \in EdgePool :
    /\ Idle /\ e \notin Range(graph.edges)
    /\ HasNode(graph, e.from) /\ HasNode(graph, e.to)
    /\ Write(Plus(graph, e))
    /\ writes' = writes + 1 /\ UNCHANGED pending

RemoveEdge ==
  \E e \in EdgePool \cap Range(graph.edges) :
    /\ Idle
    /\ Write(Minus(graph, e))
    /\ writes' = writes + 1 /\ UNCHANGED pending

SetAttr ==
  \E id \in Writable \cap DOMAIN graph.nodes, v \in {"", "x"} :
    /\ Idle /\ graph.nodes[id].attrs # ("v" :> v)
    /\ Write([graph EXCEPT !.nodes[id].attrs = ("v" :> v) @@ @])
    /\ writes' = writes + 1 /\ UNCHANGED pending

RemoveNode ==
  \E id \in Writable \cap DOMAIN graph.nodes :
    /\ Idle
    /\ Write([nodes |-> [n \in DOMAIN graph.nodes \ {id} |-> graph.nodes[n]],
              edges |-> SelectSeq(graph.edges, LAMBDA e : e.from # id /\ e.to # id)])
    /\ writes' = writes + 1 /\ UNCHANGED pending

SameAs(alias, canonical) == Edge("sameAs", alias, NoVia, canonical)
Incoming(g, id) == SelectSeq(g.edges, LAMBDA e : e.to = id /\ e.kind # "sameAs")

\* graph.ts alias: the mark first, then the marker edge and every edge that
\* enters the alias, each a write of its own.
Alias ==
  \E alias, canonical \in Writable \cap DOMAIN graph.nodes :
    /\ Idle /\ alias # canonical /\ graph.nodes[alias].canonical # canonical
    /\ Write([graph EXCEPT !.nodes[alias].canonical = canonical])
    /\ LET marked == SameAs(alias, canonical) \in Range(graph.edges)
           turned == Incoming(graph, alias)
       IN pending' = (IF marked THEN <<>> ELSE <<[op |-> "add", edge |-> SameAs(alias, canonical)]>>)
                     \o FlattenSeq([i \in DOMAIN turned |->
                          <<[op |-> "drop", edge |-> turned[i]]>>
                          \o (IF turned[i].from = canonical THEN <<>>
                              ELSE <<[op |-> "add", edge |-> [turned[i] EXCEPT !.to = canonical]]>>)])
    /\ writes' = writes + 1

Redirect ==
  /\ pending # <<>>
  /\ LET step == Head(pending)
     IN IF step.op = "drop" THEN Write(Minus(graph, step.edge))
        ELSE IF step.edge \in Range(graph.edges) THEN UNCHANGED <<graph, memo>>
        ELSE Write(Plus(graph, step.edge))
  /\ pending' = Tail(pending)
  /\ UNCHANGED writes

MemoNext == Read \/ AddEdge \/ RemoveEdge \/ SetAttr \/ RemoveNode \/ Alias \/ Redirect

----------------------------------------------------------------------------
(* What a reader relies on.                                                    *)

\* A remembered answer is the one a fresh computation would give, whatever was
\* written since and whoever reads between the writes of one alias.
MemosFresh == \A key \in DOMAIN memo : memo[key] = Computed(graph, NoMemo, key)

\* The instances a quantifier ranges over, found by walking the type graph
\* downwards, are those whose type, walked upwards, is the quantified one.
DomainIsExtent ==
  \A t \in {n \in DOMAIN graph.nodes : MetaKindOf(graph, n) \in {"concept", "aspect"}} :
    InstancesMatching(graph, t) = {i \in DOMAIN graph.nodes :
                                     /\ graph.nodes[i].type # NoId /\ Visible(graph, i)
                                     /\ IsA(graph, graph.nodes[i].type, t)}
=============================================================================
