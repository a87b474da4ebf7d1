--------------------------- MODULE PublishingProofs ---------------------------
(***************************************************************************)
(* What holds of the connections of the package manager, for any ids,      *)
(* backends, tokens, packages and bounds: every variable keeps its shape,  *)
(* and a cached client was built from the connection as it is.  And what   *)
(* holds of the build of a solution, for any projects, bindings and        *)
(* failures: its order, where it stops, and what it compiles against.      *)
(***************************************************************************)
EXTENDS PackageRegistries, SolutionBuild, FiniteSetTheorems, SequenceTheorems,
        WellFoundedInduction, TLAPS

(***************************************************************************)
(* Changes of a connection.                                                *)
(***************************************************************************)

Kinds == {"add", "update", "token", "env", "remove"}

(* What is left to do of a change: the steps of its kind from one on.        *)
StepsOf(kind) ==
    CASE kind = "add" -> {<<"save", "secret", "drop">>, <<"save", "drop">>, <<"secret", "drop">>,
                          <<"drop">>}
      [] kind \in {"update", "env"} -> {<<"read", "save", "drop">>, <<"save", "drop">>, <<"drop">>}
      [] kind = "token" -> {<<"secret", "read", "save", "drop">>, <<"read", "save", "drop">>,
                            <<"save", "drop">>, <<"drop">>}
      [] kind = "remove" -> {<<"delete", "forget", "drop">>, <<"forget", "drop">>, <<"drop">>}

(* The first step of a change, and the changes that have written nothing and  *)
(* those that have stored a token alone.                                     *)
First(kind) ==
    CASE kind = "add" -> "save" [] kind \in {"update", "env"} -> "read"
      [] kind = "token" -> "secret" [] kind = "remove" -> "delete"
Untouched(e) == Head(e.steps) = First(e.kind)
Stored(e) == e.kind = "token" /\ Head(e.steps) = "read"

Setting == [rev : 1 .. MaxRevision, source : {"stored", "env"}]

Connections ==
    /\ DOMAIN specs \subseteq Listed /\ \A id \in DOMAIN specs : specs[id] \in Setting
    /\ DOMAIN secrets \subseteq Listed /\ DOMAIN clients \subseteq Listed
    /\ \A id \in DOMAIN clients : clients[id].rev \in 1 .. MaxRevision
    /\ default \in Listed \cup {""}
    /\ \A e \in edits : /\ e = Edit(e.kind, e.id, e.steps, e.spec, e.token)
                        /\ e.kind \in Kinds /\ e.id \in Listed /\ e.steps \in StepsOf(e.kind)
                        /\ e.kind # "remove" => e.spec \in Setting
    /\ \A b \in builds : /\ b = [id |-> b.id, read |-> b.read, spec |-> b.spec]
                         /\ b.id \in Listed /\ b.read \in BOOLEAN
                         /\ b.read => b.spec \in Setting

(* A connection has one change at a time, and none while its client is built. *)
Apart ==
    /\ \A e, f \in edits : e.id = f.id => e = f
    /\ "build" \notin Overlaps => \A b \in builds, e \in edits : b.id # e.id

(* The client was built from the connection as it is.                        *)
AsSaved(id) ==
    /\ id \in DOMAIN specs
    /\ clients[id] = [rev |-> specs[id].rev, token |-> ResolveSecret(id, specs[id])]

(* What is known of a client while its connection changes, and of a client    *)
(* that is being built.                                                      *)
Synced ==
    "build" \notin Overlaps =>
        /\ \A id \in DOMAIN clients \ torn :
              (\A e \in edits : e.id = id => Untouched(e)) => AsSaved(id)
        /\ \A e \in edits : Stored(e) /\ e.id \in DOMAIN clients \ torn => e.id \in DOMAIN specs
        /\ \A b \in builds : b.read => b.id \in DOMAIN specs /\ b.spec = specs[b.id]

Kept == Connections /\ Apart /\ Synced

(* What the registries hold.                                                 *)
Shelved ==
    /\ shelf \in [Listed -> SUBSET [pkg : Packages, tarball : BOOLEAN, manifest : BOOLEAN]]
    /\ \A u \in uploads : u.id \in Listed /\ u.pkg \in Packages

(***************************************************************************)
(* Functions, and the steps of a change.                                    *)
(***************************************************************************)

LEMMA HavingIs ==
  ASSUME NEW f, NEW x, NEW v
  PROVE  /\ DOMAIN Having(f, x, v) = DOMAIN f \cup {x}
         /\ Having(f, x, v)[x] = v
         /\ \A y \in DOMAIN f : y # x => Having(f, x, v)[y] = f[y]
  BY DEF Having

LEMMA WithoutIs ==
  ASSUME NEW f, NEW x
  PROVE  /\ DOMAIN Without(f, x) = DOMAIN f \ {x}
         /\ \A y \in DOMAIN f : y # x => Without(f, x)[y] = f[y]
  BY DEF Without

LEMMA EmptyDomain == DOMAIN <<>> = {}
  OBVIOUS

LEMMA HeadsAndTails ==
  ASSUME NEW w, NEW x, NEW y, NEW z
  PROVE  /\ Head(<<z>>) = z /\ Len(<<z>>) = 1
         /\ Head(<<y, z>>) = y /\ Len(<<y, z>>) = 2 /\ Tail(<<y, z>>) = <<z>>
         /\ Head(<<x, y, z>>) = x /\ Len(<<x, y, z>>) = 3 /\ Tail(<<x, y, z>>) = <<y, z>>
         /\ Head(<<w, x, y, z>>) = w /\ Len(<<w, x, y, z>>) = 4
         /\ Tail(<<w, x, y, z>>) = <<x, y, z>>
  OBVIOUS

(* A step that is not the last, with the one after it.                       *)
Follows(kind, step, next) ==
    /\ step \in {"save", "secret", "read", "delete", "forget"}
    /\ next # First(kind)
    /\ step = "save" => kind # "remove"
    /\ step \in {"delete", "forget"} => kind = "remove"
    /\ step = "read" => kind = "token" \/ First(kind) = "read"
    /\ kind = "token" /\ next = "read" => step = "secret"

LEMMA FollowsIs ==
  /\ Follows("add", "save", "drop") /\ Follows("add", "save", "secret")
  /\ Follows("add", "secret", "drop")
  /\ \A kind \in {"update", "env", "token"} :
        Follows(kind, "read", "save") /\ Follows(kind, "save", "drop")
  /\ Follows("token", "secret", "read")
  /\ Follows("remove", "delete", "forget") /\ Follows("remove", "forget", "drop")
  <1>1. /\ First("add") = "save" /\ First("update") = "read" /\ First("env") = "read"
        /\ First("token") = "secret" /\ First("remove") = "delete"
    BY DEF First
  <1> QED  BY <1>1 DEF Follows

(* The step a change is at, and what is left after it.                       *)
StepKnown(kind, steps) ==
    IF Head(steps) = "drop" THEN Len(steps) = 1
    ELSE /\ Len(steps) # 1 /\ Tail(steps) \in StepsOf(kind)
         /\ Follows(kind, Head(steps), Head(Tail(steps)))

LEMMA MoreLeft ==
  ASSUME NEW kind, NEW steps, NEW rest \in StepsOf(kind), NEW step, NEW next,
         Follows(kind, step, next), Head(steps) = step, Head(rest) = next, Tail(steps) = rest,
         Len(steps) # 1
  PROVE  StepKnown(kind, steps)
  <1>1. Head(steps) # "drop"
    BY DEF Follows
  <1>2. Tail(steps) \in StepsOf(kind) /\ Follows(kind, Head(steps), Head(Tail(steps)))
    BY Zenon
  <1> QED  BY <1>1, <1>2 DEF StepKnown

LEMMA StepIs ==
  ASSUME NEW kind \in Kinds, NEW steps \in StepsOf(kind)
  PROVE  StepKnown(kind, steps)
  <1> DEFINE s1 == <<"drop">>  s2 == <<"save", "drop">>  s3 == <<"secret", "drop">>
             s4 == <<"forget", "drop">>  s5 == <<"read", "save", "drop">>
             s6 == <<"save", "secret", "drop">>  s7 == <<"delete", "forget", "drop">>
             s8 == <<"secret", "read", "save", "drop">>
  <1>0. /\ Head(s1) = "drop" /\ Len(s1) = 1
        /\ Head(s2) = "save" /\ Len(s2) # 1 /\ Tail(s2) = s1
        /\ Head(s3) = "secret" /\ Len(s3) # 1 /\ Tail(s3) = s1
        /\ Head(s4) = "forget" /\ Len(s4) # 1 /\ Tail(s4) = s1
        /\ Head(s5) = "read" /\ Len(s5) # 1 /\ Tail(s5) = s2
        /\ Head(s6) = "save" /\ Len(s6) # 1 /\ Tail(s6) = s3
        /\ Head(s7) = "delete" /\ Len(s7) # 1 /\ Tail(s7) = s4
        /\ Head(s8) = "secret" /\ Len(s8) # 1 /\ Tail(s8) = s5
    BY HeadsAndTails
  <1>a. StepsOf("add") = {s6, s2, s3, s1}
    BY DEF StepsOf
  <1>b. kind \in {"update", "env"} => StepsOf(kind) = {s5, s2, s1}
    BY DEF StepsOf
  <1>c. StepsOf("token") = {s8, s5, s2, s1}
    BY DEF StepsOf
  <1>d. StepsOf("remove") = {s7, s4, s1}
    BY DEF StepsOf
  <1>e. kind = "add" \/ kind \in {"update", "env"} \/ kind = "token" \/ kind = "remove"
    BY DEF Kinds
  <1> HIDE DEF s1, s2, s3, s4, s5, s6, s7, s8
  <1>f. steps \in {s1, s2, s3, s4, s5, s6, s7, s8}
    BY <1>a, <1>b, <1>c, <1>d, <1>e
  <1>g. s1 \in StepsOf(kind)
    BY <1>a, <1>b, <1>c, <1>d, <1>e
  <1>1. CASE steps = s1
    BY <1>0, <1>1 DEF StepKnown
  <1>2. CASE steps = s2
    <2>1. s1 \in StepsOf(kind) /\ Follows(kind, "save", "drop")
      BY <1>0, <1>a, <1>b, <1>c, <1>d, <1>e, <1>2, FollowsIs
    <2>2. Head(steps) = "save" /\ Head(s1) = "drop" /\ Tail(steps) = s1 /\ Len(steps) # 1
      BY <1>0, <1>2, Zenon
    <2> QED  BY <2>1, <2>2, MoreLeft
  <1>3. CASE steps = s3
    <2>1. s1 \in StepsOf(kind) /\ Follows(kind, "secret", "drop")
      BY <1>0, <1>a, <1>b, <1>c, <1>d, <1>e, <1>3, FollowsIs
    <2>2. Head(steps) = "secret" /\ Head(s1) = "drop" /\ Tail(steps) = s1 /\ Len(steps) # 1
      BY <1>0, <1>3, Zenon
    <2> QED  BY <2>1, <2>2, MoreLeft
  <1>4. CASE steps = s4
    <2>1. s1 \in StepsOf(kind) /\ Follows(kind, "forget", "drop")
      BY <1>0, <1>a, <1>b, <1>c, <1>d, <1>e, <1>4, FollowsIs
    <2>2. Head(steps) = "forget" /\ Head(s1) = "drop" /\ Tail(steps) = s1 /\ Len(steps) # 1
      BY <1>0, <1>4, Zenon
    <2> QED  BY <2>1, <2>2, MoreLeft
  <1>5. CASE steps = s5
    <2>1. s2 \in StepsOf(kind) /\ Follows(kind, "read", "save")
      BY <1>0, <1>a, <1>b, <1>c, <1>d, <1>e, <1>5, FollowsIs
    <2>2. Head(steps) = "read" /\ Head(s2) = "save" /\ Tail(steps) = s2 /\ Len(steps) # 1
      BY <1>0, <1>5, Zenon
    <2> QED  BY <2>1, <2>2, MoreLeft
  <1>6. CASE steps = s6
    <2>1. s3 \in StepsOf(kind) /\ Follows(kind, "save", "secret")
      BY <1>0, <1>a, <1>b, <1>c, <1>d, <1>e, <1>6, FollowsIs
    <2>2. Head(steps) = "save" /\ Head(s3) = "secret" /\ Tail(steps) = s3 /\ Len(steps) # 1
      BY <1>0, <1>6, Zenon
    <2> QED  BY <2>1, <2>2, MoreLeft
  <1>7. CASE steps = s7
    <2>1. s4 \in StepsOf(kind) /\ Follows(kind, "delete", "forget")
      BY <1>0, <1>a, <1>b, <1>c, <1>d, <1>e, <1>7, FollowsIs
    <2>2. Head(steps) = "delete" /\ Head(s4) = "forget" /\ Tail(steps) = s4 /\ Len(steps) # 1
      BY <1>0, <1>7, Zenon
    <2> QED  BY <2>1, <2>2, MoreLeft
  <1>8. CASE steps = s8
    <2>1. s5 \in StepsOf(kind) /\ Follows(kind, "secret", "read")
      BY <1>0, <1>a, <1>b, <1>c, <1>d, <1>e, <1>8, FollowsIs
    <2>2. Head(steps) = "secret" /\ Head(s5) = "read" /\ Tail(steps) = s5 /\ Len(steps) # 1
      BY <1>0, <1>8, Zenon
    <2> QED  BY <2>1, <2>2, MoreLeft
  <1> QED  BY <1>f, <1>1, <1>2, <1>3, <1>4, <1>5, <1>6, <1>7, <1>8

(***************************************************************************)
(* Every action.                                                            *)
(***************************************************************************)

LEMMA KeptStarts ==
  ASSUME MaxRevision \in Nat \ {0}, RegistriesInit
  PROVE  Kept /\ Shelved
  <1>1. /\ edits = {} /\ builds = {} /\ torn = {} /\ uploads = {}
        /\ secrets = <<>> /\ default = "" /\ shelf = [id \in Listed |-> {}]
    BY DEF RegistriesInit
  <1>2. DOMAIN secrets = {}
    BY <1>1, EmptyDomain
  <1>3. Shelved
    BY <1>1 DEF Shelved
  <1>7. 1 \in 1 .. MaxRevision
    OBVIOUS
  <1>4. CASE specs = <<>> /\ clients = <<>>
    <2>1. DOMAIN specs = {} /\ DOMAIN clients = {}
      BY <1>4, EmptyDomain
    <2> QED  BY <1>1, <1>2, <1>3, <2>1 DEF Kept, Connections, Apart, Synced
  <1>5. CASE /\ specs = [id \in Listed |-> [rev |-> 1, source |-> "stored"]]
             /\ clients = [id \in Listed |-> [rev |-> 1, token |-> ""]]
    <2>1. DOMAIN specs = Listed /\ \A id \in DOMAIN specs : specs[id] \in Setting
      <3>1. [rev |-> 1, source |-> "stored"] \in Setting
        BY <1>7 DEF Setting
      <3>2. DOMAIN specs = Listed /\ \A id \in Listed : specs[id] = [rev |-> 1, source |-> "stored"]
        BY <1>5
      <3> QED  BY <3>1, <3>2, Zenon
    <2>2. DOMAIN clients = Listed /\ \A id \in DOMAIN clients : clients[id].rev \in 1 .. MaxRevision
      <3>1. /\ DOMAIN clients = Listed
            /\ \A id \in Listed : clients[id] = [rev |-> 1, token |-> ""]
        BY <1>5
      <3>2. \A id \in Listed : clients[id].rev = 1
        <4>1. [rev |-> 1, token |-> ""].rev = 1
          OBVIOUS
        <4> QED  BY <3>1, <4>1, Zenon
      <3> QED  BY <1>7, <3>1, <3>2, Zenon
    <2>3. \A id \in Listed : AsSaved(id)
      BY <1>2, <1>5 DEF AsSaved, ResolveSecret
    <2> QED  BY <1>1, <1>2, <1>3, <2>1, <2>2, <2>3 DEF Kept, Connections, Apart, Synced
  <1>6. \/ specs = <<>> /\ clients = <<>>
        \/ /\ specs = [id \in Listed |-> [rev |-> 1, source |-> "stored"]]
           /\ clients = [id \in Listed |-> [rev |-> 1, token |-> ""]]
    BY DEF RegistriesInit
  <1> QED  BY <1>4, <1>5, <1>6

LEMMA StartKept ==
  ASSUME Kept, NEW kind \in Kinds, NEW id \in Listed, NEW steps \in StepsOf(kind),
         Head(steps) = First(kind), NEW spec, kind # "remove" => spec \in Setting, NEW token,
         Start(Edit(kind, id, steps, spec, token))
  PROVE  Kept'
  <1> USE DEF Kept
  <1>1. PICK e : e = Edit(kind, id, steps, spec, token)
    OBVIOUS
  <1>2. /\ e = [kind |-> kind, id |-> id, steps |-> steps, spec |-> spec, token |-> token]
        /\ e.kind = kind /\ e.id = id /\ e.steps = steps /\ e.spec = spec
    BY <1>1 DEF Edit
  <1>3. /\ UNCHANGED <<specs, secrets, default, clients, builds, torn>>
        /\ edits' = edits \cup {e} /\ Free(id)
    BY <1>1, <1>2 DEF Start
  <1>4. Untouched(e) /\ ~Stored(e)
    BY <1>2 DEF Untouched, Stored, First
  <1>5. Connections'
    <2>1. e = Edit(e.kind, e.id, e.steps, e.spec, e.token)
      BY <1>2 DEF Edit
    <2> QED  BY <1>2, <1>3, <2>1 DEF Connections
  <1>6. Apart'
    BY <1>2, <1>3 DEF Apart, Free
  <1>7. Synced'
    <2> SUFFICES ASSUME "build" \notin Overlaps  PROVE Synced'
      BY DEF Synced
    <2>1. ASSUME NEW i \in DOMAIN clients \ torn,
                 \A f \in edits \cup {e} : f.id = i => Untouched(f)
          PROVE  AsSaved(i)
      BY <2>1 DEF Synced
    <2>2. \A i : AsSaved(i)' <=> AsSaved(i)
      BY <1>3 DEF AsSaved, ResolveSecret
    <2> QED  BY <1>3, <1>4, <2>1, <2>2 DEF Synced, Untouched, Stored
  <1> QED  BY <1>5, <1>6, <1>7

LEMMA EditFailsKept ==
  ASSUME Kept, NEW e \in edits, EditFails(e)
  PROVE  Kept'
  <1> USE DEF Kept
  <1>1. /\ UNCHANGED <<specs, secrets, default, clients, builds>>
        /\ edits' = edits \ {e} /\ torn' = torn \cup {e.id}
    BY DEF EditFails
  <1>2. Connections' /\ Apart'
    BY <1>1 DEF Connections, Apart
  <1>3. Synced'
    <2>1. \A i : AsSaved(i)' <=> AsSaved(i)
      BY <1>1 DEF AsSaved, ResolveSecret
    <2> QED  BY <1>1, <2>1 DEF Synced, Untouched, Stored
  <1> QED  BY <1>2, <1>3

LEMMA RegistryForKept ==
  ASSUME Kept, NEW id \in Listed \cup {default}, RegistryFor(id)
  PROVE  Kept'
  <1> USE DEF Kept
  <1> DEFINE b == [id |-> id, read |-> FALSE, spec |-> [rev |-> 0, source |-> ""]]
  <1>1. /\ UNCHANGED <<specs, secrets, default, clients, edits, torn>>
        /\ builds' = builds \cup {b} /\ id \in Listed
        /\ "build" \notin Overlaps => \A e \in edits : e.id # id
    BY DEF RegistryFor, Connections
  <1>2. b.id = id /\ b.read = FALSE /\ b = [id |-> b.id, read |-> b.read, spec |-> b.spec]
    OBVIOUS
  <1> HIDE DEF b
  <1>3. Connections' /\ Apart'
    BY <1>1, <1>2 DEF Connections, Apart
  <1>4. Synced'
    <2>1. \A i : AsSaved(i)' <=> AsSaved(i)
      BY <1>1 DEF AsSaved, ResolveSecret
    <2> QED  BY <1>1, <1>2, <2>1 DEF Synced, Untouched, Stored
  <1> QED  BY <1>3, <1>4

LEMMA ReadSpecKept ==
  ASSUME Kept, NEW b \in builds, ReadSpec(b)
  PROVE  Kept'
  <1> USE DEF Kept
  <1>1. UNCHANGED <<specs, secrets, default, clients, edits, torn>>
    BY DEF ReadSpec
  <1>2. \A i : AsSaved(i)' <=> AsSaved(i)
    BY <1>1 DEF AsSaved, ResolveSecret
  <1>3. CASE b.id \notin DOMAIN specs
    <2>1. builds' = builds \ {b}
      BY <1>3 DEF ReadSpec
    <2> QED  BY <1>1, <1>2, <2>1 DEF Connections, Apart, Synced, Untouched, Stored
  <1>4. CASE b.id \in DOMAIN specs
    <2>1. PICK c : c = [b EXCEPT !.read = TRUE, !.spec = specs[b.id]]
      OBVIOUS
    <2>2. builds' = (builds \ {b}) \cup {c}
      BY <1>4, <2>1 DEF ReadSpec
    <2>3. c = [id |-> b.id, read |-> TRUE, spec |-> specs[b.id]]
      <3>1. b = [id |-> b.id, read |-> b.read, spec |-> b.spec]
        BY DEF Connections
      <3> QED  BY <2>1, <3>1
    <2>4. c.id = b.id /\ c.read = TRUE /\ c.spec = specs[b.id] /\ specs[b.id] \in Setting
      BY <1>4, <2>3 DEF Connections
    <2>5. Connections'
      BY <1>1, <2>2, <2>3, <2>4 DEF Connections
    <2>6. Apart'
      BY <1>1, <2>2, <2>4 DEF Apart
    <2>7. Synced'
      BY <1>1, <1>2, <1>4, <2>2, <2>4 DEF Synced, Untouched, Stored
    <2> QED  BY <2>5, <2>6, <2>7
  <1> QED  BY <1>3, <1>4

LEMMA CacheClientKept ==
  ASSUME Kept, NEW b \in builds, CacheClient(b)
  PROVE  Kept'
  <1> USE DEF Kept
  <1> DEFINE client == [rev |-> b.spec.rev, token |-> ResolveSecret(b.id, b.spec)]
  <1>1. /\ UNCHANGED <<specs, secrets, default, edits, torn>>
        /\ b.read /\ builds' = builds \ {b} /\ clients' = Having(clients, b.id, client)
    BY DEF CacheClient
  <1>2. /\ DOMAIN clients' = DOMAIN clients \cup {b.id}
        /\ clients'[b.id] = client
        /\ \A i \in DOMAIN clients : i # b.id => clients'[i] = clients[i]
    <2>1. PICK c, i : c = client /\ i = b.id
      OBVIOUS
    <2>2. clients' = Having(clients, i, c)
      BY <1>1, <2>1
    <2>3. /\ DOMAIN Having(clients, i, c) = DOMAIN clients \cup {i}
          /\ Having(clients, i, c)[i] = c
          /\ \A j \in DOMAIN clients : j # i => Having(clients, i, c)[j] = clients[j]
      BY DEF Having
    <2> QED  BY <2>1, <2>2, <2>3, Zenon
  <1>3. b.id \in Listed /\ b.spec \in Setting
    BY <1>1 DEF Connections
  <1>4. Connections'
    <2>1. client.rev \in 1 .. MaxRevision
      BY <1>3 DEF Setting
    <2>2. \A i \in DOMAIN clients' : clients'[i].rev \in 1 .. MaxRevision
      BY <1>2, <2>1 DEF Connections
    <2>3. DOMAIN clients' \subseteq Listed
      BY <1>2, <1>3 DEF Connections
    <2> QED  BY <1>1, <2>2, <2>3 DEF Connections
  <1>5. Apart'
    BY <1>1 DEF Apart
  <1>6. Synced'
    <2> SUFFICES ASSUME "build" \notin Overlaps  PROVE Synced'
      BY DEF Synced
    <2>1. b.id \in DOMAIN specs /\ b.spec = specs[b.id]
      BY <1>1 DEF Synced
    <2>2. AsSaved(b.id)'
      BY <1>1, <1>2, <2>1 DEF AsSaved, ResolveSecret
    <2>3. \A i \in DOMAIN clients : i # b.id => (AsSaved(i)' <=> AsSaved(i))
      BY <1>1, <1>2 DEF AsSaved, ResolveSecret
    <2>4. \A e \in edits : e.id # b.id
      BY DEF Apart
    <2> QED  BY <1>1, <1>2, <2>1, <2>2, <2>3, <2>4 DEF Synced, Untouched, Stored
  <1> QED  BY <1>4, <1>5, <1>6

LEMMA SetDefaultKept ==
  ASSUME Kept, NEW id \in Listed, SetDefault(id)
  PROVE  Kept'
  <1> USE DEF Kept
  <1>1. /\ UNCHANGED <<specs, secrets, clients, edits, builds, torn>> /\ default' = id
    BY DEF SetDefault
  <1>2. \A i : AsSaved(i)' <=> AsSaved(i)
    BY <1>1 DEF AsSaved, ResolveSecret
  <1> QED  BY <1>1, <1>2 DEF Connections, Apart, Synced, Untouched, Stored

LEMMA StutterKept ==
  ASSUME Kept, UNCHANGED connectionVars
  PROVE  Kept'
  <1> USE DEF Kept
  <1>1. UNCHANGED <<specs, secrets, default, clients, edits, builds, torn>>
    BY DEF connectionVars
  <1>2. \A i : AsSaved(i)' <=> AsSaved(i)
    BY <1>1 DEF AsSaved, ResolveSecret
  <1> QED  BY <1>1, <1>2 DEF Connections, Apart, Synced, Untouched, Stored

(* One step of a change, with what it leaves to do.                          *)
Left(e) == IF Len(e.steps) = 1 THEN {} ELSE {[e EXCEPT !.steps = Tail(@)]}

LEMMA LeftIs ==
  ASSUME Kept, NEW e \in edits
  PROVE  /\ StepKnown(e.kind, e.steps)
         /\ Head(e.steps) = "drop" => Left(e) = {}
         /\ Head(e.steps) # "drop" =>
               \E f : /\ Left(e) = {f} /\ f = Edit(f.kind, f.id, f.steps, f.spec, f.token)
                      /\ f.kind = e.kind /\ f.id = e.id /\ f.spec = e.spec
                      /\ f.steps = Tail(e.steps)
  <1>1. e = Edit(e.kind, e.id, e.steps, e.spec, e.token) /\ e.kind \in Kinds
        /\ e.steps \in StepsOf(e.kind)
    BY DEF Kept, Connections
  <1>2. StepKnown(e.kind, e.steps)
    BY <1>1, StepIs
  <1>3. ASSUME Head(e.steps) # "drop"
        PROVE  \E f : /\ Left(e) = {f} /\ f = Edit(f.kind, f.id, f.steps, f.spec, f.token)
                      /\ f.kind = e.kind /\ f.id = e.id /\ f.spec = e.spec
                      /\ f.steps = Tail(e.steps)
    <2>1. PICK t : t = Tail(e.steps)
      OBVIOUS
    <2>2. PICK f : f = [e EXCEPT !.steps = t]
      OBVIOUS
    <2>3. Left(e) = {f}
      BY <1>2, <1>3, <2>1, <2>2 DEF Left, StepKnown
    <2>4. f = Edit(e.kind, e.id, t, e.spec, e.token)
      <3>1. e = [kind |-> e.kind, id |-> e.id, steps |-> e.steps, spec |-> e.spec,
                 token |-> e.token]
        BY <1>1 DEF Edit
      <3> QED  BY <2>2, <3>1 DEF Edit
    <2>5. f.kind = e.kind /\ f.id = e.id /\ f.spec = e.spec /\ f.steps = t /\ f.token = e.token
      BY <2>4 DEF Edit
    <2>6. f = Edit(f.kind, f.id, f.steps, f.spec, f.token)
      BY <2>4, <2>5, Zenon
    <2> QED  BY <2>1, <2>3, <2>5, <2>6, Zenon
  <1>4. Head(e.steps) = "drop" => Left(e) = {}
    BY <1>2 DEF StepKnown, Left
  <1> QED  BY <1>2, <1>3, <1>4

(* After a step, e is gone or is the same change, further on.                *)
Moved(e, f) ==
    /\ f = Edit(f.kind, f.id, f.steps, f.spec, f.token)
    /\ f.kind = e.kind /\ f.id = e.id /\ f.spec = e.spec
    /\ f.steps \in StepsOf(e.kind)
    /\ Follows(e.kind, Head(e.steps), Head(f.steps))

(* Two functions agree at every point but one.                               *)
OnlyAt(f, g, x) ==
    \A y : y # x => /\ y \in DOMAIN g <=> y \in DOMAIN f
                    /\ y \in DOMAIN f => g[y] = f[y]

LEMMA ElsewhereIs ==
  ASSUME NEW f, NEW x, NEW v
  PROVE  OnlyAt(f, Having(f, x, v), x) /\ OnlyAt(f, Without(f, x), x) /\ OnlyAt(f, f, x)
  BY DEF OnlyAt, Having, Without

LEMMA StepMoves ==
  ASSUME Kept, NEW e \in edits, StepEdit(e)
  PROVE  /\ StepKnown(e.kind, e.steps)
         /\ \/ /\ Head(e.steps) = "read" /\ e.id \notin DOMAIN specs /\ edits' = edits \ {e}
               /\ UNCHANGED <<specs, secrets, clients, torn>>
            \/ /\ Head(e.steps) = "drop" /\ edits' = edits \ {e}
               /\ UNCHANGED <<specs, secrets>> /\ e.id \notin DOMAIN clients'
            \/ /\ \E f : Moved(e, f) /\ edits' = (edits \ {e}) \cup {f}
               /\ UNCHANGED <<clients, torn>>
               /\ Head(e.steps) \in {"read", "secret"} => specs' = specs
  <1>1. StepKnown(e.kind, e.steps)
    BY LeftIs
  <1>2. CASE Head(e.steps) = "read" /\ e.id \notin DOMAIN specs
    BY <1>1, <1>2 DEF StepEdit
  <1>3. CASE Head(e.steps) = "drop"
    <2>1. edits' = (edits \ {e}) \cup Left(e)
      BY <1>3 DEF StepEdit, Advance, Left
    <2>2. Left(e) = {}
      BY <1>3, LeftIs
    <2>3. clients' = Without(clients, e.id) /\ UNCHANGED <<specs, secrets>>
      BY <1>3 DEF StepEdit
    <2>4. DOMAIN Without(clients, e.id) = DOMAIN clients \ {e.id}
      BY DEF Without
    <2>5. e.id \notin DOMAIN clients'
      BY <2>3, <2>4
    <2> QED  BY <1>1, <1>3, <2>1, <2>2, <2>3, <2>5
  <1>4. CASE Head(e.steps) # "drop" /\ ~(Head(e.steps) = "read" /\ e.id \notin DOMAIN specs)
    <2>1. edits' = (edits \ {e}) \cup Left(e)
      BY <1>4 DEF StepEdit, Advance, Left
    <2>2. PICK f : /\ Left(e) = {f} /\ f = Edit(f.kind, f.id, f.steps, f.spec, f.token)
                   /\ f.kind = e.kind /\ f.id = e.id /\ f.spec = e.spec
                   /\ f.steps = Tail(e.steps)
      BY <1>4, LeftIs
    <2>3. Tail(e.steps) \in StepsOf(e.kind)
          /\ Follows(e.kind, Head(e.steps), Head(Tail(e.steps)))
      BY <1>1, <1>4 DEF StepKnown
    <2>4. Moved(e, f)
      <3>1. f.steps \in StepsOf(e.kind) /\ Follows(e.kind, Head(e.steps), Head(f.steps))
        BY <2>2, <2>3, Zenon
      <3> QED  BY <2>2, <3>1 DEF Moved
    <2>5. /\ UNCHANGED <<clients, torn>>
          /\ Head(e.steps) \in {"read", "secret"} => specs' = specs
      BY <1>4 DEF StepEdit
    <2> QED  BY <1>1, <2>1, <2>2, <2>4, <2>5
  <1> QED  BY <1>2, <1>3, <1>4

LEMMA StepElsewhere ==
  ASSUME Kept, NEW e \in edits, StepEdit(e)
  PROVE  /\ UNCHANGED <<default, builds, edited>>
         /\ OnlyAt(specs, specs', e.id) /\ OnlyAt(secrets, secrets', e.id)
         /\ OnlyAt(clients, clients', e.id)
         /\ torn \ {e.id} \subseteq torn' /\ torn' \subseteq torn
  <1>1. /\ specs' \in {Having(specs, e.id, e.spec), Without(specs, e.id), specs}
        /\ secrets' \in {Having(secrets, e.id, e.token), Without(secrets, e.id), secrets}
        /\ clients' \in {Without(clients, e.id), clients}
        /\ torn' \in {torn \ {e.id}, torn} /\ UNCHANGED <<default, builds, edited>>
    BY DEF StepEdit
  <1>2. OnlyAt(specs, specs', e.id)
    BY <1>1, ElsewhereIs
  <1>3. OnlyAt(secrets, secrets', e.id)
    BY <1>1, ElsewhereIs
  <1>4. OnlyAt(clients, clients', e.id)
    BY <1>1, ElsewhereIs
  <1> QED  BY <1>1, <1>2, <1>3, <1>4

LEMMA StepConnections ==
  ASSUME Kept, NEW e \in edits, StepEdit(e)
  PROVE  Connections' /\ Apart'
  <1> USE DEF Kept
  <1>1. /\ e.kind \in Kinds /\ e.id \in Listed
        /\ e.kind # "remove" => e.spec \in Setting
        /\ StepKnown(e.kind, e.steps)
    BY StepMoves DEF Connections
  <1>2. UNCHANGED <<default, builds>>
    BY StepElsewhere
  <1>3. edits' = edits \ {e} \/ \E f : Moved(e, f) /\ edits' = (edits \ {e}) \cup {f}
    BY StepMoves
  <1>4. Apart'
    BY <1>2, <1>3 DEF Apart, Moved
  <1>5. DOMAIN specs' \subseteq Listed /\ \A id \in DOMAIN specs' : specs'[id] \in Setting
    <2>1. CASE Head(e.steps) = "save"
      <3>1. e.spec \in Setting
        BY <1>1, <2>1 DEF StepKnown, Follows
      <3>2. specs' = Having(specs, e.id, e.spec)
        BY <2>1 DEF StepEdit
      <3>3. /\ DOMAIN Having(specs, e.id, e.spec) = DOMAIN specs \cup {e.id}
            /\ Having(specs, e.id, e.spec)[e.id] = e.spec
            /\ \A y \in DOMAIN specs : y # e.id => Having(specs, e.id, e.spec)[y] = specs[y]
        BY DEF Having
      <3> QED  BY <1>1, <3>1, <3>2, <3>3 DEF Connections
    <2>2. CASE Head(e.steps) # "save"
      <3>1. specs' \in {Without(specs, e.id), specs}
        BY <2>2 DEF StepEdit
      <3>2. /\ DOMAIN Without(specs, e.id) = DOMAIN specs \ {e.id}
            /\ \A y \in DOMAIN specs : y # e.id => Without(specs, e.id)[y] = specs[y]
        BY DEF Without
      <3> QED  BY <3>1, <3>2 DEF Connections
    <2> QED  BY <2>1, <2>2
  <1>6. DOMAIN secrets' \subseteq Listed
    <2>1. /\ DOMAIN Having(secrets, e.id, e.token) = DOMAIN secrets \cup {e.id}
          /\ DOMAIN Without(secrets, e.id) = DOMAIN secrets \ {e.id}
      BY DEF Having, Without
    <2>2. secrets' \in {Having(secrets, e.id, e.token), Without(secrets, e.id), secrets}
      BY DEF StepEdit
    <2>3. DOMAIN secrets' \subseteq DOMAIN secrets \cup {e.id}
      <3>1. CASE secrets' = Having(secrets, e.id, e.token)
        BY <2>1, <3>1, Zenon
      <3>2. CASE secrets' = Without(secrets, e.id)
        BY <2>1, <3>2, Zenon
      <3> QED  BY <2>2, <3>1, <3>2
    <2> QED  BY <1>1, <2>3 DEF Connections
  <1>7. DOMAIN clients' \subseteq Listed /\ \A id \in DOMAIN clients' : clients'[id].rev \in 1 .. MaxRevision
    <2>1. clients' \in {Without(clients, e.id), clients}
      BY DEF StepEdit
    <2>2. /\ DOMAIN Without(clients, e.id) = DOMAIN clients \ {e.id}
          /\ \A y \in DOMAIN clients : y # e.id => Without(clients, e.id)[y] = clients[y]
      BY DEF Without
    <2>3. CASE clients' = clients
      BY <2>3 DEF Connections
    <2>4. CASE clients' = Without(clients, e.id)
      <3>1. /\ DOMAIN clients' = DOMAIN clients \ {e.id}
            /\ \A y \in DOMAIN clients : y # e.id => clients'[y] = clients[y]
        BY <2>2, <2>4, Zenon
      <3> QED  BY <3>1 DEF Connections
    <2> QED  BY <2>1, <2>3, <2>4
  <1>8. \A f \in edits' : /\ f = Edit(f.kind, f.id, f.steps, f.spec, f.token)
                          /\ f.kind \in Kinds /\ f.id \in Listed /\ f.steps \in StepsOf(f.kind)
                          /\ f.kind # "remove" => f.spec \in Setting
    <2>1. \A f \in edits : /\ f = Edit(f.kind, f.id, f.steps, f.spec, f.token)
                           /\ f.kind \in Kinds /\ f.id \in Listed /\ f.steps \in StepsOf(f.kind)
                           /\ f.kind # "remove" => f.spec \in Setting
      BY DEF Connections
    <2>2. ASSUME NEW f, Moved(e, f)
          PROVE  /\ f = Edit(f.kind, f.id, f.steps, f.spec, f.token)
                 /\ f.kind \in Kinds /\ f.id \in Listed /\ f.steps \in StepsOf(f.kind)
                 /\ f.kind # "remove" => f.spec \in Setting
      <3>1. /\ f = Edit(f.kind, f.id, f.steps, f.spec, f.token)
            /\ f.kind = e.kind /\ f.id = e.id /\ f.spec = e.spec /\ f.steps \in StepsOf(e.kind)
        BY <2>2 DEF Moved
      <3>2. f.steps \in StepsOf(f.kind)
        BY <3>1, Zenon
      <3> QED  BY <1>1, <3>1, <3>2, Zenon
    <2>3. ASSUME NEW f \in edits'  PROVE f \in edits \/ Moved(e, f)
      BY <1>3
    <2> QED  BY <2>1, <2>2, <2>3, Zenon
  <1> QED
    <2>1. /\ \A b \in builds' : /\ b = [id |-> b.id, read |-> b.read, spec |-> b.spec]
                                /\ b.id \in Listed /\ b.read \in BOOLEAN
                                /\ b.read => b.spec \in Setting
          /\ default' \in Listed \cup {""}
      BY <1>2 DEF Connections
    <2> QED  BY <1>4, <1>5, <1>6, <1>7, <1>8, <2>1 DEF Connections

LEMMA StepFresh ==
  ASSUME Kept, NEW e \in edits, StepEdit(e)
  PROVE  Synced'
  <1> SUFFICES ASSUME "build" \notin Overlaps  PROVE Synced'
    BY DEF Synced
  <1> USE DEF Kept
  <1>1. UNCHANGED builds /\ torn \ {e.id} \subseteq torn'
    BY StepElsewhere
  <1>2. \A f \in edits : f.id = e.id => f = e
    BY DEF Apart
  <1>3. \A b \in builds : b.id # e.id
    BY DEF Apart
  <1>4. ASSUME NEW j \in DOMAIN clients', j # e.id
        PROVE  j \in DOMAIN clients /\ (AsSaved(j)' <=> AsSaved(j))
    <2>1. /\ j \in DOMAIN clients /\ clients'[j] = clients[j]
          /\ j \in DOMAIN specs' <=> j \in DOMAIN specs
          /\ j \in DOMAIN specs => specs'[j] = specs[j]
          /\ j \in DOMAIN secrets' <=> j \in DOMAIN secrets
          /\ j \in DOMAIN secrets => secrets'[j] = secrets[j]
      BY <1>4, StepElsewhere DEF OnlyAt
    <2> QED  BY <2>1 DEF AsSaved, ResolveSecret
  <1>5. ASSUME NEW j \in DOMAIN clients' \ torn', j # e.id,
               \A f \in edits' : f.id = j => Untouched(f)
        PROVE  AsSaved(j)'
    <2>1. \A f \in edits : f.id = j => f \in edits'
      BY <1>5, StepMoves
    <2>2. j \in DOMAIN clients \ torn
      BY <1>1, <1>4, <1>5
    <2>3. AsSaved(j)
      BY <1>5, <2>1, <2>2 DEF Synced
    <2> QED  BY <1>4, <1>5, <2>3
  <1>6. ASSUME e.id \in DOMAIN clients' \ torn'
        PROVE  \E f \in edits' : /\ f.id = e.id /\ Head(f.steps) # First(f.kind)
                                 /\ Stored(f) => e.id \in DOMAIN specs'
                                 /\ \A g \in edits' : g = f \/ (g \in edits /\ g.id # e.id)
    <2>1. CASE /\ Head(e.steps) = "read" /\ e.id \notin DOMAIN specs /\ edits' = edits \ {e}
               /\ UNCHANGED <<specs, secrets, clients, torn>>
      <3>1. e.kind = "token" \/ Head(e.steps) = First(e.kind)
        BY <2>1, StepMoves DEF StepKnown, Follows
      <3>2. CASE e.kind = "token"
        BY <1>6, <2>1, <3>2 DEF Synced, Stored
      <3>3. CASE Head(e.steps) = First(e.kind)
        <4>1. AsSaved(e.id)
          BY <1>2, <1>6, <2>1, <3>3 DEF Synced, Untouched
        <4> QED  BY <2>1, <4>1 DEF AsSaved
      <3> QED  BY <3>1, <3>2, <3>3
    <2>2. CASE /\ \E f : Moved(e, f) /\ edits' = (edits \ {e}) \cup {f}
               /\ UNCHANGED <<clients, torn>>
               /\ Head(e.steps) \in {"read", "secret"} => specs' = specs
      <3>1. PICK f : Moved(e, f) /\ edits' = (edits \ {e}) \cup {f}
        BY <2>2
      <3>2. f.kind = e.kind /\ f.id = e.id /\ Follows(e.kind, Head(e.steps), Head(f.steps))
        BY <3>1 DEF Moved
      <3>3. Head(f.steps) # First(f.kind)
        BY <3>2 DEF Follows
      <3>4. ASSUME Stored(f)  PROVE e.id \in DOMAIN specs'
        <4>1. e.kind = "token" /\ Head(e.steps) = "secret"
          BY <3>2, <3>4 DEF Stored, Follows
        <4>2. Untouched(e) /\ specs' = specs
          BY <2>2, <4>1 DEF Untouched, First
        <4>3. AsSaved(e.id)
          BY <1>2, <1>6, <2>2, <4>2 DEF Synced
        <4> QED  BY <4>2, <4>3 DEF AsSaved
      <3>5. f \in edits' /\ \A g \in edits' : g = f \/ (g \in edits /\ g.id # e.id)
        BY <1>2, <3>1
      <3> QED  BY <3>2, <3>3, <3>4, <3>5
    <2> QED  BY <1>6, <2>1, <2>2, StepMoves
  <1>7. ASSUME NEW f \in edits', f.id # e.id  PROVE f \in edits
    BY <1>7, StepMoves DEF Moved
  <1>8. ASSUME NEW j \in DOMAIN clients' \ torn', \A f \in edits' : f.id = j => Untouched(f)
        PROVE  AsSaved(j)'
    BY <1>5, <1>6, <1>8 DEF Untouched
  <1>9. ASSUME NEW f \in edits', Stored(f), f.id \in DOMAIN clients' \ torn'
        PROVE  f.id \in DOMAIN specs'
    <2>1. CASE f.id = e.id
      BY <1>6, <1>9, <2>1
    <2>2. CASE f.id # e.id
      <3>1. f \in edits /\ f.id \in DOMAIN clients \ torn
        BY <1>1, <1>4, <1>7, <1>9, <2>2
      <3>2. f.id \in DOMAIN specs
        BY <1>9, <3>1 DEF Synced
      <3> QED  BY <2>2, <3>2, StepElsewhere DEF OnlyAt
    <2> QED  BY <2>1, <2>2
  <1>10. \A b \in builds' : b.read => b.id \in DOMAIN specs' /\ b.spec = specs'[b.id]
    BY <1>1, <1>3, StepElsewhere DEF Synced, OnlyAt
  <1>11. \A f : (Stored(f)' <=> Stored(f)) /\ (Untouched(f)' <=> Untouched(f))
    BY DEF Stored, Untouched
  <1> QED  BY <1>8, <1>9, <1>10, <1>11 DEF Synced

LEMMA ChangesStart ==
  ASSUME Kept, MaxRevision \in Nat \ {0}, NEW id \in Listed, NEW source \in {"stored", "env"},
         NEW token,
         \/ AddConnection(id, source, token) \/ UpdateConnection(id, source)
         \/ SetToken(id, token) \/ UseEnvToken(id) \/ RemoveConnection(id)
  PROVE  Kept'
  <1>1. /\ <<"save", "drop">> \in StepsOf("add") /\ <<"save", "secret", "drop">> \in StepsOf("add")
        /\ <<"read", "save", "drop">> \in StepsOf("update")
        /\ <<"read", "save", "drop">> \in StepsOf("env")
        /\ <<"secret", "read", "save", "drop">> \in StepsOf("token")
        /\ <<"delete", "forget", "drop">> \in StepsOf("remove")
    BY DEF StepsOf
  <1>2. {"add", "update", "token", "env", "remove"} \subseteq Kinds
    BY DEF Kinds
  <1>3. /\ Head(<<"save", "drop">>) = First("add") /\ Head(<<"save", "secret", "drop">>) = First("add")
        /\ Head(<<"read", "save", "drop">>) = First("update")
        /\ Head(<<"read", "save", "drop">>) = First("env")
        /\ Head(<<"secret", "read", "save", "drop">>) = First("token")
        /\ Head(<<"delete", "forget", "drop">>) = First("remove")
    BY HeadsAndTails DEF First
  <1>4. id \in DOMAIN specs => specs[id].rev \in 1 .. MaxRevision
    BY DEF Kept, Connections, Setting
  <1>5. ASSUME NEW next, next = [rev |-> NextRev(id), source |-> source],
               NextRev(id) <= MaxRevision
        PROVE  next \in Setting
    <2>1. NextRev(id) \in 1 .. MaxRevision
      BY <1>4, <1>5 DEF NextRev
    <2> QED  BY <1>5, <2>1 DEF Setting
  <1>6. ASSUME NEW same, NEW src \in {"stored", "env"},
               same = [rev |-> IF id \in DOMAIN specs THEN specs[id].rev ELSE 1, source |-> src]
        PROVE  same \in Setting
    <2>1. (IF id \in DOMAIN specs THEN specs[id].rev ELSE 1) \in 1 .. MaxRevision
      BY <1>4
    <2> QED  BY <1>6, <2>1 DEF Setting
  <1>7. CASE AddConnection(id, source, token)
    <2>1. PICK next : next = [rev |-> NextRev(id), source |-> source]
      OBVIOUS
    <2>2. PICK steps : steps = IF token = "" THEN <<"save", "drop">> ELSE <<"save", "secret", "drop">>
      OBVIOUS
    <2>3. NextRev(id) <= MaxRevision /\ Start(Edit("add", id, steps, next, token))
      BY <1>7, <2>1, <2>2 DEF AddConnection
    <2>4. steps \in StepsOf("add") /\ Head(steps) = First("add")
      BY <1>1, <1>3, <2>2, Zenon
    <2> QED  BY <1>2, <1>5, <2>1, <2>3, <2>4, StartKept
  <1>8. CASE UpdateConnection(id, source)
    <2>1. PICK next : next = [rev |-> NextRev(id), source |-> source]
      OBVIOUS
    <2>2. PICK steps : steps = <<"read", "save", "drop">>
      OBVIOUS
    <2>3. NextRev(id) <= MaxRevision /\ Start(Edit("update", id, steps, next, ""))
      BY <1>8, <2>1, <2>2 DEF UpdateConnection
    <2>4. steps \in StepsOf("update") /\ Head(steps) = First("update")
      BY <1>1, <1>3, <2>2, Zenon
    <2> QED  BY <1>2, <1>5, <2>1, <2>3, <2>4, StartKept
  <1>9. CASE SetToken(id, token)
    <2>1. PICK same : same = [rev |-> IF id \in DOMAIN specs THEN specs[id].rev ELSE 1,
                              source |-> "stored"]
      OBVIOUS
    <2>2. PICK steps : steps = <<"secret", "read", "save", "drop">>
      OBVIOUS
    <2>3. Start(Edit("token", id, steps, same, token))
      BY <1>9, <2>1, <2>2 DEF SetToken
    <2>4. steps \in StepsOf("token") /\ Head(steps) = First("token")
      BY <1>1, <1>3, <2>2, Zenon
    <2>5. same \in Setting
      BY <1>6, <2>1
    <2> QED  BY <1>2, <2>3, <2>4, <2>5, StartKept
  <1>10. CASE UseEnvToken(id)
    <2>1. PICK same : same = [rev |-> IF id \in DOMAIN specs THEN specs[id].rev ELSE 1,
                              source |-> "env"]
      OBVIOUS
    <2>2. PICK steps : steps = <<"read", "save", "drop">>
      OBVIOUS
    <2>3. Start(Edit("env", id, steps, same, ""))
      BY <1>10, <2>1, <2>2 DEF UseEnvToken
    <2>4. steps \in StepsOf("env") /\ Head(steps) = First("env")
      BY <1>1, <1>3, <2>2, Zenon
    <2>5. same \in Setting
      BY <1>6, <2>1
    <2> QED  BY <1>2, <2>3, <2>4, <2>5, StartKept
  <1>11. CASE RemoveConnection(id)
    <2>1. PICK none : none = [rev |-> 0, source |-> ""]
      OBVIOUS
    <2>2. PICK steps : steps = <<"delete", "forget", "drop">>
      OBVIOUS
    <2>3. Start(Edit("remove", id, steps, none, ""))
      BY <1>11, <2>1, <2>2 DEF RemoveConnection
    <2>4. steps \in StepsOf("remove") /\ Head(steps) = First("remove")
      BY <1>1, <1>3, <2>2, Zenon
    <2> QED  BY <1>2, <2>3, <2>4, StartKept
  <1> QED  BY <1>7, <1>8, <1>9, <1>10, <1>11

(***************************************************************************)
(* What the registries hold.                                               *)
(***************************************************************************)

LEMMA UploadShelved ==
  ASSUME Shelved, NEW u \in uploads, Upload(u)
  PROVE  Shelved'
  <1> DEFINE old == At(u.id, u.pkg.name, u.pkg.version)
             Entries == [pkg : Packages, tarball : BOOLEAN, manifest : BOOLEAN]
  <1>1. u.id \in Listed /\ u.pkg \in Packages /\ shelf[u.id] \subseteq Entries
    BY DEF Shelved
  <1>2. old \subseteq shelf[u.id]
    BY DEF At
  <1>3. PICK base : base = IF old = {} THEN [pkg |-> u.pkg, tarball |-> FALSE, manifest |-> FALSE]
                           ELSE CHOOSE s \in old : TRUE
    OBVIOUS
  <1>4. base \in Entries
    <2>1. CASE old = {}
      BY <1>1, <1>3, <2>1
    <2>2. CASE old # {}
      <3>1. (CHOOSE s \in old : TRUE) \in old
        BY <2>2
      <3>2. base \in old
        BY <1>3, <2>2, <3>1, Zenon
      <3> QED  BY <1>1, <1>2, <3>2
    <2> QED  BY <2>1, <2>2
  <1>5. PICK entry : entry = IF Head(u.steps) = "tarball"
                             THEN [base EXCEPT !.pkg = u.pkg, !.tarball = TRUE]
                             ELSE [base EXCEPT !.manifest = TRUE]
    OBVIOUS
  <1>6. entry \in Entries
    <2>1. [base EXCEPT !.pkg = u.pkg, !.tarball = TRUE] \in Entries
      BY <1>1, <1>4
    <2>2. [base EXCEPT !.manifest = TRUE] \in Entries
      BY <1>4
    <2> QED  BY <1>5, <2>1, <2>2, Zenon
  <1>7. shelf' = [shelf EXCEPT ![u.id] = (@ \ old) \cup {entry}]
    BY <1>3, <1>5 DEF Upload
  <1>8. shelf' \in [Listed -> SUBSET Entries]
    BY <1>1, <1>6, <1>7 DEF Shelved
  <1>9. \A w \in uploads' : w.id \in Listed /\ w.pkg \in Packages
    <2>1. PICK v : v = [u EXCEPT !.steps = Tail(u.steps)]
      OBVIOUS
    <2>2. uploads' \subseteq uploads \cup {v}
      BY <2>1 DEF Upload
    <2>3. v.id = u.id /\ v.pkg = u.pkg
      BY <1>1, <2>1 DEF Shelved
    <2> QED  BY <1>1, <2>2, <2>3 DEF Shelved
  <1> QED  BY <1>8, <1>9 DEF Shelved

LEMMA ShelfShelved ==
  ASSUME Shelved, NEW pkg \in Packages,
         \/ \E id \in Listed : PublishHttp(id, pkg) \/ PublishLocal(id, pkg)
                            \/ DeleteVersion(id, pkg.name, pkg.version)
         \/ RegisterLocal(pkg)
  PROVE  Shelved'
  <1>1. ASSUME NEW id \in Listed, PublishHttp(id, pkg)
        PROVE  Shelved'
    <2>1. PICK entry : entry = [pkg |-> pkg, tarball |-> TRUE, manifest |-> TRUE]
      OBVIOUS
    <2>2. shelf' = [shelf EXCEPT ![id] = @ \cup {entry}] /\ UNCHANGED uploads
      BY <1>1, <2>1 DEF PublishHttp
    <2>3. entry \in [pkg : Packages, tarball : BOOLEAN, manifest : BOOLEAN]
      BY <2>1
    <2> QED  BY <2>2, <2>3 DEF Shelved
  <1>2. ASSUME NEW id \in Listed, PublishLocal(id, pkg)
        PROVE  Shelved'
    <2>1. PICK u : u = [id |-> id, pkg |-> pkg, steps |-> <<"tarball", "manifest">>]
      OBVIOUS
    <2>2. uploads' = uploads \cup {u} /\ UNCHANGED shelf
      BY <1>2, <2>1 DEF PublishLocal
    <2>3. u.id = id /\ u.pkg = pkg
      BY <2>1
    <2> QED  BY <2>2, <2>3 DEF Shelved
  <1>3. ASSUME NEW id \in Listed, DeleteVersion(id, pkg.name, pkg.version)
        PROVE  Shelved'
    <2>1. /\ shelf' = [shelf EXCEPT ![id] = @ \ At(id, pkg.name, pkg.version)]
          /\ UNCHANGED uploads
      BY <1>3 DEF DeleteVersion
    <2> QED  BY <2>1 DEF Shelved
  <1>4. CASE RegisterLocal(pkg)
    BY <1>4 DEF RegisterLocal, Shelved
  <1> QED  BY <1>1, <1>2, <1>3, <1>4

(***************************************************************************)
(* The specification.                                                      *)
(***************************************************************************)

LEMMA RegistriesStep ==
  ASSUME MaxRevision \in Nat \ {0}, Kept, Shelved,
         [RegistriesNext]_<<connectionVars, shelfVars>>
  PROVE  Kept' /\ Shelved'
  <1>1. UNCHANGED shelfVars => Shelved'
    BY DEF shelfVars, Shelved
  <1>2. UNCHANGED connectionVars => Kept'
    BY StutterKept
  <1>3. ASSUME NEW id \in Listed, NEW source \in {"stored", "env"}, NEW token,
               \/ AddConnection(id, source, token) \/ UpdateConnection(id, source)
               \/ SetToken(id, token) \/ UseEnvToken(id) \/ RemoveConnection(id)
        PROVE  Kept' /\ Shelved'
    <2>1. Kept'
      BY <1>3, ChangesStart
    <2>2. UNCHANGED shelfVars
      BY <1>3 DEF AddConnection, UpdateConnection, SetToken, UseEnvToken, RemoveConnection, Start
    <2> QED  BY <1>1, <2>1, <2>2
  <1>4. ASSUME NEW id \in Listed, SetDefault(id)  PROVE Kept' /\ Shelved'
    <2>1. UNCHANGED shelfVars
      BY <1>4 DEF SetDefault
    <2> QED  BY <1>1, <1>4, <2>1, SetDefaultKept
  <1>5. ASSUME NEW id \in Listed \cup {default}, RegistryFor(id)  PROVE Kept' /\ Shelved'
    <2>1. UNCHANGED shelfVars
      BY <1>5 DEF RegistryFor
    <2> QED  BY <1>1, <1>5, <2>1, RegistryForKept
  <1>6. ASSUME NEW e \in edits, StepEdit(e)  PROVE Kept' /\ Shelved'
    <2>1. UNCHANGED shelfVars
      BY <1>6 DEF StepEdit
    <2>2. Kept'
      BY <1>6, StepConnections, StepFresh DEF Kept
    <2> QED  BY <1>1, <2>1, <2>2
  <1>7. ASSUME NEW e \in edits, EditFails(e)  PROVE Kept' /\ Shelved'
    <2>1. UNCHANGED shelfVars
      BY <1>7 DEF EditFails
    <2> QED  BY <1>1, <1>7, <2>1, EditFailsKept
  <1>8. ASSUME NEW b \in builds, ReadSpec(b)  PROVE Kept' /\ Shelved'
    <2>1. UNCHANGED shelfVars
      BY <1>8 DEF ReadSpec
    <2> QED  BY <1>1, <1>8, <2>1, ReadSpecKept
  <1>9. ASSUME NEW b \in builds, CacheClient(b)  PROVE Kept' /\ Shelved'
    <2>1. UNCHANGED shelfVars
      BY <1>9 DEF CacheClient
    <2> QED  BY <1>1, <1>9, <2>1, CacheClientKept
  <1>10. ASSUME NEW pkg \in Packages,
                \/ \E id \in Listed : PublishHttp(id, pkg) \/ PublishLocal(id, pkg)
                                   \/ DeleteVersion(id, pkg.name, pkg.version)
                \/ RegisterLocal(pkg)
         PROVE  Kept' /\ Shelved'
    <2>1. UNCHANGED connectionVars
      BY <1>10 DEF PublishHttp, PublishLocal, DeleteVersion, RegisterLocal
    <2> QED  BY <1>2, <1>10, <2>1, ShelfShelved
  <1>11. ASSUME NEW u \in uploads, Upload(u) \/ UploadStops(u)  PROVE Kept' /\ Shelved'
    <2>1. UNCHANGED connectionVars
      BY <1>11 DEF Upload, UploadStops
    <2>2. Shelved'
      <3>1. CASE Upload(u)
        BY <3>1, UploadShelved
      <3>2. CASE UploadStops(u)
        BY <3>2 DEF UploadStops, Shelved
      <3> QED  BY <1>11, <3>1, <3>2
    <2> QED  BY <1>2, <2>1, <2>2
  <1>12. ASSUME UNCHANGED <<connectionVars, shelfVars>>  PROVE Kept' /\ Shelved'
    BY <1>1, <1>2, <1>12
  <1>13. ASSUME NEW id \in Listed,
                \/ \E source \in {"stored", "env"} :
                      \/ \E token \in Tokens \cup {""} : AddConnection(id, source, token)
                      \/ UpdateConnection(id, source)
                \/ \E token \in Tokens : SetToken(id, token)
                \/ UseEnvToken(id) \/ RemoveConnection(id) \/ SetDefault(id)
         PROVE  Kept' /\ Shelved'
    BY <1>3, <1>4, <1>13
  <1> QED
    BY <1>5, <1>6, <1>7, <1>8, <1>9, <1>10, <1>11, <1>12, <1>13 DEF RegistriesNext

LEMMA KeptAlways ==
  ASSUME RegistriesAssumption
  PROVE  RegistriesSpec => [](Kept /\ Shelved)
  <1> MaxRevision \in Nat \ {0}
    BY DEF RegistriesAssumption
  <1>1. RegistriesInit => Kept /\ Shelved
    BY KeptStarts
  <1>2. Kept /\ Shelved /\ [RegistriesNext]_<<connectionVars, shelfVars>> => (Kept /\ Shelved)'
    BY RegistriesStep
  <1> QED  BY <1>1, <1>2, PTL DEF RegistriesSpec

(* Every variable of the registries keeps its shape: connections, secrets and  *)
(* clients are of known ids, a client's revision is one a connection had, and  *)
(* every version a registry holds is of a package that was published.        *)
THEOREM RegistriesTyped ==
  ASSUME RegistriesAssumption
  PROVE  RegistriesSpec => []RegistriesTypeOK
  <1>1. Kept /\ Shelved => RegistriesTypeOK
    <2> SUFFICES ASSUME Kept, Shelved  PROVE RegistriesTypeOK
      OBVIOUS
    <2>1. \A id \in Listed : \A s \in shelf[id] : s.pkg \in Packages
      <3> SUFFICES ASSUME NEW id \in Listed, NEW s \in shelf[id]  PROVE s.pkg \in Packages
        OBVIOUS
      <3>1. s \in [pkg : Packages, tarball : BOOLEAN, manifest : BOOLEAN]
        BY DEF Shelved
      <3> QED  BY <3>1
    <2> QED  BY <2>1 DEF Kept, Connections, RegistriesTypeOK
  <1> QED  BY <1>1, KeptAlways, PTL

(* Unless a client is built while its connection changes, a client the service *)
(* has cached was built from the connection's settings and token as they are,  *)
(* wherever changes of any number of connections stop, fail or interleave.   *)
THEOREM ClientsAreCurrent ==
  ASSUME RegistriesAssumption, "build" \notin Overlaps
  PROVE  RegistriesSpec => []CacheCurrent
  <1>1. Kept => CacheCurrent
    BY DEF Kept, Synced, AsSaved, CacheCurrent
  <1> QED  BY <1>1, KeptAlways, PTL

-----------------------------------------------------------------------------
(* Numbers, loops and sequences.                                            *)

LEMMA LeastNatural == ASSUME NEW S \in SUBSET Nat, S # {} PROVE \E x \in S : \A y \in S : x <= y
<1> DEFINE W == {0..n : n \in S}
<1>1. W # {} /\ W \subseteq FiniteSubsetsOf(Nat)
  <2>1. PICK n \in S : TRUE OBVIOUS
  <2>2. 0..n \in W BY <2>1
  <2>3. ASSUME NEW w \in W PROVE w \in FiniteSubsetsOf(Nat)
    <3>1. PICK i \in S : w = 0..i OBVIOUS
    <3>2. IsFiniteSet(0..i) BY FS_Interval
    <3>3. 0..i \in SUBSET Nat OBVIOUS
    <3> QED BY <3>1, <3>2, <3>3 DEF FiniteSubsetsOf
  <2> QED BY <2>2, <2>3
<1>2. PICK X \in W : \A Y \in W : <<Y, X>> \notin StrictSubsetOrdering(Nat)
  <2> HIDE DEF W
  <2> QED BY <1>1, FS_StrictSubsetOrderingWellFounded, WFMin
<1>3. PICK x \in S : X = 0..x OBVIOUS
<1>4. ASSUME NEW y \in S PROVE x <= y
  <2>1. <<0..y, 0..x>> \notin StrictSubsetOrdering(Nat) BY <1>2, <1>3
  <2>2. SUFFICES ASSUME y < x PROVE FALSE OBVIOUS
  <2>3. 0..y \subseteq 0..x /\ x \in 0..x /\ x \notin 0..y /\ 0..x \subseteq Nat BY <2>2
  <2> QED BY <2>1, <2>3 DEF StrictSubsetOrdering
<1> QED BY <1>4

(* What holds of 0 and goes from a round to the next holds of every round.  *)
LEMMA EachRound ==
    ASSUME NEW n \in Nat, NEW P, 0 \in P, \A k \in 1..n : k - 1 \in P => k \in P
    PROVE  \A k \in 0..n : k \in P
<1> DEFINE B == {k \in 0..n : k \notin P}
<1>1. SUFFICES ASSUME B # {} PROVE FALSE OBVIOUS
<1>2. B \in SUBSET Nat OBVIOUS
<1>3. PICK b \in B : \A y \in B : b <= y BY <1>1, <1>2, LeastNatural
<1>4. b # 0 /\ b \in 1..n BY <1>3
<1>5. b - 1 \notin B /\ b - 1 \in 0..n BY <1>3, <1>4
<1> QED BY <1>3, <1>4, <1>5

After(step, start, n, after) ==
    after = [k \in 0..n |-> IF k = 0 THEN start ELSE step[k][after[k - 1]]]

LEMMA RoundsExist ==
    ASSUME NEW step, NEW start, NEW n \in Nat PROVE \E after : After(step, start, n, after)
<1> DEFINE P == {k \in Nat : \E after : After(step, start, k, after)}
<1>1. 0 \in P
  <2> DEFINE a == [k \in 0..0 |-> start]
  <2>1. After(step, start, 0, a) BY DEF After
  <2> QED BY <2>1
<1>2. ASSUME NEW k \in 1..n, k - 1 \in P PROVE k \in P
  <2>1. PICK a : After(step, start, k - 1, a) BY <1>2
  <2> DEFINE b == [j \in 0..k |-> IF j = k THEN step[k][a[k - 1]] ELSE a[j]]
  <2>2. ASSUME NEW j \in 0..k PROVE b[j] = IF j = 0 THEN start ELSE step[j][b[j - 1]]
    <3>1. CASE j = k
      <4>1. b[j] = step[k][a[k - 1]] BY <3>1
      <4>2. k - 1 \in 0..k /\ k - 1 # k /\ k # 0 OBVIOUS
      <4>3. b[k - 1] = a[k - 1] BY <4>2
      <4> QED BY <3>1, <4>1, <4>2, <4>3
    <3>2. CASE j # k
      <4>1. j \in 0..(k - 1) BY <3>2
      <4>2. a[j] = IF j = 0 THEN start ELSE step[j][a[j - 1]] BY <2>1, <4>1 DEF After
      <4>3. b[j] = a[j] BY <3>2
      <4>4. ASSUME j # 0 PROVE b[j - 1] = a[j - 1]
        <5>1. j - 1 \in 0..k /\ j - 1 # k BY <4>1, <4>4
        <5> QED BY <5>1
      <4> QED BY <4>2, <4>3, <4>4
    <3> QED BY <3>1, <3>2
  <2>3. After(step, start, k, b)
    <3>1. b = [j \in 0..k |-> b[j]] OBVIOUS
    <3> HIDE DEF b
    <3> QED BY <2>2, <3>1 DEF After
  <2> HIDE DEF b
  <2> QED BY <2>3
<1>3. n \in 0..n OBVIOUS
<1> HIDE DEF P
<1>4. n \in P BY <1>1, <1>2, <1>3, EachRound
<1> QED BY <1>4 DEF P

(* The rounds of a loop, and what they make.                                *)
LEMMA LoopIs ==
    ASSUME NEW step, NEW start, NEW n \in Nat
    PROVE  \E after : /\ after[0] = start /\ \A k \in 1..n : after[k] = step[k][after[k - 1]]
                      /\ Loop(step, start, n) = after[n]
<1> DEFINE a == CHOOSE after : After(step, start, n, after)
<1>1. After(step, start, n, a) BY RoundsExist
<1>2. Loop(step, start, n) = a[n] BY DEF Loop, After
<1> HIDE DEF a
<1>3. a[0] = start
  <2>1. 0 \in 0..n OBVIOUS
  <2> QED BY <1>1, <2>1 DEF After
<1>4. ASSUME NEW k \in 1..n PROVE a[k] = step[k][a[k - 1]]
  <2>1. k \in 0..n /\ k # 0 OBVIOUS
  <2> QED BY <1>1, <2>1 DEF After
<1> QED BY <1>2, <1>3, <1>4

LEMMA AppendIs ==
    ASSUME NEW S, NEW s \in Seq(S), NEW x \in S
    PROVE  LET t == Append(s, x)
           IN  /\ t \in Seq(S) /\ Len(t) = Len(s) + 1 /\ DOMAIN t = 1..(Len(s) + 1)
               /\ t[Len(s) + 1] = x /\ (\A i \in 1..Len(s) : t[i] = s[i])
               /\ ToSet(t) = ToSet(s) \cup {x}
<1> DEFINE t == Append(s, x)
<1>1. /\ t \in Seq(S) /\ Len(t) = Len(s) + 1 /\ DOMAIN t = 1..(Len(s) + 1)
      /\ t[Len(s) + 1] = x /\ (\A i \in 1..Len(s) : t[i] = s[i])
  OBVIOUS
<1>2. DOMAIN s = 1..Len(s) /\ Len(s) \in Nat OBVIOUS
<1> HIDE DEF t
<1>3. ASSUME NEW y \in ToSet(t) PROVE y \in ToSet(s) \cup {x}
  <2>1. PICK i \in 1..(Len(s) + 1) : y = t[i] BY <1>1 DEF ToSet
  <2> QED BY <1>1, <1>2, <2>1 DEF ToSet
<1>4. ASSUME NEW y \in ToSet(s) \cup {x} PROVE y \in ToSet(t)
  <2>1. CASE y = x
    <3>1. Len(s) + 1 \in DOMAIN t BY <1>1, <1>2
    <3> QED BY <1>1, <2>1, <3>1 DEF ToSet
  <2>2. CASE y \in ToSet(s)
    <3>1. PICK i \in 1..Len(s) : y = s[i] BY <1>2, <2>2 DEF ToSet
    <3>2. i \in DOMAIN t BY <1>1, <1>2
    <3> QED BY <1>1, <3>1, <3>2 DEF ToSet
  <2> QED BY <1>4, <2>1, <2>2
<1>5. ToSet(t) = ToSet(s) \cup {x} BY <1>3, <1>4
<1> QED BY <1>1, <1>5 DEF t

-----------------------------------------------------------------------------
(* The request, and what depends on what.                                   *)

Requested == BuildAssumption /\ solution \in Solutions

LEMMA RequestIs ==
    ASSUME Requested
    PROVE  /\ Projects \in Seq(Ids) /\ IsFiniteSet(Ids) /\ None \notin Ids
           /\ \A p \in Ids : /\ Deps(p) \subseteq Ids /\ Len(Edges(p)) \in Nat
                             /\ DOMAIN Edges(p) = 1..Len(Edges(p))
                             /\ \A q \in Deps(p) : \E k \in DOMAIN Edges(p) : Edges(p)[k] = q
<1>1. Projects \in Seq(Ids) /\ None \notin Ids
  BY DEF Requested, BuildAssumption, Projects, Ids
<1>2. DOMAIN Projects = 1..Len(Projects) /\ Len(Projects) \in Nat BY <1>1
<1>3. IsFiniteSet(Ids)
  <2> DEFINE D == 1..Len(Projects)
             f == [i \in D |-> Projects[i]]
  <2>1. IsFiniteSet(D) BY <1>2, FS_Interval
  <2>2. Ids = {f[i] : i \in D} BY <1>2 DEF Ids, ToSet
  <2>3. f \in Surjection(D, Ids) BY <1>1, <1>2, <2>2 DEF Surjection
  <2> HIDE DEF D, f
  <2> QED BY <2>1, <2>3, FS_Surjection
<1>4. ASSUME NEW p \in Ids
      PROVE  /\ Deps(p) \subseteq Ids /\ Len(Edges(p)) \in Nat
             /\ DOMAIN Edges(p) = 1..Len(Edges(p))
             /\ \A q \in Deps(p) : \E k \in DOMAIN Edges(p) : Edges(p)[k] = q
  <2> DEFINE s == solution.binds[p]
             b == [k \in DOMAIN s |-> s[k][1]]
             T == {s[k][1] : k \in DOMAIN s} \cup Ids
  <2>1. Deps(p) \subseteq Ids BY DEF Deps
  <2>2. s \in Seq(ToSet(s)) BY DEF Requested, BuildAssumption, Ids, Projects
  <2>3. Len(s) \in Nat /\ DOMAIN s = 1..Len(s) BY <2>2
  <2>4. b \in Seq(T) /\ Len(b) = Len(s) BY <2>3
  <2>5. Projects \in Seq(T)
    <3>1. Ids \subseteq T OBVIOUS
    <3> HIDE DEF T
    <3> QED BY <1>1, <3>1
  <2>6. Edges(p) = b \o Projects BY DEF Edges
  <2> HIDE DEF b, T
  <2>7. /\ Edges(p) \in Seq(T) /\ Len(Edges(p)) = Len(b) + Len(Projects)
        /\ \A i \in 1..Len(Projects) : Edges(p)[Len(b) + i] = Projects[i]
    <3>1. /\ Edges(p) \in Seq(T) /\ Len(Edges(p)) = Len(b) + Len(Projects)
          /\ \A i \in 1..(Len(b) + Len(Projects)) :
                Edges(p)[i] = IF i <= Len(b) THEN b[i] ELSE Projects[i - Len(b)]
      <4> DEFINE q == Projects
      <4>1. q \in Seq(T) BY <2>5
      <4> HIDE DEF q
      <4>2. /\ b \o q \in Seq(T) /\ Len(b \o q) = Len(b) + Len(q)
            /\ \A i \in 1..(Len(b) + Len(q)) :
                  (b \o q)[i] = IF i <= Len(b) THEN b[i] ELSE q[i - Len(b)]
        BY <2>4, <4>1, ConcatProperties
      <4> QED BY <2>6, <4>2 DEF q
    <3>2. ASSUME NEW i \in 1..Len(Projects) PROVE Edges(p)[Len(b) + i] = Projects[i]
      <4>1. /\ Len(b) + i \in 1..(Len(b) + Len(Projects)) /\ ~(Len(b) + i <= Len(b))
            /\ (Len(b) + i) - Len(b) = i
        BY <1>2, <2>3, <2>4
      <4> QED BY <3>1, <4>1
    <3> QED BY <3>1, <3>2
  <2>8. ASSUME NEW q \in Deps(p) PROVE \E k \in DOMAIN Edges(p) : Edges(p)[k] = q
    <3>1. PICK i \in 1..Len(Projects) : Projects[i] = q BY <1>2, <2>1 DEF Ids, ToSet
    <3>2. Len(b) + i \in DOMAIN Edges(p) BY <1>2, <2>3, <2>4, <2>7
    <3> QED BY <2>7, <3>1, <3>2
  <2> QED BY <2>1, <2>7, <2>8
<1> QED BY <1>1, <1>3, <1>4

(* The closure is the least set of projects that holds S and what its        *)
(* members depend on.                                                       *)
ClosedUnder(C) == \A q \in C : Deps(q) \subseteq C
LEMMA ClosureIs ==
    ASSUME NEW S \in SUBSET Ids
    PROVE  /\ Closure(S) \subseteq Ids /\ S \subseteq Closure(S) /\ ClosedUnder(Closure(S))
           /\ \A C \in SUBSET Ids : S \subseteq C /\ ClosedUnder(C) => Closure(S) \subseteq C
<1>1. Closure(S) \subseteq Ids /\ S \subseteq Closure(S) BY DEF Closure
<1>2. \A C \in SUBSET Ids : S \subseteq C /\ ClosedUnder(C) => Closure(S) \subseteq C
  BY DEF Closure, ClosedUnder
<1>3. ASSUME NEW q \in Closure(S), NEW r \in Deps(q) PROVE r \in Closure(S)
  <2>1. r \in Ids BY DEF Deps
  <2>2. ASSUME NEW C \in SUBSET Ids, S \subseteq C, ClosedUnder(C) PROVE r \in C
    BY <1>2, <2>2 DEF ClosedUnder
  <2> QED BY <2>1, <2>2 DEF Closure, ClosedUnder
<1> QED BY <1>1, <1>2, <1>3 DEF ClosedUnder

Circular == \E p \in Ids : p \in Closure(Deps(p))

-----------------------------------------------------------------------------
(* The walk exists: a visit looks only below a longer stack.                 *)

Visited(visit, stack) ==
    [walk \in Walks |-> [p \in Ids |->
        IF walk.cycle \/ p \in ToSet(walk.order) THEN walk
        ELSE IF p \in stack THEN [walk EXCEPT !.cycle = TRUE]
        ELSE LET deep == Below(visit[stack \cup {p}], walk, p)
             IN IF deep.cycle THEN deep ELSE [deep EXCEPT !.order = Append(@, p)]]]

LEMMA VisitedSame ==
    ASSUME NEW f, NEW g, NEW stack, \A p \in Ids \ stack : f[stack \cup {p}] = g[stack \cup {p}]
    PROVE  Visited(f, stack) = Visited(g, stack)
<1>1. ASSUME NEW walk \in Walks, NEW p \in Ids
      PROVE  Visited(f, stack)[walk][p] = Visited(g, stack)[walk][p]
  <2>1. p \notin stack => Below(f[stack \cup {p}], walk, p) = Below(g[stack \cup {p}], walk, p) OBVIOUS
  <2>2. CASE p \in stack BY <2>2 DEF Visited
  <2>3. CASE p \notin stack BY <2>1, <2>3 DEF Visited
  <2> QED BY <2>2, <2>3
<1>2. \A v : Visited(v, stack) = [walk \in Walks |-> [p \in Ids |-> Visited(v, stack)[walk][p]]]
  BY DEF Visited
<1> QED BY <1>1, <1>2

(* How far a stack can still grow.                                          *)
Room(stack) == Cardinality(Ids \ stack)

LEMMA RoomIs ==
    ASSUME Requested
    PROVE  /\ \A stack \in SUBSET Ids : Room(stack) \in 0..Cardinality(Ids)
           /\ \A stack \in SUBSET Ids : \A p \in Ids \ stack : Room(stack \cup {p}) < Room(stack)
<1>1. IsFiniteSet(Ids) BY RequestIs
<1>2. ASSUME NEW stack \in SUBSET Ids PROVE Room(stack) \in 0..Cardinality(Ids) /\ IsFiniteSet(Ids \ stack)
  <2>1. Ids \ stack \subseteq Ids OBVIOUS
  <2>2. IsFiniteSet(Ids \ stack) /\ Cardinality(Ids \ stack) <= Cardinality(Ids) BY <1>1, <2>1, FS_Subset
  <2> QED BY <1>1, <2>2, FS_CardinalityType DEF Room
<1>3. ASSUME NEW stack \in SUBSET Ids, NEW p \in Ids \ stack
      PROVE  Room(stack \cup {p}) < Room(stack)
  <2>1. IsFiniteSet(Ids \ stack) BY <1>2
  <2>2. Ids \ (stack \cup {p}) = (Ids \ stack) \ {p} OBVIOUS
  <2>3. Cardinality((Ids \ stack) \ {p}) = Cardinality(Ids \ stack) - 1 BY <2>1, FS_RemoveElement
  <2>4. Cardinality(Ids \ stack) \in Nat BY <2>1, FS_CardinalityType
  <2> QED BY <2>2, <2>3, <2>4 DEF Room
<1> QED BY <1>2, <1>3

\* a walk that is right for the stacks with room below n
Walked(visit, n) == \A stack \in SUBSET Ids : Room(stack) < n => visit[stack] = Visited(visit, stack)

LEMMA VisitIs == ASSUME Requested PROVE \A stack \in SUBSET Ids : Visit[stack] = Visited(Visit, stack)
<1> DEFINE N == Cardinality(Ids) + 1
           P == {n \in Nat : \E visit : Walked(visit, n)}
<1>0. N \in Nat /\ Cardinality(Ids) \in Nat BY RequestIs, FS_CardinalityType
<1>1. 0 \in P
  <2>1. \A stack \in SUBSET Ids : ~(Room(stack) < 0) BY <1>0, RoomIs
  <2>2. Walked([s \in {} |-> {}], 0) BY <2>1 DEF Walked
  <2> QED BY <2>2
<1>2. ASSUME NEW n \in 1..N, n - 1 \in P PROVE n \in P
  <2>1. PICK f : Walked(f, n - 1) BY <1>2
  <2> DEFINE g == [stack \in SUBSET Ids |-> IF Room(stack) < n - 1 THEN f[stack] ELSE Visited(f, stack)]
  <2>2. ASSUME NEW stack \in SUBSET Ids, Room(stack) < n PROVE g[stack] = Visited(g, stack)
    <3>1. \A p \in Ids \ stack : f[stack \cup {p}] = g[stack \cup {p}]
      <4> TAKE p \in Ids \ stack
      <4>1. Room(stack \cup {p}) < Room(stack) /\ Room(stack \cup {p}) \in Nat /\ Room(stack) \in Nat
        BY <1>0, RoomIs
      <4>2. Room(stack \cup {p}) < n - 1 BY <1>0, <2>2, <4>1
      <4> QED BY <4>2
    <3>2. Visited(f, stack) = Visited(g, stack)
      <4> HIDE DEF g
      <4> QED BY <3>1, VisitedSame
    <3>3. g[stack] = Visited(f, stack)
      <4>1. CASE Room(stack) < n - 1 BY <2>1, <4>1 DEF Walked
      <4>2. CASE ~(Room(stack) < n - 1) BY <4>2
      <4> QED BY <4>1, <4>2
    <3> QED BY <3>2, <3>3
  <2> HIDE DEF g
  <2>3. Walked(g, n) BY <2>2 DEF Walked
  <2> QED BY <2>3
<1>3. PICK f : Walked(f, N)
  <2>1. N \in 0..N BY <1>0
  <2> HIDE DEF P, N
  <2>2. N \in P BY <1>0, <1>1, <1>2, <2>1, EachRound
  <2> QED BY <2>2 DEF P
<1> DEFINE g == [stack \in SUBSET Ids |-> f[stack]]
<1>4. g = [stack \in SUBSET Ids |-> Visited(g, stack)]
  <2>1. ASSUME NEW stack \in SUBSET Ids PROVE f[stack] = Visited(g, stack)
    <3>1. Room(stack) < N BY <1>0, RoomIs
    <3>2. f[stack] = Visited(f, stack) BY <1>3, <3>1 DEF Walked
    <3>3. \A p \in Ids \ stack : f[stack \cup {p}] = g[stack \cup {p}] OBVIOUS
    <3> HIDE DEF g
    <3>4. Visited(f, stack) = Visited(g, stack) BY <3>3, VisitedSame
    <3> QED BY <3>2, <3>4
  <2> QED BY <2>1
<1> HIDE DEF g
<1>5. Visit = [stack \in SUBSET Ids |-> Visited(Visit, stack)]
  <2> DEFINE v == CHOOSE v : v = [stack \in SUBSET Ids |-> Visited(v, stack)]
  <2>1. v = [stack \in SUBSET Ids |-> Visited(v, stack)]
    <3> HIDE DEF v
    <3>1. v = CHOOSE w : w = [stack \in SUBSET Ids |-> Visited(w, stack)] BY DEF v
    <3> QED BY <1>4, <3>1
  <2>2. Visit = v BY DEF Visit, Visited
  <2> HIDE DEF v
  <2> QED BY <2>1, <2>2
<1> QED BY <1>5

-----------------------------------------------------------------------------
(* What a visit makes of a walk: an order of dependencies first, or a cycle. *)

Ordered(s) ==
    /\ s \in Seq(Ids) /\ \A i, j \in DOMAIN s : s[i] = s[j] => i = j
    /\ \A i \in DOMAIN s : \A q \in Deps(s[i]) : \E j \in 1..(i - 1) : s[j] = q
Good(w) == w \in Walks /\ (w.cycle => Circular) /\ (~w.cycle => Ordered(w.order))

\* v goes on from w and adds nothing of S
Adds(w, v, S) ==
    ~v.cycle => /\ ~w.cycle /\ ToSet(w.order) \subseteq ToSet(v.order)
                /\ ToSet(v.order) \cap S \subseteq ToSet(w.order)
Beneath(p, stack) == \A s \in stack : p \in Closure(Deps(s))
VisitOK(visit, stack) ==
    \A w \in Walks, p \in Ids :
        Good(w) /\ Beneath(p, stack) =>
            /\ Good(visit[w][p]) /\ Adds(w, visit[w][p], stack)
            /\ ~visit[w][p].cycle => p \in ToSet(visit[w][p].order)

LEMMA BelowIs ==
    ASSUME Requested, NEW stack \in SUBSET Ids, NEW p \in Ids \ stack, NEW visit,
           VisitOK(visit, stack \cup {p}), NEW w, Good(w), Beneath(p, stack)
    PROVE  LET d == Below(visit, w, p)
           IN  Good(d) /\ Adds(w, d, stack \cup {p}) /\ (~d.cycle => Deps(p) \subseteq ToSet(d.order))
<1> DEFINE dep == Edges(p)
           n == Len(dep)
           S == stack \cup {p}
           step == [k \in DOMAIN dep |->
                      [v \in Walks |-> IF dep[k] \in Deps(p) THEN visit[v][dep[k]] ELSE v]]
<1>1. /\ n \in Nat /\ DOMAIN dep = 1..n /\ Deps(p) \subseteq Ids
      /\ \A q \in Deps(p) : \E k \in DOMAIN dep : dep[k] = q
  BY RequestIs
<1>2. PICK after : /\ after[0] = w /\ \A k \in 1..n : after[k] = step[k][after[k - 1]]
                   /\ Loop(step, w, n) = after[n]
  <2> HIDE DEF step, n
  <2> QED BY <1>1, LoopIs
<1>3. Below(visit, w, p) = after[n] BY <1>2 DEF Below
<1>4. \A q \in Deps(p) : Beneath(q, S)
  <2>1. ASSUME NEW q \in Deps(p), NEW s \in S PROVE q \in Closure(Deps(s))
    <3>1. s \in Ids /\ Deps(s) \in SUBSET Ids BY RequestIs
    <3>2. Deps(s) \subseteq Closure(Deps(s)) /\ ClosedUnder(Closure(Deps(s))) BY <3>1, ClosureIs
    <3>3. CASE s = p BY <3>2, <3>3
    <3>4. CASE s # p
      <4>1. p \in Closure(Deps(s)) BY <3>4 DEF Beneath
      <4> QED BY <3>2, <4>1 DEF ClosedUnder
    <3> QED BY <3>3, <3>4
  <2> QED BY <2>1 DEF Beneath
<1> DEFINE Met(k) == ~after[k].cycle => \A j \in 1..k : dep[j] \in Deps(p) => dep[j] \in ToSet(after[k].order)
           P == {k \in 0..n : Good(after[k]) /\ Adds(w, after[k], S) /\ Met(k)}
<1>5. 0 \in P BY <1>1, <1>2 DEF Adds
<1>6. ASSUME NEW k \in 1..n, k - 1 \in P PROVE k \in P
  <2> DEFINE u == after[k - 1]
             v == after[k]
  <2>1. Good(u) /\ Adds(w, u, S) /\ Met(k - 1) BY <1>6
  <2>2. u \in Walks BY <2>1 DEF Good
  <2>3. v = IF dep[k] \in Deps(p) THEN visit[u][dep[k]] ELSE u
    <3>1. after[k] = step[k][after[k - 1]] BY <1>2
    <3>2. k \in DOMAIN dep BY <1>1
    <3> HIDE DEF u
    <3>3. step[k][u] = IF dep[k] \in Deps(p) THEN visit[u][dep[k]] ELSE u BY <2>2, <3>2
    <3> QED BY <3>1, <3>3 DEF u
  <2>4. /\ Good(v) /\ Adds(u, v, S)
        /\ ~v.cycle /\ dep[k] \in Deps(p) => dep[k] \in ToSet(v.order)
    <3> HIDE DEF u, v
    <3>1. CASE dep[k] \in Deps(p)
      <4>1. dep[k] \in Ids /\ Beneath(dep[k], S) BY <1>1, <1>4, <3>1
      <4> QED BY <2>1, <2>2, <2>3, <3>1, <4>1 DEF VisitOK
    <3>2. CASE dep[k] \notin Deps(p) BY <2>1, <2>3, <3>2 DEF Adds
    <3> QED BY <3>1, <3>2
  <2>5. Adds(w, v, S)
    <3> HIDE DEF u, v, S
    <3> QED BY <2>1, <2>4 DEF Adds
  <2>6. Met(k)
    <3>1. SUFFICES ASSUME ~v.cycle, NEW j \in 1..k, dep[j] \in Deps(p) PROVE dep[j] \in ToSet(v.order)
      OBVIOUS
    <3>2. CASE j = k
      <4> HIDE DEF v
      <4> QED BY <2>4, <3>1, <3>2
    <3>3. CASE j # k
      <4>1. j \in 1..(k - 1) BY <3>3
      <4>2. ~u.cycle /\ ToSet(u.order) \subseteq ToSet(v.order) BY <2>4, <3>1 DEF Adds
      <4>3. dep[j] \in ToSet(u.order) BY <2>1, <3>1, <4>1, <4>2
      <4> QED BY <4>2, <4>3
    <3> QED BY <3>2, <3>3
  <2>7. k \in 0..n OBVIOUS
  <2> HIDE DEF Met, S, n
  <2> QED BY <2>4, <2>5, <2>6, <2>7
<1>7. n \in P
  <2>1. n \in 0..n BY <1>1
  <2> HIDE DEF P, n
  <2> QED BY <1>1, <1>5, <1>6, <2>1, EachRound
<1>8. Good(after[n]) /\ Adds(w, after[n], S) /\ Met(n) BY <1>7
<1>9. ASSUME ~after[n].cycle, NEW q \in Deps(p) PROVE q \in ToSet(after[n].order)
  <2>1. PICK k \in 1..n : dep[k] = q BY <1>1
  <2> QED BY <1>8, <1>9, <2>1
<1> HIDE DEF n
<1> QED BY <1>3, <1>8, <1>9

LEMMA VisitedIs ==
    ASSUME Requested, NEW stack \in SUBSET Ids, NEW v,
           \A p \in Ids \ stack : VisitOK(v[stack \cup {p}], stack \cup {p})
    PROVE  VisitOK(Visited(v, stack), stack)
<1> SUFFICES ASSUME NEW w \in Walks, NEW p \in Ids, Good(w), Beneath(p, stack)
             PROVE  LET d == Visited(v, stack)[w][p]
                    IN  Good(d) /\ Adds(w, d, stack) /\ (~d.cycle => p \in ToSet(d.order))
  BY DEF VisitOK
<1> DEFINE d == Visited(v, stack)[w][p]
           deep == Below(v[stack \cup {p}], w, p)
<1>1. d = IF w.cycle \/ p \in ToSet(w.order) THEN w
          ELSE IF p \in stack THEN [w EXCEPT !.cycle = TRUE]
          ELSE IF deep.cycle THEN deep ELSE [deep EXCEPT !.order = Append(@, p)]
  BY DEF Visited
<1> HIDE DEF d, deep
<1>2. CASE w.cycle \/ p \in ToSet(w.order) BY <1>1, <1>2 DEF Adds, d
<1>3. CASE ~w.cycle /\ p \notin ToSet(w.order) /\ p \in stack
  <2>1. d = [w EXCEPT !.cycle = TRUE] BY <1>1, <1>3
  <2>2. d \in Walks /\ d.cycle BY <2>1 DEF Walks
  <2>3. Circular BY <1>3 DEF Beneath, Circular
  <2> QED BY <2>2, <2>3 DEF Good, Adds, d
<1>4. CASE ~w.cycle /\ p \notin ToSet(w.order) /\ p \notin stack
  <2>1. /\ Good(deep) /\ Adds(w, deep, stack \cup {p})
        /\ ~deep.cycle => Deps(p) \subseteq ToSet(deep.order)
    BY <1>4, BelowIs DEF deep
  <2>2. CASE deep.cycle BY <1>1, <1>4, <2>1, <2>2 DEF Adds, d
  <2>3. CASE ~deep.cycle
    <3> DEFINE s == deep.order
               t == Append(s, p)
    <3>1. d = [deep EXCEPT !.order = t] BY <1>1, <1>4, <2>3
    <3>2. deep \in Walks /\ s \in Seq(Ids) /\ Ordered(s) BY <2>1, <2>3 DEF Good, Walks
    <3>3. p \notin ToSet(s) /\ Deps(p) \subseteq ToSet(s) BY <1>4, <2>1, <2>3 DEF Adds
    <3>4. /\ t \in Seq(Ids) /\ Len(t) = Len(s) + 1 /\ DOMAIN t = 1..(Len(s) + 1)
          /\ t[Len(s) + 1] = p /\ (\A i \in 1..Len(s) : t[i] = s[i])
          /\ ToSet(t) = ToSet(s) \cup {p}
      <4> HIDE DEF s
      <4> QED BY <3>2, AppendIs
    <3>5. Len(s) \in Nat /\ DOMAIN s = 1..Len(s) BY <3>2
    <3> HIDE DEF s, t
    <3>6. d \in Walks /\ d.order = t /\ d.cycle = FALSE BY <2>3, <3>1, <3>2, <3>4 DEF Walks
    <3>7. Ordered(t)
      <4>1. ASSUME NEW i \in DOMAIN t, NEW j \in DOMAIN t, t[i] = t[j] PROVE i = j
        <5>1. ASSUME NEW k \in 1..Len(s) PROVE s[k] # p BY <3>3, <3>5 DEF ToSet
        <5> QED BY <3>2, <3>4, <3>5, <4>1, <5>1 DEF Ordered
      <4>2. ASSUME NEW i \in DOMAIN t, NEW q \in Deps(t[i]) PROVE \E j \in 1..(i - 1) : t[j] = q
        <5>1. CASE i = Len(s) + 1
          <6>1. PICK j \in 1..Len(s) : s[j] = q BY <3>3, <3>4, <3>5, <4>2, <5>1 DEF ToSet
          <6>2. j \in 1..(i - 1) BY <3>5, <5>1
          <6> QED BY <3>4, <6>1, <6>2
        <5>2. CASE i # Len(s) + 1
          <6>1. i \in 1..Len(s) /\ t[i] = s[i] BY <3>4, <3>5, <5>2
          <6>2. PICK j \in 1..(i - 1) : s[j] = q BY <3>2, <3>5, <4>2, <6>1 DEF Ordered
          <6>3. j \in 1..Len(s) BY <3>5, <6>1
          <6> QED BY <3>4, <6>2, <6>3
        <5> QED BY <5>1, <5>2
      <4> QED BY <3>4, <4>1, <4>2 DEF Ordered
    <3>8. Adds(w, d, stack) BY <1>4, <2>1, <2>3, <3>4, <3>6 DEF Adds, s
    <3> QED BY <3>4, <3>6, <3>7, <3>8 DEF Good, d
  <2> QED BY <2>2, <2>3
<1> QED BY <1>2, <1>3, <1>4 DEF d

LEMMA VisitsAreOK == ASSUME Requested PROVE \A stack \in SUBSET Ids : VisitOK(Visit[stack], stack)
<1> DEFINE N == Cardinality(Ids) + 1
           P == {n \in 0..N : \A stack \in SUBSET Ids : Room(stack) < n => VisitOK(Visit[stack], stack)}
<1>0. N \in Nat /\ Cardinality(Ids) \in Nat BY RequestIs, FS_CardinalityType
<1>1. 0 \in P
  <2>1. \A stack \in SUBSET Ids : ~(Room(stack) < 0) BY <1>0, RoomIs
  <2> QED BY <1>0, <2>1
<1>2. ASSUME NEW n \in 1..N, n - 1 \in P PROVE n \in P
  <2>1. ASSUME NEW stack \in SUBSET Ids, Room(stack) < n PROVE VisitOK(Visit[stack], stack)
    <3>1. ASSUME NEW p \in Ids \ stack PROVE VisitOK(Visit[stack \cup {p}], stack \cup {p})
      <4>1. Room(stack \cup {p}) < Room(stack) /\ Room(stack \cup {p}) \in Nat /\ Room(stack) \in Nat
        BY <1>0, RoomIs
      <4>2. Room(stack \cup {p}) < n - 1 BY <1>0, <2>1, <4>1
      <4>3. stack \cup {p} \in SUBSET Ids OBVIOUS
      <4> HIDE DEF N
      <4> QED BY <1>2, <4>2, <4>3
    <3>2. VisitOK(Visited(Visit, stack), stack) BY <3>1, VisitedIs
    <3> QED BY <3>2, VisitIs
  <2>2. n \in 0..N OBVIOUS
  <2> HIDE DEF N
  <2> QED BY <2>1, <2>2
<1>3. N \in P
  <2>1. N \in 0..N BY <1>0
  <2> HIDE DEF P, N
  <2> QED BY <1>0, <1>1, <1>2, <2>1, EachRound
<1> QED BY <1>0, <1>3, RoomIs

(* The whole walk: every project, or a cycle there is.                       *)
LEMMA OrderIs ==
    ASSUME Requested
    PROVE  LET g == OrderOf(Projects)
           IN  Good(g) /\ (~g.cycle => ToSet(g.order) = Ids)
<1> DEFINE n == Len(Projects)
           w == [order |-> <<>>, cycle |-> FALSE]
           step == [k \in DOMAIN Projects |-> [v \in Walks |-> Visit[{}][v][Projects[k]]]]
<1>1. Projects \in Seq(Ids) /\ n \in Nat /\ DOMAIN Projects = 1..n BY RequestIs
<1>2. PICK after : /\ after[0] = w /\ \A k \in 1..n : after[k] = step[k][after[k - 1]]
                   /\ Loop(step, w, n) = after[n]
  <2> HIDE DEF step, n, w
  <2> QED BY <1>1, LoopIs
<1>3. OrderOf(Projects) = after[n] BY <1>2 DEF OrderOf
<1>4. Good(w)
  <2>1. <<>> \in Seq(Ids) /\ DOMAIN <<>> = {} OBVIOUS
  <2>2. w \in Walks /\ w.cycle = FALSE /\ w.order = <<>> BY <2>1 DEF Walks
  <2> QED BY <2>1, <2>2 DEF Good, Ordered
<1> DEFINE Met(k) == ~after[k].cycle => \A j \in 1..k : Projects[j] \in ToSet(after[k].order)
           P == {k \in 0..n : Good(after[k]) /\ Met(k)}
<1>5. 0 \in P BY <1>1, <1>2, <1>4
<1>6. ASSUME NEW k \in 1..n, k - 1 \in P PROVE k \in P
  <2> DEFINE u == after[k - 1]
             v == after[k]
  <2>1. Good(u) /\ Met(k - 1) BY <1>6
  <2>2. u \in Walks BY <2>1 DEF Good
  <2>3. v = Visit[{}][u][Projects[k]]
    <3>1. after[k] = step[k][after[k - 1]] BY <1>2
    <3>2. k \in DOMAIN Projects BY <1>1
    <3> HIDE DEF u
    <3>3. step[k][u] = Visit[{}][u][Projects[k]] BY <2>2, <3>2
    <3> QED BY <3>1, <3>3 DEF u
  <2>4. Good(v) /\ Adds(u, v, {}) /\ (~v.cycle => Projects[k] \in ToSet(v.order))
    <3>1. VisitOK(Visit[{}], {}) BY VisitsAreOK
    <3>2. Projects[k] \in Ids BY <1>1
    <3>3. Beneath(Projects[k], {}) BY DEF Beneath
    <3> HIDE DEF u, v
    <3> QED BY <2>1, <2>2, <2>3, <3>1, <3>2, <3>3 DEF VisitOK
  <2>5. Met(k)
    <3>1. SUFFICES ASSUME ~v.cycle, NEW j \in 1..k PROVE Projects[j] \in ToSet(v.order)
      OBVIOUS
    <3>2. CASE j = k
      <4> HIDE DEF v
      <4> QED BY <2>4, <3>1, <3>2
    <3>3. CASE j # k
      <4>1. j \in 1..(k - 1) BY <3>3
      <4>2. ~u.cycle /\ ToSet(u.order) \subseteq ToSet(v.order) BY <2>4, <3>1 DEF Adds
      <4>3. Projects[j] \in ToSet(u.order) BY <2>1, <4>1, <4>2
      <4> QED BY <4>2, <4>3
    <3> QED BY <3>2, <3>3
  <2>6. k \in 0..n OBVIOUS
  <2> HIDE DEF Met, n
  <2> QED BY <2>4, <2>5, <2>6
<1>7. n \in P
  <2>1. n \in 0..n BY <1>1
  <2> HIDE DEF P, n
  <2> QED BY <1>1, <1>5, <1>6, <2>1, EachRound
<1>8. Good(after[n]) /\ Met(n) BY <1>7
<1>9. ASSUME ~after[n].cycle PROVE ToSet(after[n].order) = Ids
  <2>1. Ids \subseteq ToSet(after[n].order) BY <1>1, <1>8, <1>9 DEF Ids, ToSet
  <2>2. after[n].order \in Seq(Ids) BY <1>8, <1>9 DEF Good, Walks
  <2>3. ToSet(after[n].order) \subseteq Ids BY <2>2 DEF ToSet
  <2> QED BY <2>1, <2>3
<1> HIDE DEF n
<1> QED BY <1>3, <1>8, <1>9

(* Whatever a member of an order needs is before it.                        *)
LEMMA EarlierIs ==
    ASSUME NEW s, Ordered(s), NEW i \in DOMAIN s, NEW q \in Closure(Deps(s[i]))
    PROVE  \E j \in 1..(i - 1) : s[j] = q
<1>1. s \in Seq(Ids) /\ Len(s) \in Nat /\ DOMAIN s = 1..Len(s) BY DEF Ordered
<1> DEFINE C == {s[j] : j \in 1..(i - 1)}
<1>2. C \in SUBSET Ids BY <1>1
<1>3. Deps(s[i]) \subseteq C BY DEF Ordered
<1>4. ClosedUnder(C)
  <2>1. ASSUME NEW j \in 1..(i - 1), NEW r \in Deps(s[j]) PROVE r \in C
    <3>1. j \in DOMAIN s BY <1>1
    <3>2. PICK k \in 1..(j - 1) : s[k] = r BY <3>1 DEF Ordered
    <3>3. k \in 1..(i - 1) BY <1>1
    <3> QED BY <3>2, <3>3
  <2> QED BY <2>1 DEF ClosedUnder
<1>5. Deps(s[i]) \in SUBSET Ids BY DEF Deps
<1>6. q \in C
  <2> HIDE DEF C
  <2> QED BY <1>2, <1>3, <1>4, <1>5, ClosureIs
<1> QED BY <1>6

(* Dependencies first leaves no room for a cycle.                           *)
LEMMA NoCycleLeft ==
    ASSUME NEW s, Ordered(s), ToSet(s) = Ids PROVE ~Circular
<1> SUFFICES ASSUME NEW p \in Ids, p \in Closure(Deps(p)) PROVE FALSE BY DEF Circular
<1>1. s \in Seq(Ids) /\ Len(s) \in Nat /\ DOMAIN s = 1..Len(s) BY DEF Ordered
<1>2. PICK i \in DOMAIN s : s[i] = p BY DEF ToSet
<1>3. PICK j \in 1..(i - 1) : s[j] = p BY <1>2, EarlierIs
<1>4. j \in DOMAIN s /\ j # i BY <1>1
<1> QED BY <1>2, <1>3, <1>4 DEF Ordered

-----------------------------------------------------------------------------
(* The plan.                                                                *)

\* s holds the members of S, each once and after those of S it needs
Sorted(s, S) ==
    /\ s \in Seq(Ids) /\ ToSet(s) = S /\ \A i, j \in DOMAIN s : s[i] = s[j] => i = j
    /\ \A i \in DOMAIN s : \A q \in Closure(Deps(s[i])) \cap S : \E j \in 1..(i - 1) : s[j] = q

LEMMA OnlyIs ==
    ASSUME NEW s, Ordered(s), NEW S \in SUBSET ToSet(s) PROVE Sorted(Only(s, S), S)
<1> DEFINE n == Len(s)
           step == [k \in DOMAIN s |-> [kept \in Seq(Ids) |->
                       IF s[k] \in S THEN Append(kept, s[k]) ELSE kept]]
           Upto(k) == {s[j] : j \in 1..k} \cap S
<1>1. s \in Seq(Ids) /\ n \in Nat /\ DOMAIN s = 1..n BY DEF Ordered
<1>2. PICK after : /\ after[0] = <<>> /\ \A k \in 1..n : after[k] = step[k][after[k - 1]]
                   /\ Loop(step, <<>>, n) = after[n]
  <2> DEFINE none == <<>>
  <2> HIDE DEF step, n, none
  <2>1. \E after : /\ after[0] = none /\ \A k \in 1..n : after[k] = step[k][after[k - 1]]
                   /\ Loop(step, none, n) = after[n]
    BY <1>1, LoopIs
  <2> USE DEF none
  <2> QED BY <2>1
<1>3. Only(s, S) = after[n] BY <1>2 DEF Only
<1> DEFINE Held(k) ==
               /\ after[k] \in Seq(Ids) /\ ToSet(after[k]) = Upto(k)
               /\ \A i, j \in DOMAIN after[k] : after[k][i] = after[k][j] => i = j
               /\ \A i \in DOMAIN after[k] : \A q \in Closure(Deps(after[k][i])) \cap S :
                     \E j \in 1..(i - 1) : after[k][j] = q
           P == {k \in 0..n : Held(k)}
<1>4. 0 \in P
  <2>1. <<>> \in Seq(Ids) /\ DOMAIN <<>> = {} /\ ToSet(<<>>) = {} BY DEF ToSet
  <2>2. Upto(0) = {} OBVIOUS
  <2> HIDE DEF Upto
  <2>3. Held(0) BY <1>2, <2>1, <2>2
  <2> HIDE DEF Held
  <2> QED BY <1>1, <2>3
<1>5. ASSUME NEW k \in 1..n, k - 1 \in P PROVE k \in P
  <2> DEFINE u == after[k - 1]
             v == after[k]
  <2>1. Held(k - 1) /\ u \in Seq(Ids) BY <1>5
  <2>2. v = IF s[k] \in S THEN Append(u, s[k]) ELSE u
    <3>1. after[k] = step[k][after[k - 1]] BY <1>2
    <3>2. k \in DOMAIN s BY <1>1
    <3> HIDE DEF u
    <3>3. step[k][u] = IF s[k] \in S THEN Append(u, s[k]) ELSE u BY <2>1, <3>2
    <3> QED BY <3>1, <3>3 DEF u
  <2>3. Upto(k) = Upto(k - 1) \cup ({s[k]} \cap S)
    <3>1. 1..k = 1..(k - 1) \cup {k} OBVIOUS
    <3> QED BY <3>1
  <2>4. Held(k)
    <3>1. CASE s[k] \notin S
      <4> HIDE DEF Upto
      <4> QED BY <2>1, <2>2, <2>3, <3>1
    <3>2. CASE s[k] \in S
      <4> DEFINE x == s[k]
      <4>1. x \in Ids BY <1>1
      <4>2. /\ v \in Seq(Ids) /\ Len(v) = Len(u) + 1 /\ DOMAIN v = 1..(Len(u) + 1)
            /\ v[Len(u) + 1] = x /\ (\A i \in 1..Len(u) : v[i] = u[i])
            /\ ToSet(v) = ToSet(u) \cup {x}
        <5>1. v = Append(u, x) BY <2>2, <3>2
        <5> HIDE DEF u, v, x
        <5> QED BY <2>1, <4>1, <5>1, AppendIs
      <4>3. Len(u) \in Nat /\ DOMAIN u = 1..Len(u) BY <2>1
      <4>4. x \notin ToSet(u)
        <5>1. \A j \in 1..(k - 1) : s[j] # x BY <1>1 DEF Ordered
        <5> QED BY <2>1, <5>1
      <4>5. \A j \in 1..Len(u) : u[j] # x BY <4>3, <4>4 DEF ToSet
      <4>6. ToSet(v) = Upto(k)
        <5> HIDE DEF Upto
        <5> QED BY <2>1, <2>3, <3>2, <4>2
      <4>7. ASSUME NEW i \in DOMAIN v, NEW j \in DOMAIN v, v[i] = v[j] PROVE i = j
        <5> HIDE DEF u, v, x, Upto
        <5>1. \A a, b \in 1..Len(u) : u[a] = u[b] => a = b BY <2>1, <4>3 DEF u
        <5> QED BY <4>2, <4>3, <4>5, <4>7, <5>1
      <4>8. ASSUME NEW i \in DOMAIN v, NEW q \in Closure(Deps(v[i])) \cap S
            PROVE  \E j \in 1..(i - 1) : v[j] = q
        <5>1. CASE i = Len(u) + 1
          <6>1. q \in Closure(Deps(s[k])) BY <4>2, <5>1
          <6>2. PICK j \in 1..(k - 1) : s[j] = q BY <1>1, <6>1, EarlierIs
          <6>3. q \in ToSet(u) BY <2>1, <6>2
          <6>4. PICK m \in 1..Len(u) : u[m] = q BY <4>3, <6>3 DEF ToSet
          <6>5. m \in 1..(i - 1) BY <4>3, <5>1
          <6> HIDE DEF u, v
          <6> QED BY <4>2, <6>4, <6>5
        <5>2. CASE i # Len(u) + 1
          <6>1. i \in 1..Len(u) BY <4>2, <4>3, <5>2
          <6>2. v[i] = u[i] BY <4>2, <6>1
          <6>3. PICK m \in 1..(i - 1) : u[m] = q BY <2>1, <4>3, <6>1, <6>2
          <6>4. m \in 1..Len(u) BY <4>3, <6>1
          <6> HIDE DEF u, v
          <6> QED BY <4>2, <6>3, <6>4
        <5> QED BY <5>1, <5>2
      <4> HIDE DEF Upto
      <4> QED BY <4>2, <4>6, <4>7, <4>8
    <3> QED BY <3>1, <3>2
  <2>5. k \in 0..n OBVIOUS
  <2> HIDE DEF Held, n
  <2> QED BY <2>4, <2>5
<1>6. n \in P
  <2>1. n \in 0..n BY <1>1
  <2> HIDE DEF P, n
  <2> QED BY <1>1, <1>4, <1>5, <2>1, EachRound
<1>7. Held(n) BY <1>6
<1>8. Upto(n) = S BY <1>1 DEF ToSet
<1> HIDE DEF n, Upto
<1> QED BY <1>3, <1>7, <1>8 DEF Sorted

(* What a target needs is the target and what its dependencies need.          *)
LEMMA NeededIs ==
    ASSUME NEW p \in Ids PROVE Closure({p}) = {p} \cup Closure(Deps(p))
<1> DEFINE C == {p} \cup Closure(Deps(p))
<1>1. Deps(p) \in SUBSET Ids /\ {p} \in SUBSET Ids BY DEF Deps
<1>2. /\ Closure(Deps(p)) \subseteq Ids /\ Deps(p) \subseteq Closure(Deps(p))
      /\ ClosedUnder(Closure(Deps(p)))
      /\ \A D \in SUBSET Ids : Deps(p) \subseteq D /\ ClosedUnder(D) => Closure(Deps(p)) \subseteq D
  BY <1>1, ClosureIs
<1>3. /\ Closure({p}) \subseteq Ids /\ {p} \subseteq Closure({p}) /\ ClosedUnder(Closure({p}))
      /\ \A D \in SUBSET Ids : {p} \subseteq D /\ ClosedUnder(D) => Closure({p}) \subseteq D
  BY <1>1, ClosureIs
<1>4. ClosedUnder(C) BY <1>2 DEF ClosedUnder
<1>5. Closure({p}) \subseteq C BY <1>2, <1>3, <1>4
<1>6. Deps(p) \subseteq Closure({p}) BY <1>3 DEF ClosedUnder
<1>7. C \subseteq Closure({p}) BY <1>2, <1>3, <1>6
<1> QED BY <1>5, <1>7

-----------------------------------------------------------------------------
(* The build.                                                               *)

Undone == \E k \in DOMAIN order : status[order[k]] = None

\* what is held of the plan, the outcomes, and the outputs
PlanOK ==
    /\ Requested /\ phase \in {"planning", "building", "done", "rejected"} /\ cycle \in BOOLEAN
    /\ order \in Seq(Ids) /\ \A i, j \in DOMAIN order : order[i] = order[j] => i = j
    /\ \A i \in DOMAIN order : \A q \in Closure(Deps(order[i])) \cap ToSet(order) :
          \E j \in 1..(i - 1) : order[j] = q
    /\ phase # "planning" =>
          /\ cycle <=> Circular
          /\ ~cycle => ToSet(order) = {p \in solution.applies : Selected(p)}
StatusOK ==
    /\ DOMAIN status = Ids /\ \A p \in Ids : status[p] \in {"Built", "Failed", "Skipped", None}
    /\ \A p \in Ids : status[p] # None => p \in ToSet(order)
    /\ \A j, k \in DOMAIN order : j < k =>
          /\ status[order[j]] = None => status[order[k]] = None
          /\ status[order[j]] \in {"Failed", "Skipped"} => status[order[k]] \in {"Skipped", None}
    /\ (\E p \in Ids : status[p] = "Skipped") => Stopped
    /\ sandbox # None => Undone /\ ~Stopped
    /\ phase = "planning" => sandbox = None /\ pushed = {} /\ \A p \in Ids : status[p] = None
PipelineOK ==
    /\ ran \in Seq({"Succeeded", "Failed"}) /\ Len(ran) <= Len(Actions)
    /\ sandbox = None \/ sandbox \subseteq Staged
    /\ DOMAIN built \subseteq {Ref(p) : p \in Ids}
OutputOK ==
    /\ DOMAIN output = Ids /\ \A p \in Ids : output[p] \subseteq Staged \cup {"report"}
    /\ phase # "rejected" => \A p \in Ids :
          status[p] # "Built" => output[p] \ {"report"} = solution.before[p] \ {"report"}
    /\ phase = "done" => sandbox = None
PushedOK ==
    \A p \in Ids : Ref(p) \in pushed =>
        \A q \in Siblings(p) \cap ToSet(order) : q = p \/ status[q] = "Built"

BuildInv == PlanOK /\ StatusOK /\ PipelineOK /\ OutputOK /\ PushedOK

LEMMA BuildStart == ASSUME BuildAssumption, Init PROVE BuildInv
<1>1. Requested BY DEF Requested, Init
<1>2. PlanOK
  <2>1. <<>> \in Seq(Ids) /\ DOMAIN <<>> = {} OBVIOUS
  <2> QED BY <1>1, <2>1 DEF PlanOK, Init
<1>3. order = <<>> /\ DOMAIN order = {} BY DEF Init
<1>4. StatusOK BY <1>3 DEF StatusOK, Init, BuildAssumption
<1>5. PipelineOK BY DEF PipelineOK, Init, Requested, BuildAssumption
<1>6. \A p \in Ids : solution.before[p] \subseteq Staged
  BY <1>1 DEF Requested, BuildAssumption, Ids, Projects
<1>7. OutputOK BY <1>6 DEF OutputOK, Init
<1>8. PushedOK BY DEF PushedOK, Init
<1> QED BY <1>2, <1>4, <1>5, <1>7, <1>8 DEF BuildInv

LEMMA PlanHolds == ASSUME BuildInv, Plan PROVE BuildInv'
<1> DEFINE g == OrderOf(Projects)
           S == {p \in solution.applies : Selected(p)}
<1>1. Requested BY DEF BuildInv, PlanOK
<1>2. Good(g) /\ (~g.cycle => ToSet(g.order) = Ids) BY <1>1, OrderIs
<1>3. /\ cycle' = g.cycle /\ order' = (IF g.cycle THEN <<>> ELSE Only(g.order, S))
      /\ phase' = (IF g.cycle THEN "done" ELSE "building")
      /\ UNCHANGED <<solution, status, ran, bases, built, pushed, sandbox, output, compiled>>
  BY DEF Plan
<1> HIDE DEF g
<1>4. g.cycle \in BOOLEAN /\ (g.cycle <=> Circular)
  <2>1. g.cycle \in BOOLEAN BY <1>2 DEF Good, Walks
  <2>2. CASE g.cycle BY <1>2, <2>2 DEF Good
  <2>3. CASE ~g.cycle
    <3>1. Ordered(g.order) /\ ToSet(g.order) = Ids BY <1>2, <2>3 DEF Good
    <3>2. ~Circular BY <3>1, NoCycleLeft
    <3> QED BY <2>1, <2>3, <3>2
  <2> QED BY <2>1, <2>2, <2>3
<1>5. /\ sandbox = None /\ pushed = {} /\ \A p \in Ids : status[p] = None
  BY DEF BuildInv, StatusOK, Plan
<1>6. PlanOK'
  <2>1. CASE g.cycle
    <3>1. <<>> \in Seq(Ids) /\ DOMAIN <<>> = {} OBVIOUS
    <3> QED BY <1>1, <1>3, <1>4, <2>1, <3>1
         DEF PlanOK, Requested, Ids, Projects, Circular, Closure, Deps
  <2>2. CASE ~g.cycle
    <3>1. S \subseteq Ids BY <1>1 DEF Requested, BuildAssumption, Ids, Projects
    <3>2. Sorted(Only(g.order, S), S) BY <1>2, <2>2, <3>1, OnlyIs DEF Good
    <3>3. Sorted(order', S) BY <1>3, <2>2, <3>2
    <3>4. ToSet(order') = S BY <3>3 DEF Sorted
    <3>5. /\ Ids' = Ids /\ Requested' = Requested
          /\ (\A p : Deps(p)' = Deps(p)) /\ (\A D : Closure(D)' = Closure(D))
          /\ Circular' = Circular /\ (\A p : Selected(p)' = Selected(p)) /\ solution' = solution
      BY <1>3 DEF Ids, Projects, Requested, Deps, Circular, Closure, Selected
    <3> QED BY <1>1, <1>3, <1>4, <2>2, <3>3, <3>4, <3>5 DEF PlanOK, Sorted
  <2> QED BY <2>1, <2>2
<1>7. Ids' = Ids /\ phase' \in {"done", "building"} BY <1>3 DEF Ids, Projects
<1>8. StatusOK'
  <2>1. \A k \in DOMAIN order' : status'[order'[k]] = None
    <3>1. order' \in Seq(Ids) BY <1>6, <1>7 DEF PlanOK
    <3>2. \A k \in DOMAIN order' : order'[k] \in Ids BY <3>1
    <3> QED BY <1>3, <1>5, <3>2
  <2> QED BY <1>3, <1>5, <1>7, <2>1 DEF StatusOK, BuildInv, Stopped
<1>9. PipelineOK' BY <1>3, <1>7 DEF PipelineOK, BuildInv, Ref
<1>10. OutputOK' BY <1>3, <1>5, <1>7 DEF OutputOK, BuildInv, Plan
<1>11. PushedOK' BY <1>3, <1>5 DEF PushedOK
<1> QED BY <1>6, <1>8, <1>9, <1>10, <1>11 DEF BuildInv

(* The plan stays, once there is one.                                       *)
LEMMA PlanStays ==
    ASSUME BuildInv, UNCHANGED <<solution, order, cycle>>, phase # "planning",
           phase' \in {"building", "done", "rejected"}
    PROVE  PlanOK' /\ Ids' = Ids /\ \A p : Ref(p)' = Ref(p) /\ Siblings(p)' = Siblings(p)
<1>1. /\ Ids' = Ids /\ Requested' = Requested
      /\ (\A p : Deps(p)' = Deps(p)) /\ (\A D : Closure(D)' = Closure(D))
      /\ Circular' = Circular /\ (\A p : Selected(p)' = Selected(p))
  BY DEF Ids, Projects, Requested, Deps, Circular, Closure, Selected
<1>2. PlanOK' BY <1>1 DEF PlanOK, BuildInv
<1> QED BY <1>1, <1>2 DEF Ref, Siblings, Ids, Projects

LEMMA CurrentIs ==
    ASSUME BuildInv, Undone
    PROVE  /\ Current \in DOMAIN order /\ Project \in Ids /\ Project \in ToSet(order)
           /\ status[Project] = None /\ \A j \in 1..(Current - 1) : status[order[j]] # None
<1> DEFINE U == {k \in DOMAIN order : status[order[k]] = None}
<1>1. order \in Seq(Ids) BY DEF BuildInv, PlanOK
<1>2. DOMAIN order = 1..Len(order) /\ Len(order) \in Nat BY <1>1
<1>3. U \in SUBSET Nat /\ U # {} BY <1>2 DEF Undone
<1>4. PICK u \in U : \A y \in U : u <= y BY <1>3, LeastNatural
<1>5. u \in DOMAIN order /\ status[order[u]] = None /\ \A j \in 1..(u - 1) : status[order[j]] # None
  <2>1. ASSUME NEW j \in 1..(u - 1), status[order[j]] = None PROVE FALSE
    <3>1. j \in U BY <1>2, <2>1
    <3> QED BY <1>2, <1>4, <3>1
  <2> QED BY <1>4, <2>1
<1>6. /\ Current \in DOMAIN order /\ status[order[Current]] = None
      /\ \A j \in 1..(Current - 1) : status[order[j]] # None
  BY <1>5 DEF Current
<1>7. Project = order[Current] BY DEF Project
<1> QED BY <1>1, <1>6, <1>7 DEF ToSet

(* One project settles as x.                                                *)
LEMMA Settles ==
    ASSUME BuildInv, Undone, NEW x \in {"Built", "Failed", "Skipped"}, x = "Skipped" <=> Stopped,
           status' = [status EXCEPT ![Project] = x], phase # "planning", phase' = phase,
           UNCHANGED <<solution, order, cycle, pushed>>, sandbox' = None
    PROVE  PlanOK' /\ StatusOK' /\ PushedOK'
<1> DEFINE c == Current
           p == Project
<1>1. /\ c \in DOMAIN order /\ p \in Ids /\ p \in ToSet(order)
      /\ status[p] = None /\ \A j \in 1..(c - 1) : status[order[j]] # None
  BY CurrentIs
<1>2. order[c] = p BY DEF Project
<1> HIDE DEF c, p
<1>3. PlanOK' /\ Ids' = Ids /\ \A q : Ref(q)' = Ref(q) /\ Siblings(q)' = Siblings(q)
  <2>1. phase' \in {"building", "done", "rejected"} BY DEF BuildInv, PlanOK
  <2> QED BY <2>1, PlanStays
<1>4. order \in Seq(Ids) /\ DOMAIN order = 1..Len(order) /\ Len(order) \in Nat
  <2>1. order \in Seq(Ids) BY DEF BuildInv, PlanOK
  <2> QED BY <2>1
<1>5. /\ status' = [status EXCEPT ![p] = x] /\ DOMAIN status = Ids /\ None \notin {"Built", "Failed", "Skipped"}
  BY DEF p, BuildInv, StatusOK, PlanOK, Requested, BuildAssumption
<1>6. ASSUME NEW j \in DOMAIN order
      PROVE  status'[order[j]] = IF j = c THEN x ELSE status[order[j]]
  <2>1. order[j] = p => j = c BY <1>1, <1>2 DEF BuildInv, PlanOK
  <2> QED BY <1>2, <1>4, <1>5, <2>1
<1>7. StatusOK'
  <2>1. DOMAIN status' = Ids' /\ \A q \in Ids' : status'[q] \in {"Built", "Failed", "Skipped", None}
    BY <1>3, <1>5 DEF BuildInv, StatusOK
  <2>2. \A q \in Ids' : status'[q] # None => q \in ToSet(order')
    BY <1>1, <1>3, <1>5 DEF BuildInv, StatusOK
  <2>3. ASSUME NEW j \in DOMAIN order, NEW k \in DOMAIN order, j < k
        PROVE  /\ status'[order[j]] = None => status'[order[k]] = None
               /\ status'[order[j]] \in {"Failed", "Skipped"} => status'[order[k]] \in {"Skipped", None}
    <3>1. /\ status[order[j]] = None => status[order[k]] = None
          /\ status[order[j]] \in {"Failed", "Skipped"} => status[order[k]] \in {"Skipped", None}
      BY <2>3 DEF BuildInv, StatusOK
    <3>2. CASE j = c
      <4>1. status[order[k]] = None /\ k # c BY <1>1, <1>2, <2>3, <3>1, <3>2, <1>4
      <4> QED BY <1>5, <1>6, <3>2, <4>1
    <3>3. CASE k = c
      <4>1. j \in 1..(c - 1) /\ j # c BY <1>4, <2>3, <3>3
      <4>2. status[order[j]] # None BY <1>1, <4>1
      <4>3. status[order[j]] = "Failed" => Stopped BY <1>4 DEF Stopped
      <4>4. status[order[j]] = "Skipped" => Stopped BY <1>4 DEF BuildInv, StatusOK
      <4> QED BY <1>6, <3>3, <4>1, <4>2, <4>3, <4>4
    <3>4. CASE j # c /\ k # c BY <1>6, <3>1, <3>4
    <3> QED BY <3>2, <3>3, <3>4
  <2>4. (\E q \in Ids' : status'[q] = "Skipped") => Stopped'
    <3>1. SUFFICES ASSUME NEW q \in Ids, status'[q] = "Skipped" PROVE Stopped' BY <1>3
    <3>2. Stopped
      <4>1. CASE q = p BY <1>1, <1>5, <3>1, <4>1
      <4>2. CASE q # p BY <1>5, <3>1, <4>2 DEF BuildInv, StatusOK
      <4> QED BY <4>1, <4>2
    <3>3. PICK r \in Ids : status[r] = "Failed" BY <3>2 DEF Stopped
    <3>4. r # p BY <1>1, <1>5, <3>3
    <3> QED BY <1>3, <1>5, <3>3, <3>4 DEF Stopped
  <2> QED BY <2>1, <2>2, <2>3, <2>4 DEF StatusOK
<1>8. PushedOK'
  <2>1. \A q \in Ids : status[q] = "Built" => status'[q] = "Built" BY <1>1, <1>5
  <2>2. \A q \in Ids : Siblings(q) \subseteq Ids BY DEF Siblings
  <2> QED BY <1>3, <2>1, <2>2 DEF BuildInv, PushedOK
<1> QED BY <1>3, <1>7, <1>8

LEMMA SkipHolds == ASSUME BuildInv, Skip PROVE BuildInv'
<1>1. Undone /\ Stopped /\ phase = "building" BY DEF Skip, Building, Undone
<1>2. sandbox = None BY <1>1 DEF BuildInv, StatusOK
<1>3. /\ status' = [status EXCEPT ![Project] = "Skipped"]
      /\ UNCHANGED <<solution, phase, order, cycle, ran, built, pushed, sandbox, output>>
  BY DEF Skip
<1>4. PlanOK' /\ StatusOK' /\ PushedOK'
  <2> DEFINE x == "Skipped"
  <2>1. x \in {"Built", "Failed", "Skipped"} /\ (x = "Skipped" <=> Stopped) BY <1>1
  <2> QED BY <1>1, <1>2, <1>3, <2>1, Settles
<1>5. Ids' = Ids /\ (\A p : Ref(p)' = Ref(p)) BY <1>3 DEF Ids, Projects, Ref
<1>6. PipelineOK' BY <1>3, <1>5 DEF BuildInv, PipelineOK
<1>7. OutputOK'
  <2>1. Project \in Ids /\ status[Project] = None BY <1>1, CurrentIs
  <2>2. \A p \in Ids : status'[p] # "Built" => status[p] # "Built"
    BY <1>3, <2>1 DEF BuildInv, StatusOK, PlanOK, Requested, BuildAssumption
  <2> QED BY <1>1, <1>3, <1>5, <2>2 DEF BuildInv, OutputOK
<1> QED BY <1>4, <1>6, <1>7 DEF BuildInv

LEMMA UnmetHolds == ASSUME BuildInv, Unmet PROVE BuildInv'
<1>1. Undone /\ ~Stopped /\ sandbox = None /\ phase = "building" BY DEF Unmet, Building, Undone
<1>2. /\ status' = [status EXCEPT ![Project] = "Failed"]
      /\ output' = [output EXCEPT ![Project] = @ \cup {"report"}]
      /\ UNCHANGED <<solution, phase, order, cycle, ran, built, pushed, sandbox>>
  BY DEF Unmet
<1>3. PlanOK' /\ StatusOK' /\ PushedOK'
  <2> DEFINE x == "Failed"
  <2>1. x \in {"Built", "Failed", "Skipped"} /\ (x = "Skipped" <=> Stopped) BY <1>1
  <2> QED BY <1>1, <1>2, <2>1, Settles
<1>4. Ids' = Ids /\ (\A p : Ref(p)' = Ref(p)) BY <1>2 DEF Ids, Projects, Ref
<1>5. PipelineOK' BY <1>2, <1>4 DEF BuildInv, PipelineOK
<1>6. OutputOK'
  <2>1. Project \in Ids /\ status[Project] = None BY <1>1, CurrentIs
  <2>2. \A p \in Ids : status'[p] # "Built" => status[p] # "Built"
    BY <1>2, <2>1 DEF BuildInv, StatusOK, PlanOK, Requested, BuildAssumption
  <2>3. DOMAIN output' = Ids /\ \A p \in Ids : /\ output'[p] \subseteq Staged \cup {"report"}
                                               /\ output'[p] \ {"report"} = output[p] \ {"report"}
    BY <1>2, <2>1 DEF BuildInv, OutputOK
  <2> QED BY <1>1, <1>2, <1>4, <2>2, <2>3 DEF BuildInv, OutputOK
<1> QED BY <1>3, <1>5, <1>6 DEF BuildInv

(* An action of the pipeline that runs leaves the plan and outcomes alone.   *)
LEMMA RunKeeps ==
    ASSUME BuildInv, NEW a, Due(a), Succeeds \/ Fails, UNCHANGED Elsewhere,
           UNCHANGED sandbox \/ sandbox' \subseteq Staged
    PROVE  /\ PlanOK' /\ StatusOK' /\ PipelineOK' /\ OutputOK' /\ Ids' = Ids
           /\ \A p : Ref(p)' = Ref(p) /\ Siblings(p)' = Siblings(p)
<1>1. phase = "building" /\ Undone /\ ~Stopped /\ Len(ran) < Len(Actions)
  BY DEF Due, ActionsLeft, BuildInv, StatusOK
<1>2. UNCHANGED <<solution, phase, order, cycle, status, built, output>> BY DEF Elsewhere
<1>3. PlanOK' /\ Ids' = Ids /\ \A p : Ref(p)' = Ref(p) /\ Siblings(p)' = Siblings(p)
  BY <1>1, <1>2, PlanStays
<1>4. StatusOK' BY <1>1, <1>2, <1>3 DEF BuildInv, StatusOK, Undone, Stopped
<1>5. PipelineOK'
  <2> DEFINE Outcomes == {"Succeeded", "Failed"}
  <2>1. ran \in Seq(Outcomes) /\ Len(Actions) \in Nat
    BY DEF BuildInv, PipelineOK, PlanOK, Requested, BuildAssumption
  <2>2. PICK x \in Outcomes : ran' = Append(ran, x) BY DEF Succeeds, Fails
  <2> HIDE DEF Outcomes
  <2>3. ran' \in Seq(Outcomes) /\ Len(ran') = Len(ran) + 1 BY <2>1, <2>2
  <2>4. Len(ran') <= Len(Actions) BY <1>1, <2>1, <2>3
  <2> QED BY <1>2, <1>3, <2>3, <2>4 DEF BuildInv, PipelineOK, Outcomes
<1>6. OutputOK' BY <1>1, <1>2, <1>3 DEF BuildInv, OutputOK
<1> QED BY <1>3, <1>4, <1>5, <1>6

(* Whatever the project being built needs, of this build, is built.          *)
LEMMA NeedsAreBuilt ==
    ASSUME BuildInv, Undone, ~Stopped, NEW q \in Closure(Deps(Project)) \cap ToSet(order)
    PROVE  status[q] = "Built"
<1>1. /\ Current \in DOMAIN order /\ order[Current] = Project /\ Project \in Ids
      /\ \A j \in 1..(Current - 1) : status[order[j]] # None
  BY CurrentIs DEF Project
<1>2. q \in Ids BY <1>1, ClosureIs DEF Deps
<1>3. PICK j \in 1..(Current - 1) : order[j] = q BY <1>1 DEF BuildInv, PlanOK
<1>4. status[q] # None BY <1>1, <1>3
<1>5. status[q] \in {"Built", "Failed", "Skipped", None} BY <1>2 DEF BuildInv, StatusOK
<1>6. status[q] # "Failed" BY <1>2 DEF Stopped
<1>7. status[q] # "Skipped" BY <1>2 DEF BuildInv, StatusOK
<1> QED BY <1>4, <1>5, <1>6, <1>7

LEMMA SiblingIs ==
    ASSUME NEW p \in Ids, NEW q \in Siblings(p), q # p
    PROVE  q \in Deps(p) /\ q \in Closure(Deps(p)) /\ q \in Ids
<1>1. q \in Ids /\ Ref(q) \in ToSet(solution.binds[p]) BY DEF Siblings
<1>2. PICK k \in DOMAIN solution.binds[p] : solution.binds[p][k] = Ref(q) BY <1>1 DEF ToSet
<1>3. Ref(q)[1] = q BY DEF Ref
<1>4. q \in Deps(p) BY <1>1, <1>2, <1>3 DEF Deps
<1>5. Deps(p) \in SUBSET Ids BY DEF Deps
<1> QED BY <1>1, <1>4, <1>5, ClosureIs

LEMMA PublishHolds == ASSUME BuildInv, PublishPackage PROVE BuildInv'
<1>1. Due("publish-package") /\ (Succeeds \/ Fails) /\ UNCHANGED Elsewhere /\ UNCHANGED sandbox
      /\ pushed' \subseteq pushed \cup {Ref(Project)}
  BY DEF PublishPackage
<1>2. PlanOK' /\ StatusOK' /\ PipelineOK' /\ OutputOK' BY <1>1, RunKeeps
<1>3. Ids' = Ids /\ \A p : Ref(p)' = Ref(p) /\ Siblings(p)' = Siblings(p) BY <1>1, RunKeeps
<1>4. Undone /\ ~Stopped BY <1>1 DEF Due, ActionsLeft, BuildInv, StatusOK
<1>5. status' = status /\ order' = order BY <1>1 DEF Elsewhere
<1>6. ASSUME NEW p \in Ids, Ref(p) \in pushed', NEW q \in Siblings(p) \cap ToSet(order), q # p
      PROVE  status[q] = "Built"
  <2>1. CASE Ref(p) \in pushed BY <1>6, <2>1 DEF BuildInv, PushedOK
  <2>2. CASE Ref(p) = Ref(Project)
    <3>1. p = Project BY <2>2 DEF Ref
    <3>2. q \in Closure(Deps(p)) BY <1>6, SiblingIs
    <3> QED BY <1>4, <1>6, <3>1, <3>2, NeedsAreBuilt
  <2> QED BY <1>1, <1>6, <2>1, <2>2
<1>7. PushedOK' BY <1>3, <1>5, <1>6 DEF PushedOK
<1> QED BY <1>2, <1>7 DEF BuildInv

LEMMA ExecuteHolds == ASSUME BuildInv, Execute PROVE BuildInv'
<1>1. ASSUME NEW a, Due(a), Succeeds \/ Fails, UNCHANGED Elsewhere, UNCHANGED pushed,
             UNCHANGED sandbox \/ sandbox' \subseteq Staged
      PROVE  BuildInv'
  <2>1. PlanOK' /\ StatusOK' /\ PipelineOK' /\ OutputOK' /\ Ids' = Ids
        /\ \A p : Ref(p)' = Ref(p) /\ Siblings(p)' = Siblings(p)
    BY <1>1, RunKeeps
  <2>2. status' = status /\ order' = order BY <1>1 DEF Elsewhere
  <2>3. PushedOK' BY <1>1, <2>1, <2>2 DEF BuildInv, PushedOK
  <2> QED BY <2>1, <2>3 DEF BuildInv
<1>2. ASSUME NEW a, NEW file \in Staged, Stages(a, file) PROVE BuildInv'
  <2>1. /\ Due(a) /\ (Succeeds \/ Fails) /\ UNCHANGED Elsewhere /\ UNCHANGED pushed
        /\ sandbox' \in {sandbox, sandbox \cup {file}}
    BY <1>2 DEF Stages
  <2>2. sandbox \subseteq Staged BY <2>1 DEF Due, ActionsLeft, BuildInv, PipelineOK
  <2>3. UNCHANGED sandbox \/ sandbox' \subseteq Staged BY <2>1, <2>2
  <2> QED BY <1>1, <2>1, <2>3
<1>3. CASE ResolveBases
  <2>1. /\ Due("resolve-bases") /\ (Succeeds \/ Fails) /\ UNCHANGED Elsewhere
        /\ UNCHANGED pushed /\ UNCHANGED sandbox
    BY <1>3 DEF ResolveBases
  <2> QED BY <1>1, <2>1
<1>4. CASE CompileModel
  <2>1. /\ Due("compile-model") /\ (Succeeds \/ Fails) /\ UNCHANGED Elsewhere
        /\ UNCHANGED pushed /\ UNCHANGED sandbox
    BY <1>4 DEF CompileModel
  <2> QED BY <1>1, <2>1
<1>5. CASE CompileMural
  <2>1. "mural" \in Staged BY DEF Staged
  <2> QED BY <1>2, <1>5, <2>1 DEF CompileMural
<1>6. CASE BakeResources
  <2>1. "baked" \in Staged BY DEF Staged
  <2> QED BY <1>2, <1>6, <2>1 DEF BakeResources
<1>7. CASE EmitBundle
  <2>1. "bundle" \in Staged BY DEF Staged
  <2> QED BY <1>2, <1>7, <2>1 DEF EmitBundle
<1>8. CASE EmitPackageLayout
  <2>1. "model" \in Staged BY DEF Staged
  <2> QED BY <1>2, <1>8, <2>1 DEF EmitPackageLayout
<1> QED BY <1>3, <1>4, <1>5, <1>6, <1>7, <1>8, PublishHolds DEF Execute

LEMMA BeginHolds == ASSUME BuildInv, Begin PROVE BuildInv'
<1>1. Undone /\ ~Stopped /\ phase = "building" BY DEF Begin, Building, Undone
<1>2. /\ UNCHANGED <<solution, phase, order, cycle, status, built, pushed, output>>
      /\ sandbox' = {} /\ ran' = <<>>
  BY DEF Begin
<1>3. PlanOK' /\ Ids' = Ids /\ \A p : Ref(p)' = Ref(p) /\ Siblings(p)' = Siblings(p)
  BY <1>1, <1>2, PlanStays
<1>4. StatusOK' BY <1>1, <1>2, <1>3 DEF BuildInv, StatusOK, Undone, Stopped
<1>5. PipelineOK'
  <2>1. Len(Actions) \in Nat BY DEF BuildInv, PlanOK, Requested, BuildAssumption
  <2>2. ran' \in Seq({"Succeeded", "Failed"}) /\ Len(ran') = 0 BY <1>2
  <2> QED BY <1>2, <1>3, <2>1, <2>2 DEF BuildInv, PipelineOK
<1>6. OutputOK' BY <1>1, <1>2, <1>3 DEF BuildInv, OutputOK
<1>7. PushedOK' BY <1>2, <1>3 DEF BuildInv, PushedOK
<1> QED BY <1>3, <1>4, <1>5, <1>6, <1>7 DEF BuildInv

LEMMA FinishHolds == ASSUME BuildInv, Finish PROVE BuildInv'
<1> DEFINE p == Project
           ok == ~ActionFailed
<1>1. phase = "building" /\ sandbox # None BY DEF Finish
<1>2. Undone /\ ~Stopped /\ sandbox \subseteq Staged BY <1>1 DEF BuildInv, StatusOK, PipelineOK
<1>3. /\ output' = [output EXCEPT ![p] = @ \cup {"report"} \cup Promoted(ok)]
      /\ status' = [status EXCEPT ![p] = IF ok THEN "Built" ELSE "Failed"]
      /\ built' = IF ok /\ "model" \in output'[p]
                  THEN [r \in DOMAIN built \cup {Ref(p)} |->
                          IF r = Ref(p) THEN compiled[p] ELSE built[r]]
                  ELSE built
      /\ UNCHANGED <<solution, phase, order, cycle, ran, bases, pushed, compiled>>
      /\ sandbox' = None
  BY DEF Finish
<1> HIDE DEF ok
<1>4. PlanOK' /\ StatusOK' /\ PushedOK'
  <2> DEFINE x == IF ok THEN "Built" ELSE "Failed"
  <2>1. /\ x \in {"Built", "Failed", "Skipped"} /\ (x = "Skipped" <=> Stopped)
        /\ status' = [status EXCEPT ![Project] = x]
    BY <1>2, <1>3
  <2> HIDE DEF x
  <2> QED BY <1>1, <1>2, <1>3, <2>1, Settles
<1>5. p \in Ids /\ status[p] = None BY <1>2, CurrentIs
<1> HIDE DEF p
<1>6. Ids' = Ids /\ \A q : Ref(q)' = Ref(q) BY <1>3 DEF Ids, Projects, Ref
<1>7. PipelineOK'
  <2>1. DOMAIN built' \subseteq DOMAIN built \cup {Ref(p)} BY <1>3
  <2> QED BY <1>3, <1>5, <1>6, <2>1 DEF BuildInv, PipelineOK
<1>8. OutputOK'
  <2>1. /\ DOMAIN output' = Ids
        /\ \A q \in Ids : output'[q] = IF q = p THEN output[p] \cup {"report"} \cup Promoted(ok)
                                       ELSE output[q]
    BY <1>3, <1>5 DEF BuildInv, OutputOK
  <2>2. Promoted(ok) \subseteq Staged /\ (~ok => Promoted(ok) = {}) BY <1>2 DEF Promoted
  <2>3. \A q \in Ids : output'[q] \subseteq Staged \cup {"report"}
    BY <1>5, <2>1, <2>2 DEF BuildInv, OutputOK
  <2>4. ASSUME NEW q \in Ids, status'[q] # "Built"
        PROVE  output'[q] \ {"report"} = solution.before[q] \ {"report"}
    <3>1. DOMAIN status = Ids /\ None # "Built"
      BY DEF BuildInv, StatusOK, PlanOK, Requested, BuildAssumption
    <3>2. status[q] # "Built" /\ (q = p => ~ok) BY <1>3, <1>5, <2>4, <3>1
    <3>3. output[q] \ {"report"} = solution.before[q] \ {"report"}
      BY <1>1, <3>2 DEF BuildInv, OutputOK
    <3> QED BY <2>1, <2>2, <3>2, <3>3
  <2> QED BY <1>1, <1>3, <1>6, <2>1, <2>3, <2>4 DEF OutputOK
<1> QED BY <1>4, <1>7, <1>8 DEF BuildInv

LEMMA EndsHold == ASSUME BuildInv, StorageFails \/ Done PROVE BuildInv'
<1>1. /\ phase = "building" /\ phase' \in {"done", "rejected"} /\ (phase' = "done" => sandbox = None)
      /\ UNCHANGED <<solution, order, cycle, status, ran, built, pushed, sandbox>>
  <2>1. CASE StorageFails BY <2>1 DEF StorageFails, Building
  <2>2. CASE Done BY <2>2 DEF Done, BuildInv, StatusOK, Undone
  <2> QED BY <2>1, <2>2
<1>2. PlanOK' /\ Ids' = Ids /\ \A p : Ref(p)' = Ref(p) /\ Siblings(p)' = Siblings(p)
  BY <1>1, PlanStays
<1>3. StatusOK' BY <1>1, <1>2 DEF BuildInv, StatusOK, Undone, Stopped
<1>4. PipelineOK' BY <1>1, <1>2 DEF BuildInv, PipelineOK
<1>5. OutputOK'
  <2>1. CASE Done BY <1>1, <1>2, <2>1 DEF BuildInv, OutputOK, Done
  <2>2. CASE StorageFails
    <3>1. DOMAIN output' = Ids /\ \A p \in Ids : output'[p] \subseteq Staged \cup {"report"}
      <4>1. CASE UNCHANGED output BY <4>1 DEF BuildInv, OutputOK
      <4>2. CASE ~UNCHANGED output
        <5>1. PICK S \in SUBSET sandbox : output' = [output EXCEPT ![Project] = @ \cup S]
          BY <2>2, <4>2 DEF StorageFails
        <5>2. sandbox \subseteq Staged BY <2>2, <4>2 DEF StorageFails, BuildInv, PipelineOK
        <5> QED BY <5>1, <5>2 DEF BuildInv, OutputOK
      <4> QED BY <4>1, <4>2
    <3>2. phase' = "rejected" BY <2>2 DEF StorageFails
    <3> QED BY <1>2, <3>1, <3>2 DEF OutputOK
  <2> QED BY <2>1, <2>2
<1>6. PushedOK' BY <1>1, <1>2 DEF BuildInv, PushedOK
<1> QED BY <1>2, <1>3, <1>4, <1>5, <1>6 DEF BuildInv

LEMMA BuildStep == ASSUME BuildInv, Next PROVE BuildInv'
  BY PlanHolds, SkipHolds, UnmetHolds, BeginHolds, ExecuteHolds, FinishHolds, EndsHold DEF Next

LEMMA BuildStutter == ASSUME BuildInv, UNCHANGED vars PROVE BuildInv'
<1>1. UNCHANGED <<solution, phase, order, cycle, status, ran, built, pushed, sandbox, output>>
  BY DEF vars
<1>2. /\ Ids' = Ids /\ Requested' = Requested
      /\ (\A p : Deps(p)' = Deps(p)) /\ (\A D : Closure(D)' = Closure(D))
      /\ Circular' = Circular /\ (\A p : Selected(p)' = Selected(p))
      /\ \A p : Ref(p)' = Ref(p) /\ Siblings(p)' = Siblings(p)
  BY <1>1 DEF Ids, Projects, Requested, Deps, Circular, Closure, Selected, Ref, Siblings
<1>3. PlanOK' BY <1>1, <1>2 DEF BuildInv, PlanOK
<1>4. StatusOK' BY <1>1, <1>2 DEF BuildInv, StatusOK, Undone, Stopped
<1>5. PipelineOK' /\ OutputOK' /\ PushedOK'
  BY <1>1, <1>2 DEF BuildInv, PipelineOK, OutputOK, PushedOK
<1> QED BY <1>3, <1>4, <1>5 DEF BuildInv

-----------------------------------------------------------------------------
(* What the invariant gives.                                                *)

LEMMA BuildTyped == ASSUME BuildInv PROVE TypeOK
<1>1. ToSet(order) \subseteq Ids
  <2>1. order \in Seq(Ids) BY DEF BuildInv, PlanOK
  <2> QED BY <2>1 DEF ToSet
<1> QED BY <1>1 DEF BuildInv, PlanOK, StatusOK, PipelineOK, OutputOK, TypeOK

LEMMA BuildStops == ASSUME BuildInv PROVE FailureStops
  BY DEF BuildInv, StatusOK, PushedOK, FailureStops

LEMMA BuildOrdered == ASSUME BuildInv PROVE OrderSound
<1> SUFFICES ASSUME phase # "planning"
             PROVE  /\ cycle <=> \E p \in Ids : p \in Closure(Deps(p))
                    /\ ~cycle => ToSet(order) = {p \in solution.applies :
                                     solution.target \in {None, p}
                                     \/ p \in Closure(Deps(solution.target))}
                    /\ IsInjective(order)
  BY DEF OrderSound
<1>1. cycle <=> \E p \in Ids : p \in Closure(Deps(p)) BY DEF BuildInv, PlanOK, Circular
<1>2. IsInjective(order) BY DEF BuildInv, PlanOK, IsInjective
<1>3. /\ solution.target \in Ids \cup {None} /\ solution.applies \subseteq Ids /\ None \notin Ids
  BY DEF BuildInv, PlanOK, Requested, BuildAssumption, Ids, Projects
<1>4. ASSUME NEW p \in solution.applies
      PROVE  Selected(p) <=> solution.target \in {None, p} \/ p \in Closure(Deps(solution.target))
  <2>1. CASE solution.target = None BY <2>1 DEF Selected
  <2>2. CASE solution.target \in Ids
    <3>1. Closure({solution.target}) = {solution.target} \cup Closure(Deps(solution.target))
      BY <2>2, NeededIs
    <3> QED BY <1>3, <2>2, <3>1 DEF Selected
  <2> QED BY <1>3, <2>1, <2>2
<1>5. ~cycle => ToSet(order) = {p \in solution.applies : Selected(p)} BY DEF BuildInv, PlanOK
<1> QED BY <1>1, <1>2, <1>4, <1>5

LEMMA BuildPromotes == ASSUME BuildInv PROVE PromotedOnSuccess
  BY DEF BuildInv, OutputOK, PromotedOnSuccess


-----------------------------------------------------------------------------
(* What a project was compiled against.                                     *)

AllStages == <<"resolve-bases", "compile-model", "compile-mural", "bake-resources",
               "emit-bundle", "emit-package-layout", "publish-package">>

\* the project being built has the effects of the first n actions
Ready(n) == sandbox # None /\ Len(ran) >= n /\ ~ActionFailed

Fresh(p) ==
    /\ compiled[p].deps = solution.binds[p] /\ <<Ref(p), "built">> \in compiled[p].made
    /\ \A q \in ToSet(order) : <<Ref(q), "external">> \notin compiled[p].made
    /\ \A q \in (Siblings(p) \ {p}) \cap ToSet(order) :
          status[q] = "Built" /\ compiled[q].made \subseteq compiled[p].made

BuiltOK ==
    /\ \A r \in DOMAIN built : \E q \in Ids : r = Ref(q) /\ status[q] = "Built"
    /\ \A q \in Ids : status[q] = "Built" => Ref(q) \in DOMAIN built /\ built[Ref(q)] = compiled[q]
CompiledOK ==
    /\ DOMAIN compiled = Ids
    /\ \A p \in Ids : compiled[p] # None \/ status[p] = "Built" => Fresh(p)
    /\ phase = "planning" => \A p \in Ids : compiled[p] = None
ReadyOK ==
    /\ Ready(1) => /\ bases = ReferenceClosure(solution.binds[Project])
                   /\ \A r \in bases : Source(r) # None
    /\ Ready(2) => Fresh(Project)
    /\ Ready(6) => "model" \in sandbox
FreshOK == BuiltOK /\ CompiledOK /\ ReadyOK

LEMMA FreshStart == ASSUME BuildAssumption, Init PROVE FreshOK
  BY DEF Init, FreshOK, BuiltOK, CompiledOK, ReadyOK, Ready, BuildAssumption

(* What is fresh stays so while what is built stays.                        *)
LEMMA FreshStays ==
    ASSUME NEW p \in Ids, Fresh(p), compiled'[p] = compiled[p], UNCHANGED <<solution, order>>,
           \A q \in Ids : status[q] = "Built" => status'[q] = "Built" /\ compiled'[q] = compiled[q]
    PROVE  Fresh(p)'
<1>1. Ids' = Ids /\ \A q : Ref(q)' = Ref(q) /\ Siblings(q)' = Siblings(q)
  BY DEF Ids, Projects, Ref, Siblings
<1>2. \A q \in Siblings(p) : q \in Ids BY DEF Siblings
<1> QED BY <1>1, <1>2 DEF Fresh

(* The references a project needs, of the projects of the solution, are of    *)
(* projects it depends on.                                                  *)
LEMMA ReachIs ==
    ASSUME BuildInv, FreshOK, SelfContained(solution), NEW p \in Ids
    PROVE  /\ Range(solution.binds[p]) \subseteq ReferenceClosure(solution.binds[p])
           /\ \A r \in ReferenceClosure(solution.binds[p]) : r[1] \in Ids => r[1] \in Closure(Deps(p))
<1> DEFINE B == solution.binds[p]
           K == Closure(Deps(p))
           X == {r \in References : r[1] \in Ids => r[1] \in K}
<1>1. Range(B) \subseteq References BY DEF References
<1>2. Deps(p) \subseteq K /\ K \subseteq Ids /\ ClosedUnder(K)
  <2>1. Deps(p) \in SUBSET Ids BY DEF Deps
  <2> QED BY <2>1, ClosureIs
<1>3. ASSUME NEW q \in Ids, NEW d \in Range(solution.binds[q]), d[1] \in Ids PROVE d[1] \in Deps(q)
  <2>1. d[1] # q BY <1>3 DEF SelfContained, Ids, Projects
  <2>2. PICK k \in DOMAIN solution.binds[q] : solution.binds[q][k] = d BY <1>3 DEF Range
  <2> QED BY <1>3, <2>1, <2>2 DEF Deps
<1>4. Range(B) \subseteq X BY <1>1, <1>2, <1>3
<1>5. ASSUME NEW r \in X, NEW d \in Range(Recorded(r)) PROVE d \in X
  <2>1. r \in References /\ (r[1] \in Ids => r[1] \in K) OBVIOUS
  <2> HIDE DEF X, K
  <2>2. CASE r \in DOMAIN built
    <3>1. PICK q \in Ids : r = Ref(q) /\ status[q] = "Built" BY <2>2 DEF FreshOK, BuiltOK
    <3>2. built[r] = compiled[q] /\ compiled[q].deps = solution.binds[q]
      BY <3>1 DEF FreshOK, BuiltOK, CompiledOK, Fresh
    <3>3. Source(r) = built[r] BY <2>2 DEF Source
    <3>4. d \in Range(built[r].deps)
      <4>1. Range(<<>>) = {} BY DEF Range
      <4> QED BY <1>5, <3>3, <4>1 DEF Recorded
    <3>5. r[1] = q BY <3>1 DEF Ref
    <3>6. d \in References
      <4>1. d \in UNION {Range(built[x].deps) : x \in DOMAIN built} BY <2>2, <3>4
      <4>2. UNION {Range(built[x].deps) : x \in DOMAIN built} \subseteq References
        BY DEF References
      <4> QED BY <4>1, <4>2
    <3>7. d[1] \in Ids => d[1] \in Deps(q) BY <1>3, <3>2, <3>4
    <3> QED BY <1>2, <2>1, <3>1, <3>5, <3>6, <3>7 DEF X, ClosedUnder
  <2>3. CASE r \notin DOMAIN built /\ r \in DOMAIN solution.external
    <3>1. Source(r).deps = solution.external[r] BY <2>3 DEF Source, External
    <3>2. d \in Range(solution.external[r])
      <4>1. Range(<<>>) = {} BY DEF Range
      <4> QED BY <1>5, <3>1, <4>1 DEF Recorded
    <3>3. d \in References
      <4>1. d \in UNION {Range(solution.external[x]) : x \in DOMAIN solution.external}
        BY <2>3, <3>2
      <4>2. UNION {Range(solution.external[x]) : x \in DOMAIN solution.external} \subseteq References
        BY DEF References
      <4> QED BY <4>1, <4>2
    <3>4. ASSUME d[1] \in Ids PROVE r[1] \in Ids /\ d[1] \in Deps(r[1])
      <4>1. /\ r[1] \in Ids /\ d[1] \in {b[1] : b \in Range(solution.binds[r[1]])}
        BY <2>3, <3>2, <3>4 DEF SelfContained, Ids, Projects
      <4>2. PICK b \in Range(solution.binds[r[1]]) : d[1] = b[1] BY <4>1
      <4> QED BY <1>3, <3>4, <4>1, <4>2
    <3> QED BY <1>2, <2>1, <3>3, <3>4 DEF X, ClosedUnder
  <2>4. CASE r \notin DOMAIN built /\ r \notin DOMAIN solution.external
    <3>1. Recorded(r) = <<>> BY <2>4 DEF Recorded, Source
    <3> QED BY <1>5, <3>1 DEF Range
  <2> QED BY <2>2, <2>3, <2>4
<1>6. X \in SUBSET References /\ \A q \in X : Range(Recorded(q)) \subseteq X BY <1>5
<1>7. ReferenceClosure(B) \subseteq X
  <2> HIDE DEF X, B
  <2> QED BY <1>4, <1>6 DEF ReferenceClosure
<1>8. Range(B) \subseteq ReferenceClosure(B)
  <2> HIDE DEF B
  <2> QED BY <1>1 DEF ReferenceClosure
<1> QED BY <1>7, <1>8

(* What compile-model makes of the bases resolve-bases found is fresh.       *)
LEMMA MadeFresh ==
    ASSUME BuildInv, FreshOK, SelfContained(solution), Ready(1)
    PROVE  LET p == Project
               made == {<<Ref(p), "built">>} \cup UNION {Source(r).made : r \in bases}
           IN  /\ \A q \in ToSet(order) : <<Ref(q), "external">> \notin made
               /\ \A q \in (Siblings(p) \ {p}) \cap ToSet(order) :
                     status[q] = "Built" /\ compiled[q].made \subseteq made
<1> DEFINE p == Project
           made == {<<Ref(p), "built">>} \cup UNION {Source(r).made : r \in bases}
<1>1. Undone /\ ~Stopped BY DEF Ready, BuildInv, StatusOK
<1>2. p \in Ids BY <1>1, CurrentIs
<1>3. bases = ReferenceClosure(solution.binds[p]) /\ \A r \in bases : Source(r) # None
  BY DEF FreshOK, ReadyOK
<1>4. /\ Range(solution.binds[p]) \subseteq bases
      /\ \A r \in bases : r[1] \in Ids => r[1] \in Closure(Deps(p))
  BY <1>2, <1>3, ReachIs
<1>5. \A q \in Closure(Deps(p)) \cap ToSet(order) : status[q] = "Built" BY <1>1, NeedsAreBuilt
<1>6. \A q \in Ids : status[q] = "Built" => Source(Ref(q)) = compiled[q]
  BY DEF FreshOK, BuiltOK, Source
<1>7. ToSet(order) \subseteq Ids
  <2>1. order \in Seq(Ids) BY DEF BuildInv, PlanOK
  <2> QED BY <2>1 DEF ToSet
<1> HIDE DEF p
<1>8. ASSUME NEW q \in ToSet(order), <<Ref(q), "external">> \in made PROVE FALSE
  <2>1. PICK r \in bases : <<Ref(q), "external">> \in Source(r).made BY <1>8
  <2>2. CASE r \in DOMAIN built
    <3>1. PICK x \in Ids : r = Ref(x) /\ status[x] = "Built" BY <2>2 DEF FreshOK, BuiltOK
    <3>2. Source(r) = compiled[x] /\ Fresh(x) BY <1>6, <3>1 DEF FreshOK, CompiledOK
    <3> QED BY <2>1, <3>2 DEF Fresh
  <2>3. CASE r \notin DOMAIN built
    <3>1. Source(r) = External(r) BY <1>3, <2>3 DEF Source
    <3>2. r = Ref(q) BY <2>1, <3>1 DEF External
    <3>3. r[1] = q BY <3>2 DEF Ref
    <3>4. status[q] = "Built" BY <1>4, <1>5, <1>7, <3>3
    <3> QED BY <1>7, <2>3, <3>2, <3>4 DEF FreshOK, BuiltOK
  <2> QED BY <2>2, <2>3
<1>9. ASSUME NEW q \in (Siblings(p) \ {p}) \cap ToSet(order)
      PROVE  status[q] = "Built" /\ compiled[q].made \subseteq made
  <2>1. q \in Closure(Deps(p)) /\ q \in Ids BY <1>2, SiblingIs
  <2>2. status[q] = "Built" BY <1>5, <2>1
  <2>3. Ref(q) \in bases
    <3>1. Ref(q) \in ToSet(solution.binds[p]) BY DEF Siblings
    <3> QED BY <1>4, <3>1 DEF ToSet, Range
  <2> QED BY <1>6, <2>1, <2>2, <2>3
<1> HIDE DEF made
<1>10. (\A q \in ToSet(order) : <<Ref(q), "external">> \notin made) BY <1>8
<1> QED BY <1>9, <1>10 DEF made, p


LEMMA FreshPlan == ASSUME BuildInv, FreshOK, Plan PROVE FreshOK'
<1>1. /\ phase = "planning" /\ phase' # "planning"
      /\ UNCHANGED <<solution, status, ran, built, sandbox, compiled>>
  BY DEF Plan
<1>2. Ids' = Ids /\ \A q : Ref(q)' = Ref(q) BY <1>1 DEF Ids, Projects, Ref
<1>3. sandbox = None /\ \A p \in Ids : status[p] = None /\ compiled[p] = None
  BY <1>1 DEF BuildInv, StatusOK, FreshOK, CompiledOK
<1>4. None # "Built" BY DEF BuildInv, PlanOK, Requested, BuildAssumption
<1>5. BuiltOK' BY <1>1, <1>2 DEF FreshOK, BuiltOK
<1>6. CompiledOK' BY <1>1, <1>2, <1>3, <1>4 DEF FreshOK, CompiledOK
<1>7. ReadyOK' BY <1>1, <1>3 DEF ReadyOK, Ready
<1> QED BY <1>5, <1>6, <1>7 DEF FreshOK

(* A project that settles otherwise than built, or a step that leaves the     *)
(* outcomes and the packages alone, leaves what is fresh.                   *)
LEMMA FreshRest ==
    ASSUME FreshOK, UNCHANGED <<solution, order, built, compiled>>, phase # "planning",
           phase' # "planning", DOMAIN status = Ids,
           \A q \in Ids : status'[q] = "Built" <=> status[q] = "Built"
    PROVE  BuiltOK' /\ CompiledOK'
<1>1. Ids' = Ids /\ \A q : Ref(q)' = Ref(q) BY DEF Ids, Projects, Ref
<1>2. BuiltOK' BY <1>1 DEF FreshOK, BuiltOK
<1>3. ASSUME NEW p \in Ids, compiled'[p] # None \/ status'[p] = "Built" PROVE Fresh(p)'
  <2>1. Fresh(p) BY <1>3 DEF FreshOK, CompiledOK
  <2> QED BY <2>1, FreshStays
<1> QED BY <1>1, <1>2, <1>3 DEF FreshOK, CompiledOK

(* Nor do the steps outside the pipeline.                                   *)
LEMMA FreshSettled ==
    ASSUME BuildInv, FreshOK, Skip \/ Unmet \/ Begin \/ StorageFails \/ Done PROVE FreshOK'
<1>1. /\ UNCHANGED <<solution, order, built, compiled>> /\ phase = "building"
      /\ phase' # "planning"
  BY DEF Skip, Unmet, Begin, StorageFails, Done, Building
<1>2. DOMAIN status = Ids /\ None # "Built"
  BY DEF BuildInv, StatusOK, PlanOK, Requested, BuildAssumption
<1>3. \A q \in Ids : status'[q] = "Built" <=> status[q] = "Built"
  <2>1. CASE Skip \/ Unmet
    <3>1. PICK x \in {"Skipped", "Failed"} : status' = [status EXCEPT ![Project] = x]
      BY <2>1 DEF Skip, Unmet
    <3>2. Undone BY <2>1 DEF Skip, Unmet, Building, Undone
    <3>3. Project \in Ids /\ status[Project] = None BY <3>2, CurrentIs
    <3> QED BY <1>2, <3>1, <3>3
  <2>2. CASE Begin \/ StorageFails \/ Done BY <2>2 DEF Begin, StorageFails, Done
  <2> QED BY <2>1, <2>2
<1>4. BuiltOK' /\ CompiledOK' BY <1>1, <1>2, <1>3, FreshRest
<1>5. ReadyOK'
  <2>1. CASE Skip \/ Unmet \/ Begin
    <3>1. \A n \in {1, 2, 6} : ~Ready(n)'
      <4>1. CASE Skip \/ Unmet
        <5>1. sandbox' = None
          BY <4>1 DEF Skip, Unmet, BuildInv, StatusOK
        <5> QED BY <5>1 DEF Ready
      <4>2. CASE Begin
        <5>1. Len(ran') = 0 BY <4>2 DEF Begin
        <5> QED BY <5>1 DEF Ready
      <4> QED BY <2>1, <4>1, <4>2
    <3> QED BY <3>1 DEF ReadyOK
  <2>2. CASE StorageFails \/ Done
    <3>1. UNCHANGED <<solution, order, status, ran, bases, built, sandbox, compiled>>
      BY <2>2 DEF StorageFails, Done
    <3>2. Current' = Current BY <3>1 DEF Current
    <3>3. Project' = Project BY <3>1, <3>2 DEF Project
    <3>4. /\ \A p : Fresh(p)' = Fresh(p)
          /\ \A r : Source(r)' = Source(r)
          /\ \A b : ReferenceClosure(b)' = ReferenceClosure(b)
          /\ \A n : Ready(n)' = Ready(n)
      BY <3>1 DEF Fresh, Source, External, ReferenceClosure, References, Recorded, Ready,
                  ActionFailed, Ids, Projects, Ref, Siblings
    <3> QED BY <3>1, <3>3, <3>4 DEF FreshOK, ReadyOK
  <2> QED BY <2>1, <2>2
<1> QED BY <1>4, <1>5 DEF FreshOK


LEMMA StageIs ==
    ASSUME NEW n \in 0..6
    PROVE  /\ AllStages[n + 1] = "resolve-bases" <=> n = 0
           /\ AllStages[n + 1] = "compile-model" <=> n = 1
           /\ AllStages[n + 1] = "emit-package-layout" <=> n = 5
<1>1. /\ AllStages[1] = "resolve-bases" /\ AllStages[2] = "compile-model"
      /\ AllStages[3] = "compile-mural" /\ AllStages[4] = "bake-resources"
      /\ AllStages[5] = "emit-bundle" /\ AllStages[6] = "emit-package-layout"
      /\ AllStages[7] = "publish-package"
  BY DEF AllStages
<1>2. n = 0 \/ n = 1 \/ n = 2 \/ n = 3 \/ n = 4 \/ n = 5 \/ n = 6 OBVIOUS
<1>3. n + 1 = 1 \/ n + 1 = 2 \/ n + 1 = 3 \/ n + 1 = 4 \/ n + 1 = 5 \/ n + 1 = 6 \/ n + 1 = 7
  BY <1>2
<1> QED BY <1>1, <1>2, <1>3

LEMMA DueIs ==
    ASSUME BuildInv, Actions = AllStages, NEW a, Due(a)
    PROVE  /\ Len(ran) \in 0..6 /\ AllStages[Len(ran) + 1] = a /\ Undone
           /\ phase = "building" /\ sandbox # None /\ ~ActionFailed
           /\ Succeeds => Len(ran') = Len(ran) + 1 /\ ~ActionFailed'
           /\ Fails => ActionFailed'
<1>1. ran \in Seq({"Succeeded", "Failed"}) BY DEF BuildInv, PipelineOK
<1>2. phase = "building" /\ sandbox # None /\ ~ActionFailed /\ Undone
  BY DEF Due, ActionsLeft, BuildInv, StatusOK
<1>3. Len(AllStages) = 7 BY DEF AllStages
<1>4. Len(ran) \in 0..6 /\ AllStages[Len(ran) + 1] = a
  <2>1. Len(ran) \in Nat /\ Len(ran) < 7 BY <1>1, <1>3 DEF Due, ActionsLeft
  <2>2. Len(ran) \in 0..6
    <3> DEFINE n == Len(ran)
    <3>1. n \in Nat /\ n < 7 BY <2>1
    <3> HIDE DEF n
    <3>2. n \in 0..6 BY <3>1
    <3> QED BY <3>2 DEF n
  <2>3. AllStages[Len(ran) + 1] = a BY DEF Due
  <2> QED BY <2>2, <2>3
<1>5. ASSUME NEW x \in {"Succeeded", "Failed"}, ran' = Append(ran, x)
      PROVE  Len(ran') = Len(ran) + 1 /\ ToSet(ran') = ToSet(ran) \cup {x}
  BY <1>1, <1>5, AppendIs
<1>6. Succeeds => Len(ran') = Len(ran) + 1 /\ ToSet(ran') = ToSet(ran) \cup {"Succeeded"}
  BY <1>5 DEF Succeeds
<1>7. Fails => "Failed" \in ToSet(ran') BY <1>5 DEF Fails
<1> QED BY <1>2, <1>4, <1>6, <1>7 DEF ActionFailed

\* what a run of an action leaves as it was
LEMMA RunSame ==
    ASSUME UNCHANGED Elsewhere
    PROVE  /\ Ids' = Ids /\ Project' = Project /\ (\A q : Ref(q)' = Ref(q))
           /\ (\A r : Source(r)' = Source(r))
           /\ (\A b : ReferenceClosure(b)' = ReferenceClosure(b))
           /\ UNCHANGED <<solution, phase, order, cycle, status, built, output>>
<1>1. UNCHANGED <<solution, phase, order, cycle, status, built, output>> BY DEF Elsewhere
<1>2. Ids' = Ids /\ \A q : Ref(q)' = Ref(q) BY <1>1 DEF Ids, Projects, Ref
<1>3. Current' = Current BY <1>1 DEF Current
<1>4. Project' = Project BY <1>1, <1>3 DEF Project
<1>5. /\ \A r : Source(r)' = Source(r)
      /\ \A b : ReferenceClosure(b)' = ReferenceClosure(b)
  BY <1>1 DEF Source, External, ReferenceClosure, References, Recorded, Ids, Projects
<1> QED BY <1>1, <1>2, <1>4, <1>5

LEMMA FreshFails ==
    ASSUME BuildInv, FreshOK, Actions = AllStages, NEW a, Due(a), Fails, UNCHANGED Elsewhere,
           UNCHANGED compiled
    PROVE  FreshOK'
<1>1. ActionFailed' /\ phase = "building" BY DueIs
<1>2. UNCHANGED <<solution, phase, order, cycle, status, built, output>> BY DEF Elsewhere
<1>3. DOMAIN status = Ids BY DEF BuildInv, StatusOK
<1>4. BuiltOK' /\ CompiledOK' BY <1>1, <1>2, <1>3, FreshRest
<1>5. ReadyOK' BY <1>1 DEF ReadyOK, Ready
<1> QED BY <1>4, <1>5 DEF FreshOK

LEMMA FreshResolve ==
    ASSUME BuildInv, FreshOK, Actions = AllStages, ResolveBases PROVE FreshOK'
<1>1. Due("resolve-bases") /\ UNCHANGED Elsewhere /\ UNCHANGED compiled BY DEF ResolveBases
<1>2. CASE Fails BY <1>1, <1>2, FreshFails
<1>3. CASE /\ Succeeds /\ bases' = ReferenceClosure(solution.binds[Project])
           /\ \A r \in ReferenceClosure(solution.binds[Project]) : Source(r) # None
  <2>1. Len(ran') = 1 /\ phase = "building"
    <3>1. Len(ran) \in 0..6 /\ AllStages[Len(ran) + 1] = "resolve-bases" /\ phase = "building"
          /\ Len(ran') = Len(ran) + 1
      BY <1>1, <1>3, DueIs
    <3>2. Len(ran) = 0 BY <3>1, StageIs
    <3> QED BY <3>1, <3>2
  <2>2. /\ Project' = Project /\ (\A r : Source(r)' = Source(r))
        /\ (\A b : ReferenceClosure(b)' = ReferenceClosure(b))
        /\ UNCHANGED <<solution, phase, order, cycle, status, built, output>>
    BY <1>1, RunSame
  <2>3. DOMAIN status = Ids BY DEF BuildInv, StatusOK
  <2>4. BuiltOK' /\ CompiledOK' BY <1>1, <2>1, <2>2, <2>3, FreshRest
  <2>5. ReadyOK' BY <1>3, <2>1, <2>2 DEF ReadyOK, Ready
  <2> QED BY <2>4, <2>5 DEF FreshOK
<1> QED BY <1>2, <1>3 DEF ResolveBases

LEMMA FreshCompile ==
    ASSUME BuildInv, FreshOK, SelfContained(solution), Actions = AllStages, CompileModel
    PROVE  FreshOK'
<1> DEFINE p == Project
           made == {<<Ref(p), "built">>} \cup UNION {Source(r).made : r \in bases}
<1>1. Due("compile-model") /\ UNCHANGED <<Elsewhere, bases, pushed, sandbox>>
  BY DEF CompileModel
<1>2. CASE Fails /\ UNCHANGED compiled BY <1>1, <1>2, FreshFails
<1>3. CASE /\ Succeeds
           /\ compiled' = [compiled EXCEPT ![p] = [deps |-> solution.binds[p], made |-> made]]
  <2>1. /\ Len(ran) \in 0..6 /\ AllStages[Len(ran) + 1] = "compile-model" /\ phase = "building"
        /\ Len(ran') = Len(ran) + 1 /\ ~ActionFailed' /\ ~ActionFailed /\ sandbox # None /\ Undone
    BY <1>1, <1>3, DueIs
  <2>2. Len(ran) = 1 /\ Len(ran') = 2
    <3>1. Len(ran) = 1 BY <2>1, StageIs
    <3> QED BY <2>1, <3>1
  <2>3. Ready(1) BY <2>1, <2>2 DEF Ready
  <2>4. /\ \A q \in ToSet(order) : <<Ref(q), "external">> \notin made
        /\ \A q \in (Siblings(p) \ {p}) \cap ToSet(order) :
              status[q] = "Built" /\ compiled[q].made \subseteq made
    BY <2>3, MadeFresh
  <2>5. p \in Ids /\ status[p] = None BY <2>1, CurrentIs
  <2>6. /\ Ids' = Ids /\ p' = p /\ (\A q : Ref(q)' = Ref(q))
        /\ (\A r : Source(r)' = Source(r))
        /\ (\A b : ReferenceClosure(b)' = ReferenceClosure(b))
        /\ UNCHANGED <<solution, phase, order, cycle, status, built, output>>
    BY <1>1, RunSame
  <2>7. <<Ref(p), "built">> \in made OBVIOUS
  <2> HIDE DEF p, made
  <2>8. /\ DOMAIN compiled' = Ids /\ compiled'[p] = [deps |-> solution.binds[p], made |-> made]
        /\ \A q \in Ids : q # p => compiled'[q] = compiled[q]
    BY <1>3, <2>5 DEF FreshOK, CompiledOK
  <2>9. compiled'[p].deps = solution.binds[p] /\ compiled'[p].made = made BY <2>8
  <2>10. /\ None # "Built"
         /\ \A q \in Ids : status[q] = "Built" => status'[q] = "Built" /\ compiled'[q] = compiled[q]
    <3>1. None # "Built" BY DEF BuildInv, PlanOK, Requested, BuildAssumption
    <3> QED BY <2>5, <2>6, <2>8, <3>1
  <2>11. Fresh(p)'
    <3>1. \A q : Siblings(q)' = Siblings(q) BY <2>6 DEF Siblings
    <3>2. \A q \in Siblings(p) : q \in Ids BY DEF Siblings
    <3> QED BY <2>4, <2>6, <2>7, <2>9, <2>10, <3>1, <3>2 DEF Fresh
  <2>12. BuiltOK' BY <2>6, <2>10 DEF FreshOK, BuiltOK
  <2>13. ASSUME NEW q \in Ids, compiled'[q] # None \/ status'[q] = "Built" PROVE Fresh(q)'
    <3>1. CASE q = p BY <2>6, <2>11, <3>1
    <3>2. CASE q # p
      <4>1. compiled'[q] = compiled[q] /\ status'[q] = status[q] BY <2>6, <2>8, <3>2
      <4>2. Fresh(q) BY <2>13, <4>1 DEF FreshOK, CompiledOK
      <4> QED BY <2>6, <2>10, <4>1, <4>2, FreshStays
    <3> QED BY <3>1, <3>2
  <2>14. CompiledOK' BY <2>1, <2>6, <2>8, <2>13 DEF CompiledOK
  <2>15. ReadyOK'
    <3>1. Project' = p /\ Project = p BY <2>6 DEF p
    <3>2. ~Ready(6)' BY <2>2 DEF Ready
    <3>3. bases' = bases BY <1>1
    <3> QED BY <2>3, <2>6, <2>11, <3>1, <3>2, <3>3 DEF ReadyOK, FreshOK
  <2> QED BY <2>12, <2>14, <2>15 DEF FreshOK
<1> QED BY <1>2, <1>3 DEF CompileModel


\* an action after those two, that stages the model when it is the one that does
LEMMA FreshLater ==
    ASSUME BuildInv, FreshOK, Actions = AllStages, NEW a, Due(a), Succeeds,
           a \notin {"resolve-bases", "compile-model"},
           UNCHANGED <<Elsewhere, bases, compiled>>, sandbox \subseteq sandbox',
           a = "emit-package-layout" => "model" \in sandbox'
    PROVE  FreshOK'
<1>1. /\ Len(ran) \in 0..6 /\ AllStages[Len(ran) + 1] = a /\ phase = "building"
      /\ Len(ran') = Len(ran) + 1 /\ ~ActionFailed' /\ ~ActionFailed /\ sandbox # None
  BY DueIs
<1>2. Len(ran) # 0 /\ Len(ran) # 1 /\ (Len(ran) = 5 => a = "emit-package-layout")
  BY <1>1, StageIs
<1>3. /\ Ids' = Ids /\ Project' = Project
      /\ (\A r : Source(r)' = Source(r))
      /\ (\A b : ReferenceClosure(b)' = ReferenceClosure(b))
      /\ UNCHANGED <<solution, phase, order, cycle, status, built, output>>
  BY RunSame
<1>4. DOMAIN status = Ids BY DEF BuildInv, StatusOK
<1>5. BuiltOK' /\ CompiledOK' BY <1>1, <1>3, <1>4, FreshRest
<1>6. Ready(1) /\ Ready(2) /\ (Len(ran) # 5 /\ Ready(6)' => Ready(6))
  <2> DEFINE n == Len(ran)
             m == Len(ran')
  <2>1. n \in 0..6 /\ m = n + 1 /\ n # 0 /\ n # 1 BY <1>1, <1>2
  <2>2. Ready(6)' => m >= 6 BY DEF Ready
  <2> HIDE DEF n, m
  <2>3. n >= 1 /\ n >= 2 /\ (n # 5 /\ m >= 6 => n >= 6) BY <2>1
  <2> QED BY <1>1, <2>2, <2>3 DEF n, Ready
<1>7. Fresh(Project)'
  <2>1. Fresh(Project) BY <1>6 DEF FreshOK, ReadyOK
  <2>2. \A p : Fresh(p)' = Fresh(p)
    <3>1. \A q : Ref(q)' = Ref(q) /\ Siblings(q)' = Siblings(q)
      BY <1>3 DEF Ref, Siblings, Ids, Projects
    <3> QED BY <1>3, <3>1 DEF Fresh
  <2> QED BY <1>3, <2>1, <2>2
<1>8. ReadyOK'
  <2>1. Ready(6)' => "model" \in sandbox' BY <1>2, <1>6 DEF FreshOK, ReadyOK
  <2> QED BY <1>3, <1>6, <1>7, <2>1 DEF FreshOK, ReadyOK
<1> QED BY <1>5, <1>8 DEF FreshOK

LEMMA FreshExecute ==
    ASSUME BuildInv, FreshOK, SelfContained(solution), Actions = AllStages, Execute
    PROVE  FreshOK'
<1>1. ASSUME NEW a, NEW file, Stages(a, file), a \notin {"resolve-bases", "compile-model"},
             a = "emit-package-layout" => file = "model"
      PROVE  FreshOK'
  <2>1. Due(a) /\ UNCHANGED <<Elsewhere, bases, compiled>> BY <1>1 DEF Stages
  <2>2. CASE Fails BY <2>1, <2>2, FreshFails
  <2>3. CASE Succeeds /\ sandbox' = sandbox \cup {file}
    <3>1. sandbox \subseteq sandbox' /\ (a = "emit-package-layout" => "model" \in sandbox')
      BY <1>1, <2>3
    <3> QED BY <1>1, <2>1, <2>3, <3>1, FreshLater
  <2> QED BY <1>1, <2>2, <2>3 DEF Stages
<1>2. CASE CompileMural
  <2>1. "compile-mural" \notin {"resolve-bases", "compile-model", "emit-package-layout"} OBVIOUS
  <2> QED BY <1>1, <1>2, <2>1 DEF CompileMural
<1>3. CASE BakeResources
  <2>1. "bake-resources" \notin {"resolve-bases", "compile-model", "emit-package-layout"} OBVIOUS
  <2> QED BY <1>1, <1>3, <2>1 DEF BakeResources
<1>4. CASE EmitBundle
  <2>1. "emit-bundle" \notin {"resolve-bases", "compile-model", "emit-package-layout"} OBVIOUS
  <2> QED BY <1>1, <1>4, <2>1 DEF EmitBundle
<1>5. CASE EmitPackageLayout
  <2>1. "emit-package-layout" \notin {"resolve-bases", "compile-model"} OBVIOUS
  <2> QED BY <1>1, <1>5, <2>1 DEF EmitPackageLayout
<1>6. CASE PublishPackage
  <2> DEFINE a == "publish-package"
  <2>1. a \notin {"resolve-bases", "compile-model", "emit-package-layout"} OBVIOUS
  <2>2. Due(a) /\ UNCHANGED <<Elsewhere, bases, sandbox, compiled>> /\ (Succeeds \/ Fails)
    BY <1>6 DEF PublishPackage
  <2> HIDE DEF a
  <2>3. CASE Fails BY <2>2, <2>3, FreshFails
  <2>4. CASE Succeeds BY <2>1, <2>2, <2>4, FreshLater
  <2> QED BY <2>2, <2>3, <2>4
<1> QED BY <1>2, <1>3, <1>4, <1>5, <1>6, FreshResolve, FreshCompile DEF Execute

LEMMA FreshFinish ==
    ASSUME BuildInv, FreshOK, Actions = AllStages, Finish PROVE FreshOK'
<1> DEFINE p == Project
           ok == ~ActionFailed
<1>1. phase = "building" /\ sandbox # None /\ ~ActionsLeft BY DEF Finish
<1>2. Undone BY <1>1 DEF BuildInv, StatusOK
<1>3. p \in Ids /\ status[p] = None BY <1>2, CurrentIs
<1>4. ok => Ready(2) /\ Ready(6)
  <2>1. Len(AllStages) = 7 BY DEF AllStages
  <2>2. Len(ran) \in Nat BY DEF BuildInv, PipelineOK
  <2> QED BY <1>1, <2>1, <2>2 DEF ActionsLeft, Ready
<1>5. ok => Fresh(p) /\ "model" \in sandbox BY <1>4 DEF FreshOK, ReadyOK
<1>6. /\ output' = [output EXCEPT ![p] = @ \cup {"report"} \cup Promoted(ok)]
      /\ status' = [status EXCEPT ![p] = IF ok THEN "Built" ELSE "Failed"]
      /\ built' = IF ok /\ "model" \in output'[p]
                  THEN [r \in DOMAIN built \cup {Ref(p)} |->
                          IF r = Ref(p) THEN compiled[p] ELSE built[r]]
                  ELSE built
      /\ UNCHANGED <<solution, phase, order, cycle, compiled>> /\ sandbox' = None
  BY DEF Finish
<1> HIDE DEF p, ok
<1>7. ok => "model" \in output'[p] BY <1>3, <1>5, <1>6 DEF BuildInv, OutputOK, Promoted
<1>8. /\ DOMAIN status = Ids /\ None # "Built"
      /\ Ids' = Ids /\ \A q : Ref(q)' = Ref(q)
  BY <1>6 DEF BuildInv, StatusOK, PlanOK, Requested, BuildAssumption, Ids, Projects, Ref
<1>9. \A q \in Ids : status'[q] = "Built" <=> status[q] = "Built" \/ (q = p /\ ok)
  BY <1>3, <1>6, <1>8
<1>10. \A q \in Ids : Ref(q) = Ref(p) => q = p BY DEF Ref
<1>11. BuiltOK'
  <2>1. CASE ok
    <3>1. /\ DOMAIN built' = DOMAIN built \cup {Ref(p)} /\ built'[Ref(p)] = compiled[p]
          /\ \A r \in DOMAIN built : r # Ref(p) => built'[r] = built[r]
      BY <1>6, <1>7, <2>1
    <3>2. \A r \in DOMAIN built' : \E q \in Ids : r = Ref(q) /\ status'[q] = "Built"
      BY <1>3, <1>9, <2>1, <3>1 DEF FreshOK, BuiltOK
    <3>3. ASSUME NEW q \in Ids, status'[q] = "Built"
          PROVE  Ref(q) \in DOMAIN built' /\ built'[Ref(q)] = compiled[q]
      <4>1. CASE q = p BY <3>1, <4>1
      <4>2. CASE q # p
        <5>1. status[q] = "Built" /\ Ref(q) # Ref(p) BY <1>9, <1>10, <3>3, <4>2
        <5> QED BY <3>1, <5>1 DEF FreshOK, BuiltOK
      <4> QED BY <4>1, <4>2
    <3> QED BY <1>6, <1>8, <3>2, <3>3 DEF BuiltOK
  <2>2. CASE ~ok BY <1>6, <1>8, <1>9, <2>2 DEF FreshOK, BuiltOK
  <2> QED BY <2>1, <2>2
<1>12. ASSUME NEW q \in Ids, compiled'[q] # None \/ status'[q] = "Built" PROVE Fresh(q)'
  <2>1. Fresh(q) BY <1>5, <1>6, <1>9, <1>12 DEF FreshOK, CompiledOK
  <2> QED BY <1>6, <1>9, <2>1, FreshStays
<1>13. CompiledOK' BY <1>1, <1>6, <1>8, <1>12 DEF FreshOK, CompiledOK
<1>14. ReadyOK' BY <1>6 DEF ReadyOK, Ready
<1> QED BY <1>11, <1>13, <1>14 DEF FreshOK

LEMMA FreshStep ==
    ASSUME BuildInv, FreshOK, SelfContained(solution), Actions = AllStages, Next PROVE FreshOK'
  BY FreshPlan, FreshSettled, FreshExecute, FreshFinish DEF Next

LEMMA FreshStutter == ASSUME FreshOK, UNCHANGED vars PROVE FreshOK'
<1>1. UNCHANGED <<solution, order, phase, status, ran, bases, built, sandbox, compiled>>
  BY DEF vars
<1>2. Ids' = Ids /\ \A q : Ref(q)' = Ref(q) /\ Siblings(q)' = Siblings(q)
  BY <1>1 DEF Ids, Projects, Ref, Siblings
<1>3. Current' = Current BY <1>1 DEF Current
<1>4. Project' = Project BY <1>1, <1>3 DEF Project
<1>5. (\A p : Fresh(p)' = Fresh(p)) /\ \A n : Ready(n)' = Ready(n)
  BY <1>1, <1>2 DEF Fresh, Ready, ActionFailed
<1>6. /\ \A r : Source(r)' = Source(r)
      /\ \A b : ReferenceClosure(b)' = ReferenceClosure(b)
  BY <1>1 DEF Source, External, ReferenceClosure, References, Recorded, Ids, Projects
<1>7. BuiltOK' /\ CompiledOK' BY <1>1, <1>2, <1>5 DEF FreshOK, BuiltOK, CompiledOK
<1>8. ReadyOK' BY <1>1, <1>4, <1>5, <1>6 DEF FreshOK, ReadyOK
<1> QED BY <1>7, <1>8 DEF FreshOK

LEMMA FreshCompiled == ASSUME FreshOK PROVE CompiledAgainstFresh
<1> SUFFICES ASSUME NEW p \in Ids, compiled[p] # None,
                    NEW q \in (Siblings(p) \ {p}) \cap ToSet(order)
             PROVE  /\ <<Ref(q), "built">> \in compiled[p].made
                    /\ <<Ref(q), "external">> \notin compiled[p].made
                    /\ compiled[q].made \subseteq compiled[p].made
  BY DEF CompiledAgainstFresh
<1>1. Fresh(p) BY DEF FreshOK, CompiledOK
<1>2. q \in Ids /\ status[q] = "Built" BY <1>1 DEF Fresh, Siblings
<1>3. Fresh(q) BY <1>2 DEF FreshOK, CompiledOK
<1> QED BY <1>1, <1>3 DEF Fresh


(***************************************************************************)
(* The theorems of the build.                                               *)
(***************************************************************************)

LEMMA BuildAlways == ASSUME BuildAssumption PROVE Spec => []BuildInv
<1>1. Init => BuildInv BY BuildStart
<1>2. BuildInv /\ [Next]_vars => BuildInv' BY BuildStep, BuildStutter
<1> QED BY <1>1, <1>2, PTL DEF Spec

(* A build refuses a cycle of dependencies exactly when there is one, builds  *)
(* a target with all it needs and nothing else, stops at the first failure    *)
(* and publishes nothing on what failed or was not built, and leaves the      *)
(* output of what failed as it was: for every solution and every pipeline     *)
(* (solution-build-manager.ts, solution-dependency-graph.ts,                  *)
(* project-build-manager.ts).                                               *)
THEOREM BuildsInOrder ==
    ASSUME BuildAssumption
    PROVE  Spec => [](TypeOK /\ OrderSound /\ FailureStops /\ PromotedOnSuccess)
<1>1. BuildInv => TypeOK /\ OrderSound /\ FailureStops /\ PromotedOnSuccess
  BY BuildTyped, BuildOrdered, BuildStops, BuildPromotes
<1> QED BY <1>1, BuildAlways, PTL

(* Where nothing outside a solution leads back into it but through the copies *)
(* of its projects, a project is compiled against this build's packages of    *)
(* the siblings it binds, and what those were compiled against, never against *)
(* the copy an external source still has (resolve-bases-action.ts,            *)
(* compile-model-action.ts, composite-package-source.ts).                   *)
THEOREM CompilesAgainstFresh ==
    ASSUME BuildAssumption, Actions = AllStages, \A s \in Solutions : SelfContained(s)
    PROVE  Spec => []CompiledAgainstFresh
<1> DEFINE Sound == FreshOK /\ SelfContained(solution)
<1>1. Init => Sound BY FreshStart DEF Init
<1>2. BuildInv /\ Sound /\ [Next]_vars => Sound'
  <2> SUFFICES ASSUME BuildInv, FreshOK, SelfContained(solution), [Next]_vars PROVE Sound'
    OBVIOUS
  <2>1. FreshOK' BY FreshStep, FreshStutter
  <2>2. UNCHANGED solution
    BY DEF Next, Plan, Skip, Unmet, Begin, Execute, ResolveBases, CompileModel, CompileMural,
           BakeResources, EmitBundle, EmitPackageLayout, PublishPackage, Stages, Elsewhere,
           Finish, StorageFails, Done, vars
  <2>3. SelfContained(solution)' BY <2>2 DEF SelfContained
  <2> QED BY <2>1, <2>3
<1>3. Sound => CompiledAgainstFresh BY FreshCompiled
<1> HIDE DEF Sound
<1> QED BY <1>1, <1>2, <1>3, BuildAlways, PTL DEF Spec
=============================================================================
