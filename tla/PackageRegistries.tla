------------------------- MODULE PackageRegistries --------------------------
(* solution-services/package-manager: the connections of the package        *)
(* manager service with their secrets and cached clients, the two npm        *)
(* backends behind them (an HTTP registry and a local directory), and the    *)
(* resolution of a published dependency closure.                            *)
(*                                                                         *)
(* A package is [name, version, id, kind, deps]; its tarball, its packument  *)
(* entry and its manifest all carry that record.  A version is a tuple of    *)
(* numbers.                                                                *)
EXTENDS Naturals, Sequences, FiniteSets, SequencesExt

CONSTANTS
    Order,          \* connection ids in the order the store lists them
    Backend,        \* id -> "http" or "local"
    Tokens,         \* secrets a user may type
    EnvToken,       \* what the environment variable holds
    Packages,       \* packages that may be published
    RootSets,       \* sets of names a closure is asked for
    LexRank,        \* version -> its rank in string order
    MaxEdits,       \* bound on changes of connections
    MaxRevision,    \* bound on revisions of a connection's settings
    MaxPublishes,   \* bound on publications and deletions
    Overlaps        \* "build": a client is built while its connection changes

VARIABLES
    specs,      \* id -> [rev, source] of a saved connection
    secrets,    \* id -> stored token
    default,    \* the default connection's id, or "" for none
    clients,    \* id -> [rev, token] a cached client was built from
    edits,      \* changes of a connection under way
    builds,     \* RegistryFor calls under way
    shelf,      \* id -> set of complete and half-written versions
    tags,       \* id -> name -> version `latest` points to (HTTP)
    local,      \* compiled, unpublished packages (LocalPackageStore)
    torn,       \* history: connections a failed change left half done
    uploads,    \* publications to a local directory under way
    edited, published

(* Settings have a first revision.                                           *)
RegistriesAssumption == MaxRevision \in Nat \ {0}

connectionVars == <<specs, secrets, default, clients, edits, builds, edited, torn>>
shelfVars == <<shelf, tags, local, uploads, published>>

Listed == ToSet(Order)
Names == {p.name : p \in Packages}
Without(f, x) == [y \in DOMAIN f \ {x} |-> f[y]]
Having(f, x, v) == [y \in DOMAIN f \cup {x} |-> IF y = x THEN v ELSE f[y]]

(***************************************************************************)
(* package-manager-service.ts: connections.                                *)
(***************************************************************************)

(* Empty when neither the store nor the environment has a token. *)
ResolveSecret(id, spec) ==
    IF spec.source = "env" THEN EnvToken
    ELSE IF id \in DOMAIN secrets THEN secrets[id] ELSE ""

(* One change at a time per connection, and none while its client is built. *)
Free(id) ==
    /\ \A e \in edits : e.id # id
    /\ "build" \in Overlaps \/ \A b \in builds : b.id # id

Start(e) ==
    /\ edited < MaxEdits /\ edited' = edited + 1
    /\ Free(e.id)
    /\ edits' = edits \cup {e}
    /\ UNCHANGED <<specs, secrets, default, clients, builds, torn, shelfVars>>

Edit(kind, id, steps, spec, token) ==
    [kind |-> kind, id |-> id, steps |-> steps, spec |-> spec, token |-> token]

NextRev(id) == IF id \in DOMAIN specs THEN specs[id].rev + 1 ELSE 1

(* Save the spec, then the secret when one was given, then drop the client. *)
AddConnection(id, source, token) ==
    /\ NextRev(id) <= MaxRevision
    /\ Start(Edit("add", id, IF token = "" THEN <<"save", "drop">>
                             ELSE <<"save", "secret", "drop">>,
                  [rev |-> NextRev(id), source |-> source], token))

(* Mutant: the cached client stays until the next start. *)
UpdateKeepsClient(id, source) ==
    /\ NextRev(id) <= MaxRevision
    /\ Start(Edit("update", id, <<"read", "save">>,
                  [rev |-> NextRev(id), source |-> source], ""))

UpdateConnection(id, source) ==
    /\ NextRev(id) <= MaxRevision
    /\ Start(Edit("update", id, <<"read", "save", "drop">>,
                  [rev |-> NextRev(id), source |-> source], ""))

(* Store the secret first, then update the connection, which may not exist. *)
SetToken(id, token) ==
    Start(Edit("token", id, <<"secret", "read", "save", "drop">>,
               [rev |-> IF id \in DOMAIN specs THEN specs[id].rev ELSE 1,
                source |-> "stored"], token))

UseEnvToken(id) ==
    Start(Edit("env", id, <<"read", "save", "drop">>,
               [rev |-> IF id \in DOMAIN specs THEN specs[id].rev ELSE 1,
                source |-> "env"], ""))

RemoveConnection(id) ==
    Start(Edit("remove", id, <<"delete", "forget", "drop">>, [rev |-> 0, source |-> ""], ""))

SetDefault(id) ==
    /\ default' = id /\ id \in DOMAIN specs /\ default # id
    /\ UNCHANGED <<specs, secrets, clients, edits, builds, edited, torn, shelfVars>>

Advance(e) == edits' = (edits \ {e}) \cup
    (IF Len(e.steps) = 1 THEN {} ELSE {[e EXCEPT !.steps = Tail(@)]})

(* One await of a change; reading an unknown connection ends it. *)
StepEdit(e) ==
    /\ LET step == Head(e.steps)
       IN  /\ IF step = "read" /\ e.id \notin DOMAIN specs
              THEN edits' = edits \ {e} ELSE Advance(e)
           /\ specs' = IF step = "save" THEN Having(specs, e.id, e.spec)
                       ELSE IF step = "delete" THEN Without(specs, e.id) ELSE specs
           /\ secrets' = IF step = "secret" THEN Having(secrets, e.id, e.token)
                         ELSE IF step = "forget" THEN Without(secrets, e.id) ELSE secrets
           /\ clients' = IF step = "drop" THEN Without(clients, e.id) ELSE clients
           /\ torn' = IF step = "drop" THEN torn \ {e.id} ELSE torn
    /\ UNCHANGED <<default, builds, edited, shelfVars>>

(* A store that refuses ends the change where it is. *)
EditFails(e) ==
    /\ Head(e.steps) # "drop"
    /\ edits' = edits \ {e} /\ torn' = torn \cup {e.id}
    /\ UNCHANGED <<specs, secrets, default, clients, builds, edited, shelfVars>>

(* RegistryFor: the cached client, or one built from the spec and then the    *)
(* secret; without an id the default connection's.                          *)
RegistryFor(id) ==
    /\ id \in Listed \cup {default} /\ id # "" /\ id \notin DOMAIN clients
    /\ "build" \in Overlaps \/ \A e \in edits : e.id # id
    /\ builds' = builds \cup {[id |-> id, read |-> FALSE, spec |-> [rev |-> 0, source |-> ""]]}
    /\ UNCHANGED <<specs, secrets, default, clients, edits, edited, torn, shelfVars>>

ReadSpec(b) ==
    /\ ~b.read
    /\ builds' = (builds \ {b}) \cup
          (IF b.id \in DOMAIN specs THEN {[b EXCEPT !.read = TRUE, !.spec = specs[b.id]]}
           ELSE {})
    /\ UNCHANGED <<specs, secrets, default, clients, edits, edited, torn, shelfVars>>

CacheClient(b) ==
    /\ b.read /\ builds' = builds \ {b}
    /\ clients' = Having(clients, b.id,
                         [rev |-> b.spec.rev, token |-> ResolveSecret(b.id, b.spec)])
    /\ UNCHANGED <<specs, secrets, default, edits, edited, torn, shelfVars>>

(***************************************************************************)
(* The backends.  `shelf` holds [pkg, tarball, manifest] per version; the    *)
(* HTTP registry writes both at once.                                       *)
(***************************************************************************)

VersionsOn(id, name) == {s.pkg.version : s \in {x \in shelf[id] : x.pkg.name = name}}

At(id, name, version) ==
    {s \in shelf[id] : s.pkg.name = name /\ s.pkg.version = version}

(* compareVersions: dotted numbers, a missing one is 0. *)
Part(v, i) == IF i <= Len(v) THEN v[i] ELSE 0
Newer(a, b) ==
    \E i \in 1..Len(a) : /\ Part(a, i) > Part(b, i)
                         /\ \A j \in 1..(i - 1) : Part(a, j) = Part(b, j)
Newest(versions) == CHOOSE v \in versions : \A w \in versions : ~Newer(w, v)

LatestOn(id, name) ==
    IF Backend[id] = "http" THEN tags[id][name] ELSE Newest(VersionsOn(id, name))

HasLatest(id, name) ==
    IF Backend[id] = "http" THEN name \in DOMAIN tags[id] ELSE VersionsOn(id, name) # {}

(* getContent / GetContent of one backend: {} when it throws. *)
ContentOn(id, name, version) ==
    IF version = <<>> /\ ~HasLatest(id, name) THEN {}
    ELSE {s.pkg : s \in {x \in At(id, name, IF version = <<>> THEN LatestOn(id, name)
                                            ELSE version) : x.tarball}}

(* Publishing to the HTTP registry points `latest` at the version published. *)
PublishHttp(id, pkg) ==
    /\ id \in DOMAIN clients /\ Backend[id] = "http" /\ published < MaxPublishes
    /\ published' = published + 1
    /\ At(id, pkg.name, pkg.version) = {}
    /\ shelf' = [shelf EXCEPT ![id] = @ \cup {[pkg |-> pkg, tarball |-> TRUE, manifest |-> TRUE]}]
    /\ tags' = [tags EXCEPT ![id] = Having(@, pkg.name, pkg.version)]
    /\ UNCHANGED <<local, uploads, connectionVars>>

(* Mutant: a local directory gets the manifest before the tarball.          *)
PublishManifestFirst(id, pkg) ==
    /\ id \in DOMAIN clients /\ Backend[id] = "local" /\ published < MaxPublishes
    /\ published' = published + 1
    /\ \A u \in uploads : u.id # id
    /\ uploads' = uploads \cup {[id |-> id, pkg |-> pkg, steps |-> <<"manifest", "tarball">>]}
    /\ UNCHANGED <<shelf, tags, local, connectionVars>>

(* A local directory gets the tarball, then the manifest, then the payload.  *)
PublishLocal(id, pkg) ==
    /\ id \in DOMAIN clients /\ Backend[id] = "local" /\ published < MaxPublishes
    /\ published' = published + 1
    /\ \A u \in uploads : u.id # id
    /\ uploads' = uploads \cup {[id |-> id, pkg |-> pkg, steps |-> <<"tarball", "manifest">>]}
    /\ UNCHANGED <<shelf, tags, local, connectionVars>>

Upload(u) ==
    LET old == At(u.id, u.pkg.name, u.pkg.version)
        base == IF old = {} THEN [pkg |-> u.pkg, tarball |-> FALSE, manifest |-> FALSE]
                ELSE CHOOSE s \in old : TRUE
        entry == IF Head(u.steps) = "tarball" THEN [base EXCEPT !.pkg = u.pkg, !.tarball = TRUE]
                 ELSE [base EXCEPT !.manifest = TRUE]
    IN  /\ shelf' = [shelf EXCEPT ![u.id] = (@ \ old) \cup {entry}]
        /\ uploads' = (uploads \ {u}) \cup
             (IF Len(u.steps) = 1 THEN {} ELSE {[u EXCEPT !.steps = Tail(@)]})
        /\ UNCHANGED <<tags, local, published, connectionVars>>

(* The process stops, or the storage refuses, between two writes. *)
UploadStops(u) ==
    /\ uploads' = uploads \ {u}
    /\ UNCHANGED <<shelf, tags, local, published, connectionVars>>

DeleteVersion(id, name, version) ==
    /\ id \in DOMAIN clients /\ published < MaxPublishes /\ published' = published + 1
    /\ At(id, name, version) # {} /\ \A u \in uploads : u.id # id
    /\ shelf' = [shelf EXCEPT ![id] = @ \ At(id, name, version)]
    /\ tags' = IF Backend[id] = "http" /\ name \in DOMAIN tags[id] /\ tags[id][name] = version
               THEN [tags EXCEPT ![id] = Without(@, name)] ELSE tags
    /\ UNCHANGED <<local, uploads, connectionVars>>

(* local-package-store.ts register *)
RegisterLocal(pkg) ==
    /\ pkg.kind # "npm"
    /\ published < MaxPublishes /\ published' = published + 1
    /\ local' = {p \in local : p.id # pkg.id \/ p.version # pkg.version} \cup {pkg}
    /\ UNCHANGED <<shelf, tags, uploads, connectionVars>>

(***************************************************************************)
(* Reads of the service and of a client over it.                           *)
(***************************************************************************)

Saved == SelectSeq(Order, LAMBDA id : id \in DOMAIN specs)

ListVersions(name) == UNION {VersionsOn(id, name) : id \in DOMAIN specs}

(* The content of the first connection that has it. *)
GetContent(name, version) ==
    LET having == {k \in DOMAIN Saved : ContentOn(Saved[k], name, version) # {}}
    IN  IF having = {} THEN {}
        ELSE ContentOn(Saved[CHOOSE k \in having : \A j \in having : k <= j], name, version)

(* resolvedVersions, and resolveResolved: the last version in string order,   *)
(* the local store first.                                                   *)
ResolvedVersions(id, model) ==
    VersionsOn(id, model) \cup {p.version : p \in {q \in local : q.id = model}}
Resolved(id, model) ==
    LET versions == ResolvedVersions(id, model)
        version == CHOOSE v \in versions : \A w \in versions : LexRank[w] <= LexRank[v]
        mine == {p \in local : p.id = model /\ p.version = version}
    IN  IF versions = {} THEN {} ELSE IF mine # {} THEN mine
        ELSE ContentOn(id, model, version)

(* resolveClosure of the client: the latest content of every name reached.   *)
Fetched(id, roots) ==
    LET content(name) == {p \in ContentOn(id, name, <<>>) : p.kind # "npm"}
        reach[n \in 0..Cardinality(Names)] ==
            IF n = 0 THEN roots
            ELSE reach[n-1] \cup UNION {p.deps : p \in UNION {content(m) : m \in reach[n-1]}}
    IN  UNION {content(m) : m \in reach[Cardinality(Names)]}

DependsOn(pkgs, a, b) == b.name \in a.deps /\ b \in pkgs
Cyclic(pkgs) ==
    LET step(S) == {b \in pkgs : \E a \in S : DependsOn(pkgs, a, b)}
        after[n \in 1..Cardinality(pkgs), p \in pkgs] ==
            IF n = 1 THEN step({p}) ELSE after[n-1, p] \cup step(after[n-1, p])
    IN  pkgs # {} /\ \E p \in pkgs : p \in after[Cardinality(pkgs), p]
Clashing(pkgs) == \E a, b \in pkgs : a # b /\ a.id = b.id

(* resolve.ts: a post-order walk from the roots, each package once; an id     *)
(* claimed twice and a cycle are refused.                                   *)
ResolveClosure(pkgs, roots) ==
    LET named(n) == CHOOSE p \in pkgs : p.name = n
        known(S) == SetToSeq({n \in S : \E p \in pkgs : p.name = n})
        walk[fuel \in 0..Cardinality(pkgs)] ==
            [n \in {p.name : p \in pkgs} |->
                IF fuel = 0 THEN <<named(n)>>
                ELSE FlattenSeq([k \in 1..Len(known(named(n).deps)) |->
                                    walk[fuel - 1][known(named(n).deps)[k]]])
                       \o <<named(n)>>]
        all == FlattenSeq([k \in 1..Len(known(roots)) |->
                               walk[Cardinality(pkgs)][known(roots)[k]]])
        first == {k \in DOMAIN all : \A j \in 1..(k - 1) : all[j] # all[k]}
    IN  IF Clashing(pkgs) \/ Cyclic(pkgs) THEN <<>>
        ELSE [i \in 1..Cardinality(first) |->
                 all[CHOOSE k \in first : Cardinality({j \in first : j <= k}) = i]]

(* Either the connections change and nothing is published, or every          *)
(* connection is saved, has its client and stays.                           *)
RegistriesInit ==
    /\ secrets = <<>> /\ default = "" /\ torn = {}
    /\ edits = {} /\ builds = {} /\ uploads = {} /\ local = {}
    /\ shelf = [id \in Listed |-> {}] /\ tags = [id \in Listed |-> <<>>]
    /\ \/ specs = <<>> /\ clients = <<>> /\ edited = 0 /\ published = MaxPublishes
       \/ /\ specs = [id \in Listed |-> [rev |-> 1, source |-> "stored"]]
          /\ clients = [id \in Listed |-> [rev |-> 1, token |-> ""]]
          /\ edited = MaxEdits /\ published = 0

RegistriesNext ==
    \/ \E id \in Listed : \/ \E source \in {"stored", "env"} :
                              \/ \E token \in Tokens \cup {""} : AddConnection(id, source, token)
                              \/ UpdateConnection(id, source)
                       \/ \E token \in Tokens : SetToken(id, token)
                       \/ UseEnvToken(id) \/ RemoveConnection(id) \/ SetDefault(id)
    \/ \E id \in Listed \cup {default} : RegistryFor(id)
    \/ \E e \in edits : StepEdit(e) \/ EditFails(e)
    \/ \E b \in builds : ReadSpec(b) \/ CacheClient(b)
    \/ \E id \in Listed, pkg \in Packages : PublishHttp(id, pkg) \/ PublishLocal(id, pkg)
    \/ \E u \in uploads : Upload(u) \/ UploadStops(u)
    \/ \E id \in Listed, pkg \in Packages : DeleteVersion(id, pkg.name, pkg.version)
    \/ \E pkg \in Packages : RegisterLocal(pkg)

RegistriesSpec ==
    RegistriesInit /\ [][RegistriesNext]_<<connectionVars, shelfVars>>

(***************************************************************************)
(* Properties.                                                             *)
(***************************************************************************)

RegistriesTypeOK ==
    /\ DOMAIN specs \subseteq Listed /\ DOMAIN secrets \subseteq Listed
    /\ DOMAIN clients \subseteq Listed \cup {""}
    /\ \A id \in DOMAIN clients : clients[id].rev \in 1..MaxRevision
    /\ \A id \in Listed : \A s \in shelf[id] : s.pkg \in Packages

(* A cached client was built from the connection's settings and secret as    *)
(* they are: no change of a connection that went through leaves a client     *)
(* with an old registry or an old token behind.                             *)
CacheCurrent ==
    \A id \in DOMAIN clients :
        (\A e \in edits : e.id # id) /\ id \notin torn =>
            /\ id \in DOMAIN specs
            /\ clients[id] = [rev |-> specs[id].rev, token |-> ResolveSecret(id, specs[id])]

(* Every version a registry lists, also one whose publication was cut short, *)
(* can be fetched through the service from one of the connections; and a     *)
(* model of which a client knows any version, compiled here or published,    *)
(* resolves without naming one.                                             *)
ListedCanBeFetched ==
    /\ \A name \in Names : \A v \in ListVersions(name) :
          \E p \in GetContent(name, v) : p.name = name /\ p.version = v
    /\ \A id \in Listed, name \in Names :
          ResolvedVersions(id, name) # {} => \E p \in Resolved(id, name) : p.name = name

(* A resolved closure holds each fetched package once, and every package     *)
(* after those it depends on.                                               *)
ClosureSound ==
    \A id \in Listed, roots \in RootSets :
        LET pkgs == Fetched(id, roots)
            closure == ResolveClosure(pkgs, roots)
        IN  closure # <<>> =>
              /\ ToSet(closure) = pkgs /\ Len(closure) = Cardinality(pkgs)
              /\ \A i, j \in DOMAIN closure : DependsOn(pkgs, closure[i], closure[j]) => j < i
=============================================================================
