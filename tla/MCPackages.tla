----------------------------- MODULE MCPackages ------------------------------
(* Packages, one part at a time: a behaviour composes published packages into *)
(* a domain, or resolves bases against the members of a solution, or builds a *)
(* solution, or manages registries and publishes, or packs an archive.       *)
EXTENDS Domain, TLC

CONSTANTS
    Subjects,
    app, solo, left, right, base1, base2, mApp, mLeft, mRight, mBase, host, c1, c2,
    m1, m2, m3, m4, lib, t1, t2,
    MaxEdits, MaxChanges, MaxRevision, MaxPublishes,
    NameLength, PrefixLength, SizeLength, Block

VARIABLES
    subject,
    open, binds, version, broken, store, cache, baseIdsOf, resolving, task,
    notices, baseEdits, overlapping,
    solution, phase, plan, cycle, status, ran, bases, built, pushed, sandbox,
    output, compiled,
    specs, secrets, default, clients, edits, builds, shelf, tags, local,
    uploads, edited, published, torn,
    archive

resolverVars == <<open, binds, version, broken, store, cache, baseIdsOf, resolving,
                  task, notices, baseEdits, overlapping>>
buildVars == <<solution, phase, plan, cycle, status, ran, bases, built, pushed,
               sandbox, output, compiled>>
serviceVars == <<specs, secrets, default, clients, edits, builds, shelf, tags, local,
                 uploads, edited, published, torn>>

(***************************************************************************)
(* Published packages: a diamond on base1, a cycle left <-> right, a floating *)
(* reference to base.                                                      *)
(***************************************************************************)

Packages == {app, solo, left, right, base1, base2}
Models == {mApp, mLeft, mRight, mBase}
MCModelOf == app :> mApp @@ solo :> mApp @@ left :> mLeft @@ right :> mRight @@ base1 :> mBase @@ base2 :> mBase
MCLatest == mApp :> app @@ mLeft :> left @@ mRight :> None @@ mBase :> base2

MCNeeds == solo :> <<base1, mLeft>> @@ app :> <<left, mBase, base1>> @@ left :> <<right, base1>> @@ right :> <<left>>
             @@ base1 :> <<>> @@ base2 :> <<>>
MCDefines == solo :> {} @@ app :> {"App"} @@ left :> {"Left"} @@ right :> {"Right"}
             @@ base1 :> {"Base", "term"} @@ base2 :> {"Base"}
MCSeed == solo :> <<>> @@ app :> <<[id |-> "n1", type |-> "Base", class |-> None], [id |-> "n2", type |-> "Left", class |-> "term"]>>
          @@ left :> <<[id |-> "n2", type |-> "Left", class |-> None]>>
          @@ right :> <<>> @@ base1 :> <<>>
          @@ base2 :> <<[id |-> "n3", type |-> "Base", class |-> None], [id |-> "n1", type |-> "Missing", class |-> None]>>
MCHostSeeds == {[nodes |-> <<[id |-> "n1", type |-> "Base", class |-> None], [id |-> "n4", type |-> "App", class |-> None]>>,
                 boundTo |-> host]}
MCComposes == {<<base1, solo>>, <<app>>, <<left, mBase>>, <<mRight, base1>>}
MCOverlaps == {{}, {"loads"}}

(***************************************************************************)
(* Workspaces: a chain, a diamond and a cycle of members, with and without    *)
(* published copies.                                                       *)
(***************************************************************************)

Workspace(o, ba, bb, bc, xs, sa, sb, sc, sd) ==
    [open |-> o, binds |-> m1 :> ba @@ m2 :> bb @@ m3 :> bc @@ m4 :> <<>>, broken |-> xs,
     store |-> m1 :> sa @@ m2 :> sb @@ m3 :> sc @@ m4 :> sd]
Workspaces ==
    {Workspace({m1, m2, m3}, <<m2>>, <<m3>>, <<m4>>, {}, None, p, None, <<>>) : p \in {None, <<>>}}
    \cup {Workspace({m1, m2, m3}, <<m4, m2, m3>>, <<m4>>, <<m2, m4>>, xs, None, p, None, <<>>) :
             xs \in {{}, {m2}}, p \in {None, <<m4>>}}
    \cup {Workspace({m1, m2}, <<m2>>, <<m1>>, <<>>, {}, p, q, None, None) :
             p, q \in {None, <<>>}}
Members == {m1, m2, m3, m4}
Requesters == {t1, t2}
Rebindings == {<<>>, <<m2>>, <<m4>>}

(***************************************************************************)
(* Solutions to build.  The external source has an older copy of a, another   *)
(* version of b, and x.                                                    *)
(***************************************************************************)

Request(ps, ba, bb, bc, f) ==
    [projects |-> ps, binds |-> m1 :> ba @@ m2 :> bb @@ m3 :> bc,
     version |-> m1 :> 1 @@ m2 :> 1 @@ m3 :> 1,
     explicit |-> f.explicit, target |-> f.target, applies |-> f.applies,
     unmet |-> f.unmet, broken |-> f.broken,
     before |-> m1 :> {} @@ m2 :> {"model", "mural"} @@ m3 :> {},
     external |-> f.external]
Is(p) == <<p, 1>>
Old == <<m2, 2>>
Copies == {Is(m1) :> <<>> @@ Is(m2) :> <<Is(m1)>> @@ Old :> <<Is(m1)>> @@ Is(lib) :> <<>>,
           Is(lib) :> <<>> @@ Old :> <<>>}
Pipeline == <<"resolve-bases", "compile-model", "compile-mural", "bake-resources",
              "emit-bundle", "emit-package-layout", "publish-package">>
Features == [explicit : {{}, {<<m1, m2>>}}, target : {None, m2, m3},
             applies : {{m1, m2, m3}, {m1, m3}}, unmet : {{}, {m2}},
             broken : {{}, {m1}, {m2}}, external : Copies]
Requests ==
    {Request(<<m3, m2, m1>>, <<Is(lib)>>, <<Is(m1)>>, deps, f) :
        deps \in {<<Is(m2)>>, <<Is(m1), Is(m2)>>, <<Is(m2), Old>>}, f \in Features}
    \cup {Request(<<m1, m2, m3>>, <<Is(m3)>>, <<Is(m1)>>, <<>>, f) : f \in Features}

(***************************************************************************)
(* Registries: a local directory and a web registry, with a cycle among the   *)
(* latest versions, a package of plain npm and a version that sorts oddly.    *)
(***************************************************************************)

Published(name, v, id, kind, deps) ==
    [name |-> name, version |-> v, id |-> id, kind |-> kind, deps |-> deps]
Publishable ==
    {Published("core", <<1, 9>>, "core", "meta", {}),
     Published("core", <<1, 10>>, "core", "meta", {"lib"}),
     Published("lib", <<1, 0>>, "lib", "library", {"core", "left-pad"}),
     Published("app", <<1, 0>>, "app", "library", {"lib", "core"}),
     Published("left-pad", <<1, 0>>, "", "npm", {})}
BackendOf == ("dir" :> "local") @@ ("web" :> "http")
StringOrder == (<<1, 9>> :> 3) @@ (<<1, 10>> :> 2) @@ (<<1, 0>> :> 1)

(***************************************************************************)
(* Archives: two files, of paths that fit the name field, that need the       *)
(* prefix field and that are refused.                                       *)
(***************************************************************************)

Paths == {p \in UNION {[1..n -> {47, 97, 98}] : n \in {1, 2, 5, 7}} :
             p[1] # 47 /\ p[Len(p)] # 47}
Body(n) == [i \in 1..n |-> IF i % 2 = 0 THEN 0 ELSE i]
Archives == {<<[path |-> p, bytes |-> Body(n)], [path |-> <<98>>, bytes |-> Body(k)]>> :
                p \in Paths, n \in 0..5, k \in {0, 9}}

(***************************************************************************)
(* The parts, and a behaviour of one of them.                               *)
(***************************************************************************)

Bases == INSTANCE BaseResolver
            WITH Ids <- Members, Tasks <- Requesters, Shapes <- Workspaces,
                 Rebinds <- Rebindings, overlap <- overlapping, edits <- baseEdits
Build == INSTANCE SolutionBuild
            WITH Solutions <- Requests, Actions <- Pipeline, order <- plan
Service == INSTANCE PackageRegistries
            WITH Order <- <<"dir", "web">>, Backend <- BackendOf,
                 Tokens <- {"typed", "retyped"}, EnvToken <- "env",
                 Packages <- Publishable, LexRank <- StringOrder,
                 RootSets <- {{"core"}, {"app"}, {"lib", "app", "left-pad"}},
                 Overlaps <- {}, MaxEdits <- MaxChanges
Tar == INSTANCE TarArchive

ASSUME RevisionsAssumption == Service!RegistriesAssumption
ASSUME WorkspacesAssumption == Bases!BasesAssumption
ASSUME RequestsAssumption == Build!BuildAssumption

NoDomain ==
    /\ byIdentity = None /\ order = None /\ refcount = None /\ depsOf = None
    /\ heap = None /\ stack = None /\ todo = None /\ diagnostics = None
    /\ runs = None /\ threw = None /\ overlap = None
NoResolver ==
    /\ open = None /\ binds = None /\ version = None /\ broken = None /\ store = None
    /\ cache = None /\ baseIdsOf = None /\ resolving = None /\ task = None
    /\ notices = None /\ baseEdits = None /\ overlapping = None
NoBuild ==
    /\ solution = None /\ phase = None /\ plan = None /\ cycle = None /\ status = None
    /\ ran = None /\ bases = None /\ built = None /\ pushed = None /\ sandbox = None
    /\ output = None /\ compiled = None
NoService ==
    /\ specs = None /\ secrets = None /\ default = None /\ clients = None
    /\ edits = None /\ builds = None /\ shelf = None /\ tags = None /\ local = None
    /\ uploads = None /\ edited = None /\ published = None /\ torn = None

PackagesInit ==
    /\ subject \in Subjects
    /\ IF subject = "domain" THEN Init ELSE NoDomain
    /\ IF subject = "bases" THEN Bases!Init ELSE NoResolver
    /\ IF subject = "build" THEN Build!Init ELSE NoBuild
    /\ IF subject = "service" THEN Service!RegistriesInit ELSE NoService
    /\ IF subject = "archive" THEN archive \in Archives ELSE archive = None

Composing == subject = "domain" /\ Next
             /\ UNCHANGED <<subject, resolverVars, buildVars, serviceVars, archive>>
Resolving == subject = "bases" /\ Bases!Next
             /\ UNCHANGED <<subject, vars, buildVars, serviceVars, archive>>
Producing == subject = "build" /\ Build!Next
             /\ UNCHANGED <<subject, vars, resolverVars, serviceVars, archive>>
Serving == subject = "service" /\ Service!RegistriesNext
             /\ UNCHANGED <<subject, vars, resolverVars, buildVars, archive>>
PackagesNext == Composing \/ Resolving \/ Producing \/ Serving
PackagesSpec ==
    PackagesInit
    /\ [][PackagesNext]_<<subject, vars, resolverVars, buildVars, serviceVars, archive>>

SameTasks == Permutations({t1, t2})

(***************************************************************************)
(* The properties of the parts.                                            *)
(***************************************************************************)

(* Each part's variables hold what its code can put there.                  *)
PackagesTypeOK ==
    /\ subject = "domain" => TypeOK
    /\ subject = "bases" => Bases!TypeOK
    /\ subject = "build" => Build!TypeOK
    /\ subject = "service" => Service!RegistriesTypeOK

(* The base resolver compiles a member once at a time, its cache holds what   *)
(* compiling from scratch would give after any sequence of changes, and the  *)
(* closure it validates a consumer against is what a compile would be given. *)
BasesLive ==
    subject = "bases" => Bases!CompilesOnce /\ Bases!CacheFresh /\ Bases!ClosureAgrees

(* A solution build compiles against this build's own packages, stops at the  *)
(* first failure, builds a target with all it needs in order, and leaves the  *)
(* output of what failed alone.                                             *)
BuildSound ==
    subject = "build" =>
        /\ Build!CompiledAgainstFresh /\ Build!FailureStops
        /\ Build!OrderSound /\ Build!PromotedOnSuccess

(* Manifests are finalized dependencies first, stay while a loaded one        *)
(* imports them, are counted exactly, cover the types of the heap, and one    *)
(* recursion never resolves a package twice.                                *)
DomainSound ==
    subject = "domain" =>
        DepsFirst /\ DependentsKept /\ RefcountsHonest /\ HeapReflects /\ CycleGuarded

(* A cached registry client has the settings and the secret its connection    *)
(* has now, whatever changes of it went through.                            *)
CacheCurrent == subject = "service" => Service!CacheCurrent

(* What was published can be used: a version that a registry lists can be     *)
(* fetched, also after a publication that was cut short; a resolved closure   *)
(* holds each package once, after those it depends on; and unpacking an       *)
(* archive gives back the files that were packed, whatever the lengths of     *)
(* their paths and bodies, unless packing refused them.                     *)
PublishedIsUsable ==
    /\ subject = "service" => Service!ListedCanBeFetched /\ Service!ClosureSound
    /\ subject = "archive" =>
          \/ Tar!Pack(archive) = Tar!Refused
          \/ Tar!Unpack(Tar!Pack(archive)) = archive
=============================================================================
