----------------------------- MODULE ProjectLife -----------------------------
(* The life of one project: it is created, opened, closed and restored, its *)
(* references change, and each of these moments is raised on the event bus, *)
(* whose subscribers are awaited one by one. The generators of the project  *)
(* are one subscriber: they compile the model and write files, some of      *)
(* which are the user's from then on. Beside it the user edits, and may ask *)
(* for the views of a concept, which are wired into the application root    *)
(* while nobody has touched it. A step is what runs between two awaits of   *)
(* the storage. The content of a file is who wrote it, and for the compiled *)
(* ones what they were compiled from.                                       *)
EXTENDS Naturals, Sequences, SequencesExt

CONSTANTS
    MaxLifeSteps,      \* bound: calls, edits, faults and restarts begun
    None

VARIABLES
    references,        \* version of the references in the manifest, or None
    texts,             \* version of the project's sources
    content,           \* what is in each generated or scaffolded file
    member,            \* the project in the solution: "none", "open", "unresolved"
    session,           \* the project is in the host's set of open folders
    subscribers,       \* the handlers of the event bus, in order
    life,              \* the lifecycle call under way, or None
    ui,                \* the generation of a concept's views under way, or None
    excused,           \* history: a failure or restart left generation undone
    late,              \* history: edits made since the last check, by who checked
    lifeSteps

lifeVars == <<references, texts, content, member, session, subscribers, life, ui,
              excused, late, lifeSteps>>

(* The generators of an application project, in the order they are          *)
(* registered: two own their output, two scaffold a file of the user's.      *)
Generators == <<"dto", "data", "app", "main">>
Overwrites(g) == g \in {"dto", "data"}
Triggered(event) ==
    CASE event = "created" -> Generators
      [] event = "referencesChanged" -> <<"dto", "data">>
      [] OTHER -> <<>>

Files == {"dto", "data", "app", "main", "views", "scaffold"}
UserFiles == {"app", "main", "views", "scaffold"}

(* What is in a file.                                                       *)
Absent == <<"absent">>
Edited == <<"edited">>
Made == <<"made">>
Pristine == <<"pristine">>
Wired == <<"wired">>
Compiled(refs, version) == <<"compiled", refs, version>>

LifeInit ==
    /\ references = None /\ texts = 0 /\ content = [f \in Files |-> Absent]
    /\ member = "none" /\ session = FALSE /\ subscribers = <<"once", "generators">>
    /\ life = None /\ ui = None /\ excused = FALSE /\ late = {} /\ lifeSteps = 0

Counts == lifeSteps < MaxLifeSteps /\ lifeSteps' = lifeSteps + 1
Doing(at) == life # None /\ life.at = at
Go(at) == life' = [life EXCEPT !.at = at]
Finish == life' = None
Call(kind, at) ==
    life' = [kind |-> kind, at |-> at, event |-> "none", refs |-> 0, texts |-> 0,
             targets |-> <<>>, next |-> 1, gens |-> <<>>]

project == <<references, texts, content>>
place == <<member, session>>
history == <<excused, late>>

-----------------------------------------------------------------------------
(* ProjectLifecycle and the project factory.                                *)

(* The call begins and passes its first tests: no manifest in the folder for *)
(* a creation, not open yet for an opening.                                  *)
BeginLife ==
    /\ life = None /\ Counts
    /\ \/ references = None /\ Call("create", "writeManifest")
       \/ references # None /\ member = "none" /\ Call("open", "openMember")
       \/ references # None /\ member = "none" /\ session /\ Call("restore", "openMember")
       \/ member # "none" /\ Call("close", "closeMember")
       \/ references # None /\ Call("references", "writeReferences")
    /\ UNCHANGED <<project, place, subscribers, ui, history>>

(* createProject: the manifest, then the scaffold where it is missing.       *)
CreateManifest ==
    /\ Doing("writeManifest") /\ Go("checkScaffold")
    /\ references' = 0
    /\ UNCHANGED <<texts, content, place, subscribers, ui, history, lifeSteps>>

(* What follows when the scaffold is in place: a new project is announced, an *)
(* opened one is tracked, a restored one already is.                         *)
Scaffolded ==
    IF life.kind = "restore" \/ member # "open" THEN "readManifest" ELSE "track"

CheckScaffold ==
    /\ Doing("checkScaffold")
    /\ Go(IF content["scaffold"] = Absent THEN "writeScaffold" ELSE Scaffolded)
    /\ late' = late \ {<<"life", "scaffold">>}
    /\ UNCHANGED <<project, place, subscribers, ui, excused, lifeSteps>>

WriteScaffold ==
    /\ Doing("writeScaffold") /\ Go(Scaffolded)
    /\ content' = [content EXCEPT !["scaffold"] = Made]
    /\ UNCHANGED <<references, texts, place, subscribers, ui, history, lifeSteps>>

(* SolutionManagerService.OpenProject: the member joins at once and its      *)
(* factory, which heals the scaffold, may be unknown.                        *)
OpenMember ==
    /\ Doing("openMember")
    /\ \/ member' = "open" /\ Go("checkScaffold") /\ UNCHANGED lifeSteps
       \/ /\ member' = "unresolved" /\ Counts
          /\ IF life.kind = "restore" THEN Go("readManifest") ELSE Finish
    /\ UNCHANGED <<project, session, subscribers, ui, history>>

Track ==
    /\ Doing("track")
    /\ session' = TRUE
    /\ IF life.kind = "create" THEN Finish ELSE Go("readManifest")
    /\ UNCHANGED <<project, member, subscribers, ui, history, lifeSteps>>

CloseMember ==
    /\ Doing("closeMember") /\ Go("untrack")
    /\ member' = "none"
    /\ UNCHANGED <<project, session, subscribers, ui, history, lifeSteps>>

Untrack ==
    /\ Doing("untrack") /\ Go("readManifest")
    /\ session' = FALSE
    /\ UNCHANGED <<project, member, subscribers, ui, history, lifeSteps>>

WriteReferences ==
    /\ Doing("writeReferences") /\ Go("readManifest")
    /\ references' = references + 1
    /\ UNCHANGED <<texts, content, place, subscribers, ui, history, lifeSteps>>

EventOf(kind) ==
    CASE kind = "create" -> "created"
      [] kind \in {"open", "restore"} -> "opened"
      [] kind = "close" -> "removed"
      [] kind = "references" -> "referencesChanged"

(* ProjectEvents.Raise: the manifest is read as it is on disk, and a copy of *)
(* the handlers is taken.                                                    *)
Raise ==
    /\ Doing("readManifest")
    /\ life' = [life EXCEPT !.at = "handlers", !.event = EventOf(life.kind),
                            !.refs = references, !.targets = subscribers, !.next = 1]
    /\ excused' = (excused /\ EventOf(life.kind) \notin {"opened", "created"})
    /\ UNCHANGED <<project, place, subscribers, ui, late, lifeSteps>>

(* The handlers a raise goes through.                                        *)
Listening == life.targets

Raised == IF life.kind = "create" THEN Go("openMember") ELSE Finish

RaiseEnds ==
    /\ Doing("handlers") /\ life.next > Len(Listening)
    /\ Raised
    /\ UNCHANGED <<project, place, subscribers, ui, history, lifeSteps>>

(* A failing subscriber ends the raise. The lifecycle swallows the failure;  *)
(* a creation fails of it, and so does a change of references.                *)
RaiseFails ==
    /\ life # None /\ life.at \in {"handlers", "generator", "compile", "write"}
    /\ Counts
    /\ Finish
    /\ excused' = (excused \/ life.event # "removed")
    /\ UNCHANGED <<project, place, subscribers, ui, late>>

(* GeneratorScheduler.Handle and MapTrigger: an opening considers every      *)
(* generator, another event those it triggers.                               *)
ToRun(event) ==
    IF event = "opened" THEN Generators ELSE Triggered(event)

(* Unsubscribe splices a handler out of the live array.                     *)
Unsubscribed(handler) ==
    LET found == {i \in DOMAIN subscribers : subscribers[i] = handler}
    IN IF found = {} THEN subscribers ELSE RemoveAt(subscribers, Min(found))

(* The next handler is called; one subscriber wants one event only.          *)
NextHandler ==
    /\ Doing("handlers") /\ life.next <= Len(Listening)
    /\ LET handler == Listening[life.next]
           gens == IF handler = "generators" THEN ToRun(life.event) ELSE <<>>
       IN /\ life' = [life EXCEPT !.next = @ + 1, !.gens = gens,
                                  !.at = IF gens = <<>> THEN "handlers" ELSE "generator"]
          /\ subscribers' = IF handler = "once" THEN Unsubscribed(handler) ELSE subscribers
    /\ UNCHANGED <<project, place, ui, history, lifeSteps>>

-----------------------------------------------------------------------------
(* The generators.                                                          *)

Now == Head(life.gens)
Passed(l) ==
    [l EXCEPT !.gens = Tail(@), !.at = IF Len(l.gens) = 1 THEN "handlers" ELSE "generator"]

(* A mutant: what is not there is written, and nothing else.                *)
WantedIfMissing(g) == content[g] = Absent

(* Backfill and the write policy: an owned output is always made; a scaffold *)
(* only where nothing is. Both look whether the file exists; the step below   *)
(* stands for the second look, the last one before the write.                *)
Wanted(g) == Overwrites(g) \/ content[g] = Absent

Generate ==
    /\ Doing("generator")
    /\ life' = IF ~Wanted(Now) THEN Passed(life)
               ELSE [life EXCEPT !.at = IF Now = "dto" THEN "compile" ELSE "write"]
    /\ late' = late \ {<<"life", Now>>}
    /\ UNCHANGED <<project, place, subscribers, ui, excused, lifeSteps>>

(* CompileLocal reads the sources; a model with errors writes nothing.       *)
Compile ==
    /\ Doing("compile")
    /\ \/ life' = [life EXCEPT !.at = "write", !.texts = texts] /\ UNCHANGED <<excused, lifeSteps>>
       \/ life' = Passed(life) /\ Counts /\ excused' = TRUE
    /\ UNCHANGED <<project, place, subscribers, ui, late>>

Output(g) ==
    CASE g = "dto" -> Compiled(life.refs, life.texts)
      [] g = "data" -> Made
      [] OTHER -> Pristine

WriteOutput ==
    /\ Doing("write")
    /\ content' = [content EXCEPT ![Now] = Output(Now)]
    /\ life' = Passed(life)
    /\ UNCHANGED <<references, texts, place, subscribers, ui, history, lifeSteps>>

-----------------------------------------------------------------------------
(* ConceptUiGenerationService.GenerateFor, beside the lifecycle.             *)

ViewsAt(at) == ui = at
Leave == UNCHANGED <<references, texts, place, subscribers, life, excused, lifeSteps>>

(* The model compiled; one that does not ends the call.                      *)
BeginViews ==
    /\ ui = None /\ Counts /\ references # None
    /\ ui' = "checkViews"
    /\ UNCHANGED <<project, place, subscribers, life, history>>

CheckViews ==
    /\ ViewsAt("checkViews")
    /\ ui' = IF content["views"] = Absent THEN "writeViews" ELSE "checkApp"
    /\ late' = late \ {<<"ui", "views">>}
    /\ UNCHANGED content /\ Leave

WriteViews ==
    /\ ViewsAt("writeViews") /\ ui' = "checkApp"
    /\ content' = [content EXCEPT !["views"] = Made]
    /\ UNCHANGED late /\ Leave

(* AppRootIsPristine reads both files before it answers.                     *)
CheckApp ==
    /\ ViewsAt("checkApp")
    /\ ui' = IF content["app"] = Pristine THEN "checkMain" ELSE "checkMainOnly"
    /\ late' = late \ {<<"ui", "app">>}
    /\ UNCHANGED content /\ Leave

CheckMain ==
    /\ ui \in {"checkMain", "checkMainOnly"}
    /\ ui' = IF ui = "checkMain" /\ content["main"] = Pristine THEN "writeApp" ELSE None
    /\ late' = late \ {<<"ui", "main">>}
    /\ UNCHANGED content /\ Leave

WireApp ==
    /\ ViewsAt("writeApp") /\ ui' = "writeMain"
    /\ content' = [content EXCEPT !["app"] = Wired]
    /\ UNCHANGED late /\ Leave

WireMain ==
    /\ ViewsAt("writeMain") /\ ui' = None
    /\ content' = [content EXCEPT !["main"] = Wired]
    /\ UNCHANGED late /\ Leave

-----------------------------------------------------------------------------
(* The user edits or creates a file, or changes the sources.                 *)
UserEdits ==
    /\ Counts
    /\ \/ \E f \in UserFiles :
             /\ content' = [content EXCEPT ![f] = Edited]
             /\ late' = late \cup ({"life", "ui"} \X {f})
             /\ UNCHANGED texts
       \/ texts' = texts + 1 /\ UNCHANGED <<content, late>>
    /\ UNCHANGED <<references, place, subscribers, life, ui, excused>>

Subscribes ==
    /\ Counts /\ "once" \notin {subscribers[i] : i \in DOMAIN subscribers}
    /\ subscribers' = <<"once">> \o subscribers
    /\ UNCHANGED <<project, place, life, ui, history>>

(* The program stops and starts again; the disk and the session stay.        *)
Stops ==
    /\ Counts
    /\ life' = None /\ ui' = None /\ member' = "none"
    /\ excused' = (excused \/ life # None)
    /\ UNCHANGED <<project, session, subscribers, late>>

LifeNext ==
    \/ BeginLife \/ CreateManifest \/ CheckScaffold \/ WriteScaffold
    \/ OpenMember \/ Track \/ CloseMember \/ Untrack \/ WriteReferences
    \/ Raise \/ RaiseEnds \/ RaiseFails \/ NextHandler
    \/ Generate \/ Compile \/ WriteOutput
    \/ BeginViews \/ CheckViews \/ WriteViews \/ CheckApp \/ CheckMain
    \/ WireApp \/ WireMain
    \/ UserEdits \/ Subscribes \/ Stops

LifeCalls ==
    [kind : {"create", "open", "restore", "close", "references"},
     at : {"writeManifest", "checkScaffold", "writeScaffold", "readManifest", "track",
           "openMember", "closeMember", "untrack", "writeReferences",
           "handlers", "generator", "compile", "write"},
     event : {"none", "created", "opened", "removed", "referencesChanged"},
     refs : Nat, texts : Nat, targets : Seq({"once", "generators"}),
     next : Nat \ {0}, gens : Seq({"dto", "data", "app", "main"})]

LifeTypeOK ==
    /\ references \in Nat \cup {None} /\ texts \in Nat
    /\ life = None \/ life \in LifeCalls
    /\ DOMAIN content = Files /\ member \in {"none", "open", "unresolved"}
    /\ session \in BOOLEAN /\ excused \in BOOLEAN /\ late \subseteq ({"life", "ui"} \X Files)

(* A project at rest has its typed model generated for the references it     *)
(* declares, unless a failure since the last opening left it behind: the     *)
(* next opening heals it.                                                    *)
GeneratedCurrent ==
    (life = None /\ references # None /\ ~excused) =>
        content["dto"][1] = "compiled" /\ content["dto"][2] = references

(* What is open and resolved is reopened after a restart.                    *)
OpenIsTracked == (life = None /\ member = "open") => session

(* A file the user edited is written over only when the edit fell between a  *)
(* generator's check of the file and its write.                              *)
EditedKept ==
    \A f \in UserFiles :
        (content[f] = Edited /\ content'[f] # Edited) =>
            <<IF ui' # ui THEN "ui" ELSE "life", f>> \in late
=============================================================================
