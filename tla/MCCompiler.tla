----------------------------- MODULE MCCompiler ------------------------------
(* The compiler, one part at a time: a behaviour parses a damaged file, or    *)
(* loads a list of files, or reads and edits a model, or validates a graph,   *)
(* or publishes a graph as a manifest and reads it back.                    *)
EXTENDS Naturals, Sequences, FiniteSets, TLC

CONSTANTS
    Subjects,
    Texts, Quoted, Numbers, SymbolOps, BadToken,
    Prelude, Files, MaxFiles, InlineAllowed, ProviderAllowed,
    Falsy, Derived, Base, EdgePool, Writable, MaxWrites, MaxMemo,
    NoDerived, LiteralBases, Accepts, InvariantsOf, Schemas, Listings,
    OwnerInvariants, Byte, NarrowMax, VarlenSamples, Graphs, Orders, ModelName, Version

VARIABLES
    subject,
    written, text, damage, parsed,
    files, loaded,
    graph, memo, pending, writes,
    schema, listing, verdict,
    source, writer, file, reader

syntaxVars == <<written, text, damage, parsed>>
loaderVars == <<files, loaded>>
memoVars == <<graph, memo, pending, writes>>
validationVars == <<schema, listing, verdict>>
manifestVars == <<source, writer, file, reader>>

Cases == INSTANCE MCModels

Parser == INSTANCE Syntax WITH Files <- Texts, Strings <- Quoted, file <- text
Loading == INSTANCE Loader
Memos == INSTANCE MemoizedReads WITH DerivedMembers <- Derived
Validator == INSTANCE Validation WITH DerivedMembers <- NoDerived
Publisher == INSTANCE ManifestFile WITH Model <- ModelName

(***************************************************************************)
(* The cases, by the constant they are given to.                            *)
(***************************************************************************)

SampleTexts == Cases!MCTexts
DefaultLibrary == Cases!DefaultLibrary
SampleFiles == Cases!MCFiles
SampleSchemas == Cases!MCSchemas
SampleListings == Cases!MCListings
SampleLiteralBases == Cases!MCLiteralBases
SampleAccepts == Cases!MCAccepts
SampleInvariants == Cases!MCInvariants
SampleGraphs == Cases!MCGraphs
SampleOrders == Cases!MCOrders
SampleBytes == Cases!MCByte
SampleNumbers == Cases!MCSamples
SampleOwners == Cases!MCOwners
TwoOfEach == Cases!MCTypes
TypeEdges == Cases!MCTypeEdges
TwoInstances == Cases!MCInstances
OneModel == <<"model">>
OneVersion == <<"v1">>
NoMembers == <<>>
EmptyText == {""}

(* A derived member: the carriers of a2 that are related to this element, or  *)
(* have its value.                                                          *)
This == [kind |-> "this"]
Bound == [kind |-> "var", var |-> "b"]
MemberOf(x, name) == [kind |-> "member", target |-> x, member |-> name]
Peers ==
    ("peers" :> [kind |-> "comprehension", var |-> "b", concept |-> <<"A2">>,
                 body |-> [kind |-> "or",
                           left |-> [kind |-> "in", left |-> Bound, right |-> MemberOf(This, "r")],
                           right |-> [kind |-> "eq", left |-> MemberOf(Bound, "v"),
                                      right |-> MemberOf(This, "v")]]])

(***************************************************************************)
(* A behaviour of one part.                                                 *)
(***************************************************************************)

NoText == written = <<>> /\ text = <<>> /\ damage = <<>> /\ parsed = <<>>
NoLoad == files = <<>> /\ loaded = <<>>
NoReads == graph = <<>> /\ memo = <<>> /\ pending = <<>> /\ writes = <<>>
NoSchema == schema = <<>> /\ listing = <<>> /\ verdict = <<>>
NoManifest == source = <<>> /\ writer = <<>> /\ file = <<>> /\ reader = <<>>

CompilerInit ==
    /\ subject \in Subjects
    /\ IF subject = "text" THEN Parser!Init ELSE NoText
    /\ IF subject = "files" THEN Loading!LoaderInit ELSE NoLoad
    /\ IF subject = "reads" THEN Memos!MemoInit ELSE NoReads
    /\ IF subject = "schema" THEN Validator!ValidationInit ELSE NoSchema
    /\ IF subject = "manifest" THEN Publisher!ManifestInit ELSE NoManifest

Parse == subject = "text" /\ Parser!Next
         /\ UNCHANGED <<subject, loaderVars, memoVars, validationVars, manifestVars>>
Load == subject = "files" /\ Loading!LoaderNext
        /\ UNCHANGED <<subject, syntaxVars, memoVars, validationVars, manifestVars>>
ReadAndEdit == subject = "reads" /\ Memos!MemoNext
        /\ UNCHANGED <<subject, syntaxVars, loaderVars, validationVars, manifestVars>>
Validate == subject = "schema" /\ Validator!ValidationNext
        /\ UNCHANGED <<subject, syntaxVars, loaderVars, memoVars, manifestVars>>
Publish == subject = "manifest" /\ Publisher!ManifestNext
        /\ UNCHANGED <<subject, syntaxVars, loaderVars, memoVars, validationVars>>
CompilerNext == Parse \/ Load \/ ReadAndEdit \/ Validate \/ Publish
CompilerSpec ==
    CompilerInit /\ [][CompilerNext]_<<subject, syntaxVars, loaderVars, memoVars,
                                       validationVars, manifestVars>>

(***************************************************************************)
(* The properties of the parts.  Those of a part that computes a result in    *)
(* one step are of that step.                                                *)
(***************************************************************************)

(* A tree is made of declarations, and a manifest's tables refer to rows that *)
(* exist.                                                                   *)
CompilerTypeOK ==
    /\ subject = "text" => Parser!TypeOK
    /\ subject = "files" => Loading!LoaderTypeOK
    /\ subject = "manifest" => Publisher!ManifestTypeOK

(* A bad member of a body that recovers costs that member and at most the     *)
(* next one: every other member and declaration of the file is parsed.        *)
MemberDamageIsLocal ==
    subject = "text" => Parser!MemberDamageIsLocal

(* A load resolves what its passes promise to resolve, every node it makes    *)
(* has a file and a package it belongs to, it throws only for names that      *)
(* clash, and neither its graph nor its diagnostics depend on the order of    *)
(* the files.                                                                *)
LoadSound ==
    [][subject = "files" =>
         Loading!LoadKeepsPromises /\ Loading!LoadOrderFree]_loaderVars

(* A remembered answer is the one a fresh computation would give, and the     *)
(* instances found walking the types down are those found walking them up.    *)
ReadsAgree == subject = "reads" => Memos!MemosFresh /\ Memos!DomainIsExtent

(* The validator reports a type hierarchy that has a cycle, a name two        *)
(* inherited members share, and no repetition a leaf is allowed.              *)
TypeFaultsSeen ==
    [][subject = "schema" => Validator!TypeFaultsSeen]_validationVars

(* A manifest written, stored in either form and read back says of every      *)
(* type, member and value what the graph it came from says.                  *)
ManifestSound ==
    subject = "manifest" =>
        /\ Publisher!FileIsTheManifest /\ Publisher!Reflected /\ Publisher!OriginsAgree
        /\ Publisher!AspectInvariantsOnce /\ Publisher!DocumentKeepsReads

(* The writer's comment: annotation types are "synthesized as Annotation-kind *)
(* TypeInfo rows (like primitives) so every coded annotation ref resolves     *)
(* locally".                                                                *)
AnnotationsResolve == subject = "manifest" => Publisher!AnnotationsResolve
=============================================================================
