\* a working copy and its sources, entity resolution and the Cypher engine
SPECIFICATION DataSpec
CONSTANTS
    Subjects = {"copy", "entities", "write", "query", "text"}
    Absent = Absent
    Instances = {1, 2, 3, 4, 5, 6, 7, 8, 9, 10, 11}
    ConceptOf <- MCConceptOf
    ConceptOrder <- MCConcepts
    Fields <- MCFields
    StorageKey = "storage"
    Rules <- MCRules
    RuleOrder <- MCRuleOrder
    MergeRules <- MCMergeRules
    SourceOf <- MCSourceOf
    ClassRow <- MCClassRow
    Rows <- MCRows
    Links <- MCLinks
    Relations <- MCRelations
    Workloads <- MCWorkloads
    Latest = "latest"
    NoRule = "none"
    SameAs = "sameAs"
    inst1 = inst1 inst2 = inst2 r1 = r1 r2 = r2 r3 = r3 b1 = b1 b2 = b2
    Plans <- SomePlans
    MaxWrites = 2
    MaxFaults = 1
    MaxReads = 2
    Overlaps = {{}}
    Params <- OneParameter
    Concepts = {"A", "B", "Z"}
    Isa <- SomeIsa
    References <- SomeReferences
    Required <- SomeRequired
    Keys = {"k"}
    Vals = {1, 2}
    Drafts <- SomeDrafts
    Statements <- SomeStatements
    MaxStatements = 2
    Queries <- SomeQueries
    Graphs <- SomeGraphs
    Supers <- SomeSupers
    RelTypes = {1, 2}
    MaxVarLength = 3
    PageSizes = {1, 2}
    MaxTaken = 5
    Models <- SomeModels
INVARIANTS DataTypeOK EditsKept StatementsSound
PROPERTIES WritesGuarded QueriesSound EntitiesResolved
CHECK_DEADLOCK FALSE
