\* an annotation whose type is also the type of a field
SPECIFICATION CompilerSpec
CONSTANTS
    Subjects = {"manifest"}
    Texts <- SampleTexts
    Quoted = {"'a'", "'b'"}
    Numbers = {"1", "2"}
    SymbolOps = {"-", "->", "==>", ">"}
    BadToken = ")"
    Prelude <- DefaultLibrary
    Files <- SampleFiles
    MaxFiles = 4
    InlineAllowed = TRUE
    ProviderAllowed = TRUE
    Falsy <- EmptyText
    Derived <- Peers
    Base <- TwoOfEach
    EdgePool <- TypeEdges
    Writable <- TwoInstances
    MaxWrites = 3
    MaxMemo = 2
    NoDerived <- NoMembers
    LiteralBases <- SampleLiteralBases
    Accepts <- SampleAccepts
    InvariantsOf <- SampleInvariants
    Schemas <- SampleSchemas
    Listings <- SampleListings
    OwnerInvariants <- SampleOwners
    Byte <- SampleBytes
    NarrowMax = 6
    VarlenSamples <- SampleNumbers
    Graphs <- SampleGraphs
    Orders <- SampleOrders
    ModelName <- OneModel
    Version <- OneVersion
INVARIANTS AnnotationsResolve
CHECK_DEADLOCK FALSE
