\* solutions and their projects, and of one project its tree, calls on its files,
\* its settings and its life
SPECIFICATION WorkspaceSpec
CONSTANTS
    c1 = c1 c2 = c2 n1 = n1 n2 = n2 k1 = k1 k2 = k2
    Subjects = {"solutions", "tree", "calls", "settings", "life"}
    Folders = {"f1", "f2"}
    Projects <- InFolder
    TypeOf <- OneType
    KnownTypes = {"architecture"}
    Names = {"Default", "Renamed"}
    DefaultName = "Default"
    Calls = {c1, c2}
    Mixes <- SolutionMixes
    MaxEdits = 1
    MaxMembers = 2
    None = None
    Segments = {"a", "b", "h"}
    MaxDepth = 2
    Inodes = {1, 2, 3, 4}
    Sinks = {n1, n2}
    Hidden = "h"
    MaxChanges = 2
    MaxObserves = 2
    Overlaps = {}
    OpsInodes = {1, 2, 3, 4, 5}
    Starts <- MemberDisks
    Variants <- Copies
    Bad = "/"
    MaxCalls = 1
    MaxSteps = 2
    Connections = {k1, k2}
    Legacy <- OldConnections
    Override = k2
    ReadsFail = FALSE
    LateEdits = FALSE
    MaxBagSteps = 3
    MaxLifeSteps = 4
SYMMETRY Same
INVARIANTS WorkspaceTypeOK SessionSound TreeMirrorsDisk ProjectKept EditorsFollow
PROPERTIES SolutionsKept NothingOverwritten
CHECK_DEADLOCK FALSE
