\* a solution whose project lies beside its folder
SPECIFICATION WorkspaceSpec
CONSTANTS
    c1 = c1 c2 = c2 n1 = n1 n2 = n2 k1 = k1 k2 = k2
    Subjects = {"solutions"}
    Folders = {"f1"}
    Projects <- Elsewhere1
    TypeOf <- TypesElsewhere
    KnownTypes = {"architecture"}
    Names = {"Default"}
    DefaultName = "Default"
    Calls = {c1}
    Mixes <- AbsoluteMixes
    MaxEdits = 0
    MaxMembers = 2
    None = None
    Segments = {"a", "b", "h"}
    MaxDepth = 2
    Inodes = {1, 2, 3, 4}
    Sinks = {n1, n2}
    Hidden = "h"
    MaxChanges = 2
    MaxObserves = 2
    Overlaps = {}
    OpsInodes = {1, 2, 3, 4, 5}
    Starts <- MemberDisks
    Variants <- Copies
    Bad = "/"
    MaxCalls = 1
    MaxSteps = 2
    Connections = {k1, k2}
    Legacy <- OldConnections
    Override = k2
    ReadsFail = FALSE
    LateEdits = FALSE
    MaxBagSteps = 3
    MaxLifeSteps = 4
INVARIANTS MembersReopen
CHECK_DEADLOCK FALSE
