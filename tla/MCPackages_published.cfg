\* a domain, the bases of a solution, its build, registries and an archive
SPECIFICATION PackagesSpec
CONSTANTS
    Subjects = {"domain", "bases", "build", "service", "archive"}
    app = app solo = solo left = left right = right base1 = base1 base2 = base2
    mApp = mApp mLeft = mLeft mRight = mRight mBase = mBase
    host = host c1 = c1 c2 = c2 None = None
    Package <- Packages
    Model <- Models
    ModelOf <- MCModelOf
    Latest <- MCLatest
    Needs <- MCNeeds
    Defines <- MCDefines
    Seed <- MCSeed
    HostSeeds <- MCHostSeeds
    Flaky = {right, base2}
    Callers = {c1, c2}
    Composes <- MCComposes
    Runs = 1
    Overlaps <- MCOverlaps
    m1 = m1 m2 = m2 m3 = m3 m4 = m4 lib = lib t1 = t1 t2 = t2
    MaxEdits = 1
    MaxChanges = 2
    MaxRevision = 2
    MaxPublishes = 3
    NameLength = 3
    PrefixLength = 4
    SizeLength = 3
    Block = 2
SYMMETRY SameTasks
INVARIANTS PackagesTypeOK BasesLive BuildSound DomainSound CacheCurrent PublishedIsUsable
CHECK_DEADLOCK FALSE
