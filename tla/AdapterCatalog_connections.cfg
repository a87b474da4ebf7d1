\* two operations and an invalidation, with every failure of the driver
SPECIFICATION FairSpec
CONSTANTS
    Callers = {c1, c2}
    Retirers = {r1}
    Adapters = {1, 2}
    Conns = {1, 2, 3}
    MaxAttempts = 3
    None = None
INVARIANTS OnlyRevivedLeak
PROPERTIES FailuresEnd
