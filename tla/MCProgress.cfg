SPECIFICATION ProgressSpec
CONSTANTS
    e1 = e1
    r1 = r1
    r2 = r2
    a1 = a1
    a2 = a2
    Embedders = {m1}
    EmbedPrefetch = 2
    EmbedFaults <- RetriedFaults
    Indexers = {w1}
    IndexPrefetch = 5
    IndexFaults <- RetriedFaults
    Events = {e1}
    MaxEvents = 1
    Runs <- TwoRuns
    EventOf <- OneEvent
    Artifacts = {a1, a2}
    Content <- TwoBatches
    Consumers = {c1, c2}
    Prefetch = 2
    Bodies = {m}
    MaxMessages = 3
    Callers = {k1, k2, k3}
    PoolThreads = 2
INVARIANTS
    DeliveryTypeOK
    ExactlyOneHome
    HandledTwiceOnlyAfterLoss
    OneCallComputes
PROPERTIES
    EventuallySettled
    EveryCallAnswered
    ImplementsIndexing
    EventuallySearchable
CHECK_DEADLOCK FALSE
