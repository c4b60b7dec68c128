SPECIFICATION Spec
CONSTANTS
    e1 = e1
    r1 = r1
    r2 = r2
    a1 = a1
    a2 = a2
    Embedders = {m1}
    EmbedPrefetch = 2
    EmbedFaults <- NoFaults
    Indexers = {w1}
    IndexPrefetch = 5
    IndexFaults <- NoFaults
    Events = {e1}
    MaxEvents = 1
    Runs <- TwoRuns
    EventOf <- OneEvent
    Artifacts = {a1, a2}
    Content <- TwoBatches
INVARIANTS
    RestsIndexedOrFailed
CHECK_DEADLOCK FALSE
