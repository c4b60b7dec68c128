SPECIFICATION IndexingSpec
CONSTANTS
    r1 = r1
    r2 = r2
    a1 = a1
    a2 = a2
    a3 = a3
    a4 = a4
    Consumers = {w1}
    Prefetch = 5
    Runs <- OneRun
    Artifacts = {a1, a2, a3}
    Content <- TwoBatches
    Mismatched = {}
    OtherStatuses = {"PROCESSING"}
    Faults <- RetriedFaults
INVARIANTS
    IndexedMeansSearchable
