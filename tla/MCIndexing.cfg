SPECIFICATION IndexingSpec
CONSTANTS
    r1 = r1
    r2 = r2
    a1 = a1
    a2 = a2
    a3 = a3
    a4 = a4
    Consumers = {w1}
    Prefetch = 5
    Runs <- TwoRuns
    Artifacts = {a1, a2, a3, a4}
    Content <- TwoDetections
    Mismatched = {a4}
    OtherStatuses = {"PROCESSING"}
    Faults <- AllFaults
INVARIANTS
    IndexingTypeOK
    HandledInOrder
    IndexedMeansAccounted
    SkippedMeansStored
    LinkedRowsHavePoints
    AckedMeansHandled
