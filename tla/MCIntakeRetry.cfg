SPECIFICATION Spec
CONSTANTS
    u1 = u1
    u2 = u2
    u3 = u3
    same = same
    bad = bad
    Requests <- ThreeUploads
    ContentOf <- TwoAlike
    Corrupt = {bad}
    Faults <- NoFaults
    Workers = {w1}
    Prefetch = 1
    WorkFaults <- RetriedFaults
    LaterStatuses = {}
INVARIANTS
    NotLeftProcessing
CHECK_DEADLOCK FALSE
