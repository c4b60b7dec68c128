SPECIFICATION UploadsSpec
CONSTANTS
    u1 = u1
    u2 = u2
    u3 = u3
    u4 = u4
    same = same
    bad = bad
    Requests <- FourUploads
    ContentOf <- TwoByTwo
    Corrupt = {bad}
    Faults <- FaultKinds
    Workers = {w1, w2}
    Prefetch = 1
    WorkFaults <- WorkFaultKinds
    LaterStatuses = {"DETECTED"}
INVARIANTS
    IntakeTypeOK
    ReferencedObjectsExist
    OneRecordPerContent
    DuplicatesAreRecorded
    ClaimedByOne
    AnnouncedIsStored
    OneAnnouncementPerContent
PROPERTIES
    ImplementsPreprocessing
    EventuallyAnswered
CHECK_DEADLOCK FALSE
