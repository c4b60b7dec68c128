SPECIFICATION DetectionSpec
CONSTANTS
    Consumers = {w1}
    Prefetch = 2
    FrameCount = 3
    Hits = {1, 3}
    MaxEvents = 2
    MaxAttempts = 3
    Faults <- FaultKinds
INVARIANTS
    DetectionTypeOK
    DetectedMeansRecorded
    NamedCropsExist
    AckedMeansDetected
PROPERTIES
    RecordedBeforePublished
CHECK_DEADLOCK FALSE
