SPECIFICATION PartsSpec
CONSTANTS
    Parts = {"requests"}
    c1 = c1
    c2 = c2
    cam1 = cam1
    cam2 = cam2
    h1 = h1
    h2 = h2
    h3 = h3
    h4 = h4
    v1 = v1
    v2 = v2
    e1 = e1
    e2 = e2
    r1 = r1
    r2 = r2
    r3 = r3
    a1 = a1
    a2 = a2
    Hits <- FourHits
    Videos <- TwoVideos
    VideoOf <- VideoOfHit
    StartOf <- StartOfHit
    LabelOf <- LabelOfHit
    CameraOf <- CameraOfVideo
    DedupWindow = 5
    RankedLists <- EveryRanking
    Clients <- OneClient
    Ranking <- OneRanking
    Keys <- CameraKeys
    TopK = 2
    Asks <- AskedOfCamera
    PageSizes <- SizesOf
    Indexed <- IndexedAtFirst
    ResultTTL = 2
    End = End
    MaxDelay = 1
    MaxBack = 1
    MaxChanges = 1
    SearchFaults = {}
    Searches = {s1, s2}
    HistoryLimit = 3
    HistoryPage = 2
    QueryTypes = {"text", "image"}
    MaxEntries = 5
    VideoLengths = {1, 2, 5, 6}
    FrameInterval = 1
    MinClip = 3
    DefaultClip = 4
    MaxClip = 4
    Consumers = {w1}
    Prefetch = 2
    Events = {e1, e2}
    Runs <- ThreeRuns
    EventOf <- TwoOfOne
    Artifacts = {a1, a2}
    Content <- TwoThenNone
    MaxEvents = 2
    Faults <- AllFaults
INVARIANTS
    CameraFilterFinds
CHECK_DEADLOCK FALSE
