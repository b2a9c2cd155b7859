SPECIFICATION FairSideSpec
CONSTANTS
    Sides = {"outbox", "uploads"}
    k1 = k1
    k2 = k2
    r1 = r1
    r2 = r2
    r3 = r3
    p1 = p1
    p2 = p2
    RowCount = 3
    Workers = {w1, w2}
    BatchSize = 2
    MaxFaults = 2
    Sessions = {s1}
    TotalChunks = 2
    Requests = {r1, r2}
    Reaper = Reaper
    NoOne = NoOne
    Contents = {"good", "short", "corrupt"}
    UploadFaults = 3
    Keys = {}
    NoKey = NoKey
    Uploads = {}
    NoUpload = NoUpload
    Advancers = {}
    Processes = {}
    ProcessOf <- TwoProcesses
    StageCount = 1
    Critical = {}
    MaxAttempts = 1
    MaxRetries = 1
    MaxActive = 1
    Threshold = 1
    Periods = {}
    Thresholds = {}
    Events = {}
    Calls = {}
    Drainers = {}
    None = None
    PoolPercent = 50
    BatchLimit = 2
    Floors = {}
    Earnings = {}
    Fees = {}
    MaxCalls = 0
    MaxAborts = 0
INVARIANTS
    CopiesAreBounded
    StoreMatches
PROPERTIES
    EventuallyPublished
    EverySessionEnds
\* Rows may come to an end.
CHECK_DEADLOCK FALSE
