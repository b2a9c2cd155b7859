SPECIFICATION SideSpec
SYMMETRY Symmetry
CONSTANTS
    Sides = {"jobs", "creators"}
    k1 = k1
    k2 = k2
    r1 = r1
    r2 = r2
    r3 = r3
    p1 = p1
    p2 = p2
    RowCount = 0
    Workers = {}
    BatchSize = 1
    MaxFaults = 0
    Sessions = {}
    TotalChunks = 1
    Requests = {}
    Reaper = Reaper
    NoOne = NoOne
    Contents = {}
    UploadFaults = 0
    Keys = {k1, k2}
    NoKey = NoKey
    Uploads = {u1}
    NoUpload = NoUpload
    Advancers = {r1, r2, r3}
    Processes = {p1, p2}
    ProcessOf <- TwoProcesses
    StageCount = 2
    Critical <- FirstCritical
    MaxAttempts = 2
    MaxRetries = 3
    MaxActive = 1
    Threshold = 1
    Periods = {d1}
    Thresholds = {10}
    Events = {1, 2}
    Calls = {r1, r2}
    Drainers = {k1, k2}
    None = None
    PoolPercent = 50
    BatchLimit = 2
    Floors = {4}
    Earnings = {2}
    Fees = {3}
    MaxCalls = 4
    MaxAborts = 1

    
PROPERTIES
    ProgressIsKept
    CreatorsArePaid
\* Clients may stop asking.
CHECK_DEADLOCK FALSE
