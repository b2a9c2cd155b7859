SPECIFICATION SideSpec
CONSTANTS
    Sides = {"limit", "delivery", "records"}
    NoSession = NoSession
    s1 = s1
    s2 = s2
    s3 = s3
    u1 = u1
    u2 = u2
    Sessions = {s1, s2, s3}
    Users = {u1}
    UserOf <- OneUser
    MaxActive = 2
    IdleTimeout = 1
    Requests = {w1, w2}
    MaxTime = 2
    Viewings = {v1}
    Episodes = {e1, e2}
    Titles = {t1, t2}
    Protocols = {hls}
    Fetches = {f1}
    Lifetime = 1
    UrlTtls = {1, 2}
    Names = {n1}
    Percents = {1, 2}
    Errors = {x1}
    Jobs = {}
    None = None
    MaxRequests = 0
    MaxVersion = 1
    MaxFaults = 0
    Seasons = {}
    Numbers = {}
    Ratings = {}
    MaxWrites = 0
    Items = {}
    Texts = {}
    Tags = {}
    MaxJobs = 0
    Asks = {}
    MaxFailures = 0
SYMMETRY Symmetry
INVARIANTS
    WithinLimit
    StreamingIsTrue
PROPERTIES
    EndedForAReason
CHECK_DEADLOCK FALSE
