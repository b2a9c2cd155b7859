SPECIFICATION SideSpec
SYMMETRY Symmetry
CONSTANTS
    Sides = {"search", "catalogue", "titles", "recommendations"}
    s1 = s1
    s2 = s2
    s3 = s3
    u1 = u1
    u2 = u2
    NoSession = NoSession
    Sessions = {}
    Users = {u1, u2}
    UserOf <- OneUser
    MaxActive = 1
    IdleTimeout = 1
    Requests = {r1, r2}
    MaxTime = 0
    Viewings = {}
    Episodes = {}
    Titles = {t1}
    Protocols = {}
    Fetches = {}
    Lifetime = 1
    UrlTtls = {}
    Names = {n1, n2}
    Percents = {}
    Errors = {}
    Jobs = {j1}
    None = None
    MaxRequests = 3
    MaxVersion = 2
    MaxFaults = 1
    Seasons = {s1}
    Numbers = {n1, n2}
    Ratings = {0, 4}
    MaxWrites = 4
    Items = {i1}
    Texts = {x, y}
    Tags = {g1}
    MaxJobs = 1
    Asks = {r1, r2, r3}
    MaxFailures = 1
INVARIANTS
    
    AliasStands
    StoredIsCounted
PROPERTIES
    NothingStalePrevails
CHECK_DEADLOCK FALSE
