SPECIFICATION SideSpec
SYMMETRY Symmetry
CONSTANTS
    Clients = {c1}
    Proxies = {p1}
    Trusted = {p1}
    TrustProxy = TRUE
    Accounts = {}
    Devices = {}
    None = None
    Dimensions <- MCDimensions
    Kinds = {"auth", "uploads", "finalize"}
    LimitOf <- MCLimits
    Reserves = {2}
    MaxBytes = 3
    MaxBodies = 2
    Requests = {r1, r2}
    MaxRequests = 3
    MaxFaults = 1
    Sides = {"gateway", "web"}
    Tabs = {t1, t2}
    Gets = {g1, g2}
    MaxTokens = 2
    MaxTickets = 0
    MaxVersion = 0
    MaxRulings = 0
    Emails = {}
    Passwords = {w1}
    MaxLoginAttempts = 1
    LockFor = 1
    MaxLinks = 0
INVARIANTS
    
    CountersExpire
    BudgetIsTrue
PROPERTIES
    SessionIsKept
CHECK_DEADLOCK FALSE
