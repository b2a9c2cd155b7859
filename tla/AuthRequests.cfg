SPECIFICATION SideSpec
SYMMETRY Symmetry
CONSTANTS
    Clients = {}
    Proxies = {}
    Trusted = {}
    TrustProxy = TRUE
    Accounts = {}
    Devices = {}
    None = None
    Dimensions <- MCDimensions
    Kinds = {}
    LimitOf <- MCLimits
    Reserves = {2}
    MaxBytes = 3
    MaxBodies = 2
    MaxRequests = 0
    MaxFaults = 0
    Sides = {"sessions", "access"}
    Tabs = {}
    Gets = {}
    Requests = {r1, r2}
    MaxTokens = 3
    MaxTickets = 1
    MaxVersion = 1
    MaxRulings = 1
    Emails = {e1}
    Passwords = {p1, p2}
    MaxLoginAttempts = 2
    LockFor = 1
    MaxLinks = 1
INVARIANTS
    SingleUse
    
    CredentialsStand
PROPERTIES
    ChangeEndsSessions
