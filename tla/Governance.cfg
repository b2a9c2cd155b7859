SPECIFICATION SideSpec
CONSTANTS
    NoCreator = NoCreator
    NoFlag = NoFlag
    f1 = f1
    f2 = f2
    f3 = f3
    f4 = f4
    f5 = f5
    creator = creator
    other = other
    Flags = {f1, f2, f3, f4, f5}
    Creators = {creator, other}
    CreatorOf <- MCCreatorOf
    Moderators = {m1, m2}
    Threshold = 2
    Requests = {q1, q2}
    Admins = {a1}
    Tokens = {t1}
    Replicas = {p1, p2}
    Values = {x, y}
    MaxAudit = 3
    Versions = {v1, v2, v3}
    MaxConsents = 2
    Users = {u1}
    Parents = {n1, n2}
    Ages = {12, 14, 17}
    MaxRows = 2
    Devices = {d1}
    Edits = {q1, q2, q3}
    Consumer = Consumer
    MaxFaults = 1
    Addressees = {n1, n2}
    Events = {e1}
    Lists = {{"in-app", "unknown"}, {"push"}}
SYMMETRY Symmetry
INVARIANTS
    DecisionsCount
    
    ChildrenAreProtected
    NotifiedOnce
PROPERTIES
    
    ProfilesAreKept
\* The moderators may have nothing left to decide.
CHECK_DEADLOCK FALSE
