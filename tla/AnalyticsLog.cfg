SPECIFICATION Spec
CONSTANTS
    Users = {u1, u2}
    ClientIds = {i1}
    NoId = NoId
    Requests = {r1, r2}
    HasStore = FALSE
INVARIANTS
    LoggedIsStored
CHECK_DEADLOCK FALSE
