SPECIFICATION SideSpec
CONSTANTS
    NoKey = NoKey
    NoConsumer = NoConsumer
    business = business
    Keys = {business}
    Log <- MCLog
    HandlerCount = 2
    MaxRetries = 2
    Dedup = TRUE
    Consumers = {c1, c2}
    MaxFaults = 2
    Calls = {p1, p2}
    MaxOutages = 1
    DeadLetters = {t1, t2}
    Services = {v1, v2}
INVARIANTS
    
    BrokerKeepsItsPart

    
CHECK_DEADLOCK FALSE
