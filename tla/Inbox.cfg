SPECIFICATION FairSpec
CONSTANTS
    NoEvent = NoEvent
    Events = {e1, e2}
    KnownTypes = {e1, e2}
    Workers = {w1, w2}
    MaxAttempts = 2
    StaleAfter = 2
    MaxClaims = 3
    Overlapping = {e1}
    Crashing = {e1}
INVARIANTS
    ProcessedWasHandled
    EffectsAtMostOnce
PROPERTIES
    ImplementsOnceHandled
    EventuallySettled
