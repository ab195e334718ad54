SPECIFICATION Spec
CONSTANTS
    c1 = c1
    c2 = c2
    t1 = t1
    t2 = t2
    None = None
    Coroutines = {c1, c2}
    Threads = {t1}
    Limit = 2
    Window = 2
    Threshold = 2
    Recovery = 1
    Attempts = 2
    TTL = 1
    NegativeTTL = 1
    Grace = 1
    MaxCalls = 3
    MaxTime = 3
PROPERTY LastKnownGoodStays
CHECK_DEADLOCK FALSE
