SPECIFICATION Spec
CONSTANTS
    Threads = {t1, t2}
    Urls = {u1}
    Contents = {v1, v2}
    t1 = t1
    t2 = t2
    u1 = u1
    u2 = u2
    v1 = v1
    v2 = v2
    None = None
    Answers <- OneAnswer
    Disturbances = 2
INVARIANT EvidenceIsMatched
CHECK_DEADLOCK FALSE
