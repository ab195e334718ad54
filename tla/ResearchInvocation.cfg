SPECIFICATION FairSpec
CONSTANTS
    Threads = {t1, t2}
    Urls = {u1, u2}
    Contents = {v1, v2}
    t1 = t1
    t2 = t2
    u1 = u1
    u2 = u2
    v1 = v1
    v2 = v2
    None = None
    Answers <- TwoAnswers
    Disturbances = 1
INVARIANTS
    ClaimIsBacked
    ResultIsExact
PROPERTIES
    AnswerIsKept
    CompletedStays
    ResearchEnds
CHECK_DEADLOCK FALSE
