SPECIFICATION FairSpec
CONSTANTS
    Requests = {q1, q2}
    q1 = q1
    q2 = q2
    q3 = q3
    news = news
    vix = vix
    Sections = {news, vix}
    Wants <- TwoWants
    Reason <- TwoReasons
    Material = {"MACRO_ACTUAL"}
    Runners = {r1, r2}
    r1 = r1
    r2 = r2
    None = None
    Disturbances = 2
PROPERTY EveryRequestServed
CHECK_DEADLOCK FALSE
