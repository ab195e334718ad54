SPECIFICATION Spec
CONSTANTS
    Requests = {q1, q2}
    q1 = q1
    q2 = q2
    q3 = q3
    news = news
    vix = vix
    Sections = {news, vix}
    Wants <- EqualWants
    Reason <- TwoReasons
    Material = {"MACRO_ACTUAL"}
    Runners = {r1, r2}
    r1 = r1
    r2 = r2
    None = None
    Disturbances = 1
INVARIANT MaterialServedByNewer
CHECK_DEADLOCK FALSE
