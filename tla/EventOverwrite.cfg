SPECIFICATION Spec
CONSTANTS
    v1 = v1
    v2 = v2
    r1 = r1
    r2 = r2
    w1 = w1
    w2 = w2
    None = None
    Times = {1}
    Values = {v1, v2}
    Refreshers = {r1, r2}
    Workers = {w1}
    SameKey = FALSE
    MaxRounds = 5
INVARIANT OfficialActualStands
CHECK_DEADLOCK FALSE
