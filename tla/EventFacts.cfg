SPECIFICATION Spec
CONSTANTS
    v1 = v1
    v2 = v2
    r1 = r1
    r2 = r2
    w1 = w1
    w2 = w2
    None = None
    Times = {1, 2}
    Values = {v1, v2}
    Refreshers = {r1, r2}
    Workers = {w1, w2}
    SameKey = FALSE
    MaxRounds = 6
SYMMETRY Alike
INVARIANTS
    SurpriseIsOfficial
PROPERTIES
    ReleasedReopensByTimeOnly
    QuarantineHolds
CHECK_DEADLOCK FALSE
