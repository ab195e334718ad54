SPECIFICATION FairSpec
CONSTANTS
    e1 = e1
    e2 = e2
    t1 = t1
    t2 = t2
    d1 = d1
    d2 = d2
    s1 = s1
    s2 = s2
    f1 = f1
    f2 = f2
    None = None
    Targets = {t1}
    Days = {d1}
    Events = {e1}
    CellOf <- OneCell
    Seeders = {s1, s2}
    Forces = {f1}
    MaxEdition = 1
    Disturbances = 1
INVARIANTS
    SingleFlight
    VerifiedIsBacked
PROPERTIES
    Discovery
CHECK_DEADLOCK FALSE
