SPECIFICATION Spec
CONSTANTS
    e1 = e1
    e2 = e2
    t1 = t1
    t2 = t2
    d1 = d1
    d2 = d2
    s1 = s1
    s2 = s2
    f1 = f1
    f2 = f2
    None = None
    Targets = {t1}
    Days = {d1, d2}
    Events = {e1, e2}
    CellOf <- TwoDays
    Seeders = {s1}
    Forces = {}
    MaxEdition = 1
    Disturbances = 0
PROPERTIES
    RemovalIsObserved
CHECK_DEADLOCK FALSE
