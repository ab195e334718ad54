SPECIFICATION FairSpec
CONSTANTS
    Keys = {k1}
    k1 = k1
    k2 = k2
    scanner = scanner
    catchup = catchup
    Scanners = {scanner, catchup}
    CatchUp = catchup
    AgentOn = {k1}
    Gaps = {k1}
    Temporary = TRUE
    MaxFeed = 2
    None = None
    Disturbances = 2
    BatchSize = 2
    MaxPerTick = 2
INVARIANTS
    TypeOK
    GivesUpLate
    PartialIsTransient
PROPERTIES
    ReachesOutcomeOrLost
CHECK_DEADLOCK FALSE
