SPECIFICATION FairSpec
CONSTANTS
    Keys = {k1}
    k1 = k1
    k2 = k2
    scanner = scanner
    catchup = catchup
    Scanners = {catchup}
    CatchUp = catchup
    AgentOn = {k1}
    Gaps = {}
    Temporary = TRUE
    MaxFeed = 1
    None = None
    Disturbances = 1
    BatchSize = 1
    MaxPerTick = 2
PROPERTIES
    ReachesOutcome
CHECK_DEADLOCK FALSE
