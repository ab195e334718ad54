SPECIFICATION Spec
CONSTANTS
    Keys = {k1, k2}
    k1 = k1
    k2 = k2
    scanner = scanner
    catchup = catchup
    Scanners = {catchup}
    CatchUp = catchup
    AgentOn = {k1}
    Gaps = {}
    Temporary = FALSE
    MaxFeed = 1
    None = None
    Disturbances = 0
    BatchSize = 1
    MaxPerTick = 2
PROPERTIES
    CompletedIsEarned
CHECK_DEADLOCK FALSE
