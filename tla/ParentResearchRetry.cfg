SPECIFICATION ParentFairSpec
CONSTANTS
    Jobs = {1}
    Workers = {w1, w2}
    Slots = {s1, s2}
    w1 = w1
    w2 = w2
    s1 = s1
    s2 = s2
    Misprojected = {1}
    None = None
    WorkerOf <- OneThreadEach
    Scope <- OwnScopes
    Allowed <- AllJobs
    Capable <- AllJobs
    Verdicts = {"SUCCEEDED"}
    FailKinds = {"FAILED"}
    MaxAttempts = 2
    AttemptCap = 2
PROPERTY ClosedJobsCloseRuns
CHECK_DEADLOCK FALSE
