SPECIFICATION Spec
CONSTANTS
    Jobs = {1}
    Workers = {w1}
    Slots = {s1, s2}
    w1 = w1
    w2 = w2
    s1 = s1
    s2 = s2
    Misprojected = {1}
    None = None
    WorkerOf <- SharedWorker
    Scope <- OwnScopes
    Allowed <- AllJobs
    Capable <- AllJobs
    Verdicts = {"SUCCEEDED"}
    FailKinds = {"FAILED"}
    MaxAttempts = 2
    AttemptCap = 3
INVARIANT RetryLeavesAttemptTerminal
CHECK_DEADLOCK FALSE
