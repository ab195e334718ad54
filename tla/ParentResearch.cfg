SPECIFICATION ParentSpec
CONSTANTS
    Jobs = {1, 2}
    Workers = {w1}
    Slots = {s1, s2}
    w1 = w1
    w2 = w2
    s1 = s1
    s2 = s2
    Misprojected = {2}
    None = None
    WorkerOf <- SharedWorker
    Scope <- OwnScopes
    Allowed <- AllJobs
    Capable <- AllJobs
    Verdicts = {"SUCCEEDED"}
    FailKinds = {"FAILED"}
    MaxAttempts = 1
    AttemptCap = 2
INVARIANTS
    OneMaterialiser
    SucceededIsEarned
    OrphanedOnlyByExit
PROPERTY StoredOnce
CHECK_DEADLOCK FALSE
