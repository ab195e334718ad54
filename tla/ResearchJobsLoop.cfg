SPECIFICATION Spec
CONSTANTS
    Jobs = {1, 2}
    Workers = {w1, w2}
    Slots = {s1, s2}
    w1 = w1
    w2 = w2
    s1 = s1
    s2 = s2
    Misprojected = {2}
    None = None
    WorkerOf <- OneThreadEach
    Scope <- OwnScopes
    Allowed <- OneDisabled
    Capable <- AllJobs
    Verdicts = {"SUCCEEDED"}
    FailKinds = {"FAILED", "LOOP_DETECTED"}
    MaxAttempts = 2
    AttemptCap = 3
INVARIANTS
    TypeOK
    LedgerAgrees
    ExhaustedOnlyContinues
    ClosedByLatest
PROPERTY TerminalIsFinal
CHECK_DEADLOCK FALSE
