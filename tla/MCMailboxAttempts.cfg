CONSTANTS
    d1 = d1
    d2 = d2
    t1 = t1
    t2 = t2
    Threads = {t1}
    DispatchIds = {d1}
    DedupeKeys = {"k"}
    NoKey = "none"
    Priorities = {0}
    Stamps = {0}
    MaxAttempts = 2
    EnqueuedAttempts = {0, 2}
    ClaimLimit = 1
    MaxEpoch = 1
    MaxToken = 2
SPECIFICATION Spec
INVARIANTS
    FailuresPreserveInvariants
CHECK_DEADLOCK FALSE
