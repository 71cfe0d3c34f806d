CONSTANTS
    d1 = d1
    d2 = d2
    t1 = t1
    t2 = t2
    Threads = {t1}
    DispatchIds = {d1, d2}
    DedupeKeys = {"k"}
    NoKey = "none"
    Priorities = {0}
    Stamps = {0}
    MaxAttempts = 2
    EnqueuedAttempts = {0, 2}
    ClaimLimit = 1
    MaxEpoch = 2
    MaxToken = 3
SPECIFICATION Spec
INVARIANTS
    OneClaimPerThread
    RecordsStayValid
    QueuedIsCurrent
    DedupeKeyUnique
PROPERTIES
    InterruptFencesClaims
    TerminalIsFinal
SYMMETRY DispatchSymmetry
CHECK_DEADLOCK FALSE
