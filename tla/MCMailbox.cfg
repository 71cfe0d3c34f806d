SPECIFICATION Spec
CONSTANTS
    t1 = t1
    d1 = d1
    d2 = d2
    d3 = d3
    Threads = {t1}
    DispatchIds = {d1, d2}
    Foreground = {d2}
    ThreadOf <- OneThread
    Outcomes = {"Natural", "Suspended", "Transient", "Permanent", "Phase"}
    MaxAttempts = 2
    MaxToken = 2
    MaxEpoch = 2
    MaxCrashes = 0
    MaxFaults = 1
    MaxTroubles = 1
    MaxPurges = 0
    MaxControls = 0
INVARIANTS
    BusyWorkerHasTask
    ClaimIsRenewed
    OneLocalExecution
    RejectedNeverRuns
PROPERTIES
    ImplementsStore
CHECK_DEADLOCK FALSE
