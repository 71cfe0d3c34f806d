SPECIFICATION FairSpec
CONSTANTS
    t1 = t1
    d1 = d1
    d2 = d2
    d3 = d3
    Threads = {t1}
    DispatchIds = {d1, d2}
    Foreground = {d2}
    ThreadOf <- OneThread
    Outcomes = {"Natural"}
    MaxAttempts = 2
    MaxToken = 3
    MaxEpoch = 2
    MaxCrashes = 0
    MaxFaults = 1
    MaxTroubles = 1
    MaxPurges = 0
    MaxControls = 0
PROPERTIES
    ClaimReleased
    QueuedBehindRun
CHECK_DEADLOCK FALSE
