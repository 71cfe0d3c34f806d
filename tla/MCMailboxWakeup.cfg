SPECIFICATION FairSpec
CONSTANTS
    t1 = t1
    d1 = d1
    d2 = d2
    d3 = d3
    Threads = {t1}
    DispatchIds = {d1, d2}
    Foreground = {}
    ThreadOf <- OneThread
    Outcomes = {"Natural", "Transient"}
    MaxAttempts = 2
    MaxToken = 3
    MaxEpoch = 1
    MaxCrashes = 0
    MaxFaults = 0
    MaxTroubles = 1
    MaxPurges = 0
    MaxControls = 0
PROPERTIES
    QueuedRunStarts
CHECK_DEADLOCK FALSE
