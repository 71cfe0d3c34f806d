SPECIFICATION FairSpec
CONSTANTS
    t1 = t1
    d1 = d1
    d2 = d2
    d3 = d3
    Threads = {t1}
    DispatchIds = {d1}
    Foreground = {d1}
    ThreadOf <- OneThread
    Outcomes = {"Natural", "Transient"}
    MaxAttempts = 2
    MaxToken = 3
    MaxEpoch = 1
    MaxCrashes = 1
    MaxFaults = 1
    MaxTroubles = 1
    MaxPurges = 1
    MaxControls = 1
PROPERTIES
    ClaimReleased
    TerminalReconciled
CHECK_DEADLOCK FALSE
