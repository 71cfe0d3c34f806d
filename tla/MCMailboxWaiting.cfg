SPECIFICATION Spec
CONSTANTS
    t1 = t1
    d1 = d1
    d2 = d2
    d3 = d3
    Threads = {t1}
    DispatchIds = {d1}
    Foreground = {}
    ThreadOf <- OneThread
    Outcomes = {"Suspended"}
    MaxAttempts = 2
    MaxToken = 3
    MaxEpoch = 1
    MaxCrashes = 1
    MaxFaults = 0
    MaxTroubles = 1
    MaxPurges = 1
    MaxControls = 0
PROPERTIES
    WaitingRunStaysSuspended
CHECK_DEADLOCK FALSE
