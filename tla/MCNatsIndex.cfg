SPECIFICATION FairSpec
CONSTANTS
    d1 = d1
    d2 = d2
    c1 = c1
    c2 = c2
    Nobody = Nobody
    Dispatches = {d1, d2}
    Keyings = {{}}
    Callers = {c1}
    Ops = {"enqueue", "claim", "record", "dead_letter", "supersede", "cancel", "purge"}
    Lease = 1
    MaxAttempts = 2
    SlowEnqueue = FALSE
    MaxToken = 2
    MaxClock = 1
    MaxEpoch = 0
    MaxBoots = 2
    MaxTroubles = 1
PROPERTIES
    IndexHeals
CHECK_DEADLOCK FALSE
