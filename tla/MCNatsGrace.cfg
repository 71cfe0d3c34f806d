SPECIFICATION Spec
CONSTANTS
    d1 = d1
    d2 = d2
    c1 = c1
    c2 = c2
    Nobody = Nobody
    Dispatches = {d1, d2}
    Keyings = {{d1, d2}}
    Callers = {c1, c2}
    Ops = {"enqueue"}
    Lease = 1
    MaxAttempts = 2
    SlowEnqueue = TRUE
    MaxToken = 0
    MaxClock = 1
    MaxEpoch = 0
    MaxBoots = 0
    MaxTroubles = 0
SYMMETRY Alike
INVARIANTS
    NoLockStolen
CHECK_DEADLOCK FALSE
