SPECIFICATION Spec
CONSTANTS
    d1 = d1
    d2 = d2
    c1 = c1
    c2 = c2
    Nobody = Nobody
    Dispatches = {d1, d2}
    Keyings = {{}, {d1, d2}}
    Callers = {c1, c2}
    Ops = {"enqueue", "claim", "interrupt", "ack", "nack", "extend", "reclaim", "record"}
    Lease = 1
    MaxAttempts = 2
    SlowEnqueue = FALSE
    MaxToken = 2
    MaxClock = 3
    MaxEpoch = 1
    MaxBoots = 0
    MaxTroubles = 0
SYMMETRY Alike
INVARIANTS
    OneLiveClaim
    DedupeHolds
CHECK_DEADLOCK FALSE
