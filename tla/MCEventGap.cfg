SPECIFICATION Spec
CONSTANTS
    p1 = p1
    p2 = p2
    f1 = f1
    Script <- TextThenEnd
    Wires = 1
    Projectors = {p1}
    Fanouts = {}
    Batch = 1
    MaxAttempts = 2
    CacheLimit = 2
    MaxTroubles = 1
INVARIANTS
    DeliveredIsWhole
CHECK_DEADLOCK FALSE
