SPECIFICATION FairSpec
CONSTANTS
    p1 = p1
    p2 = p2
    f1 = f1
    Script <- TextThenEnd
    Wires = 1
    Projectors = {p1, p2}
    Fanouts = {f1}
    Batch = 2
    MaxAttempts = 2
    CacheLimit = 1
    MaxTroubles = 1
INVARIANTS
    NeverMixed
    DeliveredIsPublished
PROPERTIES
    ClaimHolderSettles
    RowsSettle
CHECK_DEADLOCK FALSE
