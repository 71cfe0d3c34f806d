SPECIFICATION FairSpec
CONSTANTS
    w1 = w1
    w2 = w2
    w3 = w3
    r1 = r1
    r2 = r2
    f1 = f1
    f2 = f2
    d = d
    Deleter = d
    Nobody = Nobody
    Writers = {w1, w3}
    Flushers = {f1}
    Runs = {r1, r2}
    RunOf <- TwoRuns
    Lapsing = {w1, f1}
    Late = {w1}
    MaxTroubles = 1
    MaxDeletes = 0
PROPERTIES
    Drained
CHECK_DEADLOCK FALSE
