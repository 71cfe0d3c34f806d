SPECIFICATION Spec
CONSTANTS
    t1 = t1
    t2 = t2
    Tasks = {}
    Modes = {"sequential"}
    Origins = {"root"}
    Channels = {FALSE}
    MaxCalls = 1
    MaxAsks = 1
    MaxDecisions = 1
    MaxTroubles = 1
    MaxEntries = 3
INVARIANTS
    DecisionIsIdempotent
CHECK_DEADLOCK FALSE
