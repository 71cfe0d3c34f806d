SPECIFICATION Spec
CONSTANTS
    t1 = t1
    t2 = t2
    Tasks = {}
    Modes = {"parallel"}
    Origins = {"root"}
    Channels = {FALSE}
    MaxCalls = 2
    MaxAsks = 1
    MaxDecisions = 2
    MaxTroubles = 0
    MaxEntries = 2
PROPERTIES
    ModelNeverOvertakesDecision
CHECK_DEADLOCK FALSE
