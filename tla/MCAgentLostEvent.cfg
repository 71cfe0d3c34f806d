SPECIFICATION FairSpec
CONSTANTS
    t1 = t1
    t2 = t2
    Tasks = {t1}
    Modes = {"sequential"}
    Origins = {"root"}
    Channels = {FALSE}
    MaxCalls = 1
    MaxAsks = 1
    MaxDecisions = 0
    MaxTroubles = 0
    MaxEntries = 2
PROPERTIES
    AwaitedTasksResume
CHECK_DEADLOCK FALSE
