SPECIFICATION FairSpec
CONSTANTS
    t1 = t1
    t2 = t2
    Tasks = {t1}
    Modes = {"sequential", "parallel"}
    Origins = {"root", "subagent"}
    Channels = {TRUE, FALSE}
    MaxCalls = 2
    MaxAsks = 2
    MaxDecisions = 1
    MaxTroubles = 1
    MaxEntries = 3
INVARIANTS
    NoTaskLeftBehind
    PairedTranscript
    RunsOnlyWhenApproved
PROPERTIES
    ModelWaitsForDecisions
    Settles
CHECK_DEADLOCK FALSE
