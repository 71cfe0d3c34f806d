SPECIFICATION FairSpec
CONSTANTS
    m1 = m1
    m2 = m2
    c1 = c1
    c2 = c2
    s1 = s1
    Members = {m1, m2}
    Backups = {m2}
    Callers = {c1, c2}
    Modes <- SecondMayCall
    Sessions = {s1}
    SessionOf <- OneSession
    Preference <- FirstThenSecond
    Kinds = {"transient", "request"}
    Threshold = 1
    HalfOpenMax = 1
    MaxSwitches = 2
    StreamLimit = 2
    StreamRetries <- NoRetries
PROPERTIES
    ProbeResolves
CHECK_DEADLOCK FALSE
