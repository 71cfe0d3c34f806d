SPECIFICATION Spec
CONSTANTS
    m1 = m1
    m2 = m2
    c1 = c1
    c2 = c2
    s1 = s1
    Members = {m1, m2}
    Backups = {m2}
    Callers = {c1, c2}
    Modes <- AlwaysStreams
    Sessions = {s1}
    SessionOf <- OneSession
    Preference <- FirstThenSecond
    Kinds = {"transient"}
    Threshold = 2
    HalfOpenMax = 1
    MaxSwitches = 2
    StreamLimit = 1
    StreamRetries <- NoRetries
INVARIANTS
    ChargedOnce
CHECK_DEADLOCK FALSE
