SPECIFICATION Spec
CONSTANTS
    r1 = r1
    r2 = r2
    s1 = s1
    x1 = x1
    x2 = x2
    e1 = e1
    e2 = e2
    e3 = e3
    NoRun = NoRun
    Scenarios <- EditedAndQueuedAgain
    Runs = {r1, r2, s1}
    Steers = {s1}
    Boundary <- Boundaries
    Extras = {x1, x2}
    ExtraMode <- Modes
    Editors = {e1, e2, e3}
    MaxAttempts = 1
    MaxSteps = 1
PROPERTIES
    EditsDoNotClobber
CHECK_DEADLOCK FALSE
