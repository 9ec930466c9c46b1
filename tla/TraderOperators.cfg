CONSTANTS
    r1 = r1
    r2 = r2
    r3 = r3
    s1 = s1
    s2 = s2
    s3 = s3
    s4 = s4
    Runs = {r1, r2}
    Signals = {s1, s2, s3}
    NoSignal = NoSignal
    MaxOpen = 2
    MaxPerRun = 2
    MaxPerDay = 2
    KillOnErrorCount = 1
    RejectNum = 1
    RejectDen = 2
    Refused = {s2}
    MaxOverlap = 2
    Environment = {"kill", "halt"}
SPECIFICATION Spec
SYMMETRY Symmetric
INVARIANTS
    OperatorStops
CHECK_DEADLOCK FALSE
