CONSTANTS
    r1 = r1
    r2 = r2
    r3 = r3
    s1 = s1
    s2 = s2
    s3 = s3
    s4 = s4
    Runs = {r1, r2, r3}
    Signals = {s1, s2, s3, s4}
    NoSignal = NoSignal
    MaxOpen = 2
    MaxPerRun = 2
    MaxPerDay = 6
    KillOnErrorCount = 1
    RejectNum = 0
    RejectDen = 2
    Refused = {}
    MaxOverlap = 2
    Environment = {}
SPECIFICATION Spec
SYMMETRY Symmetric
VIEW DecidesPositions
INVARIANTS
    PositionOvershootBounded
CHECK_DEADLOCK FALSE
