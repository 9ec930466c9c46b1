CONSTANTS
    r1 = r1
    r2 = r2
    r3 = r3
    s1 = s1
    s2 = s2
    s3 = s3
    s4 = s4
    Runs = {r1, r2, r3}
    Signals = {s1, s2}
    NoSignal = NoSignal
    MaxOpen = 2
    MaxPerRun = 1
    MaxPerDay = 1
    KillOnErrorCount = 2
    RejectNum = 1
    RejectDen = 2
    Refused = {}
    MaxOverlap = 2
    Environment = {"fatal"}
SPECIFICATION FairSpec
INVARIANTS
    RunCap
    DailyOvershootBounded
PROPERTIES
    RunsTerminate
CHECK_DEADLOCK FALSE
