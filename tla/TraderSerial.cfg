CONSTANTS
    r1 = r1
    r2 = r2
    r3 = r3
    s1 = s1
    s2 = s2
    s3 = s3
    s4 = s4
    Runs = {r1, r2}
    Signals = {s1, s2, s3}
    NoSignal = NoSignal
    MaxOpen = 3
    MaxPerRun = 3
    MaxPerDay = 3
    KillOnErrorCount = 2
    RejectNum = 1
    RejectDen = 2
    Refused = {}
    MaxOverlap = 1
    Environment = {"close", "crash", "fatal"}
SPECIFICATION Spec
SYMMETRY Symmetric
INVARIANTS
    TypeOK
    RiskBeforeBroker
    PositionsBacked
    WatchdogHolds
PROPERTIES
    TradesSignalsOnce
CHECK_DEADLOCK FALSE
