CONSTANTS
    Trades = {t1, t2, t3}
    Alone = t3
    SignalOf <- MCSignalOf
    MaxRows = 1
    Moves <- MCMoves
    Marks = {2}
    Notional = 10
    DayLength = 2
    MaxClock = 3
    Unknown = Unknown
    Evaluations = {"e1"}
    Equity = 50
    LossStreak = 2
    MaxOpenMvp = 2
    Profiles <- MCProfiles
    Faults = {"spread_too_wide"}
    Items = {"i1", "i2"}
    Beside = "i2"
    NoteLimit = 1
    OrderWindow = 1
    Environments <- MCEnvironments
    EquitySymbols = {"A"}
    MaxOpen = 1
    MaxOrders = 1
    AutoTradingAllowed = TRUE
    ArmRequests = {r1, r2, r3}
    TicksPerDay = 2
    MaxNow = 3
    SnapshotAge = 1
    Unset = Unset
SPECIFICATION MCSpec
SYMMETRY MCSymmetry
INVARIANTS
    PagesTypeOK
    PagesTellTruth
    RulesHold
    AnswersTrue
    ArmedTruly
CHECK_DEADLOCK FALSE
