CONSTANTS
    Models = {"m1", "m2", "m3"}
    NoModel = "none"
    Requests = {1, 2, 3, 4}
    MaxOverlap = 1
    Tickets = {"o1", "o2"}
    HaltRows = 2
    NoLimit = NoLimit
    Exposures = {1}
    ContentionHold = 3
    ShortHold = 1
    Ingestions = {1, 2}
    OrderRefs = {"o1"}
    Prices = {1, 2}
    Gains = {5}
    MaxFills = 2
    MaxSnapshots = 1
    Keys = {"k1", "k2"}
    Submissions = {1, 2, 3, 4}
    MaxTogether = 2
    Jobs = {"j1", "j2"}
    NoJob = "none"
    MaxCombinations = 2
    Plans = {"p1", "p2"}
    Wins = {}
    Losses = {"l1"}
    Closings = {"c1"}
    Required = {1}
    Metrics = {"sufficient"}
    MinimumDays = 2
    Symbols = {"A"}
    Allowlist <- MCAllowlist
    MaxRows = 2
    Trainings = {1, 2}
    Samples = {"s1", "s2"}
    MinHours = 2
    MinTotal = 1
    MinNew = 1
    Horizon = 3
    Assets = {"a1", "a2"}
    MaxPasses = 1
    Shapes <- MCShapes
    MaxCandles = 8
    FastWindow = 2
    SlowWindow = 3
    RiskReward = 2
    HoldBars = 2
    Replays = {1, 2}
    Reviews = {11}
    NoRequest = 0
    Parts = 2
    MaxReplays = 1
    RunLength = 5
    Percentages <- MCPercentages
    MaxFolds = 3
    Capital = 100
    Pnls <- MCPnls
    EnoughTrades = 2
    MaxTrades = 3
    Rules = {"r1"}
    Changes = {1, 2}
    Conditions <- MCConditions
    OrderStatuses = {"filled", "blocked"}
    MaxOrders = 1
    ScanLimit = 1
    Writers = {1, 2, 3}
    NoWriter = 0
    Executions = {"e1", "e2"}
    MaxEntries = 2
SPECIFICATION MCSpec
INVARIANTS
    ServicesTypeOK
    SingleActive
    DeskAnswersForOrders
    ProcessedOncePerKey
    RunningIsAlive
    PlansToldTruly
    VersionsSpaced
    SweepTallyTrue
    SimulationsJudgeFairly
    CompletedIsOneReplay
    EventsKept
PROPERTIES
    ImplementsSlot
    JobsSettle
    HygieneKeepsNewest
    Recovers
CHECK_DEADLOCK FALSE
