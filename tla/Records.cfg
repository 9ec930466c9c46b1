CONSTANTS
    Targets = {"base", "001_initial_tables", "d058936fdd0d", "a1b2c3d4e5f6",
               "c4d5e6f7a8b9", "e1f2a3b4c5d6", "o0p1q2r3s4t5", "h8i9j0k1l2m3"}
    Base = "base"
    Filled = {"assets", "prompt_versions", "research_jobs"}
    Providers = {"p", "q"}
    All = "all"
    Times = {0, 1, 2, 4, 5, 7}
    Feeds <- MCFeeds
    Lookback = 3
    Weekend = {5, 6}
    MaxBatches = 2
    Reviewers = {v1, v2}
    Markets <- MCMarkets
    Gains <- MCGains
    Capital = 4000
    CloseTimes = {1, 2, 3}
    Configs = 2
    Measures <- MCMeasures
    Compared = 2
    MaxReplays = 1
    Reporters = {q1, q2}
    RawConfidences = {1, 50, 8500}
    Recs = {r1}
    RecReviewers = {v1, v2}
    Previewers = {p1, p2}
    Pairs = {a1}
    Results = {a1}
    Creators = {c1, c2}
    Updaters = {u1}
    MaxCandidates = 3
    Texts = {t1, t2}
    Proposed = Proposed
    Unseeded = Unseeded
    Applies = {w1, w2}
    Askers = {q1}
    Prices = {0, 1, 2, 3, 4}
    VersionRoom = 1
    MaxModels = 2
    SweptAssets = 2
    Paces = {0, 20, 61}
    Down = Down
    None = None
    Missing = Missing
    NoFigure = NoFigure
    NoRec = NoRec
SPECIFICATION MCSpec
SYMMETRY MCSymmetry
INVARIANTS
    RecordsTypeOK
    DeploymentsKeepRecords
    DataToldTruly
    LabTellsTruth
    RecommendationsGuarded
CHECK_DEADLOCK FALSE
