CONSTANTS
    MaxVersions = 2
    GatewayCalls = {c1, c2}
    QpsLimit = 2
    ConcurrencyLimit = 1
    DailyLimit = 2
    MaxTokens = 1
    ProbesToClose = 2
    MaxRefills = 1
    SampleCount = 2
    MaxWorkers = 2
    Scores = {4, 8}
    Latencies = {1}
    OutputCount = 2
    MaxRuns = 2
    Totals = {4}
    SloTarget = 75
    ScoreThreshold = 7000
    MaxP1Alerts = 0
    Scenarios = {"s1", "s2", "s3"}
    ValueOf <- MCValueOf
    MaxScenarios = 3
    Variants <- MCVariants
    Buckets = 4
    Subjects = {"u1", "u2"}
    BucketOf <- MCBucketOf
    CacheReaders = {r1}
    QueryKeys = {k1, k2, k3}
    MaxSize = 2
    MaxUpdates = 2
    Chunks <- MCChunks
    UserRoles = {"public", "admin", "guest"}
    SearchTopK = 3
    FinalTopK = 3
    TopN = 3
    TokenBudgets = {1, 3}
    StepCount = 3
    DepthLimits = {0, 2, 3}
    ParallelLimits = {0, 2, 3}
    ConcurrencyLimits = {1, 2}
    DefaultDepth = 6
    DefaultParallel = 4
    Editors = {e1, e2}
    Callbacks = {keep, once}
    OneShots = {once}
    MaxEdits = 3
    MaxWatches = 2
    Unknown = Unknown
SPECIFICATION QualitySpec
INVARIANTS
    QualityTypeOK
    AuditComplete
    SlotsAreCalls
    LimitHeldUnlessRaced
    SummaryAddsUp
    PassMeansHealthy
    WeaknessShows
    RampUpKeepsSubjects
    CachedIsFresh
    RetrievalIsFull
    CyclesAreRefused
    BatchesAreLevels
    MirrorInStep
PROPERTIES
    NothingLeftOut
