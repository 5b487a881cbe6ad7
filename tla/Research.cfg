CONSTANTS
    v1 = v1
    v2 = v2
    Feeds = {1, 2}
    Validators = {v1, v2}
    Wirings <- SharedOrOwn
    Ticks <- SmallTicks
    MaxMove = 50
    BufferSize = 3
    Dispatchers = {l1, l2}
    MaxQueued = 1
    MaxAccepted = 4
    BucketCount = 3
    FeatureCount = 2
    Loops = {l1, l2}
    MinHistory = 2
    MaxTicks = 3
    MaxFaults = 1
    Holidays = {2, 7}
    LastDay = 9
    Symbols = {"a", "b"}
    History <- SmallHistory
    TotalStart = 1
    TotalEnd = 6
    TrainWindow = 1
    TestWindow = 2
    StepDays = 2
    StartingCapital = 10000
    Quantities = {1, 2}
    Impact = 50
    Commission = 100
    MaxFills = 2
    LastDate = 2
    Parts = 3
    FlushSize = 2
    Attempts = 3
    MaxRuns = 2
    MaxErrors = 2
    TicksPerDay = 9
    Learnable <- SmallLearnable
    Ahead = 2
    MaxGap = 3
    Splits = 5
    MinRows = 20
    TotalDays = 7
    TrainDays = 4
    TestDays = 1
    TrialStep = 1
SPECIFICATION MCSpec
SYMMETRY LoopSymmetry
INVARIANTS
    RowsAreChains
    BucketsAgree
    RunAgrees
    OneTickFeatures
    RowsAccounted
    EntriesAlternate
    WaitIsRight
    TicksCountOnce
    LoadedOnce
    JudgedOnUnseen
PROPERTIES
    FillsCostMoney
CHECK_DEADLOCK FALSE
