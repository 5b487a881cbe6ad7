CONSTANTS
    k1 = k1
    k2 = k2
    Strategies = {k1, k2}
    Profits <- SmallProfits
    Capital = 10
    MaxDrawdown = 10
    Limited = {k1}
    Allocated <- SmallAlloc
    StrategyLimit <- SmallLimit
    Tasks = {t1, t2}
    MaxUpdates = 2
    MaxFailures = 1
    Signals = {1, 2, 3}
    Keys = {k1, k2}
    Order <- SmallOrder
    Prices = {1, 2}
    Powers = {0, 4}
    MaxGross = 3
    MaxSingle = 2
    MaxPosition <- SmallPosition
    Buffer = 20
    Documents = {k1, k2}
    GreekNames = {delta, gamma}
    Updaters = {t1, t2}
    MaxVersion = 2
SPECIFICATION MCSpec
INVARIANTS
    PeakWasReached
    ExposureBounded
    NetsAreTheSum
PROPERTIES
    PeakNeverFalls
    LossesAreStopped
CHECK_DEADLOCK FALSE
