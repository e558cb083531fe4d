SPECIFICATION MCSpec
CONSTANTS
    Components = {"parts"}
    r1 = r1
    r2 = r2
    r3 = r3
    Refs = {r1, r2, r3}
    Prices = {1, 2}
    MaxShares = 2
    MaxTotal = 3
    MaxIndex = 5
    PartSymbols = {1, 2, 3}
    Streams <- LongStream
    ChunkRows = 1
    MaxOpen = 2
    Inputs <- DatasetInputs
    EventWindows = {1, 2}
    ClockWindows = {1, 2}
    SessionStart = 1
    Horizons = {1, 2}
    Primary = 1
    RowStride = 2
    SharesOf <- PowersOfTwo
    NoRow = NoRow
    LogisticGrid <- FourCs
    BoostingGrid <- EightTrees
    Weights <- ThreeWeights
    Losses = {0, 1, 2, 3, 4}
    Profits = {0, 1, 2}
    Tolerance = 1
    Nothing = Nothing
    PredictionStreams <- ShortPredictions
    DecisionIndexes = {0, 1, 2, 3}
    DecisionTimes = {1, 2, 3}
    MaxAge = 1
    None = None
    BestQuotes <- FourQuotes
    MarketIndexes = {1, 2, 3}
    MarketTimes = {0, 1, 2, 3}
    OpenTime = 1
    CloseTime = 4
    Window = 1
    TickSize = 2
    LastTick = 2
    DesiredTicks <- ThreeTicks
    OrderShares = 1
    InventoryCap = 1
    Missing = Missing
INVARIANT ReadInMessageOrder
CHECK_DEADLOCK FALSE
