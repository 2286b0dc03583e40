CONSTANTS
    MinTrend = 2
    Lookback = 1
    StaleAge = 1
    ForumSrc = {"xueqiu"}
    Fund = f
    Nav = {100, 110}
    SeedNav = {100}
    Books <- AllBooks
    Seats <- AllSeats
    ItemLists = {"holdings", "watchlist"}
    Horizon = 1
    Window = 2
    MinN = 1
    BucketMinN = 1
    PatternMinN = 1
    MaxDay = 3
    MaxPulls = 3
    MaxCalls = 2
SPECIFICATION Spec
INVARIANT MirrorMovesOnlyConfidence
PROPERTIES CappedFundsAreNeverBought LaterNeverMovesTheBrief SettledMovedOnlyByItsWindow
CHECK_DEADLOCK FALSE
