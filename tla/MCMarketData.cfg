SPECIFICATION MCSpec
CONSTANTS
    Level = {l1, l2}
    Qty = {0, 1}
    MarketCap = 2
    MaxId = 4
    FaultyIds = 2
    SnapLag = 2
    MaxConn = 2
    Bound <- MCBound
    ConnectFails = 1
    Losses = 1
    InitFails = 1
    PollFails = 1
    WatchdogFires = 1
    Trades = 1
SYMMETRY Symmetry
CONSTRAINT Explored
INVARIANTS TypeOK LiveBookFaithful FeedInv DashLiveMeansLive
PROPERTY ImplementsReplica
