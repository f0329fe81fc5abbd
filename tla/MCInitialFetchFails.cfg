SPECIFICATION MCFairSpec
CONSTANTS
    Level = {l1}
    Qty = {0, 1}
    MarketCap = 2
    MaxId = 3
    FaultyIds = 3
    SnapLag = 3
    MaxConn = 2
    Bound <- MCBound
    ConnectFails = 0
    Losses = 0
    InitFails = 1
    PollFails = 0
    WatchdogFires = 0
    Trades = 0
PROPERTY GapResyncs
