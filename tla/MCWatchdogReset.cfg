SPECIFICATION MCSpec
CONSTANTS
    Level = {l1, l2}
    Qty = {0, 1}
    MarketCap = 2
    MaxId = 2
    FaultyIds = 2
    SnapLag = 1
    MaxConn = 1
    Bound <- MCBound
    ConnectFails = 0
    Losses = 0
    InitFails = 0
    PollFails = 0
    WatchdogFires = 1
    Trades = 0
INVARIANT RecoveryPending
