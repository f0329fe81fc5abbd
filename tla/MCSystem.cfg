SPECIFICATION MCSpec
CONSTANTS
    Level <- MCLevel
    Qty = {0, 1}
    DepthLevels = 20
    MarketCap = 1
    MaxId = 3
    SnapLag = 1
    MaxConn = 2
    SecondIds = 2
    Bound <- MCBound
    Losses = 1
    PollFails = 1
    Trades = 1
    MaxOrderQty = 2
    MinFreeBalance = 100
    PriceBandBp = 100
    MaxOrdersPerSec = 3
    Second = 1
    MaxSeen = 2
    Capital = 16003
    FeeBp = 5
    OrderQty = 2
    Budget = 7202
    EdgeBp = 2
    StopBp = 50
    PriceBuf = 1
    LookbackTicks = 0
    MomentumBp = 0
    ImbalanceBp = 0
    TakeProfitBp = 0
    StopOutBp = 0
    MaxHold = 0
    Cooldown = 0
    Configured = {"pingpong"}
    Request = {}
    MaxShell = 0
    MaxFsFail = 0
    OrderCap = 1
    Quotes = {}
    MaxOrders = 5
    MaxTime = 0
INVARIANT RecoveryPending
PROPERTIES OrdersFromTrueBook Drains
