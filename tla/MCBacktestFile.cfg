SPECIFICATION BacktestSpec
CONSTANTS
    Level <- MCLevel
    Qty = {0, 1, 2}
    MarketCap = 1
    DepthLevels = 20
    OrderQty = 1
    Budget = 1000000
    EdgeBp = 2
    StopBp = 50
    PriceBuf = 3
    LookbackTicks = 2
    MomentumBp = 50
    ImbalanceBp = 6000
    TakeProfitBp = 80
    StopOutBp = 60
    MaxHold = 2
    Cooldown = 1
    Configured = {"momentum", "pingpong", "none"}
    MaxOrderQty = 1
    MinFreeBalance = 100
    PriceBandBp = 400
    MaxOrdersPerSec = 2
    Second = 2
    MaxSeen = 1
    Sources = {"file"}
    BasePrice = 100
    Gap = 2
    Steps <- MCSteps
    MaxDrift = 3
    SnapLevels = 3
    Volumes <- Leaning
    FreeBalance = 10000
    Uuid = {u1, u2}
    MaxEvents = 6
    MaxTime = 2
INVARIANT FileReachesStrategy
