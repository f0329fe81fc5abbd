SPECIFICATION TradingSpec
CONSTANTS
    MaxOrderQty = 2
    MinFreeBalance = 100
    PriceBandBp = 100
    MaxOrdersPerSec = 3
    Second = 1
    MaxSeen = 2
    Capital = 8003
    FeeBp = 5
    OrderQty = 2
    Budget = 7202
    EdgeBp = 2
    StopBp = 50
    PriceBuf = 1
    LookbackTicks = 0
    MomentumBp = 0
    ImbalanceBp = 0
    TakeProfitBp = 0
    StopOutBp = 0
    MaxHold = 0
    Cooldown = 0
    Configured = {"pingpong"}
    Request = {}
    MaxShell = 0
    MaxFsFail = 0
    OrderCap = 2
    Quotes <- Jumping
    MaxOrders = 3
    MaxTime = 0
INVARIANT CashNeverNegative
