SPECIFICATION DashboardSpec
CONSTANTS
    Client = {c1}
    TradeCap = 2
    PriceCap = 2
    PnlCap = 1
    MaxEvents = 3
    MaxFills = 3
INVARIANTS DashboardTypeOK ShownTradesBooked ChartReachesQuote ListsKeepLatest RatesAddUp
