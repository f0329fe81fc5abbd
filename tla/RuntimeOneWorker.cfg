SPECIFICATION RuntimeSpec
CONSTANTS
    Request = {}
    MaxShell = 1
    MaxFsFail = 0
    Processors = {1}
    Fetcher = {f1, f2}
    MarketRoom = 1
    OrderRoom = 1
PROPERTY FlagSettles
