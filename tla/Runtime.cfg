SPECIFICATION RuntimeSpec
CONSTANTS
    Request = {r1, r2}
    MaxShell = 1
    MaxFsFail = 1
    Processors = {2, 3}
    Fetcher = {f1, f2}
    MarketRoom = 1
    OrderRoom = 1
INVARIANTS RuntimeTypeOK NoCircle
PROPERTIES FlagSettles NeverStuck
