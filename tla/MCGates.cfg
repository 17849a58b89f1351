SPECIFICATION GateSpec
CONSTANTS
    o1 = o1
    o2 = o2
    o3 = o3
    s1 = s1
    s2 = s2
    Oids = {o1, o2, o3}
    Symbols = {s1, s2}
    Dispatches = {d1, d2}
    SymbolOf <- MCSymbolOf
    Margin <- MCMargin
    Balances = {2, 3}
    MaxPositions = 2
    MaxMismatches = 1
    MaxRestarts = 1
    Operators = TRUE
    StaleCycles = 2
    MinOutage = 1
    SocketCycles = 2
    ProviderCycles = 3
    Cooldown = 3
    MaxPerHour = 2
    Hour = 8
    MaxDeaths = 1
    Tickers = {t1}
    StaleAfter = 1
    SilentAfter = 3
    Heartbeat = 1
INVARIANTS OneOwnerPerSymbol FreshIsLive
PROPERTIES ExposureNeedsVerifiedClose LatchFollowsTrouble HealNeedsHealth LatchFollowsStream StaleLinkIsReplaced
