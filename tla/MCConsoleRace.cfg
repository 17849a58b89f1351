SPECIFICATION EntrySpec
CONSTANTS
    o1 = o1
    s1 = s1
    d1 = d1
    w1 = w1
    w2 = w2
    Oids = {o1}
    Symbols = {s1}
    Dispatches = {d1}
    Workers = {w1, w2}
    Consoles = {w2}
    SymbolOf <- MCOneSymbol
    Margin <- MCOneMargin
    OidOf <- MCOneOid
    Serves <- MCConsoleOnly
    Balances = {1}
    MaxPositions = 1
    Qty = 1
    Pauses = TRUE
    KillEnforced = FALSE
    Exits = {"owned"}
    Covers = {"venue", "none"}
    Outages = FALSE
    LatePosts = FALSE
    MonitorPace = "atomic"
    MaxCrashes = 0
INVARIANTS
    ExposureHasMargin
