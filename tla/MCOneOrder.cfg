SPECIFICATION FairOrderSpec
CONSTANTS
    o1 = o1
    s1 = s1
    d1 = d1
    w1 = w1
    w2 = w2
    Oids = {o1}
    Symbols = {s1}
    Dispatches = {d1}
    Workers = {w1}
    Consoles = {}
    SymbolOf <- MCOneSymbol
    Margin <- MCOneMargin
    OidOf <- MCOneOid
    Serves <- MCOneServes
    Balances = {1}
    MaxPositions = 1
    Qty = 2
    Pauses = TRUE
    KillEnforced = TRUE
    Exits = {"owned", "alien"}
    Covers = {"venue", "local", "none"}
    Outages = TRUE
    LatePosts = FALSE
    MonitorPace = "slow"
    MaxCrashes = 1
    Contracts <- MCContracts
    Requests <- MCRequests
    Prices = {200, 1960, 2000, 2040}
    Accounts <- MCAccounts
    MarginCap = 800
    AllocationPct = 20
    MarginMode = "PERCENTAGE"
    FixedMargin = 800
    DefaultLeverage = 20
    MinLeverage = 5
    MaxNormal = 2
    Rate = 100
    FeeRate = 1
    Buffer = 10
INVARIANTS
    EntryTypeOK
    ExposureHasMargin
    PlanIsLegal
PROPERTIES
    LedgerSpec
    OrphanMarginIsFreed
CHECK_DEADLOCK FALSE
