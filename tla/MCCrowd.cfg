SPECIFICATION CrowdSpec
CONSTANTS
    o1 = o1
    o2 = o2
    o3 = o3
    s1 = s1
    s2 = s2
    s3 = s3
    d1 = d1
    d2 = d2
    d3 = d3
    w1 = w1
    x1 = x1
    t1 = t1
    e1 = e1
    e2 = e2
    v1 = v1
    v2 = v2
    Oids = {o1, o2, o3, x1}
    Symbols = {s1, s2, s3, t1}
    Dispatches = {d1, d2, d3}
    Workers = {w1}
    Consoles = {w1}
    SymbolOf <- MCSymbol
    Margin <- MCMargin
    OidOf <- MCBookOid
    Serves <- MCBookServes
    Balances = {1, 3}
    MaxPositions = 2
    Qty = 1
    Pauses = FALSE
    KillEnforced = FALSE
    Exits = {"owned"}
    Covers = {"venue", "none"}
    Outages = TRUE
    LatePosts = FALSE
    MonitorPace = "off"
    MaxCrashes = 0
    PaperRows = 4
    MessageOf <- MCMessageOf
    TextsOf <- MCTextsOf
    PaperPrices = {2}
    PaperWorkers = {"p1", "p2"}
    BatchSize = 2
    MaxRollbacks = 1
SYMMETRY MCCrowdSymmetry
INVARIANTS AtMostOnePost PositionCap PaperMatchesJournal
PROPERTIES EntryNeedsCoveredBook
CHECK_DEADLOCK FALSE
