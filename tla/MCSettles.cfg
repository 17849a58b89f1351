SPECIFICATION SettleSpec
CONSTANTS
    MaxMessage = 2
    MaxEdits <- MCEdits
    Says <- MCSays
    Media = {2}
    Passing = {2}
    Analyzers = {a1, a2}
    MaxDeaths = 1
    Notes = {1}
    Subs = {u1}
    Chat = chat
    Senders = {p1, p2}
    MaxAttempts = 1
    PushAttempts = 2
    BatchSize = 2
    MaxClaims = 2
    MaxStops = 1
    MaxSlow = 1
    EntryFill = 2
    EarlierCloses = 0
    PlanCloses = FALSE
    WholePlans = TRUE
    HandCloses = FALSE
    Requests = TRUE
    RecoveryRuns = TRUE
    SettlesAbsent = TRUE
    DetailFails = TRUE
    MaxExitDeaths = 1
INVARIANTS InstructionSurvives DeliveryIsHonest
PROPERTIES VetoStands MissedIsCaught RenderedRowsSettle OwnCloseFreesMargin
CHECK_DEADLOCK FALSE
