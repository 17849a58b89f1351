SPECIFICATION ExitSpec
CONSTANTS
    EntryFill = 2
    EarlierCloses = 2
    PlanCloses = TRUE
    WholePlans = TRUE
    HandCloses = TRUE
    Requests = TRUE
    RecoveryRuns = TRUE
    SettlesAbsent = TRUE
    DetailFails = FALSE
    MaxExitDeaths = 0
INVARIANT SettledIsAccounted
CHECK_DEADLOCK FALSE
