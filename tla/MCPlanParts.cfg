SPECIFICATION ExitSpec
CONSTANTS
    EntryFill = 2
    EarlierCloses = 0
    PlanCloses = TRUE
    WholePlans = FALSE
    HandCloses = FALSE
    Requests = FALSE
    RecoveryRuns = FALSE
    SettlesAbsent = FALSE
    DetailFails = FALSE
    MaxExitDeaths = 0
PROPERTY FlatFreesMargin
CHECK_DEADLOCK FALSE
