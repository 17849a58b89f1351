SPECIFICATION LivesSpec
CONSTANTS
    Rows <- MCRows
    MaxEpoch = 2
    EntryQty <- MCTwoLives
    Direction = "LONG"
    Stops = {1}
    Target = 4
    Marks = {1, 2}
    StreamOn = TRUE
    ConsoleOn = TRUE
    ManagerOn = TRUE
    Callers = {1, 2}
    Setups <- MCSetups
    MaxPosts = 2
    MaxGrace = 1
    RepairOn = TRUE
    Stale = 0
    MaxClock = 2
    MaxDeaths = 1
    EntryFill = 2
    EarlierCloses = 0
    PlanCloses = TRUE
    WholePlans = TRUE
    HandCloses = TRUE
    Requests = TRUE
    RecoveryRuns = TRUE
    SettlesAbsent = TRUE
    DetailFails = TRUE
    MaxExitDeaths = 1
INVARIANTS OneClosePerLifetime
           LocalIsOurs OneHolderMutates AdmissionIsFresh
           OwnedNeverUnderstates EndIsProven
PROPERTIES ProtectedUntilFlat ReportIsTrue
CHECK_DEADLOCK FALSE
