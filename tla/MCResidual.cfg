SPECIFICATION FallbackSpec
CONSTANTS
    Rows <- MCOneRow
    MaxEpoch = 1
    EntryQty <- MCTwoUnits
    Direction = "LONG"
    Stops = {1}
    Target = 4
    Marks = {1, 2}
    StreamOn = TRUE
    ConsoleOn = FALSE
    ManagerOn = TRUE
INVARIANTS ResidualIsServed
CHECK_DEADLOCK FALSE
