SPECIFICATION ErrandsSpec
CONSTANTS
    j1 = j1
    j2 = j2
    Jobs = {j1, j2}
    Workers = {w1, w2}
    Resources = {"account"}
    Asks <- MCAsks
    Serves <- MCServes
    Nobody = nobody
    MaxFaults = 1
    Actions = {"CLOSE", "TP1_BOOKED", "TP_BOOKED", "SL_TO_ENTRY"}
    MaxAttempts = 2
    MaxCrashes = 1
    LegFills = {1}
INVARIANT CancelledIsTerminal
CHECK_DEADLOCK FALSE
