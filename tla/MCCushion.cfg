SPECIFICATION SizingSpec
CONSTANTS
    Contracts <- MCContracts
    Requests <- MCRequests
    Prices = {200, 1960, 2000, 2040}
    Accounts <- MCAccounts
    MarginCap = 800
    AllocationPct = 20
    MarginMode = "PERCENTAGE"
    FixedMargin = 800
    DefaultLeverage = 20
    MinLeverage = 5
    MaxNormal = 2
    Rate = 100
    FeeRate = 1
    Buffer = 10
INVARIANT StopCushion
CHECK_DEADLOCK FALSE
