SPECIFICATION ManageSpec
CONSTANTS
    Actions = {"CLOSE"}
    MaxAttempts = 1
    MaxCrashes = 0
    LegFills = {1}
INVARIANT RetiredIsUnsent
CHECK_DEADLOCK FALSE
