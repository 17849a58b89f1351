SPECIFICATION SignalsSpec
CONSTANTS
    MaxMessage = 1
    MaxEdits <- MCOneEdit
    Says <- MCOneSays
    Media = {1}
    Passing = {1}
    Analyzers = {a1}
    MaxDeaths = 0
INVARIANTS OneTradePerMessage
CHECK_DEADLOCK FALSE
