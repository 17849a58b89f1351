SPECIFICATION ConsoleSpec
CONSTANTS
    p1 = p1
    p2 = p2
    k1 = k1
    k2 = k2
    Nil = nil
    Passwords = {old, new}
    MaxSessions = 3
    Previews = {p1, p2}
    Keys = {k1, k2}
    Tier <- MCTier
    BotKey <- MCBotKey
    MaxVersions = 1
    MaxRequests = 1
    None = none
    Roots = {r1, r2}
    MaxEpochs = 2
    ShowsIds = FALSE
SYMMETRY MCSymmetry
INVARIANTS EffectIsWanted ShownProtectionIsTrue
PROPERTIES CutOffStays CutOffJobRests
CHECK_DEADLOCK FALSE
