SPECIFICATION OutboxSpec
CONSTANTS
    Notes = {1}
    Subs = {}
    Chat = chat
    Senders = {p1}
    MaxAttempts = 1
    PushAttempts = 1
    BatchSize = 1
    MaxClaims = 1
    MaxStops = 0
    MaxSlow = 0
PROPERTY EveryRowSettles
CHECK_DEADLOCK FALSE
