SPECIFICATION StreamSpec
CONSTANTS
    a = a
    b = b
    MaxCalls = 2
    MaxMoves = 1
    Sessions <- BothSessions
    Stored <- FirstSession
    NoKey = NoKey
    Queued = Queued
    None = None
PROPERTY EndResolves
CHECK_DEADLOCK FALSE
