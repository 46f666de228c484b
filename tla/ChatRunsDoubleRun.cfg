SPECIFICATION Spec
CONSTANTS
    r1 = r1
    r2 = r2
    r3 = r3
    s1 = s1
    s2 = s2
    None = None
    Requests <- TwoRequests
    Sessions <- OneSession
    SessionOf <- SameSession
    Views <- OneSession
    MaxRounds = 1
    MaxAborts = 0
    SerialSends = FALSE
INVARIANT OneRunPerSession
CHECK_DEADLOCK FALSE
