SPECIFICATION Spec
CONSTANTS
    r1 = r1
    r2 = r2
    r3 = r3
    s1 = s1
    s2 = s2
    None = None
    Requests <- ThreeRequests
    Sessions <- TwoSessions
    SessionOf <- SplitSession
    Views <- AllViews
    MaxRounds = 2
    MaxAborts = 0
    SerialSends = TRUE
INVARIANTS OneRunPerSession RunIsAbortable  AnswerFollowsQuestion
CHECK_DEADLOCK FALSE
