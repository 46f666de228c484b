SPECIFICATION TightSpec
CONSTANTS
    t = t
    u = u
    plan = plan
    Plan = plan
    Tools = {t, u, plan}
    Histories <- LongHistories
    Batches <- TwoBatches
    ResultSizes = {1, 4}
    Window = 7
    MaxRounds = 3
    Nudge = 2
    HardStop = 3
    MaxRepeats = 3
    Fallbacks = 0
INVARIANTS NoStoredOrphan
CHECK_DEADLOCK FALSE
