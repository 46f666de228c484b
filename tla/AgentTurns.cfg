SPECIFICATION TurnsSpec
CONSTANTS
    t = t
    u = u
    plan = plan
    Plan = plan
    Tools = {t, u, plan}
    Histories <- TightHistories
    Batches <- TwoBatches
    ResultSizes = {4}
    Window = 7
    MaxRounds = 4
    Nudge = 1
    HardStop = 2
    MaxRepeats = 2
    Fallbacks = 0
INVARIANTS PairsWhenCalled QuestionWhenCalled StoredTogether
 
CHECK_DEADLOCK FALSE
