SPECIFICATION HistorySpec
CONSTANTS
    q1 = q1
    q2 = q2
    q3 = q3
    Questions <- ThreeQuestions
    Batches <- TwoCalls
    Outputs <- ToolOutputs
    Finals = {"text"}
    Compactors = {}
    Newest = 50
    Budgets = {3, 6, 8}
    MinMessages = 6
    KeepRecent = 5
    MaxCrashes = 0
INVARIANT RestoredIsOwn
CHECK_DEADLOCK FALSE
