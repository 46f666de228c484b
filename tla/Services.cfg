SPECIFICATION Spec
CONSTANTS
    c1 = c1
    c2 = c2
    c3 = c3
    s1 = s1
    s2 = s2
    r1 = r1
    r2 = r2
    q1 = q1
    q2 = q2
    NoKey = NoKey
    Queued = Queued
    None = None
    Calls = {c1, c2, c3}
    IdOf <- CallIds
    Orchestrated = {c2}
    NoCall = NoCall
    Squads = {s1, s2}
    Members <- SquadMembers
    Broadcasters = {r1, r2}
    Sends = {m1}
    WakesPerMember = 1
    SquadCap = 2
    GlobalCap = 3
    UnknownSize = 3
    Nobody = Nobody
    Requests = {r1, r2}
    Threshold = 2
    Cooldown = 2
    MaxRetries = 1
    Spenders = {r1, r2}
    Fields = 2
    CostAt = 2
    Costs = {1, 2}
    MaxCost = 2
    Budget = 3
    Levels <- SpendLevels
    LastDay = 1
    NoSpender = NoSpender
    MaxCalls = 2
    MaxMoves = 1
    Sessions <- BothSessions
    Stored <- FirstSession
    Questions <- TwoQuestions
    Batches <- TwoCalls
    Outputs <- ToolOutputs
    Finals = {"text", "giveup"}
    Compactors = {c1, c2}
    Newest = 6
    Budgets = {3, 6}
    MinMessages = 6
    KeepRecent = 5
    MaxCrashes = 1
INVARIANTS AllowedByUser AnswerReachesItsCall NoLeakedEntry SquadOvershoot ThresholdTrips TodayIsCounted OvershootBounded LeftBehind  QuestionIsSent NothingForgotten
 
CHECK_DEADLOCK FALSE
