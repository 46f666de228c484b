SPECIFICATION PlansSpec
CONSTANTS
    a = a
    b = b
    c = c
    d = d
    e = e
    z = z
    Nodes <- PlanIds
    DependsOn <- PlanDepends
    Phases <- PlanPhases
    MaxRetries = 2
    Names = {a, b, c, z}
    Plans <- PlansToValidate
    MaxPlanNodes = 3
    Drawings <- DrawingsInHand
    MaxIterations = 2
    MaxSteps = 2
    MaxToggles = 1
    None = None
INVARIANTS AcceptsExactlyExecutable PhasesAreSound StrategyIsSound SuccessIsComplete
PROPERTIES KeepsPromise ExecutionEnds   StopEnds
CHECK_DEADLOCK FALSE
