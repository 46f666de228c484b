SPECIFICATION Spec
CONSTANTS
    r1 = r1
    r2 = r2
    r3 = r3
    s1 = s1
    s2 = s2
    None = None
    Requests <- ThreeRequests
    Sessions <- OneSession
    SessionOf <- SameSession
    Views <- OneSession
    MaxRounds = 1
    MaxAborts = 1
    SerialSends = FALSE
SYMMETRY RequestSymmetry
INVARIANTS NoStaleHandle NoStaleYield WaitsInOnePlace StoredOnce
CHECK_DEADLOCK FALSE
