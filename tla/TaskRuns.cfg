SPECIFICATION Spec
CONSTANTS
    t = t
    u = u
    a = a
    b = b
    e1 = e1
    e2 = e2
    None = None
    Tasks = {t}
    Agents = {a, b}
    AgentsOf <- Assigned
    Kinds <- AllKinds
    Pollers = {"heartbeat", "timer"}
    Execs = {e1, e2}
    Slots = 1
    Edits = TRUE
    Embeddings = {FALSE}
INVARIANTS OneRunPerTask  
CHECK_DEADLOCK FALSE
