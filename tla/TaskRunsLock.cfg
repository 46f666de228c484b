SPECIFICATION FairSpec
CONSTANTS
    t = t
    u = u
    a = a
    b = b
    e1 = e1
    e2 = e2
    None = None
    Tasks = {t}
    Agents = {a, b}
    AgentsOf <- Assigned
    Kinds <- OneKind
    Pollers = {}
    Execs = {e1, e2}
    Slots = 1
    Edits = FALSE
    Embeddings = {TRUE}
PROPERTIES EmbeddingIsPushed
CHECK_DEADLOCK FALSE
