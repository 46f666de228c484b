SPECIFICATION Spec
CONSTANTS
    r1 = r1
    r2 = r2
    s1 = s1
    t = t
    u = u
    a = a
    b = b
    e1 = e1
    e2 = e2
    NoKey = NoKey
    Queued = Queued
    None = None
PROPERTIES SendsEnd TasksEnd ViewsEnd RefusalsEnd
CHECK_DEADLOCK FALSE
