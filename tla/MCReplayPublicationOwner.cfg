SPECIFICATION Spec
CONSTANTS
    p1 = p1
    p2 = p2
    p3 = p3
    i1 = i1
    i2 = i2
    Processes = {p1, p2, p3}
    Ids = {i1, i2}
    NoProcess = NoProcess
INVARIANT OwnerKeepsLock
CHECK_DEADLOCK FALSE
