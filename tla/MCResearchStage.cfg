SPECIFICATION Spec
CONSTANTS
    p1 = p1
    p2 = p2
    c1 = c1
    c2 = c2
    i1 = i1
    i2 = i2
    Processes = {p1, p2}
    Contents = {c1, c2}
    Ids = {i1, i2}
    MaxRewrites = 2
    NoProcess = NoProcess
    NoRun = NoRun
SYMMETRY Symmetry
INVARIANTS StageInv SingleWriter LockMarksPartial NoNeedlessRun
PROPERTY Implements
CHECK_DEADLOCK FALSE
