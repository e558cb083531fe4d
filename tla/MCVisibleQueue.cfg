CONSTANTS
    o1 = o1
    r1 = r1
    r2 = r2
    m1 = m1
    NoOrder = NoOrder
    OrderIds = {o1}
    Slots <- MCSlots
    Prices = {1, 2}
    MaxTime = 1
    MaxLatency = 0
    MaxQuantity = 2
    Refs = {r1, r2}
    Matches = {m1}
    MaxShares = 2
    MaxAnomalies = 1
    MaxMessages = 4
SYMMETRY MCSymmetry
SPECIFICATION QueueSpec
INVARIANTS
    AheadExact
    NoExposedCross
PROPERTIES
    FillsAreEarned
CHECK_DEADLOCK FALSE
