\* Slots and identifiers are interchangeable: the scheduler orders actions by
\* request sequence, never by identifier.
CONSTANTS
    o1 = o1
    o2 = o2
    bid = bid
    ask = ask
    NoOrder = NoOrder
    OrderIds = {o1, o2}
    Slots = {bid, ask}
    Prices = {7}
    MaxTime = 3
    MaxLatency = 2
    MaxQuantity = 2
SYMMETRY MCSymmetry
SPECIFICATION Spec
INVARIANTS
    LifecycleInv
    SlotExclusive
    LiveOrdersScheduled
    NothingOverdue
PROPERTIES
    FillsRespectLatency
    LifecycleEdges
CHECK_DEADLOCK FALSE
