CONSTANTS
    NoOrder = NoOrder
    OrderIds = {1, 2, 3}
    Symbols = {"s"}
    Foreign = "foreign"
    Slots <- MCSlots
    Prices = {7, 8}
    MaxTime = 3
    MaxLatency = 1
    MaxQuantity = 2
    SessionStart = 0
    SessionEnd = 4
    DecisionInterval = 1
    OrderQuantity = 2
    InventoryLimit = 3
    MaxEvents = 4
SPECIFICATION SimSpec
INVARIANTS
    SimInv
    ExposureBounded
    PolicyNeverFails
PROPERTIES
    DaySettles
CHECK_DEADLOCK FALSE
