SPECIFICATION Spec
CONSTANTS
    Symbols = {1, 2}
    Orders <- TwoSymbolOrders
    Terms <- TwoSymbols
    Original = 2
    Mids = {4, 5}
    Quotes <- LockedAndWide
    MakerFee <- Rebate
    TakerFee = 30
    InventoryLimit = 2
    MaxMoney = 700
    MaxRevision = 5
    NoMark = NoMark
    NoPlan = NoPlan
INVARIANTS LedgerInv Reconciles
PROPERTY ClosesCurrentPositions
CHECK_DEADLOCK FALSE
