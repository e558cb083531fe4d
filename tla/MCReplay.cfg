SPECIFICATION Spec
CONSTANTS
    l1 = l1
    l2 = l2
    r1 = r1
    r2 = r2
    Locates = {l1, l2}
    Symbols = {"msft", "amzn"}
    Requested = {"msft"}
    Refs = {r1, r2}
    Prices = {1, 2}
    MaxShares = 2
    Times = {0, 1, 2}
    Ranks = {2, 3, 4}
    SessionStart = 1
    SessionEnd = 2
    Depth = 1
    Strict = FALSE
    MaxSkipped = 1
    RequireTrading = TRUE
    EmitTrades = TRUE
    MaxMessages = 6
    NoSymbol = NoSymbol
    NoSnapshot = NoSnapshot
SYMMETRY Symmetry
INVARIANTS ReplayInv EventsRebuildBooks SnapshotsAreCurrent SessionRules NothingMissed
CHECK_DEADLOCK FALSE
