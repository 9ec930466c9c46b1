CONSTANTS
    Ingestions = {1}
    OrderRefs = {"o1"}
    Prices = {1}
    Gains = {5}
    MaxFills = 1
    MaxSnapshots = 2
SPECIFICATION BooksSpec
INVARIANTS
    ClosedPnlIsRealised
CHECK_DEADLOCK FALSE
