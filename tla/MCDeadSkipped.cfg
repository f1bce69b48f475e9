\* Violated: a dead operation does not block the next one.
SPECIFICATION Spec
CONSTANTS
    c1 = c1  c2 = c2  c3 = c3  s1 = s1  s2 = s2
    Calls = {c1, c2}
    Sales = {s1, s2}
    NoSale = NoSale
    NoCallId = NoCallId
    CartOf <- OwnCarts
    MaxAttempts = 2
    Restarts = FALSE
    Faults = {}
SYMMETRY CallsAndSales
INVARIANT FailedBlocksLater
CHECK_DEADLOCK FALSE
