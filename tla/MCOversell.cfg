\* Violated: two sales check the same row before either takes from it.
SPECIFICATION Spec
CONSTANTS
    w1 = w1  w2 = w2  o1 = o1  o2 = o2  o3 = o3
    bread = bread  basket = basket  flour = flour  oil = oil
    Workers = {w1, w2}
    OrderIds = {o1, o2}
    NoOrder = NoOrder
    Lines = {bread, basket}
    NoLine = NoLine
    Rows = {flour, oil}
    Need <- MCNeed
    Carts <- MixedCarts
    InitialStock <- MCStock
    CreateStatuses <- ParkOrSell
    Codes <- NoCode
    UsageLimit = 0
    MaxUsed = 0
    SameOrderOverlap = FALSE
SYMMETRY WorkersAndOrders
INVARIANT StockNonNegative
CHECK_DEADLOCK FALSE
