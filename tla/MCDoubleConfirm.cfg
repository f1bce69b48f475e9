\* Violated: two confirmations of one parked order.
SPECIFICATION Spec
CONSTANTS
    w1 = w1  w2 = w2  o1 = o1  o2 = o2  o3 = o3
    bread = bread  basket = basket  flour = flour  oil = oil
    Workers = {w1, w2}
    OrderIds = {o1}
    NoOrder = NoOrder
    Lines = {bread, basket}
    NoLine = NoLine
    Rows = {flour, oil}
    Need <- MCNeed
    Carts <- OneLoaf
    InitialStock <- MCStock
    CreateStatuses <- ParkOrSell
    Codes <- NoCode
    UsageLimit = 0
    MaxUsed = 0
    SameOrderOverlap = TRUE
SYMMETRY WorkersAndOrders
INVARIANT DeductedOnce
CHECK_DEADLOCK FALSE
