\* Two concurrent requests, never two on the same order.  Two shifts of a cashier,
\* whom a manager may relieve, two requests at a time, and a bill.
SPECIFICATION BillsSpec
CONSTANTS
    w1 = w1  w2 = w2  o1 = o1  o2 = o2  o3 = o3
    bread = bread  basket = basket  flour = flour  oil = oil
    Workers = {w1, w2}
    OrderIds = {o1, o2}
    NoOrder = NoOrder
    Lines = {bread, basket}
    NoLine = NoLine
    Rows = {flour, oil}
    Need <- MCNeed
    Carts <- MixedCarts
    InitialStock <- MCStock
    CreateStatuses <- ParkOrSell
    Codes <- NoCode
    UsageLimit = 0
    MaxUsed = 0
    SameOrderOverlap = FALSE
    cash = cash  mgr = mgr  a1 = a1  a2 = a2  b1 = b1  r1 = r1  r2 = r2
    People = {cash, mgr}
    Cashiers = {cash}
    Desks = {cash}
    UserAt <- OneWindow
    Slots = {w1, w2}
    ShiftIds = {o1, o2}
    Bills = {b1}
    Cash = {b1}
    AmountOf <- SmallBills
    Off = {1, 2}
    Threshold = 1
    NoShift = NoShift
    NoOne = NoOne
    NoDesk = NoDesk
    MaxClock = 4
SYMMETRY Alike
CONSTRAINTS NotDoubled OneAtLast
INVARIANTS TypeOK OrderStock OneOpenShift ExpectedIsDrawer AlertedOrTold
PROPERTY ImplementsSales
CHECK_DEADLOCK FALSE
