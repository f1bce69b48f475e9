\* Violated: a bill sold and refunded within one shift goes into the drawer and
\* out of it, and counts as a refund alone.
SPECIFICATION ShiftsSpec
CONSTANTS
    cash = cash  mgr = mgr  a1 = a1  a2 = a2  b1 = b1  r1 = r1  r2 = r2
    People = {cash, mgr}
    Cashiers = {cash}
    Desks = {cash}
    UserAt <- OneWindow
    Slots = {r1, r2}
    ShiftIds = {a1, a2}
    Bills = {b1}
    Cash = {b1}
    AmountOf <- SmallBills
    Off = {1, 2}
    Threshold = 1
    NoShift = NoShift
    NoOne = NoOne
    NoDesk = NoDesk
    MaxClock = 4
SYMMETRY ShiftsAndRequests
CONSTRAINTS NotDoubled OneAtLast
INVARIANT SalesLessRefunds
CHECK_DEADLOCK FALSE
