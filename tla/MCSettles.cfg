\* One sale; the backend may restart for ever, the page stops asking for flushes.
\* One window and one phone of a manager.
SPECIFICATION SettlesSpec
CONSTANTS
    c1 = c1  c2 = c2  s1 = s1  w1 = w1  p1 = p1  f1 = f1  f2 = f2
    Calls = {c1, c2}
    Sales = {s1}
    NoSale = NoSale
    NoCallId = NoCallId
    CartOf <- OwnCarts
    MaxAttempts = 3
    Restarts = FALSE
    Faults = {"auth", "database", "crash"}
    Windows = {w1}
    Phones = {p1}
    Rows = 2
    ScanLimit = 1
    Fetches = {f1, f2}
    MaxUnread = 1
    MaxBadge = 2
    MaxFaults = 1
CONSTRAINT FewAtOnce
INVARIANTS OneUnreadLow BadgeNotUnder
PROPERTIES SettlesWhenQuiet LowIsAlerted
CHECK_DEADLOCK FALSE
