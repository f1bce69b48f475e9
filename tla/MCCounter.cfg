\* Two products on the page, a barcode being looked up, two previews of a
\* discount code and two submits at a time.  Three requests at a time on one key;
\* everything may fail, the report of a commit included.  Two requests at a time
\* on one order, sold with the discount code.
SPECIFICATION CounterSpec
CONSTANTS
    w1 = w1  w2 = w2  o1 = o1  o2 = o2
    bread = bread  basket = basket  flour = flour  oil = oil
    Workers = {w1, w2}
    OrderIds = {o1}
    NoOrder = NoOrder
    Lines = {bread, basket}
    NoLine = NoLine
    Rows = {flour, oil}
    Need <- MCNeed
    Carts <- MixedCarts
    InitialStock <- MCStock
    CreateStatuses <- ParkOrSell
    Codes <- WithCode
    UsageLimit = 2
    MaxUsed = 3
    SameOrderOverlap = TRUE
    c1 = c1  c2 = c2  c3 = c3  s1 = s1  s2 = s2
    Calls = {c1, c2, c3}
    Sales = {s1}
    NoSale = NoSale
    Faults = {"auth", "closed", "database", "lostAck", "crash"}
    p1 = p1  p2 = p2  a1 = a1  a2 = a2  v1 = v1  q1 = q1
    Products = {p1, p2}
    Vouchers = {v1}
    Blank = Blank
    Scans = {q1}
    Previews = {a1, a2}
    Submits = {w1, w2}
    MaxUnits = 2
SYMMETRY Alike
CONSTRAINTS FewUnits FewOrders
INVARIANTS UnsoldKept ShownIsCurrent OneOwner StockLedger OversellBounded EveryUseCounted
PROPERTY PartsOnlyOvertaken
CHECK_DEADLOCK FALSE
