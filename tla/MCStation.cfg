\* Two sales of one cart at a station, up to three requests inside the backend;
\* backend and station restart.  Two edits of two products.
SPECIFICATION StoreSpec
CONSTANTS
    c1 = c1  c2 = c2  c3 = c3  s1 = s1  s2 = s2
    Calls = {c1, c2, c3}
    Sales = {s1, s2}
    NoSale = NoSale
    NoCallId = NoCallId
    CartOf <- OneCart
    MaxAttempts = 2
    Restarts = TRUE
    Faults = {"auth", "database", "crash"}
    e1 = e1  e2 = e2  g1 = g1
    Products = {s1, s2}
    Codes = {e1, e2}
    Editors = {e1, e2}
    Scanners = {g1}
    Tags = {1, 2}
    MaxEdits = 3
SYMMETRY Alike
CONSTRAINT Followed
INVARIANTS
    TypeOK PendingInOrder AtMostOnce AnswersTrue ReceiptsTrue OncePerPath QueuedNotLost
    CachedIsCurrent WholeProduct
CHECK_DEADLOCK FALSE
