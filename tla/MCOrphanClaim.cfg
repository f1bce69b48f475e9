\* Violated: the store-closed check leaves its claim behind.
SPECIFICATION IntakeSpec
CONSTANTS
    c1 = c1  c2 = c2  c3 = c3  s1 = s1  s2 = s2
    Calls = {c1, c2, c3}
    Sales = {s1}
    NoSale = NoSale
    Faults = {"closed"}
SYMMETRY CallsAndSales
CONSTRAINT FewPlain
INVARIANT NoOrphanClaim
CHECK_DEADLOCK FALSE
