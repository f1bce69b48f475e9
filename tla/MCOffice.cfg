\* Two jobs on an item and a kit of it; three names, two of them spellings of
\* one, and two requests at a time; two people who log in at one window; two
\* windows that flip the switch.
SPECIFICATION OfficeSpec
CONSTANTS
    flour = flour  kit = kit
    Items = {flour, kit}
    Parts <- Bundle
    Jobs = {a1, a2}
    Amounts = {0, 2}
    Prices = {1, 3}
    Initial = 1
    MaxQty = 3
    MaxRequests = 4
    boss = boss  plain = plain  hamza = hamza  ann = ann  bob = bob  a1 = a1  a2 = a2  g1 = g1
    Users = {boss, plain, hamza}
    Owner = boss
    Fold <- Spelling
    Typed = {hamza}
    Reqs = {a1, a2}
    NoUser = NoUser
    MaxFails = 2
    Staff = {ann, bob}
    StaffLevel <- Levels
    Nobody = Nobody
    Windows = {a1, a2}
    Gates = {g1}
    MaxWrites = 2
SYMMETRY Alike
CONSTRAINTS OneSession LoginsApart SeedOverOne NotReplaced NotHasty
INVARIANTS
    LedgerExact AboveZero CostBetween CancelledMovedNothing
    AccountsTypeOK GuessesBounded OfferedIsAccepted
    GateHolds OneIdentity DeadShellLeaves
    GateAgrees
PROPERTY OwnerUntouched
CHECK_DEADLOCK FALSE
