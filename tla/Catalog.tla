------------------------------- MODULE Catalog -------------------------------
(***************************************************************************)
(* ProductsService and the barcode cache.  An edit is a sequence of        *)
(* statements without a transaction: the product row, its price history,   *)
(* its stock row, and at the end the cache entries it makes stale.  Scans  *)
(* read through the cache, which forgets an entry after 30 seconds.        *)
(***************************************************************************)
EXTENDS Integers, FiniteSets

CONSTANTS
    Products,
    Codes,      \* barcodes
    Tags,       \* retail prices
    Editors,    \* concurrent edits
    Scanners,   \* concurrent scans
    MaxEdits    \* bound: edits begun

ASSUME CatalogAssumption == MaxEdits \in Nat /\ Tags \subseteq Nat /\ "none" \notin Products

VARIABLES
    prod,       \* Product rows with their stock row and open ProductPrice rows
    entry,      \* entry[c]: what the cache holds for barcode c
    edit,       \* edit[e]: an edit's locals
    edits,      \* how many were begun
    scan,       \* scan[r]: a scan that missed the cache
    late,       \* history: barcodes whose entry may be stale until it expires
    spoilt      \* history: products whose edits overlapped or stopped halfway

catalogVars == <<prod, entry, edit, edits, scan, late, spoilt>>

Absent == [st |-> "none", code |-> "none", price |-> 0, active |-> FALSE, stocked |-> FALSE, open |-> {}]
NoEntry == [of |-> "none"]
Rest == [pc |-> "idle", of |-> "none", code |-> "none", price |-> 0, was |-> "none", wrote |-> FALSE]
NoScan == [pc |-> "idle", code |-> "none", saw |-> NoEntry]

CatalogInit ==
    /\ prod = [p \in Products |-> Absent]
    /\ entry = [c \in Codes |-> NoEntry]
    /\ edit = [e \in Editors |-> Rest] /\ edits = 0
    /\ scan = [r \in Scanners |-> NoScan]
    /\ late = {}
    /\ spoilt = {}

Holders(c) == {p \in Products : prod[p].st = "row" /\ prod[p].code = c}
CodeTaken(p, c) == Holders(c) \ {p} # {}
Editing(p) == {e \in Editors : edit[e].of = p}

\* What a scan of c would read now.
Current(c) ==
    IF Holders(c) = {} THEN NoEntry
    ELSE LET p == CHOOSE p \in Holders(c) : TRUE IN
         [of |-> p, price |-> prod[p].price, active |-> prod[p].active]

BeginEdit(e, fields) ==
    /\ edit[e].pc = "idle" /\ edits < MaxEdits
    /\ edit' = [edit EXCEPT ![e] = fields]
    /\ edits' = edits + 1
    /\ spoilt' = IF Editing(fields.of) = {} THEN spoilt ELSE spoilt \cup {fields.of}
    /\ UNCHANGED <<prod, entry, scan, late>>

\* One statement of edit e changes its product and goes on.
Statement(e, row, next) ==
    /\ prod' = [prod EXCEPT ![edit[e].of] = row]
    /\ edit' = [edit EXCEPT ![e].pc = next, ![e].wrote = TRUE]
    /\ UNCHANGED <<edits, entry, scan, late, spoilt>>

-----------------------------------------------------------------------------
(* create *)

CreateProduct(e, p, c, t) ==
    /\ prod[p].st = "none" /\ Editing(p) = {}
    /\ ~CodeTaken(p, c)
    /\ BeginEdit(e, [Rest EXCEPT !.pc = "insert", !.of = p, !.code = c, !.was = c, !.price = t])

\* The unique barcode may have been taken since: the insert then fails.
InsertRow(e) ==
    LET x == edit[e] IN
    /\ x.pc = "insert" /\ ~CodeTaken(x.of, x.code)
    /\ Statement(e, [Absent EXCEPT !.st = "row", !.code = x.code, !.price = x.price,
                                             !.active = TRUE], "price")

FirstPrice(e) ==
    LET x == edit[e] IN
    x.pc = "price" /\ Statement(e, [prod[x.of] EXCEPT !.open = {x.price}], "stock")

StockRow(e) ==
    edit[e].pc = "stock" /\ Statement(e, [prod[edit[e].of] EXCEPT !.stocked = TRUE], "bust")

-----------------------------------------------------------------------------
(* update *)

\* c = its own barcode leaves it; so does t = its own price.
UpdateProduct(e, p, c, t) ==
    /\ prod[p].st = "row"
    /\ c # prod[p].code => ~CodeTaken(p, c)
    /\ BeginEdit(e, [Rest EXCEPT !.pc = IF t # prod[p].price THEN "close" ELSE "row",
                             !.of = p, !.code = c, !.was = prod[p].code, !.price = t])

\* Mutant: the old price is not closed.
CloseNothing(e) ==
    edit[e].pc = "close" /\ Statement(e, prod[edit[e].of], "open")

ClosePrices(e) ==
    edit[e].pc = "close" /\ Statement(e, [prod[edit[e].of] EXCEPT !.open = {}], "open")

OpenPrice(e) ==
    LET x == edit[e] IN
    /\ x.pc = "open" /\ prod[x.of].st = "row"
    /\ Statement(e, [prod[x.of] EXCEPT !.open = @ \cup {x.price}], "row")

UpdateRow(e) ==
    LET x == edit[e] IN
    /\ x.pc = "row" /\ prod[x.of].st = "row" /\ ~CodeTaken(x.of, x.code)
    /\ Statement(e, [prod[x.of] EXCEPT !.code = x.code, !.price = x.price], "bust")

-----------------------------------------------------------------------------
(* remove: a product that was sold is only deactivated *)

RemoveProduct(e, p) ==
    /\ prod[p].st = "row"
    /\ \E pc \in {"delete", "hide"} :
          BeginEdit(e, [Rest EXCEPT !.pc = pc, !.of = p, !.code = prod[p].code, !.was = prod[p].code])

DeleteRow(e) ==
    /\ edit[e].pc = "delete" /\ prod[edit[e].of].st = "row"
    /\ Statement(e, [Absent EXCEPT !.st = "gone"], "bust")

HideRow(e) ==
    /\ edit[e].pc = "hide" /\ prod[edit[e].of].st = "row"
    /\ Statement(e, [prod[edit[e].of] EXCEPT !.active = FALSE], "bust")

-----------------------------------------------------------------------------
(* CacheService *)

Drop(c) == entry' = [entry EXCEPT ![c] = NoEntry] /\ late' = late \ {c}

\* Mutant: only the barcode the product has now.
InvalidateNewCode(e) ==
    /\ edit[e].pc = "bust"
    /\ Drop(edit[e].code)
    /\ edit' = [edit EXCEPT ![e] = Rest]
    /\ UNCHANGED <<edits, prod, scan, spoilt>>

\* invalidateProduct for the old barcode, and then for the new one if it changed.
Invalidate(e) ==
    LET x == edit[e] IN
    /\ x.pc = "bust"
    /\ Drop(x.was)
    /\ edit' = [edit EXCEPT ![e] = IF x.was = x.code THEN Rest ELSE [x EXCEPT !.was = x.code]]
    /\ UNCHANGED <<edits, prod, scan, spoilt>>

Stale(e) == IF edit[e].wrote THEN {edit[e].was, edit[e].code} ELSE {}

\* Redis did not take the deletion, which del ignores.
InvalidateLost(e) ==
    LET x == edit[e] IN
    /\ x.pc = "bust"
    /\ late' = late \cup {x.was}
    /\ edit' = [edit EXCEPT ![e] = IF x.was = x.code THEN Rest ELSE [x EXCEPT !.was = x.code]]
    /\ UNCHANGED <<edits, prod, entry, scan, spoilt>>

\* A check refuses, a statement fails or the process stops: what was written stays.
EditFails(e) ==
    LET x == edit[e] IN
    /\ x.pc # "idle"
    /\ edit' = [edit EXCEPT ![e] = Rest]
    /\ late' = late \cup Stale(e)
    /\ spoilt' = IF x.wrote /\ x.pc # "bust" THEN spoilt \cup {x.of} ELSE spoilt
    /\ UNCHANGED <<edits, prod, entry, scan>>

\* byBarcode misses the cache and reads the row; a product that is not there is
\* not remembered.
ScanMiss(r, c) ==
    /\ scan[r].pc = "idle"
    /\ entry[c] = NoEntry /\ Current(c) # NoEntry
    /\ scan' = [scan EXCEPT ![r] = [pc |-> "store", code |-> c, saw |-> Current(c)]]
    /\ UNCHANGED <<prod, entry, edit, edits, late, spoilt>>

\* What was read is stored, whatever an edit has deleted from the cache since.
ScanStore(r) ==
    LET x == scan[r] IN
    /\ x.pc = "store"
    /\ entry' = [entry EXCEPT ![x.code] = x.saw]
    /\ late' = IF x.saw = Current(x.code) THEN late \ {x.code} ELSE late \cup {x.code}
    /\ scan' = [scan EXCEPT ![r] = NoScan]
    /\ UNCHANGED <<prod, edit, edits, spoilt>>

Expire(c) ==
    /\ entry[c] # NoEntry
    /\ Drop(c)
    /\ UNCHANGED <<prod, edit, edits, scan, spoilt>>

-----------------------------------------------------------------------------
CatalogNext ==
    \/ \E e \in Editors :
        \/ \E p \in Products, c \in Codes, t \in Tags :
              CreateProduct(e, p, c, t) \/ UpdateProduct(e, p, c, t)
        \/ \E p \in Products : RemoveProduct(e, p)
        \/ InsertRow(e) \/ FirstPrice(e) \/ StockRow(e)
        \/ ClosePrices(e) \/ OpenPrice(e) \/ UpdateRow(e) \/ DeleteRow(e) \/ HideRow(e)
        \/ Invalidate(e) \/ InvalidateLost(e) \/ EditFails(e)
    \/ \E r \in Scanners : ScanStore(r) \/ \E c \in Codes : ScanMiss(r, c)
    \/ \E c \in Codes : Expire(c)

CatalogSpec == CatalogInit /\ [][CatalogNext]_catalogVars

-----------------------------------------------------------------------------
(* Properties *)

Due(c) == \E e \in Editors : edit[e].of # "none" /\ c \in Stale(e)

\* A scan answered from the cache gives the product as it is: every edit deletes
\* the entries it makes stale, under the old barcode and the new.  Exempt are an
\* edit that has not come to that, a reader that stores what it read before one,
\* a lost deletion, and a product whose edits overlapped.
CachedIsCurrent ==
    \A c \in Codes :
        entry[c] # NoEntry /\ entry[c] # Current(c)
            => c \in late \/ Due(c) \/ entry[c].of \in spoilt

\* A product no edit is under way for has its stock row and one open price, its
\* retail price, unless edits of it overlapped or one stopped halfway.
WholeProduct ==
    \A p \in Products :
        prod[p].st = "row" /\ Editing(p) = {} /\ p \notin spoilt
            => prod[p].stocked /\ prod[p].open = {prod[p].price}
=============================================================================
