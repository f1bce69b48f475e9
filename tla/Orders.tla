------------------------------- MODULE Orders -------------------------------
(***************************************************************************)
(* The order lifecycle of apps/backend/src/orders/orders.service.ts and    *)
(* the stock it moves, under PostgreSQL's READ COMMITTED isolation.        *)
(*                                                                         *)
(* A handler reads the order OUTSIDE its transaction, decides, and then    *)
(* runs one interactive transaction whose statements interleave with those *)
(* of every other handler.  A worker of this model is one HTTP request in  *)
(* flight; req[w] holds its local variables and its uncommitted writes.    *)
(*                                                                         *)
(* Quantities are whole units (the schema keeps three decimals).  A line   *)
(* stands for one OrderItem of an order, together with the product it      *)
(* sells: Need[l][r] is how much of inventory row r one unit takes (1 of   *)
(* its own row for an INVENTORY_ITEM, the component quantities for a       *)
(* BUNDLED_ITEM, nothing for a SERVICE_ITEM).  Audit rows and alerts, that *)
(* no handler reads back, are left out.                                    *)
(***************************************************************************)
EXTENDS Integers, FiniteSets, FiniteSetsExt, Functions

CONSTANTS
    Workers,            \* requests the backend serves concurrently
    OrderIds, NoOrder,  \* the orders that can ever be created (bound)
    Lines, NoLine,      \* order item slots
    Rows,               \* inventory rows
    Need,               \* Need[l][r]: units of row r in one unit of line l
    Carts,              \* the carts a cashier may submit: [Lines -> Nat]
    InitialStock,       \* opening quantity of each row
    CreateStatuses,     \* statuses the DTO lets a client create with
    Codes,              \* subset of BOOLEAN: may an order carry the code?
    UsageLimit,         \* the code's usageLimit
    MaxUsed,            \* bound on timesUsed, for TLC only
    SameOrderOverlap    \* may two requests on one order be in flight at once?

Statuses == {"absent", "PENDING", "HELD", "CONFIRMED", "COMPLETED",
             "CANCELLED", "RETURNED"}
Deducted == {"CONFIRMED", "COMPLETED"}       \* stock of the order is out
Cart     == [Lines -> Nat]
NoUnits  == [l \in Lines |-> 0]
NoChange == [r \in Rows |-> 0]

ASSUME FiniteAssumption == IsFiniteSet(OrderIds) /\ IsFiniteSet(Lines)
ASSUME NullAssumption == NoOrder \notin OrderIds /\ NoLine \notin Lines
ASSUME NeedAssumption == Need \in [Lines -> [Rows -> Nat]]
ASSUME CartsAssumption == Carts \subseteq Cart
ASSUME StockAssumption == InitialStock \in [Rows -> Nat]
ASSUME CreateAssumption ==
    CreateStatuses \subseteq {"PENDING", "HELD", "CONFIRMED", "COMPLETED"}
ASSUME CodesAssumption == /\ Codes \subseteq BOOLEAN
                          /\ SameOrderOverlap \in BOOLEAN
                          /\ UsageLimit \in Nat
                          /\ MaxUsed \in Nat

VARIABLES
    order,      \* the Order rows with their OrderItems
    out,        \* per order line: SALE minus RETURN units in stock_movements
    stock,      \* committed inventory.quantity
    used,       \* DiscountCode.timesUsed
    req         \* the requests in flight

vars == <<order, out, stock, used, req>>

\* asked and refunded say that refundRequestedAt and refundedAt are set; a
\* line of quantity 0 has no OrderItem row.
OrderRow == [status : Statuses, qty : Cart, coded : BOOLEAN,
             asked : BOOLEAN, refunded : BOOLEAN]
Absent == [status |-> "absent", qty |-> NoUnits, coded |-> FALSE,
           asked |-> FALSE, refunded |-> FALSE]

Ops == {"none", "create", "hold", "confirm", "cancel",
        "ask", "return", "partial", "reject"}
Steps == {"idle", "write", "reread", "validate", "consume",
          "lines", "check", "apply", "commit"}

Request == [pc : Steps, op : Ops, oid : OrderIds \cup {NoOrder},
            seen : OrderRow, amt : Cart, todo : SUBSET Lines,
            line : Lines \cup {NoLine}, part : SUBSET Rows,
            delta : [Rows -> Int]]

Idle == [pc |-> "idle", op |-> "none", oid |-> NoOrder, seen |-> Absent,
         amt |-> NoUnits, todo |-> {}, line |-> NoLine, part |-> {},
         delta |-> NoChange]

\* An active request has an order; a line is in progress while its rows are
\* worked on; only a full return reads the order again; a partial return never
\* selects more than the quantity it read.
WellFormed(q) ==
    /\ q.pc # "idle" => q.oid \in OrderIds
    /\ q.pc \in {"check", "apply"} => q.line \in Lines
    /\ q.pc = "reread" => q.op = "return"
    /\ q.op = "partial" => \A l \in Lines : q.amt[l] <= q.seen.qty[l]

TypeOK ==
    /\ order \in [OrderIds -> OrderRow]
    /\ out \in [OrderIds -> [Lines -> Int]]
    /\ stock \in [Rows -> Int]
    /\ used \in Nat
    /\ req \in [Workers -> Request]
    /\ \A w \in Workers : WellFormed(req[w])

Init ==
    /\ order = [o \in OrderIds |-> Absent]
    /\ out = [o \in OrderIds |-> NoUnits]
    /\ stock = InitialStock
    /\ used = 0
    /\ req = [w \in Workers |-> Idle]

-----------------------------------------------------------------------------
(* Starting a request: the read outside the transaction and its guards.  A *)
(* request whose guard fails answers 4xx and changes nothing: no step.     *)

Untouched(o) == \A v \in Workers : req[v].oid # o

MayStart(w, o) ==
    /\ req[w].pc = "idle"
    /\ SameOrderOverlap \/ Untouched(o)

\* w has read row; it will move amt units per line.
Begin(w, op, o, row, amt, pc) ==
    /\ req' = [req EXCEPT ![w] =
                  [Idle EXCEPT !.pc = pc, !.op = op, !.oid = o, !.seen = row,
                               !.amt = amt,
                               !.todo = {l \in Lines : amt[l] > 0}]]
    /\ UNCHANGED <<order, out, stock, used>>

\* create's own early check: each line alone fits the stock read.
InStock(cart) ==
    \A l \in Lines, r \in Rows :
        cart[l] * Need[l][r] > 0 => stock[r] >= cart[l] * Need[l][r]

\* create: a fresh id, so no other request can know it.
StartCreate(w, o) ==
    /\ req[w].pc = "idle"
    /\ order[o].status = "absent"
    /\ Untouched(o)
    /\ \E st \in CreateStatuses, cart \in Carts, code \in Codes :
          /\ st \in Deducted => InStock(cart)
          /\ Begin(w, "create", o,
                   [Absent EXCEPT !.status = st, !.qty = cart, !.coded = code],
                   IF st \in Deducted THEN cart ELSE NoUnits,
                   IF code THEN "validate" ELSE "lines")

StartHold(w, o) ==
    /\ MayStart(w, o)
    /\ order[o].status = "PENDING"
    /\ Begin(w, "hold", o, order[o], NoUnits, "write")

\* Mutant: confirm without its refusal of cancelled orders.
StartConfirmCancelled(w, o) ==
    /\ MayStart(w, o)
    /\ order[o].status \in {"PENDING", "HELD", "RETURNED", "CANCELLED"}
    /\ Begin(w, "confirm", o, order[o], order[o].qty,
             IF order[o].coded THEN "validate" ELSE "lines")

StartConfirm(w, o) ==
    /\ MayStart(w, o)
    /\ order[o].status \in {"PENDING", "HELD", "RETURNED"}
    /\ Begin(w, "confirm", o, order[o], order[o].qty,
             IF order[o].coded THEN "validate" ELSE "lines")

\* Mutant: cancel restores whether or not the stock was deducted.
StartCancelRestoring(w, o) ==
    /\ MayStart(w, o)
    /\ order[o].status \notin {"absent", "CANCELLED"}
    /\ Begin(w, "cancel", o, order[o], order[o].qty, "lines")

StartCancel(w, o) ==
    /\ MayStart(w, o)
    /\ order[o].status \notin {"absent", "CANCELLED"}
    /\ Begin(w, "cancel", o, order[o],
             IF order[o].status \in Deducted THEN order[o].qty ELSE NoUnits,
             "lines")

\* requestReturn's guards, up to validateReturnSelection.
Returnable(o) == order[o].status \in Deducted /\ ~order[o].asked

\* hasPendingReturnRequest.
PendingReturn(o) == order[o].status \in Deducted /\ order[o].asked

\* A full return at or above the threshold, asked by staff.  The total, the
\* threshold setting and the caller's level are free, so this and
\* StartReturn are both open to every returnable order.
StartAsk(w, o) ==
    /\ MayStart(w, o)
    /\ Returnable(o)
    /\ Begin(w, "ask", o, order[o], NoUnits, "write")

\* A full return executed at once, or the approval of a pending one: both
\* run finalizeReturn, which reads the order again.
StartReturn(w, o) ==
    /\ MayStart(w, o)
    /\ Returnable(o) \/ PendingReturn(o)
    /\ Begin(w, "return", o, order[o], NoUnits, "reread")

\* Mutant: a selection may exceed the item's quantity.
StartPartialUncapped(w, o) ==
    /\ MayStart(w, o)
    /\ Returnable(o)
    /\ \E sel \in [Lines -> UNION {0 .. order[o].qty[l] + 1 : l \in Lines}] :
          /\ sel # NoUnits
          /\ Begin(w, "partial", o, order[o], sel, "lines")

\* A partial return: at most one entry per order item, each within the
\* item's quantity as read.
StartPartial(w, o) ==
    /\ MayStart(w, o)
    /\ Returnable(o)
    /\ \E sel \in [Lines -> UNION {0 .. order[o].qty[l] : l \in Lines}] :
          /\ sel # NoUnits
          /\ \A l \in Lines : sel[l] <= order[o].qty[l]
          /\ Begin(w, "partial", o, order[o], sel, "lines")

StartReject(w, o) ==
    /\ MayStart(w, o)
    /\ PendingReturn(o)
    /\ Begin(w, "reject", o, order[o], NoUnits, "write")

-----------------------------------------------------------------------------
(* Requests with a single update and no transaction.                       *)

Write(w, row) ==
    /\ req[w].pc = "write"
    /\ order' = [order EXCEPT ![req[w].oid] = row]
    /\ req' = [req EXCEPT ![w] = Idle]
    /\ UNCHANGED <<out, stock, used>>

WriteHold(w) ==
    /\ req[w].op = "hold"
    /\ Write(w, [order[req[w].oid] EXCEPT !.status = "HELD"])

WriteAsk(w) ==
    /\ req[w].op = "ask"
    /\ Write(w, [order[req[w].oid] EXCEPT !.asked = TRUE])

WriteReject(w) ==
    /\ req[w].op = "reject"
    /\ Write(w, [order[req[w].oid] EXCEPT !.asked = FALSE])

-----------------------------------------------------------------------------
(* The statements of a transaction.                                        *)

\* finalizeReturn reads the order again and never looks at its status.
Reread(w) ==
    /\ req[w].pc = "reread"
    /\ LET row == order[req[w].oid] IN
       req' = [req EXCEPT ![w].pc = "lines", ![w].seen = row,
                          ![w].amt = row.qty,
                          ![w].todo = {l \in Lines : row.qty[l] > 0}]
    /\ UNCHANGED <<order, out, stock, used>>

\* DiscountsService.validateForConfirm; an inactive or expired code fails
\* the request (Fail).
Validate(w) ==
    /\ req[w].pc = "validate"
    /\ used < UsageLimit
    /\ req' = [req EXCEPT ![w].pc =
                  IF req[w].op = "confirm" THEN "consume" ELSE "lines"]
    /\ UNCHANGED <<order, out, stock, used>>

LinesDone(w) == req[w].pc = "lines" /\ req[w].todo = {}

\* Mutant: create leaves the usage to a later confirm.
ConsumeOnlyOnConfirm(w) == FALSE

\* create consumes after its lines, and only when it deducts.
ConsumeDue(w) ==
    /\ req[w].op = "create"
    /\ req[w].seen.coded
    /\ req[w].seen.status \in Deducted

\* DiscountsService.consume goes through its own connection: it commits at
\* once, whatever becomes of the transaction around it.
Consume(w) ==
    /\ \/ req[w].pc = "consume"
       \/ LinesDone(w) /\ ConsumeDue(w)
    /\ used < MaxUsed
    /\ used' = used + 1
    /\ req' = [req EXCEPT ![w].pc =
                  IF req[w].op = "confirm" THEN "lines" ELSE "commit"]
    /\ UNCHANGED <<order, out, stock>>

RowsOf(l) == {r \in Rows : Need[l][r] > 0}
Deducts(w) == req[w].op \in {"create", "confirm"}
Amount(w, r) == req[w].amt[req[w].line] * Need[req[w].line][r]

\* What a SELECT inside w's transaction returns: the committed value and
\* w's own writes.
Visible(w, r) == stock[r] + req[w].delta[r]

\* deductLine / restoreLine on one order item.  findUnique returns the items
\* in no fixed order.
StartLine(w, l) ==
    /\ req[w].pc = "lines"
    /\ l \in req[w].todo
    /\ req' = [req EXCEPT ![w].todo = @ \ {l}, ![w].line = l,
                          ![w].part = RowsOf(l),
                          ![w].pc = IF RowsOf(l) = {} THEN "lines"
                                    ELSE IF Deducts(w) THEN "check"
                                    ELSE "apply"]
    /\ UNCHANGED <<order, out, stock, used>>

\* Mutant: no availability check.
CheckNothing(w, r) ==
    /\ req[w].pc = "check"
    /\ r \in req[w].part
    /\ LET rest == req[w].part \ {r} IN
       req' = [req EXCEPT
                  ![w].pc = IF rest = {} THEN "apply" ELSE "check",
                  ![w].part = IF rest = {} THEN RowsOf(req[w].line) ELSE rest]
    /\ UNCHANGED <<order, out, stock, used>>

\* The availability check; when it fails the request answers 409 (Fail).
CheckRow(w, r) ==
    /\ req[w].pc = "check"
    /\ r \in req[w].part
    /\ Visible(w, r) >= Amount(w, r)
    /\ LET rest == req[w].part \ {r} IN
       req' = [req EXCEPT
                  ![w].pc = IF rest = {} THEN "apply" ELSE "check",
                  ![w].part = IF rest = {} THEN RowsOf(req[w].line) ELSE rest]
    /\ UNCHANGED <<order, out, stock, used>>

\* UPDATE ... quantity = quantity -/+ n: it waits for the row lock, which its
\* holder keeps until it commits or rolls back.
RowFree(w, r) == \A v \in Workers \ {w} : req[v].delta[r] = 0

\* Mutant: a component moves by its quantity per unit, not times the units.
ApplyOneUnit(w, r) ==
    /\ req[w].pc = "apply"
    /\ r \in req[w].part
    /\ RowFree(w, r)
    /\ LET rest == req[w].part \ {r} IN
       req' = [req EXCEPT
                  ![w].pc = IF rest = {} THEN "lines" ELSE "apply",
                  ![w].part = rest,
                  ![w].delta[r] = IF Deducts(w) THEN @ - Need[req[w].line][r]
                                                ELSE @ + Need[req[w].line][r]]
    /\ UNCHANGED <<order, out, stock, used>>

ApplyRow(w, r) ==
    /\ req[w].pc = "apply"
    /\ r \in req[w].part
    /\ RowFree(w, r)
    /\ LET rest == req[w].part \ {r} IN
       req' = [req EXCEPT
                  ![w].pc = IF rest = {} THEN "lines" ELSE "apply",
                  ![w].part = rest,
                  ![w].delta[r] = IF Deducts(w) THEN @ - Amount(w, r)
                                                ELSE @ + Amount(w, r)]
    /\ UNCHANGED <<order, out, stock, used>>

-----------------------------------------------------------------------------
(* Commits: the final order update and everything the transaction wrote.   *)

ReadyToCommit(w) ==
    \/ req[w].pc = "commit"
    \/ LinesDone(w) /\ ~ConsumeDue(w)

Moved(w, l) == IF Deducts(w) THEN req[w].amt[l] ELSE 0 - req[w].amt[l]

Commit(w, row) ==
    /\ ReadyToCommit(w)
    /\ order' = [order EXCEPT ![req[w].oid] = row]
    /\ stock' = [r \in Rows |-> stock[r] + req[w].delta[r]]
    /\ out' = [out EXCEPT ![req[w].oid] =
                  [l \in Lines |-> out[req[w].oid][l] + Moved(w, l)]]
    /\ req' = [req EXCEPT ![w] = Idle]
    /\ UNCHANGED used

CommitCreate(w) ==
    /\ req[w].op = "create"
    /\ Commit(w, req[w].seen)

CommitConfirm(w) ==
    /\ req[w].op = "confirm"
    /\ Commit(w, [order[req[w].oid] EXCEPT !.status = "CONFIRMED"])

\* refundedAt is stamped when the status READ was a deducted one;
\* refundRequestedAt is left as it is.
CommitCancel(w) ==
    /\ req[w].op = "cancel"
    /\ Commit(w, [order[req[w].oid] EXCEPT
                     !.status = "CANCELLED",
                     !.refunded = @ \/ req[w].seen.status \in Deducted])

CommitReturn(w) ==
    /\ req[w].op = "return"
    /\ Commit(w, [order[req[w].oid] EXCEPT
                     !.status = "RETURNED", !.refunded = TRUE, !.asked = FALSE])

\* Each selected item is set to the remainder of the quantity READ, or
\* deleted; an item that is gone fails the update (Fail).
CommitPartial(w) ==
    LET row == order[req[w].oid] IN
    /\ req[w].op = "partial"
    /\ \A l \in Lines : req[w].amt[l] > 0 => row.qty[l] > 0
    /\ Commit(w, [row EXCEPT !.qty =
                     [l \in Lines |-> IF req[w].amt[l] > 0
                                      THEN req[w].seen.qty[l] - req[w].amt[l]
                                      ELSE row.qty[l]]])

\* Any exception: a failed check (409), an exhausted code (400), the 5 s
\* transaction timeout, a deadlock victim, a lost connection, a crash.  The
\* transaction rolls back; what went through another connection stays.
Fail(w) ==
    /\ req[w].pc # "idle"
    /\ req' = [req EXCEPT ![w] = Idle]
    /\ UNCHANGED <<order, out, stock, used>>

Start(w) ==
    \E o \in OrderIds :
        \/ StartCreate(w, o)
        \/ StartHold(w, o)
        \/ StartConfirm(w, o)
        \/ StartCancel(w, o)
        \/ StartAsk(w, o)
        \/ StartReturn(w, o)
        \/ StartPartial(w, o)
        \/ StartReject(w, o)

Statement(w) ==
    \/ Reread(w)
    \/ Validate(w)
    \/ Consume(w)
    \/ \E l \in Lines : StartLine(w, l)
    \/ \E r \in Rows : CheckRow(w, r) \/ ApplyRow(w, r)

Finish(w) ==
    \/ WriteHold(w)
    \/ WriteAsk(w)
    \/ WriteReject(w)
    \/ CommitCreate(w)
    \/ CommitConfirm(w)
    \/ CommitCancel(w)
    \/ CommitReturn(w)
    \/ CommitPartial(w)
    \/ Fail(w)

Next == \E w \in Workers : Start(w) \/ Statement(w) \/ Finish(w)

Spec == Init /\ [][Next]_vars
-----------------------------------------------------------------------------
(* Properties.                                                             *)

\* An order's stock is out exactly while the order is sold: for each of its
\* lines the recorded SALE units minus RETURN units equal the line's quantity
\* in a CONFIRMED/COMPLETED order, and 0 in any other.
OrderStock ==
    \A o \in OrderIds, l \in Lines :
        out[o][l] = IF order[o].status \in Deducted THEN order[o].qty[l] ELSE 0

\* What a handler read before its transaction still holds when it commits, and
\* is what it will move: no other request is on the order, its row is the one
\* read (or absent, for create), and its amounts are those its status calls
\* for.  This is what the handlers rely on and do not recheck.
Exclusive ==
    \A v, w \in Workers :
        v # w /\ req[v].pc # "idle" => req[v].oid # req[w].oid

Wants(q) ==
    /\ q.op = "create" => q.amt = IF q.seen.status \in Deducted
                                   THEN q.seen.qty ELSE NoUnits
    /\ q.op = "confirm" => /\ q.seen.status \in {"PENDING", "HELD", "RETURNED"}
                           /\ q.amt = q.seen.qty
    /\ q.op = "cancel" => /\ q.seen.status \notin {"absent", "CANCELLED"}
                          /\ q.amt = IF q.seen.status \in Deducted
                                     THEN q.seen.qty ELSE NoUnits
    /\ q.op = "return" => /\ q.seen.status \in Deducted
                          /\ q.pc # "reread" => q.amt = q.seen.qty
    /\ q.op = "partial" => q.seen.status \in Deducted
    /\ q.op = "hold" => q.seen.status = "PENDING"

Fresh(q) ==
    IF q.pc = "idle" THEN q = Idle
    ELSE /\ q.oid \in OrderIds
         /\ IF q.op = "create"
            THEN /\ order[q.oid].status = "absent"
                 /\ q.seen.status \in CreateStatuses
                 /\ ~q.seen.refunded
            ELSE q.seen = order[q.oid]
         /\ Wants(q)

ReadsStayValid == Exclusive /\ \A w \in Workers : Fresh(req[w])

\* Seen from outside, every request is one atomic operation of Sales: an order
\* changes its status together with its stock and its refund stamp, CANCELLED
\* is final, a refund takes every unit back exactly once, and a request that
\* fails part of the way leaves nothing behind.
Promise == INSTANCE Sales WITH
    status   <- [o \in OrderIds |-> order[o].status],
    units    <- out,
    refunded <- [o \in OrderIds |-> order[o].refunded]
ImplementsSales == Promise!Spec

\* The inventory and the ledger agree: what a row holds, plus what every order
\* still has out of it, is what the row opened with.  deductLine and
\* restoreLine write both tables in one transaction.
Taken(cart, r) == SumFunctionOnSet([l \in Lines |-> cart[l] * Need[l][r]], Lines)
AllTaken(units, r) == SumFunctionOnSet([o \in OrderIds |-> Taken(units[o], r)], OrderIds)
StockLedger == \A r \in Rows : stock[r] + AllTaken(out, r) = InitialStock[r]

\* Stock never goes below zero: a sale without stock is refused.
StockNonNegative == \A r \in Rows : stock[r] >= 0

\* What the check of deductLine, made before the row is locked, does
\* guarantee with n requests at a time: a row is oversold by at most what
\* n - 1 carts take from it.
MostTaken(r) == Max({0} \cup {Taken(cart, r) : cart \in Carts})
OversellBounded ==
    \A r \in Rows : stock[r] >= 0 - (Cardinality(Workers) - 1) * MostTaken(r)

SoldWithCode == {o \in OrderIds : order[o].coded /\ order[o].status \in Deducted}

\* Every order that stands sold with the code has been counted in timesUsed,
\* whichever of create and confirm sold it.
EveryUseCounted == used >= Cardinality(SoldWithCode)

\* Confirming is idempotent: an order never has more units out of stock than
\* its lines hold.
DeductedOnce == \A o \in OrderIds, l \in Lines : out[o][l] <= order[o].qty[l]
=============================================================================
