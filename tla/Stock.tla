-------------------------------- MODULE Stock --------------------------------
(***************************************************************************)
(* Who else moves stock: manual corrections, stock takes, assembling kits, *)
(* purchases (with the moving average cost) and sales.  Transactions run   *)
(* at Read Committed: a statement sees what is committed and the           *)
(* transaction's own writes, and a written row stays locked until its end. *)
(***************************************************************************)
EXTENDS Integers, FiniteSets

CONSTANTS
    Items,
    Parts,      \* Parts[i]: the components of kit i, {} for a plain item
    Jobs,       \* concurrent requests
    Amounts,    \* quantities entered by hand
    Prices,     \* purchase prices, and the cost at the start
    Initial,    \* the quantity and cost every item starts with
    MaxQty,     \* bound: no request starts that would exceed it
    MaxRequests \* bound: requests in all

ASSUME StockAssumption ==
    /\ Parts \in [Items -> SUBSET Items]
    /\ \A i \in Items : i \notin Parts[i]
    /\ Amounts \subseteq Nat /\ Prices \subseteq Nat /\ Initial \in Prices
    /\ MaxQty \in Nat /\ MaxRequests \in Nat

VARIABLES
    qty,        \* Inventory rows
    cost,       \* Product.purchasePrice
    gap,        \* qty minus what the StockMovement rows add up to, until overwritten
    take,       \* a StockTake, its counted lines, and whether it moved stock
    job,        \* job[j]: the request's locals
    requests,   \* how many were begun
    pend,       \* pend[j][i]: what j wrote to row i and has not committed
    overwritten, overdrawn, \* history: items written, or drawn from, on an outdated read
    crossed     \* history: two requests were ending the take at once

stockVars == <<qty, cost, gap, take, job, requests, pend, overwritten, overdrawn, crossed>>

Uncounted == -1
NoWrite == [to |-> 0, move |-> 0, late |-> FALSE, by |-> "none"]
Done == [pc |-> "idle", op |-> "none", item |-> CHOOSE i \in Items : TRUE, n |-> 0, price |-> 0,
         read |-> 0, todo |-> {}, lines |-> [i \in Items |-> Uncounted], moved |-> {}]

StockInit ==
    /\ qty = [i \in Items |-> Initial]
    /\ cost = [i \in Items |-> Initial]
    /\ gap = [i \in Items |-> 0]
    /\ take = [st |-> "none", counted |-> [i \in Items |-> Uncounted], applied |-> FALSE]
    /\ job = [j \in Jobs |-> Done] /\ requests = 0
    /\ pend = [j \in Jobs |-> [i \in Items |-> NoWrite]]
    /\ overwritten = {} /\ overdrawn = {} /\ crossed = FALSE

Wrote(j, i) == pend[j][i].by # "none"
Free(j, i) == \A k \in Jobs \ {j} : ~Wrote(k, i)
Seen(j, i) == IF Wrote(j, i) THEN pend[j][i].to ELSE qty[i]

ledgerVars == <<qty, cost, gap, overwritten, overdrawn>>

Begin(j, fields) ==
    /\ job[j].pc = "idle" /\ requests < MaxRequests
    /\ job' = [job EXCEPT ![j] = fields]
    /\ requests' = requests + 1

\* A row is set to a value, and a movement row says by how much.
Write(j, i, to, move, by, next) ==
    /\ Free(j, i)
    /\ pend' = [pend EXCEPT ![j][i] = [to |-> to, move |-> @.move + move,
                                       late |-> @.late \/ i \in job[j].moved, by |-> by]]
    /\ job' = [job EXCEPT ![j] = next]
    /\ UNCHANGED <<ledgerVars, requests, take, crossed>>

-----------------------------------------------------------------------------
(* InventoryService.adjust and setStock *)

\* The row is read outside the transaction that writes it.
Correct(j, op, i, n) ==
    /\ op = "adjust" => n > 0 /\ qty[i] + n <= MaxQty
    /\ Begin(j, [Done EXCEPT !.pc = "put", !.op = op, !.item = i, !.n = n, !.read = qty[i]])
    /\ UNCHANGED <<ledgerVars, pend, take, crossed>>

\* Mutant: a setStock records its quantity, not the difference, as the movement.
PutRecordingTarget(j) ==
    LET r == job[j] IN
    /\ r.pc = "put"
    /\ Write(j, r.item, IF r.op = "adjust" THEN r.read + r.n ELSE r.n, r.n, "put",
             [r EXCEPT !.pc = "end"])

Put(j) ==
    LET r == job[j]
        to == IF r.op = "adjust" THEN r.read + r.n ELSE r.n IN
    /\ r.pc = "put"
    /\ Write(j, r.item, to, to - r.read, "put", [r EXCEPT !.pc = "end"])

-----------------------------------------------------------------------------
(* ManufacturingService.compose, and the sale of a kit or a plain item *)

Needs(i) == IF Parts[i] = {} THEN {i} ELSE Parts[i]

Gather(j, op, i) ==
    /\ op = "compose" => Parts[i] # {} /\ qty[i] < MaxQty
    /\ Begin(j, [Done EXCEPT !.pc = "check", !.op = op, !.item = i, !.todo = Needs(i)])
    /\ UNCHANGED <<ledgerVars, pend, take, crossed>>

Next1(r, i, pc) ==
    IF r.todo = {i} THEN [r EXCEPT !.pc = pc, !.todo = Needs(r.item)] ELSE [r EXCEPT !.todo = @ \ {i}]

\* Mutant: what is there is not compared with what is needed.
CheckNothing(j, i) ==
    LET r == job[j] IN
    /\ r.pc = "check" /\ i \in r.todo
    /\ job' = [job EXCEPT ![j] = [Next1(r, i, "draw") EXCEPT !.moved = @ \ {i}]]
    /\ UNCHANGED <<ledgerVars, requests, pend, take, crossed>>

\* One unit of each component; too little of one refuses the request (Abort).
Check(j, i) ==
    LET r == job[j] IN
    /\ r.pc = "check" /\ i \in r.todo
    /\ Seen(j, i) >= 1
    /\ job' = [job EXCEPT ![j] = [Next1(r, i, "draw") EXCEPT !.moved = @ \ {i}]]
    /\ UNCHANGED <<ledgerVars, requests, pend, take, crossed>>

Draw(j, i) ==
    LET r == job[j] IN
    /\ r.pc = "draw" /\ i \in r.todo
    /\ Write(j, i, Seen(j, i) - 1, -1, "draw",
             Next1(r, i, IF r.op = "compose" THEN "make" ELSE "end"))

Make(j) ==
    LET r == job[j] IN
    /\ r.pc = "make"
    /\ Write(j, r.item, Seen(j, r.item) + 1, 1, "add", [r EXCEPT !.pc = "end"])

-----------------------------------------------------------------------------
(* PurchasesService.create, for a purchase of one line *)

Receive(j, i, n, p) ==
    /\ n > 0 /\ qty[i] + n <= MaxQty
    /\ Begin(j, [Done EXCEPT !.pc = "cost", !.op = "receive", !.item = i, !.n = n, !.price = p])
    /\ UNCHANGED <<ledgerVars, pend, take, crossed>>

\* Mutant: the value on the shelf is divided by what was there before.
AverageOverOld(old, avg, n, p) == IF old > 0 THEN (old * avg + n * p) \div old ELSE p

Average(old, avg, n, p) == IF old + n > 0 THEN (old * avg + n * p) \div (old + n) ELSE p

\* Two statements, one after the other.
ReadStock(j) ==
    LET r == job[j] IN
    /\ r.pc = "cost"
    /\ job' = [job EXCEPT ![j].pc = "price", ![j].read = Seen(j, r.item)]
    /\ UNCHANGED <<ledgerVars, requests, pend, take, crossed>>

\* The average is computed from what is read, then written before the stock.
ReadCost(j) ==
    LET r == job[j] IN
    /\ r.pc = "price"
    /\ job' = [job EXCEPT ![j].pc = "add",
                          ![j].price = Average(r.read, cost[r.item], r.n, r.price)]
    /\ UNCHANGED <<ledgerVars, requests, pend, take, crossed>>

Add(j) ==
    LET r == job[j] IN
    /\ r.pc = "add"
    /\ Write(j, r.item, Seen(j, r.item) + r.n, r.n, "add", [r EXCEPT !.pc = "end"])

-----------------------------------------------------------------------------
(* StockTakeService *)

OpenTake ==
    /\ take.st = "none"
    /\ take' = [take EXCEPT !.st = "open"]
    /\ UNCHANGED <<ledgerVars, pend, job, requests, crossed>>

Ending == {k \in Jobs : job[k].op \in {"commit", "cancel"} /\ job[k].pc # "idle"}

Count(j, i, n) ==
    /\ take.st = "open"
    /\ Begin(j, [Done EXCEPT !.pc = "line", !.op = "count", !.item = i, !.n = n])
    /\ UNCHANGED <<ledgerVars, pend, take, crossed>>

PutCount(j) ==
    /\ job[j].pc = "line"
    /\ take' = [take EXCEPT !.counted[job[j].item] = job[j].n]
    /\ job' = [job EXCEPT ![j] = Done]
    /\ UNCHANGED <<ledgerVars, requests, pend, crossed>>

Counted(lines) == {i \in Items : lines[i] # Uncounted}

\* The lines are read with the status, outside the transaction.
CommitTake(j) ==
    /\ take.st = "open" /\ Counted(take.counted) # {}
    /\ Begin(j, [Done EXCEPT !.pc = "apply", !.op = "commit", !.lines = take.counted,
                             !.todo = Counted(take.counted)])
    /\ crossed' = (crossed \/ Ending # {})
    /\ UNCHANGED <<ledgerVars, pend, take>>

\* The live quantity of one line is read; only a difference is written.
ReadLive(j, i) ==
    LET r == job[j] IN
    /\ r.pc = "apply" /\ i \in r.todo
    /\ job' = [job EXCEPT ![j] = [r EXCEPT !.item = i, !.read = Seen(j, i), !.moved = @ \ {i},
                  !.pc = IF Seen(j, i) # r.lines[i] THEN "fix" ELSE "apply",
                  !.todo = @ \ {i}]]
    /\ UNCHANGED <<ledgerVars, requests, pend, take, crossed>>

FixLine(j) ==
    LET r == job[j] IN
    /\ r.pc = "fix"
    /\ Write(j, r.item, r.lines[r.item], r.lines[r.item] - r.read, "put", [r EXCEPT !.pc = "apply"])

\* Mutant: the status is not looked at.
CancelAnyTake(j) ==
    /\ take.st # "none"
    /\ Begin(j, [Done EXCEPT !.pc = "cancel", !.op = "cancel"])
    /\ crossed' = (crossed \/ Ending # {})
    /\ UNCHANGED <<ledgerVars, pend, take>>

CancelTake(j) ==
    /\ take.st = "open"
    /\ Begin(j, [Done EXCEPT !.pc = "cancel", !.op = "cancel"])
    /\ crossed' = (crossed \/ Ending # {})
    /\ UNCHANGED <<ledgerVars, pend, take>>

PutCancel(j) ==
    /\ job[j].pc = "cancel"
    /\ take' = [take EXCEPT !.st = "cancelled"]
    /\ job' = [job EXCEPT ![j] = Done]
    /\ UNCHANGED <<ledgerVars, requests, pend, crossed>>

-----------------------------------------------------------------------------
(* A transaction ends *)

Ready(r) == r.pc = "end" \/ (r.pc = "apply" /\ r.todo = {})

Commit(j) ==
    LET r == job[j]
        W == {i \in Items : Wrote(j, i)}
        Late(by) == {i \in W : pend[j][i].by = by /\ pend[j][i].late} IN
    /\ Ready(r)
    /\ qty' = [i \in Items |-> Seen(j, i)]
    /\ overwritten' = overwritten \cup Late("put")
    /\ gap' = [i \in Items |-> IF i \in overwritten' THEN 0
                               ELSE IF i \in W THEN gap[i] + pend[j][i].to - qty[i] - pend[j][i].move
                               ELSE gap[i]]
    /\ cost' = IF r.op = "receive" THEN [cost EXCEPT ![r.item] = r.price] ELSE cost
    /\ take' = IF r.op = "commit" THEN [take EXCEPT !.st = "committed", !.applied = @ \/ W # {}]
               ELSE take
    /\ overdrawn' = overdrawn \cup Late("draw")
    /\ pend' = [pend EXCEPT ![j] = [i \in Items |-> NoWrite]]
    /\ job' = [k \in Jobs |-> IF k = j THEN Done
                              ELSE IF job[k].pc = "idle" THEN job[k]
                              ELSE [job[k] EXCEPT !.moved = @ \cup W]]
    /\ UNCHANGED <<requests, crossed>>

\* A check refuses, a statement fails, or the database breaks a deadlock.
Abort(j) ==
    /\ job[j].pc # "idle"
    /\ job' = [job EXCEPT ![j] = Done]
    /\ pend' = [pend EXCEPT ![j] = [i \in Items |-> NoWrite]]
    /\ UNCHANGED <<ledgerVars, requests, take, crossed>>

-----------------------------------------------------------------------------
StockNext ==
    \/ OpenTake
    \/ \E j \in Jobs :
        \/ CommitTake(j) \/ CancelTake(j) \/ PutCancel(j) \/ PutCount(j) \/ FixLine(j)
        \/ Put(j) \/ Make(j) \/ ReadStock(j) \/ ReadCost(j) \/ Add(j) \/ Commit(j) \/ Abort(j)
        \/ \E i \in Items :
            \/ Check(j, i) \/ Draw(j, i) \/ ReadLive(j, i)
            \/ \E op \in {"compose", "sell"} : Gather(j, op, i)
            \/ \E n \in Amounts :
                \/ Count(j, i, n)
                \/ \E op \in {"adjust", "set"} : Correct(j, op, i, n)
                \/ \E p \in Prices : Receive(j, i, n, p)

StockSpec == StockInit /\ [][StockNext]_stockVars

-----------------------------------------------------------------------------
(* Properties *)

\* The movement rows account for the stock, however corrections, takes, kits,
\* purchases and sales interleave, except for a row that a correction or a take
\* overwrote after another request had changed what it read.
LedgerExact == \A i \in Items : i \notin overwritten => gap[i] = 0

\* Stock goes below zero only where a sale or a kit drew from a row that
\* another request changed after its check.
AboveZero == \A i \in Items : i \notin overdrawn => qty[i] >= 0

\* The average cost stays between the lowest and the highest price ever paid,
\* even when two receipts average over the same quantity, as long as the stock
\* was not overdrawn: a negative quantity turns the weights around.
CostBetween ==
    \A i \in Items : i \notin overdrawn =>
        \E lo, hi \in Prices : lo <= cost[i] /\ cost[i] <= hi

\* A take that ends cancelled has moved no stock, unless the requests that
\* ended it overlapped: neither writes the status on condition.
CancelledMovedNothing == take.st = "cancelled" /\ take.applied => crossed
=============================================================================
