---------------------------- MODULE OrdersProofs ----------------------------
(* Theorems about Orders, for every value of its constants. *)
EXTENDS Overtaking, Sums, TLAPS

LEMMA IdleType == Idle \in Request
  BY DEF Idle, Request, Absent, OrderRow, Statuses, NoUnits, Cart, NoChange,
         Steps, Ops

\* What Begin puts in req[w] is a request.
LEMMA BeginType ==
    ASSUME TypeOK, NEW w \in Workers, NEW op \in Ops, NEW o \in OrderIds,
           NEW row \in OrderRow, NEW amt \in Cart, NEW pc \in Steps,
           pc \notin {"check", "apply"},
           pc = "reread" => op = "return",
           op = "partial" => \A l \in Lines : amt[l] <= row.qty[l],
           Begin(w, op, o, row, amt, pc)
    PROVE  TypeOK'
  <1> DEFINE q == [Idle EXCEPT !.pc = pc, !.op = op, !.oid = o, !.seen = row,
                     !.amt = amt, !.todo = {l \in Lines : amt[l] > 0}]
  <1>0. WellFormed(q)
    BY DEF Idle, WellFormed
  <1>1. [Idle EXCEPT !.pc = pc, !.op = op, !.oid = o, !.seen = row,
                     !.amt = amt, !.todo = {l \in Lines : amt[l] > 0}] \in Request
    BY IdleType DEF Request, Idle
  <1>2. QED
    BY <1>0, <1>1 DEF Begin, TypeOK

LEMMA StartType ==
    ASSUME TypeOK, NEW w \in Workers, Start(w)
    PROVE  TypeOK'
  <1> PICK o \in OrderIds :
         \/ StartCreate(w, o)
         \/ StartHold(w, o)
         \/ StartConfirm(w, o)
         \/ StartCancel(w, o)
         \/ StartAsk(w, o)
         \/ StartReturn(w, o)
         \/ StartPartial(w, o)
         \/ StartReject(w, o)
    BY DEF Start
  <1>1. /\ order[o] \in OrderRow
        /\ order[o].qty \in Cart
        /\ NoUnits \in Cart
    BY DEF TypeOK, OrderRow, NoUnits, Cart
  <1>2. CASE StartCreate(w, o)
    <2>1. PICK st \in CreateStatuses, cart \in Carts, code \in Codes :
             Begin(w, "create", o,
                [Absent EXCEPT !.status = st, !.qty = cart, !.coded = code],
                IF st \in Deducted THEN cart ELSE NoUnits,
                IF code THEN "validate" ELSE "lines")
      BY <1>2 DEF StartCreate
    <2>2. [Absent EXCEPT !.status = st, !.qty = cart, !.coded = code] \in OrderRow
      BY CreateAssumption, CartsAssumption, CodesAssumption
      DEF Absent, OrderRow, Statuses
    <2>3. (IF st \in Deducted THEN cart ELSE NoUnits) \in Cart
      BY <1>1, CartsAssumption
    <2>4. /\ (IF code THEN "validate" ELSE "lines") \in Steps \ {"check", "apply"}
          /\ "create" \in Ops
      BY DEF Steps, Ops
    <2>5. QED
      BY <2>1, <2>2, <2>3, <2>4, BeginType
  <1>3. CASE StartHold(w, o)
    BY <1>1, <1>3, BeginType DEF StartHold, Ops, Steps
  <1>4. CASE StartConfirm(w, o)
    <2>1. /\ (IF order[o].coded THEN "validate" ELSE "lines") \in Steps \ {"check", "apply"}
          /\ "confirm" \in Ops
      BY DEF Steps, Ops
    <2>2. QED
      BY <1>1, <1>4, <2>1, BeginType DEF StartConfirm
  <1>5. CASE StartCancel(w, o)
    <2>1. (IF order[o].status \in Deducted THEN order[o].qty ELSE NoUnits) \in Cart
      BY <1>1
    <2>2. "lines" \in Steps /\ "cancel" \in Ops
      BY DEF Steps, Ops
    <2>3. QED
      BY <1>1, <1>5, <2>1, <2>2, BeginType DEF StartCancel
  <1>6. CASE StartAsk(w, o)
    BY <1>1, <1>6, BeginType DEF StartAsk, Ops, Steps
  <1>7. CASE StartReturn(w, o)
    BY <1>1, <1>7, BeginType DEF StartReturn, Ops, Steps
  <1>8. CASE StartPartial(w, o)
    <2>1. PICK sel \in [Lines -> UNION {0 .. order[o].qty[l] : l \in Lines}] :
             /\ \A l \in Lines : sel[l] <= order[o].qty[l]
             /\ Begin(w, "partial", o, order[o], sel, "lines")
      BY <1>8 DEF StartPartial
    <2>2. sel \in Cart
      BY <1>1 DEF Cart
    <2>3. "lines" \in Steps /\ "partial" \in Ops
      BY DEF Steps, Ops
    <2>4. QED
      BY <1>1, <2>1, <2>2, <2>3, BeginType
  <1>9. CASE StartReject(w, o)
    BY <1>1, <1>9, BeginType DEF StartReject, Ops, Steps
  <1>10. QED
    BY <1>2, <1>3, <1>4, <1>5, <1>6, <1>7, <1>8, <1>9

\* A statement of a transaction keeps the shape of the request.
LEMMA StatementType ==
    ASSUME TypeOK, NEW w \in Workers, Statement(w)
    PROVE  TypeOK'
  <1>1. /\ req[w] \in Request
        /\ used + 1 \in Nat
        /\ req[w].todo \subseteq Lines
    BY DEF TypeOK, WellFormed, Request
  <1>2. CASE Reread(w)
    <2>1. /\ order[req[w].oid] \in OrderRow
          /\ order[req[w].oid].qty \in Cart
      BY <1>2 DEF Reread, TypeOK, WellFormed, OrderRow
    <2>2. QED
      BY <1>1, <1>2, <2>1 DEF Reread, TypeOK, WellFormed, Request, Steps
  <1>3. CASE Validate(w)
    BY <1>1, <1>3 DEF Validate, TypeOK, WellFormed, Request, Steps
  <1>4. CASE Consume(w)
    BY <1>1, <1>4 DEF Consume, LinesDone, TypeOK, WellFormed, Request, Steps
  <1>5. ASSUME NEW l \in Lines, StartLine(w, l)
        PROVE  TypeOK'
    BY <1>1, <1>5 DEF StartLine, TypeOK, WellFormed, Request, Steps, RowsOf
  <1>6. ASSUME NEW r \in Rows, CheckRow(w, r)
        PROVE  TypeOK'
    <2>1. req[w].pc = "check" /\ req[w].line \in Lines
      BY <1>6 DEF CheckRow, TypeOK, WellFormed
    <2>2. QED
      BY <1>1, <1>6, <2>1 DEF CheckRow, TypeOK, WellFormed, Request, Steps, RowsOf
  <1>7. ASSUME NEW r \in Rows, ApplyRow(w, r)
        PROVE  TypeOK'
    <2>0. req[w].pc = "apply"
      BY <1>7 DEF ApplyRow
    <2>1. /\ req[w].line \in Lines
          /\ req[w].amt \in [Lines -> Nat]
      BY <1>1, <2>0 DEF TypeOK, WellFormed, Request, Cart
    <2>2. Amount(w, r) \in Nat
      BY <2>1, NeedAssumption DEF Amount
    <2>3. /\ req[w].delta[r] - Amount(w, r) \in Int
          /\ req[w].delta[r] + Amount(w, r) \in Int
      BY <1>1, <2>2 DEF Request
    <2>4. QED
      BY <1>1, <1>7, <2>3 DEF ApplyRow, TypeOK, WellFormed, Request, Steps
  <1>8. QED
    BY <1>2, <1>3, <1>4, <1>5, <1>6, <1>7 DEF Statement

\* The final write of a request, and the return of its worker to idle.
LEMMA FinishType ==
    ASSUME TypeOK, NEW w \in Workers, Finish(w)
    PROVE  TypeOK'
  <1>1. /\ req[w] \in Request
        /\ req[w].amt \in [Lines -> Nat]
        /\ req[w].seen \in OrderRow
        /\ Idle \in Request
        /\ WellFormed(Idle)
    BY IdleType DEF TypeOK, Request, Cart, Idle, WellFormed
  <1>2. ASSUME NEW row \in OrderRow, Write(w, row)
        PROVE  TypeOK'
    BY <1>1, <1>2 DEF Write, TypeOK
  <1>3. ASSUME NEW row \in OrderRow, Commit(w, row)
        PROVE  TypeOK'
    <2>1. /\ \A l \in Lines : Moved(w, l) \in Int
          /\ req[w].pc # "idle"
      BY <1>1, <1>3 DEF Moved, Commit, ReadyToCommit, LinesDone
    <2>2. req[w].oid \in OrderIds
      BY <2>1 DEF TypeOK, WellFormed
    <2>3. out' \in [OrderIds -> [Lines -> Int]]
      BY <1>3, <2>1, <2>2 DEF Commit, TypeOK
    <2>4. stock' \in [Rows -> Int]
      BY <1>1, <1>3 DEF Commit, TypeOK, WellFormed, Request
    <2>5. order' \in [OrderIds -> OrderRow] /\ used' \in Nat
      BY <1>3, <2>2 DEF Commit, TypeOK
    <2>6. /\ req' \in [Workers -> Request]
          /\ \A v \in Workers : WellFormed(req'[v])
      BY <1>1, <1>3 DEF Commit, TypeOK
    <2>7. QED
      BY <2>3, <2>4, <2>5, <2>6 DEF TypeOK
  <1>4. req[w].oid \in OrderIds => order[req[w].oid] \in OrderRow
    BY DEF TypeOK
  <1> DEFINE row == order[req[w].oid]
  <1>5. CASE WriteHold(w) \/ WriteAsk(w) \/ WriteReject(w)
    <2>1. row \in OrderRow
      BY <1>4, <1>5 DEF WriteHold, WriteAsk, WriteReject, Write, TypeOK, WellFormed
    <2>2. /\ [row EXCEPT !.status = "HELD"] \in OrderRow
          /\ [row EXCEPT !.asked = TRUE] \in OrderRow
          /\ [row EXCEPT !.asked = FALSE] \in OrderRow
      BY <2>1 DEF OrderRow, Statuses
    <2>3. QED
      BY <1>2, <1>5, <2>2 DEF WriteHold, WriteAsk, WriteReject
  <1>6. CASE CommitCreate(w)
    BY <1>1, <1>3, <1>6 DEF CommitCreate
  <1>7. ASSUME NEW any, Commit(w, any)
        PROVE  row \in OrderRow
    BY <1>4, <1>7 DEF Commit, ReadyToCommit, LinesDone, TypeOK, WellFormed
  <1>8. CASE CommitConfirm(w)
    <2>1. row \in OrderRow
      BY <1>7, <1>8 DEF CommitConfirm
    <2>2. [row EXCEPT !.status = "CONFIRMED"] \in OrderRow
      BY <2>1 DEF OrderRow, Statuses
    <2>3. QED
      BY <1>3, <1>8, <2>2 DEF CommitConfirm
  <1>9. CASE CommitCancel(w)
    <2>1. row \in OrderRow
      BY <1>7, <1>9 DEF CommitCancel
    <2>2. [row EXCEPT !.status = "CANCELLED",
                      !.refunded = @ \/ req[w].seen.status \in Deducted] \in OrderRow
      BY <2>1 DEF OrderRow, Statuses
    <2>3. QED
      BY <1>3, <1>9, <2>2 DEF CommitCancel
  <1>10. CASE CommitReturn(w)
    <2>1. row \in OrderRow
      BY <1>7, <1>10 DEF CommitReturn
    <2>2. [row EXCEPT !.status = "RETURNED", !.refunded = TRUE, !.asked = FALSE]
             \in OrderRow
      BY <2>1 DEF OrderRow, Statuses
    <2>3. QED
      BY <1>3, <1>10, <2>2 DEF CommitReturn
  <1>11. CASE CommitPartial(w)
    <2> DEFINE rest == [l \in Lines |-> IF req[w].amt[l] > 0
                                        THEN req[w].seen.qty[l] - req[w].amt[l]
                                        ELSE row.qty[l]]
    <2>1. Commit(w, [row EXCEPT !.qty = rest])
      BY <1>11 DEF CommitPartial
    <2>2. row \in OrderRow
      BY <1>7, <2>1
    <2>3. \A l \in Lines : req[w].amt[l] <= req[w].seen.qty[l]
      BY <1>11 DEF CommitPartial, TypeOK, WellFormed
    <2>4. rest \in Cart
      BY <1>1, <2>2, <2>3 DEF OrderRow, Cart
    <2>5. [row EXCEPT !.qty = rest] \in OrderRow
      BY <2>2, <2>4 DEF OrderRow
    <2>6. QED
      BY <1>3, <2>1, <2>5
  <1>12. CASE Fail(w)
    BY <1>1, <1>12 DEF Fail, TypeOK
  <1>13. QED
    BY <1>5, <1>6, <1>8, <1>9, <1>10, <1>11, <1>12 DEF Finish

LEMMA TypeInit == Init => TypeOK
  BY IdleType, StockAssumption
  DEF Init, TypeOK, Idle, WellFormed, Absent, OrderRow, Statuses, NoUnits, Cart

LEMMA TypeNext == TypeOK /\ [Next]_vars => TypeOK'
  <1> SUFFICES ASSUME TypeOK, [Next]_vars PROVE TypeOK'
    OBVIOUS
  <1>1. CASE Next
    BY <1>1, StartType, StatementType, FinishType DEF Next
  <1>2. CASE UNCHANGED vars
    BY <1>2 DEF vars, TypeOK
  <1>3. QED
    BY <1>1, <1>2

\* Every reachable state is well typed, whatever the requests do to each other.
THEOREM OrdersTypeOK == Spec => []TypeOK
  BY TypeInit, TypeNext, PTL DEF Spec

(* OrderStock when no two requests are on one order, and what is left of   *)
(* it when they are.  The invariant that carries both says of a request    *)
(* that the row it read is still the row it will overwrite (Fresh).        *)

\* What the start of a request does: it notes the row it read.
Begun(w) ==
    /\ order' = order
    /\ out' = out
    /\ req[w].pc = "idle"
    /\ req'[w].pc # "idle"
    /\ \A v \in Workers \ {w} : req'[v] = req[v]
    /\ Fresh(req[w])'

LEMMA BeginFresh ==
    ASSUME TypeOK, NEW w \in Workers, NEW op \in Ops, NEW o \in OrderIds,
           NEW row \in OrderRow, NEW amt \in Cart, NEW pc \in Steps \ {"idle"},
           req[w].pc = "idle",
           IF op = "create"
              THEN /\ order[o].status = "absent"
                   /\ row.status \in CreateStatuses
                   /\ ~row.refunded
              ELSE row = order[o],
           \A q : q.op = op /\ q.seen = row /\ q.amt = amt /\ q.pc = pc => Wants(q),
           Begin(w, op, o, row, amt, pc)
    PROVE  Begun(w) /\ req'[w].oid = o
  <1> DEFINE q == [Idle EXCEPT !.pc = pc, !.op = op, !.oid = o, !.seen = row,
                     !.amt = amt, !.todo = {l \in Lines : amt[l] > 0}]
  <1>1. /\ q.pc = pc /\ q.op = op /\ q.oid = o /\ q.seen = row /\ q.amt = amt
        /\ pc # "idle"
    BY DEF Idle
  <1>2. /\ req' = [req EXCEPT ![w] = q]
        /\ order' = order /\ out' = out
    BY DEF Begin
  <1>3. /\ req'[w] = q
        /\ \A v \in Workers \ {w} : req'[v] = req[v]
    BY <1>2 DEF TypeOK
  <1> HIDE DEF q
  <1>4. Wants(q)
    BY <1>1
  <1>5. Wants(q)'
    BY <1>4 DEF Wants
  <1>6. Fresh(req[w])'
    BY <1>1, <1>2, <1>3, <1>4, <1>5 DEF Fresh, Wants
  <1>7. QED
    BY <1>1, <1>2, <1>3, <1>6 DEF Begun

LEMMA StartFresh ==
    ASSUME TypeOK, NEW w \in Workers, Start(w)
    PROVE  Begun(w) /\ (SameOrderOverlap \/ Untouched(req'[w].oid))
  <1> PICK o \in OrderIds :
         \/ StartCreate(w, o)
         \/ StartHold(w, o)
         \/ StartConfirm(w, o)
         \/ StartCancel(w, o)
         \/ StartAsk(w, o)
         \/ StartReturn(w, o)
         \/ StartPartial(w, o)
         \/ StartReject(w, o)
    BY DEF Start
  <1>1. /\ order[o] \in OrderRow
        /\ order[o].qty \in Cart
        /\ NoUnits \in Cart
    BY DEF TypeOK, OrderRow, NoUnits, Cart
  <1>2. CASE StartCreate(w, o)
    <2>1. PICK st \in CreateStatuses, cart \in Carts, code \in Codes :
             Begin(w, "create", o,
                [Absent EXCEPT !.status = st, !.qty = cart, !.coded = code],
                IF st \in Deducted THEN cart ELSE NoUnits,
                IF code THEN "validate" ELSE "lines")
      BY <1>2 DEF StartCreate
    <2> DEFINE row == [Absent EXCEPT !.status = st, !.qty = cart, !.coded = code]
               amt == IF st \in Deducted THEN cart ELSE NoUnits
               pc == IF code THEN "validate" ELSE "lines"
    <2>2. row \in OrderRow /\ row.status = st /\ row.qty = cart /\ ~row.refunded
      BY CreateAssumption, CartsAssumption, CodesAssumption
      DEF Absent, OrderRow, Statuses
    <2>3. amt \in Cart
      BY <1>1, CartsAssumption
    <2>4. pc \in Steps \ {"idle"} /\ "create" \in Ops
      BY DEF Steps, Ops
    <2>5. \A q : q.op = "create" /\ q.seen = row /\ q.amt = amt /\ q.pc = pc
                 => Wants(q)
      BY <2>2 DEF Wants
    <2>6. order[o].status = "absent" /\ Untouched(o) /\ req[w].pc = "idle"
      BY <1>2 DEF StartCreate
    <2> HIDE DEF row, amt, pc
    <2>7. Begin(w, "create", o, row, amt, pc)
      BY <2>1 DEF row, amt, pc
    <2>8. QED
      BY <2>2, <2>3, <2>4, <2>5, <2>6, <2>7, BeginFresh
  <1>3. ASSUME MayStart(w, o)
        PROVE  req[w].pc = "idle" /\ (SameOrderOverlap \/ Untouched(o))
    BY <1>3 DEF MayStart
  <1>4. CASE StartHold(w, o)
    <2>1. \A q : q.op = "hold" /\ q.seen = order[o] /\ q.amt = NoUnits /\ q.pc = "write"
                 => Wants(q)
      BY <1>4 DEF StartHold, Wants
    <2>2. QED
      BY <1>1, <1>3, <1>4, <2>1, BeginFresh DEF StartHold, Ops, Steps
  <1>5. CASE StartConfirm(w, o)
    <2> DEFINE pc == IF order[o].coded THEN "validate" ELSE "lines"
    <2>1. \A q : /\ q.op = "confirm" /\ q.seen = order[o]
                 /\ q.amt = order[o].qty /\ q.pc = pc
                 => Wants(q)
      BY <1>5 DEF StartConfirm, Wants
    <2>2. pc \in Steps \ {"idle"} /\ "confirm" \in Ops
      BY DEF Steps, Ops
    <2>3. MayStart(w, o) /\ Begin(w, "confirm", o, order[o], order[o].qty, pc)
      BY <1>5 DEF StartConfirm
    <2> HIDE DEF pc
    <2>4. QED
      BY <1>1, <1>3, <2>1, <2>2, <2>3, BeginFresh
  <1>6. CASE StartCancel(w, o)
    <2> DEFINE amt == IF order[o].status \in Deducted THEN order[o].qty ELSE NoUnits
    <2>1. \A q : q.op = "cancel" /\ q.seen = order[o] /\ q.amt = amt /\ q.pc = "lines"
                 => Wants(q)
      BY <1>6 DEF StartCancel, Wants
    <2>2. amt \in Cart /\ "lines" \in Steps \ {"idle"} /\ "cancel" \in Ops
      BY <1>1 DEF Steps, Ops
    <2>3. MayStart(w, o) /\ Begin(w, "cancel", o, order[o], amt, "lines")
      BY <1>6 DEF StartCancel
    <2> HIDE DEF amt
    <2>4. QED
      BY <1>1, <1>3, <2>1, <2>2, <2>3, BeginFresh
  <1>7. CASE StartAsk(w, o)
    <2>1. \A q : q.op = "ask" /\ q.seen = order[o] /\ q.amt = NoUnits /\ q.pc = "write"
                 => Wants(q)
      BY DEF Wants
    <2>2. QED
      BY <1>1, <1>3, <1>7, <2>1, BeginFresh DEF StartAsk, Ops, Steps
  <1>8. CASE StartReturn(w, o)
    <2>1. \A q : q.op = "return" /\ q.seen = order[o] /\ q.amt = NoUnits /\ q.pc = "reread"
                 => Wants(q)
      BY <1>8 DEF StartReturn, Wants, Returnable, PendingReturn
    <2>2. QED
      BY <1>1, <1>3, <1>8, <2>1, BeginFresh DEF StartReturn, Ops, Steps
  <1>9. CASE StartPartial(w, o)
    <2>1. PICK sel \in [Lines -> UNION {0 .. order[o].qty[l] : l \in Lines}] :
             Begin(w, "partial", o, order[o], sel, "lines")
      BY <1>9 DEF StartPartial
    <2>2. sel \in Cart /\ "lines" \in Steps \ {"idle"} /\ "partial" \in Ops
      BY <1>1 DEF Cart, Steps, Ops
    <2>3. \A q : q.op = "partial" /\ q.seen = order[o] /\ q.amt = sel /\ q.pc = "lines"
                 => Wants(q)
      BY <1>9 DEF StartPartial, Returnable, Wants
    <2>4. MayStart(w, o)
      BY <1>9 DEF StartPartial
    <2>5. QED
      BY <1>1, <1>3, <2>1, <2>2, <2>3, <2>4, BeginFresh
  <1>10. CASE StartReject(w, o)
    <2>1. \A q : q.op = "reject" /\ q.seen = order[o] /\ q.amt = NoUnits /\ q.pc = "write"
                 => Wants(q)
      BY DEF Wants
    <2>2. QED
      BY <1>1, <1>3, <1>10, <2>1, BeginFresh DEF StartReject, Ops, Steps
  <1>11. QED
    BY <1>2, <1>4, <1>5, <1>6, <1>7, <1>8, <1>9, <1>10

\* What a statement leaves alone: the orders, their units, the other requests
\* and, but for finalizeReturn's second read, what the request set out to do.
OrdersStay(w) ==
    /\ order' = order
    /\ out' = out
    /\ req[w].pc # "idle"
    /\ req'[w].pc \notin {"idle", "reread"}
    /\ req'[w].oid = req[w].oid
    /\ req'[w].op = req[w].op
    /\ \A v \in Workers \ {w} : req'[v] = req[v]
    /\ \/ Reread(w)
       \/ /\ req[w].pc # "reread"
          /\ req'[w].seen = req[w].seen
          /\ req'[w].amt = req[w].amt

LEMMA StatementKeeps ==
    ASSUME TypeOK, NEW w \in Workers, Statement(w)
    PROVE  OrdersStay(w)
  <1>1. req[w] \in Request /\ req \in [Workers -> Request]
    BY DEF TypeOK
  <1>2. CASE Reread(w)
    BY <1>1, <1>2 DEF OrdersStay, Reread, Request
  <1>3. CASE Validate(w)
    BY <1>1, <1>3 DEF OrdersStay, Validate, Request
  <1>4. CASE Consume(w)
    BY <1>1, <1>4 DEF OrdersStay, Consume, LinesDone, Request
  <1>5. ASSUME NEW l \in Lines, StartLine(w, l)
        PROVE  OrdersStay(w)
    BY <1>1, <1>5 DEF OrdersStay, StartLine, Request
  <1>6. ASSUME NEW r \in Rows, CheckRow(w, r)
        PROVE  OrdersStay(w)
    BY <1>1, <1>6 DEF OrdersStay, CheckRow, Request
  <1>7. ASSUME NEW r \in Rows, ApplyRow(w, r)
        PROVE  OrdersStay(w)
    BY <1>1, <1>7 DEF OrdersStay, ApplyRow, Request
  <1>8. QED
    BY <1>2, <1>3, <1>4, <1>5, <1>6, <1>7 DEF Statement

LEMMA StatementFresh ==
    ASSUME TypeOK, NEW w \in Workers, Fresh(req[w]), Statement(w)
    PROVE  Fresh(req[w])'
  <1>1. OrdersStay(w)
    BY StatementKeeps
  <1>2. CASE ~Reread(w)
    <2>1. req[w].pc \notin {"idle", "reread"}
      BY <1>1, <1>2 DEF OrdersStay
    <2>2. Fresh(req'[w])
      BY <1>1, <1>2, <2>1 DEF OrdersStay, Fresh, Wants
    <2>3. QED
      BY <1>1, <2>2 DEF OrdersStay, Fresh, Wants
  <1>3. CASE Reread(w)
    <2>1. /\ req[w].pc = "reread"
          /\ req[w].op = "return"
          /\ req[w].oid \in OrderIds
      BY <1>3 DEF Reread, TypeOK, WellFormed
    <2>2. req[w].seen = order[req[w].oid] /\ req[w].seen.status \in Deducted
      BY <2>1 DEF Fresh, Wants
    <2>3. req'[w].seen = order[req[w].oid] /\ req'[w].amt = order[req[w].oid].qty
      BY <1>3 DEF Reread, TypeOK, Request
    <2>4. QED
      BY <1>1, <2>1, <2>2, <2>3 DEF OrdersStay, Fresh, Wants
  <1>4. QED
    BY <1>2, <1>3

\* A request leaves having written one order, new, with u units out; the two
\* agree.
Leaves(w, new, u) ==
    /\ order' = [order EXCEPT ![req[w].oid] = new]
    /\ out' = [out EXCEPT ![req[w].oid] = u]
    /\ req' = [req EXCEPT ![w] = Idle]
    /\ \A l \in Lines : u[l] = IF new.status \in Deducted THEN new.qty[l] ELSE 0

LEMMA LeavesIntro ==
    ASSUME NEW w \in Workers, NEW new \in OrderRow, NEW u \in [Lines -> Int],
           \A l \in Lines : u[l] = IF new.status \in Deducted THEN new.qty[l] ELSE 0,
           order' = [order EXCEPT ![req[w].oid] = new],
           out' = [out EXCEPT ![req[w].oid] = u],
           req' = [req EXCEPT ![w] = Idle]
    PROVE  \E row \in OrderRow, n \in [Lines -> Int] : Leaves(w, row, n)
  BY DEF Leaves

\* Fresh speaks of one order: while that order and the request stay, so does it.
LEMMA FreshKept ==
    ASSUME NEW v \in Workers, Fresh(req[v]), req'[v] = req[v],
           req[v].pc # "idle" => order'[req[v].oid] = order[req[v].oid]
    PROVE  Fresh(req[v])'
  BY DEF Fresh, Wants

LEMMA FinishesBusy ==
    ASSUME NEW w \in Workers, Finish(w)
    PROVE  req[w].pc # "idle"
  BY DEF Finish, WriteHold, WriteAsk, WriteReject, Write, Fail, CommitCreate,
         CommitConfirm, CommitCancel, CommitReturn, CommitPartial, Commit,
         ReadyToCommit, LinesDone

\* A request that leaves from a row it knows writes one order, and keeps the
\* units that order has out in agreement with its status.
LEMMA FinishFresh ==
    ASSUME TypeOK, NEW w \in Workers, Fresh(req[w]), Finish(w), Agrees(req[w].oid)
    PROVE  \E new \in OrderRow, u \in [Lines -> Int] : Leaves(w, new, u)
  <1> DEFINE o == req[w].oid
             row == order[o]
             q == req[w]
             units == [l \in Lines |-> out[o][l] + Moved(w, l)]
             Goal == \E new \in OrderRow, u \in [Lines -> Int] : Leaves(w, new, u)
  <1>1. /\ q.pc # "idle"
        /\ o \in OrderIds
        /\ row \in OrderRow
        /\ q \in Request /\ q.seen \in OrderRow /\ q.seen.qty \in Cart
        /\ q.amt \in [Lines -> Nat]
        /\ out \in [OrderIds -> [Lines -> Int]]
        /\ Wants(q)
        /\ IF q.op = "create" THEN row.status = "absent" ELSE q.seen = row
    <2>1. q.pc # "idle"
      BY FinishesBusy
    <2>3. o \in OrderIds /\ Wants(q)
          /\ (IF q.op = "create" THEN row.status = "absent" ELSE q.seen = row)
      BY <2>1 DEF Fresh
    <2>4. q \in Request /\ row \in OrderRow
      BY <2>3 DEF TypeOK
    <2>5. QED
      BY <2>1, <2>3, <2>4 DEF TypeOK, Request, OrderRow, Cart
  <1>2. \A l \in Lines :
           out[o][l] = IF row.status \in Deducted THEN row.qty[l] ELSE 0
    BY <1>1 DEF Agrees
  <1>3. ASSUME NEW new \in OrderRow, Write(w, new), new.qty = row.qty,
               new.status \in Deducted <=> row.status \in Deducted
        PROVE  Goal
    <2>1. out' = [out EXCEPT ![o] = out[o]]
      BY <1>1, <1>3 DEF Write
    <2>2. /\ out[o] \in [Lines -> Int]
          /\ \A l \in Lines :
                out[o][l] = IF new.status \in Deducted THEN new.qty[l] ELSE 0
      BY <1>1, <1>2, <1>3
    <2>3. /\ order' = [order EXCEPT ![o] = new]
          /\ req' = [req EXCEPT ![w] = Idle]
      BY <1>3 DEF Write
    <2> HIDE DEF row
    <2>4. QED
      BY <1>1, <2>1, <2>2, <2>3, LeavesIntro
  <1>4. ASSUME NEW new \in OrderRow, Commit(w, new),
               \A l \in Lines :
                  units[l] = IF new.status \in Deducted THEN new.qty[l] ELSE 0
        PROVE  Goal
    <2>1. units \in [Lines -> Int]
      BY <1>1 DEF Moved
    <2>2. QED
      BY <1>1, <1>4, <2>1, LeavesIntro DEF Commit
  <1> HIDE DEF units
  <1>5. \A l \in Lines :
           units[l] = IF Deducts(w) THEN out[o][l] + q.amt[l]
                                    ELSE out[o][l] - q.amt[l]
    BY <1>1 DEF units, Moved
  <1>6. CASE WriteHold(w)
    <2>1. row.status = "PENDING"
      BY <1>1, <1>6 DEF WriteHold, Wants
    <2>2. [row EXCEPT !.status = "HELD"] \in OrderRow
      BY <1>1 DEF OrderRow, Statuses
    <2>3. QED
      BY <1>1, <1>3, <1>6, <2>1, <2>2 DEF WriteHold, OrderRow, Deducted
  <1>7. CASE WriteAsk(w)
    <2>1. [row EXCEPT !.asked = TRUE] \in OrderRow
      BY <1>1 DEF OrderRow
    <2>2. QED
      BY <1>1, <1>3, <1>7, <2>1 DEF WriteAsk, OrderRow
  <1>8. CASE WriteReject(w)
    <2>1. [row EXCEPT !.asked = FALSE] \in OrderRow
      BY <1>1 DEF OrderRow
    <2>2. QED
      BY <1>1, <1>3, <1>8, <2>1 DEF WriteReject, OrderRow
  <1>9. CASE CommitCreate(w)
    <2>1. q.op = "create" /\ Commit(w, q.seen)
      BY <1>9 DEF CommitCreate
    <2>2. \A l \in Lines : out[o][l] = 0
      BY <1>1, <1>2, <2>1 DEF Deducted
    <2>3. \A l \in Lines :
             units[l] = IF q.seen.status \in Deducted THEN q.seen.qty[l] ELSE 0
      BY <1>1, <1>5, <2>1, <2>2 DEF Deducts, Wants, NoUnits, Cart
    <2>4. QED
      BY <1>1, <1>4, <2>1, <2>3
  <1>10. CASE CommitConfirm(w)
    <2> DEFINE new == [row EXCEPT !.status = "CONFIRMED"]
    <2>1. q.op = "confirm" /\ Commit(w, new)
      BY <1>10 DEF CommitConfirm
    <2>2. new \in OrderRow /\ new.status = "CONFIRMED" /\ new.qty = row.qty
      BY <1>1 DEF OrderRow, Statuses
    <2>3. /\ q.amt = row.qty
          /\ \A l \in Lines : out[o][l] = 0
      BY <1>1, <1>2, <2>1 DEF Wants, Deducted
    <2>4. \A l \in Lines :
             units[l] = IF new.status \in Deducted THEN new.qty[l] ELSE 0
      BY <1>1, <1>5, <2>1, <2>2, <2>3 DEF Deducts, Deducted
    <2> HIDE DEF new
    <2>5. QED
      BY <1>4, <2>1, <2>2, <2>4
  <1>11. CASE CommitCancel(w)
    <2> DEFINE new == [row EXCEPT !.status = "CANCELLED",
                                  !.refunded = @ \/ q.seen.status \in Deducted]
    <2>1. q.op = "cancel" /\ Commit(w, new)
      BY <1>11 DEF CommitCancel
    <2>2. new \in OrderRow /\ new.status = "CANCELLED"
      BY <1>1 DEF OrderRow, Statuses
    <2>3. \A l \in Lines : out[o][l] = q.amt[l]
      BY <1>1, <1>2, <2>1 DEF Wants, NoUnits
    <2>4. \A l \in Lines :
             units[l] = IF new.status \in Deducted THEN new.qty[l] ELSE 0
      BY <1>1, <1>5, <2>1, <2>2, <2>3 DEF Deducts, Deducted
    <2> HIDE DEF new
    <2>5. QED
      BY <1>4, <2>1, <2>2, <2>4
  <1>12. CASE CommitReturn(w)
    <2> DEFINE new == [row EXCEPT !.status = "RETURNED", !.refunded = TRUE,
                                  !.asked = FALSE]
    <2>1. q.op = "return" /\ Commit(w, new)
      BY <1>12 DEF CommitReturn
    <2>2. new \in OrderRow /\ new.status = "RETURNED"
      BY <1>1 DEF OrderRow, Statuses
    <2>3. q.pc # "reread"
      BY <2>1 DEF Commit, ReadyToCommit, LinesDone
    <2>4. \A l \in Lines : out[o][l] = q.amt[l]
      BY <1>1, <1>2, <2>1, <2>3 DEF Wants
    <2>5. \A l \in Lines :
             units[l] = IF new.status \in Deducted THEN new.qty[l] ELSE 0
      BY <1>1, <1>5, <2>1, <2>2, <2>4 DEF Deducts, Deducted
    <2> HIDE DEF new
    <2>6. QED
      BY <1>4, <2>1, <2>2, <2>5
  <1>13. CASE CommitPartial(w)
    <2> DEFINE rest == [l \in Lines |-> IF q.amt[l] > 0
                                        THEN q.seen.qty[l] - q.amt[l]
                                        ELSE row.qty[l]]
               new == [row EXCEPT !.qty = rest]
    <2>1. q.op = "partial" /\ Commit(w, new)
      BY <1>13 DEF CommitPartial
    <2>2. \A l \in Lines : q.amt[l] <= q.seen.qty[l]
      BY <2>1 DEF TypeOK, WellFormed
    <2>3. q.seen = row /\ row.status \in Deducted
      BY <1>1, <2>1 DEF Wants
    <2>4. rest \in Cart
      BY <1>1, <2>2, <2>3 DEF OrderRow, Cart
    <2>5. new \in OrderRow /\ new.status = row.status /\ new.qty = rest
      BY <1>1, <2>4 DEF OrderRow
    <2>6. \A l \in Lines : rest[l] = row.qty[l] - q.amt[l]
      BY <1>1, <2>3 DEF OrderRow, Cart
    <2>7. \A l \in Lines :
             units[l] = IF new.status \in Deducted THEN new.qty[l] ELSE 0
      <3>1. \A l \in Lines : units[l] = out[o][l] - q.amt[l]
        BY <1>5, <2>1 DEF Deducts
      <3>2. \A l \in Lines : out[o][l] = row.qty[l]
        BY <1>2, <2>3
      <3> HIDE DEF new, rest
      <3>3. QED
        BY <2>3, <2>5, <2>6, <3>1, <3>2
    <2> HIDE DEF new, rest
    <2>8. QED
      BY <1>4, <2>1, <2>5, <2>7
  <1>14. CASE Fail(w)
    <2>1. /\ order' = [order EXCEPT ![o] = row]
          /\ out' = [out EXCEPT ![o] = out[o]]
          /\ req' = [req EXCEPT ![w] = Idle]
          /\ out[o] \in [Lines -> Int]
      BY <1>1, <1>14 DEF Fail, TypeOK
    <2> HIDE DEF row
    <2>2. QED
      BY <1>1, <1>2, <2>1, LeavesIntro
  <1>15. QED
    BY <1>6, <1>7, <1>8, <1>9, <1>10, <1>11, <1>12, <1>13, <1>14 DEF Finish

-----------------------------------------------------------------------------
(* No two requests on one order.                                           *)

IInv == TypeOK /\ OrderStock /\ ReadsStayValid

LEMMA StartInv ==
    ASSUME IInv, ~SameOrderOverlap, NEW w \in Workers, Start(w)
    PROVE  OrderStock' /\ ReadsStayValid'
  <1>1. Begun(w) /\ Untouched(req'[w].oid)
    BY StartFresh DEF IInv
  <1>2. OrderStock'
    BY <1>1 DEF Begun, IInv, OrderStock
  <1>3. Exclusive'
    <2> SUFFICES ASSUME NEW v \in Workers, NEW u \in Workers,
                        v # u, req'[v].pc # "idle"
                 PROVE  req'[v].oid # req'[u].oid
      BY DEF Exclusive
    <2>1. CASE v = w \/ u = w
      BY <1>1, <2>1 DEF Begun, Untouched
    <2>2. CASE v # w /\ u # w
      BY <1>1, <2>2 DEF Begun, IInv, ReadsStayValid, Exclusive
    <2>3. QED
      BY <2>1, <2>2
  <1>4. ASSUME NEW v \in Workers
        PROVE  Fresh(req[v])'
    BY <1>1, FreshKept DEF Begun, IInv, ReadsStayValid
  <1>5. QED
    BY <1>2, <1>3, <1>4 DEF ReadsStayValid

LEMMA StatementInv ==
    ASSUME IInv, NEW w \in Workers, Statement(w)
    PROVE  OrderStock' /\ ReadsStayValid'
  <1>1. OrdersStay(w) /\ Fresh(req[w])'
    BY StatementKeeps, StatementFresh DEF IInv, ReadsStayValid
  <1>2. OrderStock'
    BY <1>1 DEF OrdersStay, IInv, OrderStock
  <1>3. Exclusive'
    BY <1>1 DEF OrdersStay, IInv, ReadsStayValid, Exclusive
  <1>4. ASSUME NEW v \in Workers
        PROVE  Fresh(req[v])'
    BY <1>1, FreshKept DEF OrdersStay, IInv, ReadsStayValid
  <1>5. QED
    BY <1>2, <1>3, <1>4 DEF ReadsStayValid

\* A request that leaves disturbs no other one: none is on its order.
LEMMA FinishInv ==
    ASSUME IInv, NEW w \in Workers, Finish(w)
    PROVE  OrderStock' /\ ReadsStayValid'
  <1>0. /\ req[w].pc # "idle"
        /\ req[w].oid \in OrderIds
    BY FinishesBusy DEF IInv, TypeOK, WellFormed
  <1>1. PICK new \in OrderRow, u \in [Lines -> Int] : Leaves(w, new, u)
    BY <1>0, FinishFresh DEF IInv, ReadsStayValid, OrderStock, Agrees
  <1>2. /\ req'[w] = Idle
        /\ Idle.pc = "idle" /\ Idle.oid = NoOrder
        /\ \A v \in Workers \ {w} : req'[v] = req[v]
        /\ order \in [OrderIds -> OrderRow] /\ out \in [OrderIds -> [Lines -> Int]]
    BY <1>1 DEF Leaves, IInv, TypeOK, Idle
  <1>3. \A v \in Workers \ {w} :
           req[v].pc # "idle" =>
              /\ req[v].oid \in OrderIds
              /\ req[v].oid # req[w].oid
              /\ order'[req[v].oid] = order[req[v].oid]
    BY <1>1, <1>2 DEF Leaves, IInv, TypeOK, WellFormed, ReadsStayValid, Exclusive
  <1>4. OrderStock'
    BY <1>1, <1>2 DEF Leaves, IInv, OrderStock
  <1>5. Exclusive'
    BY <1>2, <1>3, NullAssumption DEF IInv, ReadsStayValid, Exclusive
  <1>6. ASSUME NEW v \in Workers
        PROVE  Fresh(req[v])'
    <2>1. CASE v = w
      BY <1>2, <2>1 DEF Fresh
    <2>2. CASE v # w
      BY <1>2, <1>3, <2>2, FreshKept DEF IInv, ReadsStayValid
    <2>3. QED
      BY <2>1, <2>2
  <1>7. QED
    BY <1>4, <1>5, <1>6 DEF ReadsStayValid

LEMMA InvInit == Init => OrderStock /\ ReadsStayValid
  BY DEF Init, OrderStock, ReadsStayValid, Exclusive, Fresh, Idle, Absent,
         NoUnits, Deducted

LEMMA InvNext ==
    ASSUME ~SameOrderOverlap, IInv, [Next]_vars
    PROVE  IInv'
  <1>1. TypeOK'
    BY TypeNext DEF IInv
  <1>2. CASE Next
    BY <1>1, <1>2, StartInv, StatementInv, FinishInv DEF Next, IInv
  <1>3. CASE UNCHANGED vars
    BY <1>1, <1>3 DEF vars, IInv, OrderStock, ReadsStayValid, Exclusive, Fresh, Wants
  <1>4. QED
    BY <1>2, <1>3

LEMMA InvariantHolds ==
    ASSUME ~SameOrderOverlap
    PROVE  Spec => []IInv
  <1>1. Init => IInv
    BY TypeInit, InvInit DEF IInv
  <1>2. IInv /\ [Next]_vars => IInv'
    BY InvNext
  <1>3. QED
    BY <1>1, <1>2, PTL DEF Spec

\* While no two requests work on one order, an order has exactly its own units
\* out of stock when it is sold and none otherwise, however the statements of
\* all requests interleave and wherever they fail.
THEOREM OrderStockHolds ==
    ASSUME ~SameOrderOverlap
    PROVE  Spec => []OrderStock
  BY InvariantHolds, PTL DEF IInv

-----------------------------------------------------------------------------
(* Requests that may overlap on one order.                                 *)

KnownUnlessOvertaken ==
    /\ TypeOK
    /\ \A w \in outdated : req[w].pc # "idle"
    /\ \A w \in Workers \ outdated : Fresh(req[w])

\* A step touches the row of one order at most, and only by leaving.
LEMMA OneOrderWritten ==
    ASSUME TypeOK, NEW w \in Workers, Finish(w)
    PROVE  /\ req'[w] = Idle
           /\ \A v \in Workers \ {w} : req'[v] = req[v]
           /\ \A o \in OrderIds \ {req[w].oid} :
                 order'[o] = order[o] /\ out'[o] = out[o]
  BY DEF TypeOK, Finish, WriteHold, WriteAsk, WriteReject, Write, Fail,
         CommitCreate, CommitConfirm, CommitCancel, CommitReturn,
         CommitPartial, Commit

LEMMA KnownNext ==
    ASSUME KnownUnlessOvertaken, OvertakingNext
    PROVE  KnownUnlessOvertaken'
  <1>1. TypeOK'
    BY TypeNext DEF KnownUnlessOvertaken, OvertakingNext
  <1>2. PICK w \in Workers : Start(w) \/ Statement(w) \/ Finish(w)
    BY DEF OvertakingNext, Next
  <1>3. ASSUME NEW v \in Workers, v \notin outdated'
        PROVE  Fresh(req[v])'
    <2>1. CASE req'[v].pc = "idle"
      <3>1. req'[v] = Idle
        <4>1. CASE v # w
          <5>1. req'[v] = req[v]
            BY <1>2, <4>1, StartFresh, StatementKeeps, OneOrderWritten
            DEF KnownUnlessOvertaken, Begun, OrdersStay
          <5>2. QED
            BY <2>1, <5>1 DEF KnownUnlessOvertaken, Fresh
        <4>2. CASE v = w
          BY <1>2, <2>1, <4>2, StartFresh, StatementKeeps, OneOrderWritten
          DEF KnownUnlessOvertaken, Begun, OrdersStay
        <4>3. QED
          BY <4>1, <4>2
      <3>2. QED
        BY <3>1 DEF Fresh, Idle
    <2>2. CASE req'[v].pc # "idle"
      <3>1. v \notin outdated /\ ~RowChanges(v)
        BY <1>3, <2>2 DEF OvertakingNext
      <3>2. Fresh(req[v])
        BY <3>1 DEF KnownUnlessOvertaken
      <3>3. CASE v = w
        BY <1>2, <2>2, <3>2, <3>3, StartFresh, StatementFresh, OneOrderWritten
        DEF KnownUnlessOvertaken, Begun, Idle
      <3>4. CASE v # w
        <4>1. req'[v] = req[v]
          BY <1>2, <3>4, StartFresh, StatementKeeps, OneOrderWritten
          DEF KnownUnlessOvertaken, Begun, OrdersStay
        <4>2. QED
          BY <3>1, <3>2, <4>1, FreshKept DEF RowChanges
      <3>5. QED
        BY <3>3, <3>4
    <2>3. QED
      BY <2>1, <2>2
  <1>4. \A v \in outdated' : req'[v].pc # "idle"
    BY DEF OvertakingNext
  <1>5. QED
    BY <1>1, <1>3, <1>4 DEF KnownUnlessOvertaken

LEMMA PartsStep ==
    ASSUME KnownUnlessOvertaken, OvertakingNext, NEW o \in OrderIds,
           Agrees(o), ~Agrees(o)'
    PROVE  \E w \in outdated : req[w].oid = o /\ req'[w].pc = "idle"
  <1>1. PICK w \in Workers : Start(w) \/ Statement(w) \/ Finish(w)
    BY DEF OvertakingNext, Next
  <1>2. TypeOK
    BY DEF KnownUnlessOvertaken
  <1>3. ~(order'[o] = order[o] /\ out'[o] = out[o])
    BY DEF Agrees
  <1>4. Finish(w)
    <2>1. ~Start(w)
      BY <1>2, <1>3, StartFresh DEF Begun
    <2>2. ~Statement(w)
      BY <1>2, <1>3, StatementKeeps DEF OrdersStay
    <2>3. QED
      BY <1>1, <2>1, <2>2
  <1>5. req[w].oid = o /\ req'[w] = Idle
    BY <1>2, <1>3, <1>4, OneOrderWritten
  <1>6. w \in outdated
    <2> SUFFICES ASSUME w \notin outdated
                 PROVE  FALSE
      OBVIOUS
    <2>1. Fresh(req[w])
      BY DEF KnownUnlessOvertaken
    <2>2. PICK new \in OrderRow, u \in [Lines -> Int] : Leaves(w, new, u)
      BY <1>2, <1>4, <1>5, <2>1, FinishFresh
    <2>3. order'[o] = new /\ out'[o] = u
      BY <1>2, <1>5, <2>2 DEF Leaves, TypeOK
    <2>4. QED
      BY <2>2, <2>3 DEF Leaves, Agrees
  <1>7. QED
    BY <1>5, <1>6 DEF Idle

\* However many requests work on one order at a time, and wherever they fail,
\* its stock and its status part only in the write of a request whose row
\* another one has changed since it read it.
THEOREM OrdersPartOnlyOvertaken == OvertakingSpec => PartsOnlyOvertaken
  <1>1. OvertakingInit => KnownUnlessOvertaken
    BY TypeInit, InvInit DEF OvertakingInit, KnownUnlessOvertaken, ReadsStayValid
  <1>2. KnownUnlessOvertaken /\ [OvertakingNext]_overtakingVars
           => KnownUnlessOvertaken'
    BY KnownNext DEF overtakingVars, vars, KnownUnlessOvertaken, TypeOK, Fresh, Wants
  <1>3. KnownUnlessOvertaken /\ [OvertakingNext]_overtakingVars =>
          [\A o \in OrderIds :
              Agrees(o) /\ ~Agrees(o)'
                 => \E w \in outdated : req[w].oid = o /\ req'[w].pc = "idle"
          ]_overtakingVars
    BY PartsStep
  <1>4. QED
    BY <1>1, <1>2, <1>3, PTL DEF OvertakingSpec, PartsOnlyOvertaken

-----------------------------------------------------------------------------
(* StockNonNegative when requests are served one at a time.                *)

\* What one transaction sees never goes below zero, and a row that passed the
\* check of the line in progress still covers the line.
Covered(q) ==
    /\ \A r \in Rows : stock[r] + q.delta[r] >= 0
    /\ q.pc = "check" =>
          \A r \in RowsOf(q.line) \ q.part :
              stock[r] + q.delta[r] >= q.amt[q.line] * Need[q.line][r]
    /\ q.pc = "apply" /\ q.op \in {"create", "confirm"} =>
          \A r \in q.part :
              stock[r] + q.delta[r] >= q.amt[q.line] * Need[q.line][r]

CoveredInv ==
    /\ TypeOK
    /\ StockNonNegative
    /\ \A w \in Workers : Covered(req[w])

LEMMA CoveredNext ==
    ASSUME \A v, w \in Workers : v = w, CoveredInv, [Next]_vars
    PROVE  CoveredInv'
  <1>1. TypeOK'
    BY TypeNext DEF CoveredInv
  <1>2. CASE UNCHANGED vars
    BY <1>1, <1>2 DEF vars, CoveredInv, StockNonNegative, Covered
  <1>3. ASSUME NEW w \in Workers, Start(w) \/ Statement(w) \/ Finish(w)
        PROVE  CoveredInv'
    <2>1. /\ req[w] \in Request /\ req \in [Workers -> Request]
          /\ stock \in [Rows -> Int]
          /\ req[w].amt \in [Lines -> Nat]
          /\ req[w].delta \in [Rows -> Int]
          /\ WellFormed(req[w]) /\ Covered(req[w])
          /\ \A r \in Rows : stock[r] >= 0
      BY DEF CoveredInv, TypeOK, Request, Cart, StockNonNegative
    <2>2. SUFFICES StockNonNegative' /\ Covered(req[w])'
      BY <1>1 DEF CoveredInv
    <2>3. ASSUME stock' = stock, req'[w].delta = NoChange,
                 req'[w].pc \notin {"check", "apply"}
          PROVE  StockNonNegative' /\ Covered(req[w])'
      BY <2>1, <2>3 DEF StockNonNegative, Covered, NoChange
    <2>4. ASSUME stock' = stock, req'[w].delta = req[w].delta,
                 req'[w].pc \notin {"check", "apply"}
          PROVE  StockNonNegative' /\ Covered(req[w])'
      BY <2>1, <2>4 DEF StockNonNegative, Covered
    <2>5. CASE Start(w)
      <3>1. ASSUME NEW op, NEW o, NEW row, NEW amt, NEW pc, Begin(w, op, o, row, amt, pc),
                   pc \notin {"check", "apply"}
            PROVE  StockNonNegative' /\ Covered(req[w])'
        BY <2>1, <2>3, <3>1 DEF Begin, Idle
      <3>2. PICK o \in OrderIds :
               \/ StartCreate(w, o) \/ StartHold(w, o) \/ StartConfirm(w, o)
               \/ StartCancel(w, o) \/ StartAsk(w, o) \/ StartReturn(w, o)
               \/ StartPartial(w, o) \/ StartReject(w, o)
        BY <2>5 DEF Start
      <3>3. CASE StartCreate(w, o)
        BY <3>1, <3>3 DEF StartCreate
      <3>4. CASE StartConfirm(w, o)
        BY <3>1, <3>4 DEF StartConfirm
      <3>5. CASE StartPartial(w, o)
        BY <3>1, <3>5 DEF StartPartial
      <3>6. CASE StartHold(w, o) \/ StartAsk(w, o) \/ StartReject(w, o)
        BY <3>1, <3>6 DEF StartHold, StartAsk, StartReject
      <3>7. CASE StartCancel(w, o) \/ StartReturn(w, o)
        BY <3>1, <3>7 DEF StartCancel, StartReturn
      <3>8. QED
        BY <3>2, <3>3, <3>4, <3>5, <3>6, <3>7
    <2>6. CASE Statement(w)
      <3>1. CASE Reread(w) \/ Validate(w) \/ Consume(w)
        BY <2>1, <2>4, <3>1 DEF Reread, Validate, Consume, Request
      <3>2. ASSUME NEW l \in Lines, StartLine(w, l)
            PROVE  StockNonNegative' /\ Covered(req[w])'
        <4>1. /\ stock' = stock
              /\ req'[w].delta = req[w].delta
              /\ req'[w].op = req[w].op
              /\ req'[w].line = l
              /\ req'[w].part = RowsOf(l)
              /\ req'[w].pc = IF RowsOf(l) = {} THEN "lines"
                              ELSE IF Deducts(w) THEN "check" ELSE "apply"
          BY <2>1, <3>2 DEF StartLine, Request
        <4>2. QED
          BY <2>1, <4>1 DEF StockNonNegative, Covered, Deducts
      <3>3. ASSUME NEW r \in Rows, CheckRow(w, r)
            PROVE  StockNonNegative' /\ Covered(req[w])'
        <4>1. /\ stock' = stock
              /\ req'[w].delta = req[w].delta
              /\ req'[w].line = req[w].line
              /\ req'[w].amt = req[w].amt
          BY <2>1, <3>3 DEF CheckRow, Request
        <4>2. /\ req[w].pc = "check"
              /\ r \in req[w].part
              /\ stock[r] + req[w].delta[r]
                    >= req[w].amt[req[w].line] * Need[req[w].line][r]
          BY <3>3 DEF CheckRow, Visible, Amount
        <4>3. CASE req[w].part = {r}
          <5>1. /\ req'[w].pc = "apply"
                /\ req'[w].part = RowsOf(req[w].line)
            BY <2>1, <3>3, <4>3 DEF CheckRow, Request
          <5>2. QED
            BY <2>1, <4>1, <4>2, <4>3, <5>1 DEF StockNonNegative, Covered
        <4>4. CASE req[w].part # {r}
          <5>1. /\ req'[w].pc = "check"
                /\ req'[w].part = req[w].part \ {r}
            BY <2>1, <3>3, <4>2, <4>4 DEF CheckRow, Request
          <5>2. QED
            BY <2>1, <4>1, <4>2, <5>1 DEF StockNonNegative, Covered
        <4>5. QED
          BY <4>3, <4>4
      <3>4. ASSUME NEW r \in Rows, ApplyRow(w, r)
            PROVE  StockNonNegative' /\ Covered(req[w])'
        <4>1. /\ stock' = stock
              /\ req'[w].line = req[w].line
              /\ req'[w].amt = req[w].amt
              /\ req'[w].op = req[w].op
              /\ req'[w].part = req[w].part \ {r}
              /\ req'[w].pc \in {"lines", "apply"}
              /\ req'[w].delta[r] = IF Deducts(w)
                                    THEN req[w].delta[r] - Amount(w, r)
                                    ELSE req[w].delta[r] + Amount(w, r)
              /\ \A s \in Rows \ {r} : req'[w].delta[s] = req[w].delta[s]
          BY <2>1, <3>4 DEF ApplyRow, Request
        <4>2. req[w].pc = "apply" /\ r \in req[w].part /\ req[w].line \in Lines
          BY <2>1, <3>4 DEF ApplyRow, WellFormed
        <4>3. Amount(w, r) \in Nat
          BY <2>1, <4>2, NeedAssumption DEF Amount
        <4>4. Deducts(w) => stock[r] + req[w].delta[r] >= Amount(w, r)
          BY <2>1, <4>2 DEF Covered, Deducts, Amount
        <4>5. stock[r] + req'[w].delta[r] >= 0
          BY <2>1, <4>1, <4>3, <4>4 DEF Covered
        <4>6. req[w].part \subseteq Rows
          BY <2>1 DEF Request
        <4>7. QED
          BY <2>1, <4>1, <4>2, <4>5, <4>6 DEF StockNonNegative, Covered
      <3>5. QED
        BY <2>6, <3>1, <3>2, <3>3, <3>4 DEF Statement
    <2>7. CASE Finish(w)
      <3>1. CASE Fail(w)
        BY <2>1, <2>3, <3>1 DEF Fail, Idle
      <3>2. CASE WriteHold(w) \/ WriteAsk(w) \/ WriteReject(w)
        BY <2>1, <2>3, <3>2 DEF WriteHold, WriteAsk, WriteReject, Write, Idle
      <3>3. CASE \/ CommitCreate(w) \/ CommitConfirm(w) \/ CommitCancel(w)
                 \/ CommitReturn(w) \/ CommitPartial(w)
        <4>1. /\ stock' = [r \in Rows |-> stock[r] + req[w].delta[r]]
              /\ req'[w] = Idle
          BY <2>1, <3>3 DEF CommitCreate, CommitConfirm, CommitCancel, CommitReturn,
                            CommitPartial, Commit
        <4>2. \A r \in Rows : stock'[r] \in Int /\ stock'[r] >= 0
          BY <2>1, <4>1 DEF Covered
        <4>3. QED
          BY <4>1, <4>2 DEF StockNonNegative, Covered, Idle, NoChange
      <3>4. QED
        BY <2>7, <3>1, <3>2, <3>3 DEF Finish
    <2>8. QED
      BY <1>3, <2>5, <2>6, <2>7
  <1>4. QED
    BY <1>2, <1>3 DEF Next

\* If requests are served one at a time, the availability check of deductLine
\* keeps every inventory row at or above zero.
THEOREM SerialStockNonNegative ==
    ASSUME \A v, w \in Workers : v = w
    PROVE  Spec => []StockNonNegative
  <1>1. Init => CoveredInv
    <2> SUFFICES ASSUME Init PROVE CoveredInv
      OBVIOUS
    <2>1. StockNonNegative
      BY StockAssumption DEF Init, StockNonNegative
    <2>2. ASSUME NEW w \in Workers PROVE Covered(req[w])
      BY <2>1, StockAssumption DEF Init, StockNonNegative, Covered, Idle, NoChange
    <2>3. QED
      BY <2>1, <2>2, TypeInit DEF CoveredInv
  <1>2. CoveredInv /\ [Next]_vars => CoveredInv'
    BY CoveredNext
  <1>3. CoveredInv => StockNonNegative
    BY DEF CoveredInv
  <1>4. QED
    BY <1>1, <1>2, <1>3, PTL DEF Spec

-----------------------------------------------------------------------------
(* Orders implements Sales.                                                *)

\* A step that writes one order's row is seen by Sales as a step on the
\* images of the row's status and refund stamp.
LEMMA Image ==
    ASSUME TypeOK, NEW o \in OrderIds, NEW row,
           order' = [order EXCEPT ![o] = row]
    PROVE  /\ [p \in OrderIds |-> order[p].status]'
                 = [[p \in OrderIds |-> order[p].status] EXCEPT ![o] = row.status]
           /\ [p \in OrderIds |-> order[p].refunded]'
                 = [[p \in OrderIds |-> order[p].refunded] EXCEPT ![o] = row.refunded]
  BY DEF TypeOK

LEMMA FinishImplements ==
    ASSUME ~SameOrderOverlap, IInv, NEW w \in Workers, Finish(w),
           NEW o \in OrderIds, o = req[w].oid
    PROVE  [Promise!Next]_(Promise!saleVars)
  <1> DEFINE row == order[o]
             q == req[w]
             st == [p \in OrderIds |-> order[p].status]
             rf == [p \in OrderIds |-> order[p].refunded]
  <1>1. /\ TypeOK /\ OrderStock /\ ReadsStayValid
        /\ TypeOK' /\ OrderStock'
    BY InvNext DEF IInv, Next
  <1>2. q.pc # "idle" /\ Fresh(q)
    BY <1>1 DEF ReadsStayValid, Finish, WriteHold, WriteAsk, WriteReject,
           Write, Fail, CommitCreate, CommitConfirm, CommitCancel, CommitReturn,
           CommitPartial, Commit, ReadyToCommit, LinesDone
  <1>3. /\ o \in OrderIds
        /\ Wants(q)
        /\ IF q.op = "create"
           THEN row.status = "absent" /\ q.seen.status \in CreateStatuses
                /\ ~q.seen.refunded
           ELSE q.seen = row
    BY <1>2 DEF Fresh
  <1>4. /\ row \in OrderRow /\ q \in Request /\ q.seen \in OrderRow
        /\ q.amt \in [Lines -> Nat]
        /\ row.qty \in [Lines -> Nat] /\ q.seen.qty \in [Lines -> Nat]
        /\ out[o] \in [Lines -> Int] /\ out'[o] \in [Lines -> Int]
        /\ st[o] = row.status /\ rf[o] = row.refunded
        /\ out \in [OrderIds -> [Lines -> Int]]
        /\ st = [st EXCEPT ![o] = row.status]
        /\ rf = [rf EXCEPT ![o] = row.refunded]
    BY <1>1, <1>3 DEF TypeOK, Request, OrderRow, Cart
  <1>5. out'[o] \in [Lines -> Nat]
    <2>1. order'[o].qty \in [Lines -> Nat]
      BY <1>1, <1>3 DEF TypeOK, OrderRow, Cart
    <2>2. \A l \in Lines : out'[o][l] \in Nat
      BY <1>1, <1>3, <2>1 DEF OrderStock
    <2>3. QED
      BY <1>4, <2>2
  <1>6. \A l \in Lines :
           out[o][l] = IF row.status \in Deducted THEN row.qty[l] ELSE 0
    BY <1>1, <1>3 DEF OrderStock
  <1>7. row.status \notin Deducted => out[o] = NoUnits
    BY <1>4, <1>6 DEF NoUnits
  <1> HIDE DEF row, q, st, rf
  <1>8. ASSUME NEW new, order' = [order EXCEPT ![o] = new]
        PROVE  /\ st' = [st EXCEPT ![o] = new.status]
               /\ rf' = [rf EXCEPT ![o] = new.refunded]
    BY <1>1, <1>8, Image DEF st, rf
  <1>9. ASSUME NEW new, Commit(w, new)
        PROVE  /\ order' = [order EXCEPT ![o] = new]
               /\ out' = [out EXCEPT ![o] = out'[o]]
               /\ \A l \in Lines : out'[o][l] = IF Deducts(w) THEN out[o][l] + q.amt[l]
                                                 ELSE out[o][l] - q.amt[l]
    <2> DEFINE units == [l \in Lines |-> out[o][l] + Moved(w, l)]
    <2>1. /\ order' = [order EXCEPT ![o] = new]
          /\ out' = [out EXCEPT ![o] = units]
      BY <1>9 DEF Commit
    <2>2. out'[o] = units
      BY <1>3, <1>4, <2>1
    <2>3. \A l \in Lines : units[l] = IF Deducts(w) THEN out[o][l] + q.amt[l]
                                      ELSE out[o][l] - q.amt[l]
      BY <1>4 DEF Moved, q
    <2> HIDE DEF units
    <2>4. QED
      BY <2>1, <2>2, <2>3
  <1>10. ASSUME Promise!Next
         PROVE  [Promise!Next]_(Promise!saleVars)
    BY <1>10
  <1>11. CASE WriteHold(w)
    <2> DEFINE new == [row EXCEPT !.status = "HELD"]
    <2>1. /\ order' = [order EXCEPT ![o] = new] /\ out' = out
          /\ q.op = "hold"
      BY <1>11 DEF WriteHold, Write, row, q
    <2>2. new.status = "HELD" /\ new.refunded = row.refunded
      BY <1>4 DEF OrderRow
    <2>3. row.status = "PENDING"
      BY <1>3, <2>1 DEF Wants
    <2> HIDE DEF new
    <2>image. /\ st' = [st EXCEPT ![o] = new.status]
          /\ rf' = [rf EXCEPT ![o] = new.refunded]
      BY <1>8, <2>1
    <2>4. /\ st' = [st EXCEPT ![o] = "HELD"] /\ rf' = rf
      BY <1>4, <2>image, <2>2, Zenon
    <2>5. Promise!Hold(o)
      BY <1>4, <2>1, <2>3, <2>4 DEF Promise!Hold, st, rf
    <2>6. QED
      BY <1>3, <1>10, <2>5 DEF Promise!Next
  <1>12. CASE WriteAsk(w) \/ WriteReject(w)
    <2>1. PICK asked : /\ order' = [order EXCEPT ![o] = [row EXCEPT !.asked = asked]]
                       /\ out' = out
      BY <1>12 DEF WriteAsk, WriteReject, Write, row
    <2> DEFINE new == [row EXCEPT !.asked = asked]
    <2>2. new.status = row.status /\ new.refunded = row.refunded
      BY <1>4 DEF OrderRow
    <2>3. order' = [order EXCEPT ![o] = new]
      BY <2>1
    <2> HIDE DEF new
    <2>4. st' = st /\ rf' = rf
      BY <1>4, <1>8, <2>2, <2>3
    <2>5. QED
      BY <2>1, <2>4 DEF Promise!saleVars, st, rf
  <1>13. CASE CommitCreate(w)
    <2>1. q.op = "create" /\ Commit(w, q.seen) /\ Deducts(w)
      BY <1>13 DEF CommitCreate, Deducts, q
    <2> DEFINE new == q.seen
    <2>2. /\ order' = [order EXCEPT ![o] = new]
          /\ out' = [out EXCEPT ![o] = out'[o]]
          /\ \A l \in Lines : out'[o][l] = out[o][l] + q.amt[l]
      BY <1>9, <2>1
    <2>3. new.status = q.seen.status /\ new.refunded = FALSE
      BY <1>3, <1>4, <2>1 DEF OrderRow
    <2> HIDE DEF new
    <2>image. /\ st' = [st EXCEPT ![o] = new.status]
          /\ rf' = [rf EXCEPT ![o] = new.refunded]
      BY <1>8, <2>2
    <2>4. /\ st' = [st EXCEPT ![o] = q.seen.status]
          /\ rf' = [rf EXCEPT ![o] = FALSE]
      BY <2>image, <2>3, Zenon
    <2>5. CASE q.seen.status \in Deducted
      <3>1. Promise!Sell(o)
        BY <1>3, <1>4, <1>5, <2>1, <2>2, <2>4, <2>5
        DEF Promise!Sell, Promise!Sold, Promise!TakeUnits, Deducted, st, rf
      <3>2. QED
        BY <1>3, <1>10, <3>1 DEF Promise!Next
    <2>6. CASE q.seen.status \notin Deducted
      <3>1. \A l \in Lines : q.amt[l] = 0
        BY <1>3, <2>1, <2>6 DEF Wants, NoUnits
      <3>2. out' = out
        BY <1>4, <2>2, <3>1
      <3>3. q.seen.status \in {"PENDING", "HELD"}
        BY <1>3, <2>1, <2>6, CreateAssumption DEF Deducted
      <3>4. Promise!Park(o)
        BY <1>3, <1>4, <2>1, <2>4, <3>2, <3>3
        DEF Promise!Park, Promise!Parked, st, rf
      <3>5. QED
        BY <1>3, <1>10, <3>4 DEF Promise!Next
    <2>7. QED
      BY <2>5, <2>6
  <1>14. CASE CommitConfirm(w)
    <2> DEFINE new == [row EXCEPT !.status = "CONFIRMED"]
    <2>1. q.op = "confirm" /\ Commit(w, new)
      BY <1>14 DEF CommitConfirm, row, q
    <2>2. new.status = "CONFIRMED" /\ new.refunded = row.refunded
      BY <1>4 DEF OrderRow
    <2> HIDE DEF new
    <2>3. /\ order' = [order EXCEPT ![o] = new]
          /\ out' = [out EXCEPT ![o] = out'[o]]
      BY <1>9, <2>1
    <2>image. /\ st' = [st EXCEPT ![o] = new.status]
          /\ rf' = [rf EXCEPT ![o] = new.refunded]
      BY <1>8, <2>3
    <2>4. /\ st' = [st EXCEPT ![o] = "CONFIRMED"] /\ rf' = rf
      BY <1>4, <2>image, <2>2, Zenon
    <2>5. row.status \in {"PENDING", "HELD", "RETURNED"}
      BY <1>3, <2>1 DEF Wants
    <2>6. out[o] = Promise!None
      BY <1>7, <2>5 DEF Promise!None, NoUnits, Deducted
    <2>7. Promise!Settle(o)
      BY <1>4, <1>5, <2>3, <2>4, <2>5, <2>6
      DEF Promise!Settle, Promise!Parked, Promise!TakeUnits, st, rf
    <2>8. QED
      BY <1>3, <1>10, <2>7 DEF Promise!Next
  <1>15. CASE CommitCancel(w)
    <2> DEFINE new == [row EXCEPT !.status = "CANCELLED",
                                  !.refunded = @ \/ q.seen.status \in Deducted]
    <2>1. q.op = "cancel" /\ Commit(w, new) /\ ~Deducts(w)
      BY <1>15 DEF CommitCancel, Deducts, row, q
    <2>2. /\ new.status = "CANCELLED"
          /\ new.refunded = (row.refunded \/ row.status \in Deducted)
      BY <1>3, <1>4, <2>1 DEF OrderRow
    <2> HIDE DEF new
    <2>3. /\ order' = [order EXCEPT ![o] = new]
          /\ out' = [out EXCEPT ![o] = out'[o]]
          /\ \A l \in Lines : out'[o][l] = out[o][l] - q.amt[l]
      BY <1>9, <2>1
    <2>4. /\ st' = [st EXCEPT ![o] = "CANCELLED"]
          /\ rf' = [rf EXCEPT ![o] = row.refunded \/ row.status \in Deducted]
      BY <1>8, <2>2, <2>3
    <2>5. row.status \notin {"absent", "CANCELLED"} /\ q.seen = row
      BY <1>3, <2>1 DEF Wants
    <2>6. CASE row.status \in Deducted
      <3>1. out'[o] = Promise!None
        BY <1>3, <1>4, <1>6, <2>1, <2>3, <2>5, <2>6 DEF Wants, Promise!None
      <3>2. /\ st' = [st EXCEPT ![o] = "CANCELLED"] /\ rf' = [rf EXCEPT ![o] = TRUE]
        BY <2>4, <2>6
      <3>3. Promise!Refund(o)
        BY <1>4, <2>3, <2>6, <3>1, <3>2
        DEF Promise!Refund, Promise!Sold, Deducted, st, rf
      <3>4. QED
        BY <1>3, <1>10, <3>3 DEF Promise!Next
    <2>7. CASE row.status \notin Deducted
      <3>1. \A l \in Lines : q.amt[l] = 0
        BY <1>3, <2>1, <2>5, <2>7 DEF Wants, NoUnits
      <3>2. out' = out
        BY <1>4, <2>3, <3>1
      <3>3. row.refunded = (row.refunded \/ row.status \in Deducted)
        BY <1>4, <2>7 DEF OrderRow
      <3>4. rf' = rf
        BY <1>4, <2>4, <3>3
      <3>5. row.status \in {"PENDING", "HELD", "RETURNED"}
        BY <1>4, <2>5, <2>7 DEF OrderRow, Statuses, Deducted
      <3>6. Promise!Void(o)
        BY <1>4, <2>4, <3>2, <3>4, <3>5
        DEF Promise!Void, Promise!Parked, st, rf
      <3>7. QED
        BY <1>3, <1>10, <3>6 DEF Promise!Next
    <2>8. QED
      BY <2>6, <2>7
  <1>16. CASE CommitReturn(w)
    <2> DEFINE new == [row EXCEPT !.status = "RETURNED", !.refunded = TRUE,
                                  !.asked = FALSE]
    <2>1. q.op = "return" /\ Commit(w, new) /\ ~Deducts(w)
      BY <1>16 DEF CommitReturn, Deducts, row, q
    <2>2. new.status = "RETURNED" /\ new.refunded = TRUE
      BY <1>4 DEF OrderRow
    <2> HIDE DEF new
    <2>3. /\ order' = [order EXCEPT ![o] = new]
          /\ out' = [out EXCEPT ![o] = out'[o]]
          /\ \A l \in Lines : out'[o][l] = out[o][l] - q.amt[l]
      BY <1>9, <2>1
    <2>image. /\ st' = [st EXCEPT ![o] = new.status]
          /\ rf' = [rf EXCEPT ![o] = new.refunded]
      BY <1>8, <2>3
    <2>4. /\ st' = [st EXCEPT ![o] = "RETURNED"]
          /\ rf' = [rf EXCEPT ![o] = TRUE]
      BY <2>image, <2>2, Zenon
    <2>5. q.pc # "reread"
      BY <2>1 DEF Commit, ReadyToCommit, LinesDone, q
    <2>6. row.status \in Deducted /\ q.amt = row.qty
      BY <1>3, <2>1, <2>5 DEF Wants
    <2>7. out'[o] = Promise!None
      BY <1>4, <1>6, <2>3, <2>6 DEF Promise!None
    <2>8. Promise!Refund(o)
      BY <1>4, <2>3, <2>4, <2>6, <2>7
      DEF Promise!Refund, Promise!Sold, Deducted, st, rf
    <2>9. QED
      BY <1>3, <1>10, <2>8 DEF Promise!Next
  <1>17. CASE CommitPartial(w)
    <2>1. PICK qty : q.op = "partial" /\ Commit(w, [row EXCEPT !.qty = qty])
      BY <1>17 DEF CommitPartial, row, q
    <2> DEFINE new == [row EXCEPT !.qty = qty]
    <2>2. Commit(w, new) /\ ~Deducts(w)
      BY <2>1 DEF Deducts, q
    <2>3. new.status = row.status /\ new.refunded = row.refunded
      BY <1>4 DEF OrderRow
    <2> HIDE DEF new
    <2>4. /\ order' = [order EXCEPT ![o] = new]
          /\ out' = [out EXCEPT ![o] = out'[o]]
          /\ \A l \in Lines : out'[o][l] = out[o][l] - q.amt[l]
      BY <1>9, <2>2
    <2>image. /\ st' = [st EXCEPT ![o] = new.status]
          /\ rf' = [rf EXCEPT ![o] = new.refunded]
      BY <1>8, <2>4
    <2>5. st' = st /\ rf' = rf
      BY <1>4, <2>image, <2>3, Zenon
    <2>6. row.status \in Deducted
      BY <1>3, <2>1 DEF Wants
    <2>7. \A l \in Lines : out'[o][l] <= out[o][l]
      BY <1>4, <2>4
    <2>8. Promise!GiveBack(o)
      BY <1>4, <1>5, <2>4, <2>5, <2>6, <2>7
      DEF Promise!GiveBack, Promise!Sold, Promise!TakeUnits, Deducted, st, rf
    <2>9. QED
      BY <1>3, <1>10, <2>8 DEF Promise!Next
  <1>18. CASE Fail(w)
    BY <1>18 DEF Fail, Promise!saleVars
  <1>19. QED
    BY <1>11, <1>12, <1>13, <1>14, <1>15, <1>16, <1>17, <1>18 DEF Finish

LEMMA StepImplements ==
    ASSUME ~SameOrderOverlap, IInv, NEW w \in Workers,
           Start(w) \/ Statement(w) \/ Finish(w)
    PROVE  [Promise!Next]_(Promise!saleVars)
  <1>1. ASSUME order' = order, out' = out
        PROVE  UNCHANGED Promise!saleVars
    BY <1>1 DEF Promise!saleVars
  <1>2. CASE Start(w)
    BY <1>1, <1>2 DEF Start, StartCreate, StartHold, StartConfirm, StartCancel,
         StartAsk, StartReturn, StartPartial, StartReject, Begin
  <1>3. CASE Statement(w)
    BY <1>1, <1>3 DEF Statement, Reread, Validate, Consume, StartLine, CheckRow,
         ApplyRow
  <1>4. CASE Finish(w)
    <2>1. req[w].oid \in OrderIds
      BY <1>4 DEF Finish, WriteHold, WriteAsk, WriteReject, Write, Fail,
             CommitCreate, CommitConfirm, CommitCancel, CommitReturn,
             CommitPartial, Commit, ReadyToCommit, LinesDone, IInv, TypeOK, WellFormed
    <2>2. PICK o \in OrderIds : o = req[w].oid
      BY <2>1
    <2>3. QED
      BY <1>4, <2>2, FinishImplements
  <1>5. QED
    BY <1>2, <1>3, <1>4

\* While no two requests work on one order, every behaviour of the handlers and
\* their transactions is a behaviour of Sales.
THEOREM OrdersImplementSales ==
    ASSUME ~SameOrderOverlap
    PROVE  Spec => ImplementsSales
  <1>1. Init => Promise!Init
    BY DEF Init, Promise!Init, Absent, NoUnits, Promise!None
  <1>2. IInv /\ [Next]_vars => [Promise!Next]_(Promise!saleVars)
    <2> SUFFICES ASSUME IInv, [Next]_vars
                 PROVE  [Promise!Next]_(Promise!saleVars)
      OBVIOUS
    <2>1. CASE Next
      BY <2>1, StepImplements DEF Next
    <2>2. CASE UNCHANGED vars
      BY <2>2 DEF vars, Promise!saleVars
    <2>3. QED
      BY <2>1, <2>2
  <1>3. QED
    BY <1>1, <1>2, InvariantHolds, PTL DEF Spec, ImplementsSales, Promise!Spec

-----------------------------------------------------------------------------
(* Units: what the requests have taken, line by line and row by row *)

\* The request takes stock out; the others put it back.
Selling(q) == q.op \in {"create", "confirm"}

\* The row r of line l has been checked, and has been updated, by the request q.
Checked(q, l, r) == l \notin q.todo /\ ~(l = q.line /\ q.pc = "check" /\ r \in q.part)
Applied(q, l, r) ==
    l \notin q.todo /\ ~(l = q.line /\ (q.pc = "check" \/ (q.pc = "apply" /\ r \in q.part)))

\* What q takes (or puts back) of row r, line by line, as far as it has come.
CheckedUnits(q, r) == [l \in Lines |-> IF Checked(q, l, r) THEN q.amt[l] * Need[l][r] ELSE 0]
AppliedUnits(q, r) == [l \in Lines |-> IF Applied(q, l, r) THEN q.amt[l] * Need[l][r] ELSE 0]
SumOfLines(f) == SumFunctionOnSet(f, Lines)

\* A transaction has written the updates it has come to, and no others; it
\* commits with no line left.
Balanced(q) ==
    /\ q.pc = "commit" => q.todo = {}
    /\ q.pc = "consume" => q.op = "confirm"
    /\ q.pc \in {"check", "apply"} => q.line \notin q.todo
    /\ q.pc = "reread" => q.delta = NoChange
    /\ \A r \in Rows : q.delta[r] = IF Selling(q) THEN 0 - SumOfLines(AppliedUnits(q, r))
                                                  ELSE SumOfLines(AppliedUnits(q, r))

LedgerInv == TypeOK /\ (\A w \in Workers : Balanced(req[w])) /\ StockLedger

\* The rows a line does not need are not moved by it.
LEMMA UnitsAreNat ==
    ASSUME NEW amt \in Cart, NEW l \in Lines, NEW r \in Rows
    PROVE  /\ amt[l] * Need[l][r] \in Nat
           /\ r \notin RowsOf(l) => amt[l] * Need[l][r] = 0
           /\ amt[l] = 0 => amt[l] * Need[l][r] = 0
  <1>1. amt[l] \in Nat /\ Need[l][r] \in Nat
    BY NeedAssumption DEF Cart
  <1>2. r \notin RowsOf(l) => Need[l][r] = 0
    BY <1>1 DEF RowsOf
  <1>3. Need[l][r] = 0 => amt[l] * Need[l][r] = 0
    BY <1>1
  <1>4. amt[l] = 0 => amt[l] * Need[l][r] = 0
    BY <1>1
  <1>5. amt[l] * Need[l][r] \in Nat
    BY <1>1
  <1> QED BY <1>2, <1>3, <1>4, <1>5

LEMMA RequestFields ==
    ASSUME NEW q \in Request
    PROVE  /\ q.amt \in Cart /\ q.todo \subseteq Lines /\ q.delta \in [Rows -> Int]
           /\ q.part \subseteq Rows /\ q.pc \in Steps /\ q.op \in Ops /\ q.seen \in OrderRow
  BY DEF Request

LEMMA AppliedNat ==
    ASSUME NEW q \in Request, NEW r \in Rows
    PROVE  /\ \A l \in Lines : AppliedUnits(q, r)[l] \in Nat
           /\ SumOfLines(AppliedUnits(q, r)) \in Nat
  <1>1. \A l \in Lines : AppliedUnits(q, r)[l] \in Nat
    <2> TAKE l \in Lines
    <2>1. q.amt[l] * Need[l][r] \in Nat
      BY RequestFields, UnitsAreNat
    <2> QED BY <2>1 DEF AppliedUnits
  <1> QED BY <1>1, FiniteAssumption, SumNat DEF SumOfLines

\* A request that has begun and updated nothing.
LEMMA BalancedFresh ==
    ASSUME NEW p \in Request, p.delta = NoChange, p.pc \notin {"check", "apply", "commit", "consume"},
           \A l \in Lines : l \notin p.todo => p.amt[l] = 0
    PROVE  Balanced(p)
  <1>1. ASSUME NEW r \in Rows PROVE SumOfLines(AppliedUnits(p, r)) = 0
    <2>1. ASSUME NEW l \in Lines PROVE AppliedUnits(p, r)[l] = 0
      <3>1. l \notin p.todo => p.amt[l] * Need[l][r] = 0
        BY RequestFields, UnitsAreNat
      <3> QED BY <3>1 DEF AppliedUnits, Applied
    <2> QED BY <2>1, FiniteAssumption, SumZero DEF SumOfLines
  <1>2. \A r \in Rows : p.delta[r] = 0
    BY DEF NoChange
  <1> QED BY <1>1, <1>2 DEF Balanced

LEMMA IdleBalanced == Balanced(Idle)
  <1>1. Idle \in Request /\ Idle.delta = NoChange /\ Idle.pc = "idle" /\ Idle.amt = NoUnits
    BY IdleType DEF Idle
  <1> QED BY <1>1, BalancedFresh DEF NoUnits

\* A step that updates no row and leaves every line where it was.
LEMMA BalancedSame ==
    ASSUME NEW q \in Request, NEW p \in Request, Balanced(q),
           p.op = q.op, p.delta = q.delta,
           \A r \in Rows, l \in Lines : AppliedUnits(p, r)[l] = AppliedUnits(q, r)[l],
           p.pc = "commit" => p.todo = {},
           p.pc = "consume" => p.op = "confirm",
           p.pc \in {"check", "apply"} => p.line \notin p.todo,
           p.pc # "reread"
    PROVE  Balanced(p)
  <1>1. ASSUME NEW r \in Rows
        PROVE  SumOfLines(AppliedUnits(p, r)) = SumOfLines(AppliedUnits(q, r))
    <2>1. \A l \in Lines : AppliedUnits(q, r)[l] \in Int /\ AppliedUnits(p, r)[l] = AppliedUnits(q, r)[l]
      BY AppliedNat
    <2> QED BY <2>1, FiniteAssumption, SumSame DEF SumOfLines
  <1>2. Selling(p) <=> Selling(q)
    BY DEF Selling
  <1> QED BY <1>1, <1>2 DEF Balanced

\* deductLine or restoreLine begins with a line.
LEMMA BalancedLine ==
    ASSUME NEW q \in Request, NEW p \in Request, Balanced(q), NEW l \in Lines,
           q.pc = "lines", l \in q.todo,
           p.op = q.op, p.delta = q.delta, p.amt = q.amt,
           p.todo = q.todo \ {l}, p.line = l, p.part = RowsOf(l),
           p.pc \in {"lines", "check", "apply"}, p.pc = "lines" => RowsOf(l) = {}
    PROVE  Balanced(p)
  <1>1. ASSUME NEW r \in Rows, NEW k \in Lines
        PROVE  AppliedUnits(p, r)[k] = AppliedUnits(q, r)[k]
    <2>1. k # l => (Applied(p, k, r) <=> Applied(q, k, r))
      BY DEF Applied
    <2>2. ~Applied(q, l, r)
      BY DEF Applied
    <2>3. r \in RowsOf(l) => ~Applied(p, l, r)
      BY DEF Applied
    <2>4. r \notin RowsOf(l) => q.amt[l] * Need[l][r] = 0
      BY RequestFields, UnitsAreNat
    <2> QED BY <2>1, <2>2, <2>3, <2>4 DEF AppliedUnits
  <1> QED BY <1>1, BalancedSame

\* The check of a row; after the last one the updates begin.
LEMMA BalancedCheck ==
    ASSUME NEW q \in Request, NEW p \in Request, Balanced(q), q.pc = "check", q.line \in Lines,
           p.op = q.op, p.delta = q.delta, p.amt = q.amt, p.todo = q.todo, p.line = q.line,
           p.pc = "check" \/ (p.pc = "apply" /\ p.part = RowsOf(q.line))
    PROVE  Balanced(p)
  <1>1. ASSUME NEW r \in Rows, NEW k \in Lines
        PROVE  AppliedUnits(p, r)[k] = AppliedUnits(q, r)[k]
    <2>1. k # q.line => (Applied(p, k, r) <=> Applied(q, k, r))
      BY DEF Applied
    <2>2. ~Applied(q, q.line, r)
      BY DEF Applied
    <2>3. r \in RowsOf(q.line) => ~Applied(p, q.line, r)
      BY DEF Applied
    <2>4. r \notin RowsOf(q.line) => q.amt[q.line] * Need[q.line][r] = 0
      BY RequestFields, UnitsAreNat
    <2> QED BY <2>1, <2>2, <2>3, <2>4 DEF AppliedUnits
  <1>2. p.line \notin p.todo
    BY DEF Balanced
  <1> QED BY <1>1, <1>2, BalancedSame

\* The update of a row.
LEMMA BalancedApply ==
    ASSUME NEW q \in Request, NEW p \in Request, Balanced(q), q.pc = "apply", q.line \in Lines,
           NEW r \in Rows, r \in q.part,
           p.op = q.op, p.amt = q.amt, p.todo = q.todo, p.line = q.line, p.part = q.part \ {r},
           p.pc = "apply" \/ (p.pc = "lines" /\ p.part = {}),
           \A x \in Rows \ {r} : p.delta[x] = q.delta[x],
           p.delta[r] = IF Selling(q) THEN q.delta[r] - q.amt[q.line] * Need[q.line][r]
                                      ELSE q.delta[r] + q.amt[q.line] * Need[q.line][r]
    PROVE  Balanced(p)
  <1>1. q.line \notin q.todo /\ (Selling(p) <=> Selling(q))
    BY DEF Balanced, Selling
  <1>2. ASSUME NEW x \in Rows \ {r}
        PROVE  SumOfLines(AppliedUnits(p, x)) = SumOfLines(AppliedUnits(q, x))
    <2>1. ASSUME NEW k \in Lines
          PROVE  AppliedUnits(q, x)[k] \in Int /\ AppliedUnits(p, x)[k] = AppliedUnits(q, x)[k]
      <3>1. Applied(p, k, x) <=> Applied(q, k, x)
        BY DEF Applied
      <3>2. AppliedUnits(p, x)[k] = AppliedUnits(q, x)[k]
        BY <3>1 DEF AppliedUnits
      <3> QED BY <3>2, AppliedNat
    <2> QED BY <2>1, FiniteAssumption, SumSame DEF SumOfLines
  <1>3. SumOfLines(AppliedUnits(p, r)) = SumOfLines(AppliedUnits(q, r)) + q.amt[q.line] * Need[q.line][r]
    <2>1. \A k \in Lines \ {q.line} : AppliedUnits(p, r)[k] = AppliedUnits(q, r)[k]
      BY DEF AppliedUnits, Applied
    <2>2. AppliedUnits(q, r)[q.line] = 0
      BY DEF AppliedUnits, Applied
    <2>3. AppliedUnits(p, r)[q.line] = q.amt[q.line] * Need[q.line][r]
      BY <1>1 DEF AppliedUnits, Applied
    <2>4. \A k \in Lines : AppliedUnits(q, r)[k] \in Int /\ AppliedUnits(p, r)[k] \in Int
      BY AppliedNat
    <2>5. SumOfLines(AppliedUnits(p, r)) = SumOfLines(AppliedUnits(q, r))
              - AppliedUnits(q, r)[q.line] + AppliedUnits(p, r)[q.line]
      <3> DEFINE f == AppliedUnits(q, r)
                 g == AppliedUnits(p, r)
      <3> HIDE DEF f, g
      <3>1. /\ \A k \in Lines : f[k] \in Int /\ g[k] \in Int
            /\ \A k \in Lines \ {q.line} : g[k] = f[k]
        BY <2>1, <2>4 DEF f, g
      <3>2. SumOfLines(g) = SumOfLines(f) - f[q.line] + g[q.line]
        <4>1. ASSUME NEW x \in Lines, \A k \in Lines \ {x} : g[k] = f[k]
              PROVE  SumFunctionOnSet(g, Lines) = SumFunctionOnSet(f, Lines) - f[x] + g[x]
          BY <3>1, <4>1, FiniteAssumption, SumChange
        <4> QED BY <3>1, <4>1 DEF SumOfLines
      <3> QED BY <3>2 DEF f, g
    <2>6. SumOfLines(AppliedUnits(q, r)) \in Int
      BY AppliedNat
    <2> QED BY <2>2, <2>3, <2>4, <2>5, <2>6
  <1>4. ASSUME NEW x \in Rows
        PROVE  p.delta[x] = IF Selling(p) THEN 0 - SumOfLines(AppliedUnits(p, x))
                                          ELSE SumOfLines(AppliedUnits(p, x))
    <2>1. q.delta[x] = IF Selling(q) THEN 0 - SumOfLines(AppliedUnits(q, x))
                                     ELSE SumOfLines(AppliedUnits(q, x))
      BY DEF Balanced
    <2>2. SumOfLines(AppliedUnits(q, x)) \in Int /\ q.amt[q.line] * Need[q.line][r] \in Int
      BY AppliedNat, RequestFields, UnitsAreNat
    <2>3. CASE x # r
      BY <1>1, <1>2, <2>1, <2>3
    <2>4. CASE x = r
      BY <1>1, <1>3, <2>1, <2>2, <2>4
    <2> QED BY <2>3, <2>4
  <1> QED BY <1>1, <1>4 DEF Balanced

\* What one request's step leaves of the others.
LEMMA BalancedOthers ==
    ASSUME LedgerInv, NEW w \in Workers, NEW p, req' = [req EXCEPT ![w] = p], Balanced(p)
    PROVE  \A v \in Workers : Balanced(req'[v])
  BY DEF LedgerInv, TypeOK

\* Every request begins balanced.
LEMMA StartBalanced ==
    ASSUME LedgerInv, NEW w \in Workers, Start(w)
    PROVE  (\A v \in Workers : Balanced(req'[v])) /\ UNCHANGED <<order, out, stock, used>>
  <1>1. \E op, o, row, amt, pc :
           /\ Begin(w, op, o, row, amt, pc)
           /\ pc \in {"write", "reread", "validate", "lines"}
    BY DEF Start, StartCreate, StartHold, StartConfirm, StartCancel, StartAsk,
           StartReturn, StartPartial, StartReject
  <1>2. PICK op, o, row, amt, pc :
           /\ Begin(w, op, o, row, amt, pc)
           /\ pc \in {"write", "reread", "validate", "lines"}
    BY <1>1
  <1> DEFINE p == [Idle EXCEPT !.pc = pc, !.op = op, !.oid = o, !.seen = row,
                     !.amt = amt, !.todo = {l \in Lines : amt[l] > 0}]
  <1>3. req' = [req EXCEPT ![w] = p] /\ UNCHANGED <<order, out, stock, used>>
    BY <1>2 DEF Begin
  <1>4. p \in Request
    <2>1. TypeOK'
      BY StartType DEF LedgerInv
    <2> HIDE DEF p
    <2> QED BY <1>3, <2>1 DEF TypeOK, LedgerInv
  <1>5. p.delta = NoChange /\ p.pc = pc /\ p.amt = amt /\ p.todo = {l \in Lines : amt[l] > 0}
    BY DEF Idle
  <1> HIDE DEF p
  <1>6. \A l \in Lines : l \notin p.todo => p.amt[l] = 0
    BY <1>4, <1>5, RequestFields DEF Cart
  <1>7. Balanced(p)
    BY <1>2, <1>4, <1>5, <1>6, BalancedFresh
  <1> QED BY <1>3, <1>7, BalancedOthers

LEMMA StatementBalanced ==
    ASSUME LedgerInv, NEW w \in Workers, Statement(w)
    PROVE  Balanced(req'[w])
  <1> DEFINE q == req[w]
             p == req'[w]
  <1>1. TypeOK /\ TypeOK' /\ q \in Request /\ p \in Request /\ Balanced(q)
    BY StatementType DEF LedgerInv, TypeOK
  <1>2. CASE Reread(w)
    <2> DEFINE row == order[q.oid]
    <2>1. q.pc = "reread" /\ p.pc = "lines" /\ p.amt = row.qty /\ p.delta = q.delta
          /\ p.todo = {l \in Lines : row.qty[l] > 0}
      BY <1>1, <1>2 DEF Reread, TypeOK, Request
    <2>2. q.delta = NoChange
      BY <1>1, <2>1 DEF Balanced
    <2>3. \A l \in Lines : l \notin p.todo => p.amt[l] = 0
      BY <1>1, <2>1, RequestFields DEF Cart
    <2> HIDE DEF p, q
    <2> QED BY <1>1, <2>1, <2>2, <2>3, BalancedFresh DEF p
  <1>3. CASE Validate(w) \/ Consume(w)
    <2>1. /\ p.op = q.op /\ p.delta = q.delta /\ p.todo = q.todo /\ p.amt = q.amt
          /\ q.pc \in {"validate", "consume", "lines"}
          /\ p.pc \in {"consume", "lines", "commit"}
          /\ p.pc = "consume" => p.op = "confirm"
          /\ p.pc = "commit" => q.op # "confirm" /\ (q.pc = "lines" => q.todo = {})
          /\ q.pc = "validate" => p.pc # "commit"
      BY <1>1, <1>3 DEF Validate, Consume, LinesDone, TypeOK, Request
    <2> HIDE DEF p, q
    <2>2. p.pc = "commit" => p.todo = {}
      BY <1>1, <2>1 DEF Balanced
    <2>3. ASSUME NEW r \in Rows, NEW l \in Lines
          PROVE  AppliedUnits(p, r)[l] = AppliedUnits(q, r)[l]
      BY <2>1 DEF AppliedUnits, Applied
    <2> QED BY <1>1, <2>1, <2>2, <2>3, BalancedSame DEF p
  <1>4. ASSUME NEW l \in Lines, StartLine(w, l) PROVE Balanced(p)
    <2>1. /\ q.pc = "lines" /\ l \in q.todo
          /\ p.op = q.op /\ p.delta = q.delta /\ p.amt = q.amt
          /\ p.todo = q.todo \ {l} /\ p.line = l /\ p.part = RowsOf(l)
          /\ p.pc \in {"lines", "check", "apply"} /\ (p.pc = "lines" => RowsOf(l) = {})
      BY <1>1, <1>4 DEF StartLine, TypeOK, Request
    <2> HIDE DEF p, q
    <2> QED BY <1>1, <2>1, BalancedLine
  <1>5. ASSUME NEW r \in Rows, CheckRow(w, r) PROVE Balanced(p)
    <2>1. q.pc = "check" /\ q.line \in Lines
      BY <1>1, <1>5 DEF CheckRow, TypeOK, WellFormed
    <2>2. /\ p.op = q.op /\ p.delta = q.delta /\ p.amt = q.amt /\ p.todo = q.todo
          /\ p.line = q.line
          /\ p.pc = "check" \/ (p.pc = "apply" /\ p.part = RowsOf(q.line))
      BY <1>1, <1>5 DEF CheckRow, TypeOK, Request
    <2> HIDE DEF p, q
    <2> QED BY <1>1, <2>1, <2>2, BalancedCheck
  <1>6. ASSUME NEW r \in Rows, ApplyRow(w, r) PROVE Balanced(p)
    <2>1. q.pc = "apply" /\ q.line \in Lines /\ r \in q.part
      BY <1>1, <1>6 DEF ApplyRow, TypeOK, WellFormed
    <2> DEFINE n == IF Deducts(w) THEN q.delta[r] - Amount(w, r) ELSE q.delta[r] + Amount(w, r)
    <2>2. /\ p.op = q.op /\ p.amt = q.amt /\ p.todo = q.todo /\ p.line = q.line
          /\ p.part = q.part \ {r}
          /\ p.pc = "apply" \/ (p.pc = "lines" /\ p.part = {})
          /\ p.delta = [q.delta EXCEPT ![r] = n]
      BY <1>1, <1>6 DEF ApplyRow, TypeOK, Request
    <2>3. n = IF Selling(q) THEN q.delta[r] - q.amt[q.line] * Need[q.line][r]
                            ELSE q.delta[r] + q.amt[q.line] * Need[q.line][r]
      BY DEF Deducts, Selling, Amount
    <2>4. q.delta \in [Rows -> Int]
      BY <1>1, RequestFields
    <2> HIDE DEF n
    <2>5. p.delta[r] = n /\ \A x \in Rows \ {r} : p.delta[x] = q.delta[x]
      BY <2>2, <2>4
    <2> HIDE DEF p, q
    <2> QED BY <1>1, <2>1, <2>2, <2>3, <2>5, BalancedApply
  <1> QED BY <1>2, <1>3, <1>4, <1>5, <1>6 DEF Statement

\* A statement changes only its own request, and no committed stock.
LEMMA StatementLocal ==
    ASSUME TypeOK, NEW w \in Workers, Statement(w)
    PROVE  /\ req' = [req EXCEPT ![w] = req'[w]]
           /\ UNCHANGED <<order, out, stock>>
  <1> DEFINE Local == /\ req' = [req EXCEPT ![w] = req'[w]]
                      /\ UNCHANGED <<order, out, stock>>
  <1>1. CASE Reread(w) \/ Validate(w) \/ Consume(w)
    BY <1>1 DEF Reread, Validate, Consume, TypeOK
  <1>2. ASSUME NEW l \in Lines, StartLine(w, l) PROVE Local
    BY <1>2 DEF StartLine, TypeOK
  <1>3. ASSUME NEW r \in Rows, CheckRow(w, r) PROVE Local
    BY <1>3 DEF CheckRow, TypeOK
  <1>4. ASSUME NEW r \in Rows, ApplyRow(w, r) PROVE Local
    <2>1. \A v \in Workers \ {w} : req'[v] = req[v]
      BY <1>4 DEF ApplyRow, TypeOK
    <2>2. req \in [Workers -> Request] /\ req' \in [Workers -> Request]
      BY StatementType DEF TypeOK
    <2>3. req' = [req EXCEPT ![w] = req'[w]]
      BY <2>1, <2>2
    <2> QED BY <1>4, <2>3 DEF ApplyRow
  <1> QED BY <1>1, <1>2, <1>3, <1>4 DEF Statement

-----------------------------------------------------------------------------
(* The ledger. *)

LEMMA OrdersSum ==
    ASSUME NEW f, NEW g, NEW o \in OrderIds,
           \A x \in OrderIds : f[x] \in Int /\ g[x] \in Int,
           \A x \in OrderIds \ {o} : g[x] = f[x]
    PROVE  SumFunctionOnSet(g, OrderIds) = SumFunctionOnSet(f, OrderIds) - f[o] + g[o]
  BY FiniteAssumption, SumChange

\* Units moved on one order move what all orders have out by as much.
LEMMA LedgerMove ==
    ASSUME NEW s \in [OrderIds -> [Lines -> Int]], NEW t \in [OrderIds -> [Lines -> Int]],
           NEW o \in OrderIds, NEW m \in [Lines -> Int], NEW r \in Rows,
           \A l \in Lines : t[o][l] = s[o][l] + m[l],
           \A x \in OrderIds \ {o} : t[x] = s[x]
    PROVE  /\ AllTaken(t, r) = AllTaken(s, r) + Taken(m, r)
           /\ AllTaken(s, r) \in Int /\ Taken(m, r) \in Int
  <1>1. ASSUME NEW u \in [Lines -> Int]
        PROVE  /\ Taken(u, r) \in Int
               /\ \A l \in Lines : u[l] * Need[l][r] \in Int
    <2>1. \A l \in Lines : u[l] * Need[l][r] \in Int
      <3> TAKE l \in Lines
      <3>1. u[l] \in Int /\ Need[l][r] \in Int
        BY NeedAssumption
      <3> QED BY <3>1
    <2> DEFINE f == [l \in Lines |-> u[l] * Need[l][r]]
    <2>2. \A l \in Lines : f[l] \in Int
      BY <2>1
    <2> HIDE DEF f
    <2>3. SumFunctionOnSet(f, Lines) \in Int
      BY <2>2, FiniteAssumption, SumInt
    <2> QED BY <2>1, <2>3 DEF f, Taken
  <1>2. Taken(t[o], r) = Taken(s[o], r) + Taken(m, r)
    <2> DEFINE f == [l \in Lines |-> s[o][l] * Need[l][r]]
               g == [l \in Lines |-> m[l] * Need[l][r]]
               h == [l \in Lines |-> t[o][l] * Need[l][r]]
    <2>1. ASSUME NEW l \in Lines PROVE f[l] \in Int /\ g[l] \in Int /\ h[l] = f[l] + g[l]
      <3>1. s[o][l] \in Int /\ m[l] \in Int /\ Need[l][r] \in Int
        BY NeedAssumption
      <3>2. (s[o][l] + m[l]) * Need[l][r] = s[o][l] * Need[l][r] + m[l] * Need[l][r]
        BY <3>1
      <3>3. s[o] \in [Lines -> Int]
        OBVIOUS
      <3> QED BY <1>1, <3>2, <3>3
    <2> HIDE DEF f, g, h
    <2>2. SumFunctionOnSet(h, Lines) = SumFunctionOnSet(f, Lines) + SumFunctionOnSet(g, Lines)
      BY <2>1, FiniteAssumption, SumPlus
    <2> QED BY <2>2 DEF f, g, h, Taken
  <1> DEFINE f == [x \in OrderIds |-> Taken(s[x], r)]
             g == [x \in OrderIds |-> Taken(t[x], r)]
  <1>3. /\ \A x \in OrderIds : f[x] \in Int /\ g[x] \in Int
        /\ \A x \in OrderIds \ {o} : g[x] = f[x]
        /\ f[o] = Taken(s[o], r) /\ g[o] = Taken(t[o], r)
    BY <1>1
  <1> HIDE DEF f, g
  <1>4. SumFunctionOnSet(g, OrderIds) = SumFunctionOnSet(f, OrderIds) - f[o] + g[o]
    BY <1>3, OrdersSum
  <1>5. SumFunctionOnSet(f, OrderIds) \in Int
    BY <1>3, FiniteAssumption, SumInt
  <1>6. Taken(m, r) \in Int /\ f[o] \in Int
    BY <1>1, <1>3
  <1>7. SumFunctionOnSet(g, OrderIds) = SumFunctionOnSet(f, OrderIds) + Taken(m, r)
    BY <1>2, <1>3, <1>4, <1>5, <1>6
  <1> QED BY <1>5, <1>6, <1>7 DEF f, g, AllTaken

\* A request that is ready to commit has taken from the rows what it will
\* record as moved.
LEMMA CommitMoves ==
    ASSUME LedgerInv, NEW w \in Workers, ReadyToCommit(w), NEW r \in Rows,
           NEW m \in [Lines -> Int], \A l \in Lines : m[l] = Moved(w, l)
    PROVE  req[w].delta[r] = 0 - Taken(m, r)
  <1> DEFINE q == req[w]
             f == AppliedUnits(q, r)
             g == [l \in Lines |-> m[l] * Need[l][r]]
             z == [l \in Lines |-> 0]
  <1>1. q \in Request /\ Balanced(q) /\ q.pc \in {"lines", "commit"}
    BY DEF LedgerInv, TypeOK, ReadyToCommit, LinesDone
  <1>2. q.todo = {}
    BY <1>1 DEF ReadyToCommit, LinesDone, Balanced
  <1>3. ASSUME NEW l \in Lines PROVE f[l] = q.amt[l] * Need[l][r] /\ f[l] \in Int
    <2>1. Applied(q, l, r)
      BY <1>1, <1>2 DEF Applied
    <2>2. q.amt[l] * Need[l][r] \in Nat
      BY <1>1, RequestFields, UnitsAreNat
    <2> HIDE DEF q
    <2> QED BY <2>1, <2>2 DEF AppliedUnits
  <1>4. q.delta[r] = IF Selling(q) THEN 0 - SumFunctionOnSet(f, Lines) ELSE SumFunctionOnSet(f, Lines)
    BY <1>1 DEF Balanced, SumOfLines
  <1>5. CASE Selling(q)
    <2>1. \A l \in Lines : g[l] = f[l]
      BY <1>3, <1>5 DEF Moved, Deducts, Selling
    <2> HIDE DEF f, g
    <2>2. SumFunctionOnSet(g, Lines) = SumFunctionOnSet(f, Lines)
      BY <1>3, <2>1, FiniteAssumption, SumSame
    <2> QED BY <1>4, <1>5, <2>2 DEF g, Taken
  <1>6. CASE ~Selling(q)
    <2>1. ASSUME NEW l \in Lines PROVE f[l] \in Int /\ g[l] \in Int /\ z[l] = f[l] + g[l]
      <3>1. m[l] = 0 - q.amt[l]
        BY <1>6 DEF Moved, Deducts, Selling
      <3>2. q.amt[l] \in Int /\ Need[l][r] \in Int
        BY <1>1, RequestFields, NeedAssumption DEF Cart
      <3>3. (0 - q.amt[l]) * Need[l][r] = 0 - q.amt[l] * Need[l][r]
        BY <3>2
      <3>4. g[l] = 0 - f[l]
        BY <1>3, <3>1, <3>3
      <3> HIDE DEF f, g
      <3> QED BY <1>3, <3>4
    <2>2. \A l \in Lines : z[l] = 0
      OBVIOUS
    <2> HIDE DEF f, g, z
    <2>3. SumFunctionOnSet(z, Lines) = SumFunctionOnSet(f, Lines) + SumFunctionOnSet(g, Lines)
      BY <2>1, FiniteAssumption, SumPlus
    <2>4. SumFunctionOnSet(z, Lines) = 0
      BY <2>2, FiniteAssumption, SumZero
    <2>5. SumFunctionOnSet(f, Lines) \in Int /\ SumFunctionOnSet(g, Lines) \in Int
      BY <2>1, FiniteAssumption, SumInt
    <2>6. SumFunctionOnSet(f, Lines) = 0 - SumFunctionOnSet(g, Lines)
      BY <2>3, <2>4, <2>5
    <2> QED BY <1>4, <1>6, <2>6 DEF g, Taken
  <1> QED BY <1>5, <1>6

\* A commit writes the rows and the ledger together.
LEMMA CommitLedger ==
    ASSUME LedgerInv, TypeOK', NEW w \in Workers, NEW row, Commit(w, row)
    PROVE  StockLedger'
  <1> DEFINE o == req[w].oid
             m == [l \in Lines |-> Moved(w, l)]
  <1>1. /\ ReadyToCommit(w)
        /\ stock' = [r \in Rows |-> stock[r] + req[w].delta[r]]
        /\ out' = [out EXCEPT ![o] = [l \in Lines |-> out[o][l] + Moved(w, l)]]
    BY DEF Commit
  <1>2. o \in OrderIds
    BY <1>1 DEF LedgerInv, TypeOK, WellFormed, ReadyToCommit, LinesDone
  <1>3. out \in [OrderIds -> [Lines -> Int]] /\ out' \in [OrderIds -> [Lines -> Int]]
        /\ stock \in [Rows -> Int] /\ req[w].delta \in [Rows -> Int]
    BY DEF LedgerInv, TypeOK, Request
  <1>4. m \in [Lines -> Int] /\ \A l \in Lines : m[l] = Moved(w, l)
    <2>1. req[w].amt \in Cart
      BY DEF LedgerInv, TypeOK, Request
    <2> QED BY <2>1 DEF Moved, Cart
  <1>5. /\ \A l \in Lines : out'[o][l] = out[o][l] + m[l]
        /\ \A x \in OrderIds \ {o} : out'[x] = out[x]
    BY <1>1, <1>2, <1>3
  <1> HIDE DEF m, o
  <1>6. ASSUME NEW r \in Rows PROVE stock'[r] + AllTaken(out', r) = InitialStock[r]
    <2>1. AllTaken(out', r) = AllTaken(out, r) + Taken(m, r)
          /\ AllTaken(out, r) \in Int /\ Taken(m, r) \in Int
      BY <1>2, <1>3, <1>4, <1>5, LedgerMove
    <2>2. req[w].delta[r] = 0 - Taken(m, r)
      BY <1>1, <1>4, CommitMoves
    <2>3. stock[r] + AllTaken(out, r) = InitialStock[r]
      BY DEF LedgerInv, StockLedger
    <2>4. stock'[r] = stock[r] + req[w].delta[r] /\ stock[r] \in Int
      BY <1>1, <1>3
    <2> QED BY <2>1, <2>2, <2>3, <2>4
  <1> QED BY <1>6 DEF StockLedger

LEMMA FinishLedger ==
    ASSUME LedgerInv, NEW w \in Workers, Finish(w)
    PROVE  StockLedger' /\ req' = [req EXCEPT ![w] = Idle]
  <1>1. TypeOK'
    BY FinishType DEF LedgerInv
  <1>2. CASE WriteHold(w) \/ WriteAsk(w) \/ WriteReject(w) \/ Fail(w)
    <2>1. UNCHANGED <<out, stock>> /\ req' = [req EXCEPT ![w] = Idle]
      BY <1>2 DEF WriteHold, WriteAsk, WriteReject, Write, Fail
    <2> QED BY <2>1 DEF LedgerInv, StockLedger
  <1>3. CASE CommitCreate(w) \/ CommitConfirm(w) \/ CommitCancel(w) \/ CommitReturn(w)
             \/ CommitPartial(w)
    <2>1. PICK row : Commit(w, row)
      BY <1>3 DEF CommitCreate, CommitConfirm, CommitCancel, CommitReturn, CommitPartial
    <2>2. req' = [req EXCEPT ![w] = Idle]
      BY <2>1 DEF Commit
    <2> QED BY <1>1, <2>1, <2>2, CommitLedger
  <1> QED BY <1>2, <1>3 DEF Finish

LEMMA LedgerNext == LedgerInv /\ [Next]_vars => LedgerInv'
  <1> SUFFICES ASSUME LedgerInv, [Next]_vars PROVE LedgerInv'
    OBVIOUS
  <1>1. TypeOK'
    BY TypeNext DEF LedgerInv
  <1>2. ASSUME NEW w \in Workers, Start(w) PROVE LedgerInv'
    BY <1>1, <1>2, StartBalanced DEF LedgerInv, StockLedger
  <1>3. ASSUME NEW w \in Workers, Statement(w) PROVE LedgerInv'
    <2>1. req' = [req EXCEPT ![w] = req'[w]] /\ UNCHANGED <<order, out, stock>>
      BY <1>3, StatementLocal DEF LedgerInv
    <2>2. Balanced(req'[w])
      BY <1>3, StatementBalanced
    <2>3. \A v \in Workers : Balanced(req'[v])
      BY <2>1, <2>2, BalancedOthers
    <2> QED BY <1>1, <2>1, <2>3 DEF LedgerInv, StockLedger
  <1>4. ASSUME NEW w \in Workers, Finish(w) PROVE LedgerInv'
    <2>1. StockLedger' /\ req' = [req EXCEPT ![w] = Idle]
      BY <1>4, FinishLedger
    <2>2. \A v \in Workers : Balanced(req'[v])
      BY <2>1, IdleBalanced, BalancedOthers
    <2> QED BY <1>1, <2>1, <2>2 DEF LedgerInv
  <1>5. CASE UNCHANGED vars
    BY <1>1, <1>5 DEF vars, LedgerInv, StockLedger
  <1> QED BY <1>2, <1>3, <1>4, <1>5 DEF Next

LEMMA LedgerInit == Init => LedgerInv
  <1> SUFFICES ASSUME Init PROVE LedgerInv
    OBVIOUS
  <1>1. TypeOK
    BY TypeInit
  <1>2. \A w \in Workers : Balanced(req[w])
    BY IdleBalanced DEF Init
  <1>3. ASSUME NEW r \in Rows PROVE stock[r] + AllTaken(out, r) = InitialStock[r]
    <2>1. ASSUME NEW o \in OrderIds PROVE Taken(out[o], r) = 0
      <3> DEFINE f == [l \in Lines |-> out[o][l] * Need[l][r]]
      <3>1. \A l \in Lines : f[l] = 0
        BY NeedAssumption DEF Init, NoUnits
      <3> HIDE DEF f
      <3>2. SumFunctionOnSet(f, Lines) = 0
        BY <3>1, FiniteAssumption, SumZero
      <3> QED BY <3>2 DEF f, Taken
    <2> DEFINE g == [o \in OrderIds |-> Taken(out[o], r)]
    <2>2. \A o \in OrderIds : g[o] = 0
      BY <2>1
    <2> HIDE DEF g
    <2>3. SumFunctionOnSet(g, OrderIds) = 0
      BY <2>2, FiniteAssumption, SumZero
    <2>4. AllTaken(out, r) = 0
      BY <2>3 DEF g, AllTaken
    <2> QED BY <2>4, StockAssumption DEF Init
  <1> QED BY <1>1, <1>2, <1>3 DEF LedgerInv, StockLedger

\* What a row holds and what the orders have out of it come to what the row
\* opened with, however many requests overlap and whichever fail.
THEOREM LedgerAgreesWithStock == Spec => []StockLedger
  <1>1. LedgerInv => StockLedger
    BY DEF LedgerInv
  <1> QED BY <1>1, LedgerInit, LedgerNext, PTL DEF Spec

-----------------------------------------------------------------------------
(* How far a row can be oversold. *)

\* What a request may still take from a row without another check: the rows it
\* has checked, whether or not it has updated them.
Claim(q, r) == IF Selling(q) THEN SumOfLines(CheckedUnits(q, r)) ELSE 0
Claims(q, r) == SumFunctionOnSet([w \in Workers |-> Claim(q[w], r)], Workers)

Fits(units, cart) == \A l \in Lines : units[l] <= cart[l]

\* One cart bounds an order and every request on it.
FromACart(o) ==
    /\ order[o].status = "absent" => order[o].qty = NoUnits
    /\ \E cart \in Carts \cup {NoUnits} :
          /\ Fits(order[o].qty, cart)
          /\ \A w \in Workers : req[w].oid = o =>
                Fits(req[w].seen.qty, cart) /\ Fits(req[w].amt, cart)

NewHasStatus ==
    \A w \in Workers : /\ req[w].op = "create" => req[w].seen.status # "absent"
                       /\ req[w].pc = "idle" => req[w].op = "none"

\* A check that passed leaves the other n - 1 requests their carts at most.
ClaimsCovered ==
    \A r \in Rows :
        stock[r] - Claims(req, r) >= 0 - (Cardinality(Workers) - 1) * MostTaken(r)

CartsInv == LedgerInv /\ NewHasStatus /\ \A o \in OrderIds : FromACart(o)
OversellInv == CartsInv /\ ClaimsCovered

LEMMA CheckedNat ==
    ASSUME NEW q \in Request, NEW r \in Rows
    PROVE  /\ \A l \in Lines : CheckedUnits(q, r)[l] \in Nat
           /\ SumOfLines(CheckedUnits(q, r)) \in Nat
           /\ Claim(q, r) \in Nat
  <1>1. \A l \in Lines : CheckedUnits(q, r)[l] \in Nat
    <2> TAKE l \in Lines
    <2>1. q.amt[l] * Need[l][r] \in Nat
      BY RequestFields, UnitsAreNat
    <2> QED BY <2>1 DEF CheckedUnits
  <1>2. SumOfLines(CheckedUnits(q, r)) \in Nat
    BY <1>1, FiniteAssumption, SumNat DEF SumOfLines
  <1> QED BY <1>1, <1>2 DEF Claim

LEMMA ClaimSame ==
    ASSUME NEW q \in Request, NEW p \in Request, NEW r \in Rows, p.op = q.op,
           \A l \in Lines : CheckedUnits(p, r)[l] = CheckedUnits(q, r)[l]
    PROVE  Claim(p, r) = Claim(q, r)
  <1>1. \A l \in Lines : CheckedUnits(q, r)[l] \in Int /\ CheckedUnits(p, r)[l] = CheckedUnits(q, r)[l]
    BY CheckedNat
  <1>2. SumOfLines(CheckedUnits(p, r)) = SumOfLines(CheckedUnits(q, r))
    BY <1>1, FiniteAssumption, SumSame DEF SumOfLines
  <1> QED BY <1>2 DEF Claim, Selling

LEMMA ClaimFresh ==
    ASSUME NEW p \in Request, NEW r \in Rows, p.pc # "check",
           \A l \in Lines : l \notin p.todo => p.amt[l] = 0
    PROVE  Claim(p, r) = 0
  <1>1. ASSUME NEW l \in Lines PROVE CheckedUnits(p, r)[l] = 0
    <2>1. l \notin p.todo => p.amt[l] * Need[l][r] = 0
      BY RequestFields, UnitsAreNat
    <2> QED BY <2>1 DEF CheckedUnits, Checked
  <1>2. SumOfLines(CheckedUnits(p, r)) = 0
    BY <1>1, FiniteAssumption, SumZero DEF SumOfLines
  <1> QED BY <1>2 DEF Claim

LEMMA IdleClaim == ASSUME NEW r \in Rows PROVE Claim(Idle, r) = 0
  <1>1. Idle \in Request /\ Idle.pc = "idle" /\ Idle.amt = NoUnits
    BY IdleType DEF Idle
  <1> QED BY <1>1, ClaimFresh DEF NoUnits

LEMMA ClaimLine ==
    ASSUME NEW q \in Request, NEW p \in Request, NEW r \in Rows, NEW l \in Lines,
           q.pc = "lines", l \in q.todo,
           p.op = q.op, p.amt = q.amt,
           p.todo = q.todo \ {l}, p.line = l, p.part = RowsOf(l),
           p.pc \in {"lines", "check", "apply"}, p.pc = "lines" => RowsOf(l) = {},
           p.pc = "apply" => ~Selling(q)
    PROVE  Claim(p, r) = Claim(q, r)
  <1>1. CASE ~Selling(q)
    BY <1>1 DEF Claim, Selling
  <1>2. CASE Selling(q)
    <2>1. ASSUME NEW k \in Lines PROVE CheckedUnits(p, r)[k] = CheckedUnits(q, r)[k]
      <3>1. k # l => (Checked(p, k, r) <=> Checked(q, k, r))
        BY DEF Checked
      <3>2. ~Checked(q, l, r)
        BY DEF Checked
      <3>3. r \in RowsOf(l) => ~Checked(p, l, r)
        BY <1>2 DEF Checked
      <3>4. r \notin RowsOf(l) => q.amt[l] * Need[l][r] = 0
        BY RequestFields, UnitsAreNat
      <3> QED BY <3>1, <3>2, <3>3, <3>4 DEF CheckedUnits
    <2> QED BY <2>1, ClaimSame
  <1> QED BY <1>1, <1>2

\* A check adds the line's units to the claim on its row, and to no other.
LEMMA ClaimCheck ==
    ASSUME NEW q \in Request, NEW p \in Request, Balanced(q), q.pc = "check", q.line \in Lines,
           NEW r \in Rows, r \in q.part,
           p.op = q.op, p.amt = q.amt, p.todo = q.todo, p.line = q.line,
           \/ p.pc = "check" /\ p.part = q.part \ {r}
           \/ p.pc = "apply" /\ q.part = {r}
    PROVE  /\ \A x \in Rows \ {r} : Claim(p, x) = Claim(q, x)
           /\ Selling(q) => Claim(p, r) = q.amt[q.line] * Need[q.line][r] - q.delta[r]
           /\ ~Selling(q) => Claim(p, r) = 0
  <1>1. ASSUME NEW x \in Rows \ {r} PROVE Claim(p, x) = Claim(q, x)
    <2>1. ASSUME NEW k \in Lines PROVE CheckedUnits(p, x)[k] = CheckedUnits(q, x)[k]
      <3>1. Checked(p, k, x) <=> Checked(q, k, x)
        BY DEF Checked
      <3> QED BY <3>1 DEF CheckedUnits
    <2> QED BY <2>1, ClaimSame
  <1>2. CASE ~Selling(q)
    BY <1>1, <1>2 DEF Claim, Selling
  <1>3. CASE Selling(q)
    <2> DEFINE f == AppliedUnits(q, r)
               g == CheckedUnits(p, r)
    <2>1. q.line \notin q.todo
      BY DEF Balanced
    <2>2. \A k \in Lines \ {q.line} : g[k] = f[k]
      BY DEF AppliedUnits, Applied, CheckedUnits, Checked
    <2>3. f[q.line] = 0
      BY DEF AppliedUnits, Applied
    <2>4. g[q.line] = q.amt[q.line] * Need[q.line][r]
      BY <2>1 DEF CheckedUnits, Checked
    <2>5. \A k \in Lines : f[k] \in Int /\ g[k] \in Int
      BY AppliedNat, CheckedNat
    <2>6. q.delta[r] = 0 - SumOfLines(f) /\ Claim(p, r) = SumOfLines(g)
      BY <1>3 DEF Balanced, Claim, Selling
    <2>7. SumOfLines(f) \in Int
      BY AppliedNat
    <2> HIDE DEF f, g
    <2>8. SumOfLines(g) = SumOfLines(f) - f[q.line] + g[q.line]
      <3>1. ASSUME NEW x \in Lines, \A k \in Lines \ {x} : g[k] = f[k]
            PROVE  SumFunctionOnSet(g, Lines) = SumFunctionOnSet(f, Lines) - f[x] + g[x]
        BY <2>5, <3>1, FiniteAssumption, SumChange
      <3> QED BY <2>2, <3>1 DEF SumOfLines
    <2>9. g[q.line] \in Int
      BY <2>5
    <2> QED BY <1>1, <1>3, <2>3, <2>4, <2>6, <2>7, <2>8, <2>9
  <1> QED BY <1>1, <1>2, <1>3

LEMMA ClaimApply ==
    ASSUME NEW q \in Request, NEW p \in Request, NEW x \in Rows, q.pc = "apply",
           p.op = q.op, p.amt = q.amt, p.todo = q.todo, p.pc \in {"apply", "lines"}
    PROVE  Claim(p, x) = Claim(q, x)
  <1>1. ASSUME NEW k \in Lines PROVE CheckedUnits(p, x)[k] = CheckedUnits(q, x)[k]
    <2>1. Checked(p, k, x) <=> Checked(q, k, x)
      BY DEF Checked
    <2> QED BY <2>1 DEF CheckedUnits
  <1> QED BY <1>1, ClaimSame

\* A commit takes what it claimed, or puts units back.
LEMMA ClaimCommit ==
    ASSUME LedgerInv, NEW w \in Workers, ReadyToCommit(w), NEW r \in Rows
    PROVE  req[w].delta[r] >= 0 - Claim(req[w], r)
  <1> DEFINE q == req[w]
             f == AppliedUnits(q, r)
             g == CheckedUnits(q, r)
  <1>1. q \in Request /\ Balanced(q) /\ q.pc \in {"lines", "commit"}
    BY DEF LedgerInv, TypeOK, ReadyToCommit, LinesDone
  <1>2. \A l \in Lines : f[l] \in Int /\ g[l] = f[l]
    <2> TAKE l \in Lines
    <2>1. Applied(q, l, r) <=> Checked(q, l, r)
      BY <1>1 DEF Applied, Checked
    <2>2. g[l] = f[l]
      BY <2>1 DEF AppliedUnits, CheckedUnits
    <2> QED BY <1>1, <2>2, AppliedNat
  <1>3. q.delta[r] = IF Selling(q) THEN 0 - SumOfLines(f) ELSE SumOfLines(f)
    BY <1>1 DEF Balanced
  <1>4. Claim(q, r) = IF Selling(q) THEN SumOfLines(g) ELSE 0
    BY DEF Claim
  <1>5. SumOfLines(f) \in Nat
    BY <1>1, AppliedNat
  <1> HIDE DEF f, g, q
  <1>6. SumOfLines(g) = SumOfLines(f)
    BY <1>2, FiniteAssumption, SumSame DEF SumOfLines
  <1>7. q.delta[r] >= 0 - Claim(q, r)
    BY <1>3, <1>4, <1>5, <1>6
  <1> QED BY <1>7 DEF q

-----------------------------------------------------------------------------

LEMMA MostTakenBounds ==
    ASSUME IsFiniteSet(Carts), NEW r \in Rows
    PROVE  /\ MostTaken(r) \in Nat
           /\ \A cart \in Carts : Taken(cart, r) <= MostTaken(r)
  <1> DEFINE T == {Taken(cart, r) : cart \in Carts}
             S == {0} \cup T
             id == [x \in S |-> x]
  <1>1. ASSUME NEW cart \in Carts PROVE Taken(cart, r) \in Nat
    <2> DEFINE f == [l \in Lines |-> cart[l] * Need[l][r]]
    <2>1. \A l \in Lines : f[l] \in Nat
      BY CartsAssumption, UnitsAreNat
    <2> HIDE DEF f
    <2>2. SumFunctionOnSet(f, Lines) \in Nat
      BY <2>1, FiniteAssumption, SumNat
    <2> QED BY <2>2 DEF f, Taken
  <1>2. S \subseteq Nat
    BY <1>1
  <1>3. IsFiniteSet(S)
    <2> DEFINE f == [cart \in Carts |-> Taken(cart, r)]
    <2>1. IsFiniteSet({f[cart] : cart \in Carts})
      <3>1. f \in Surjection(Carts, {f[cart] : cart \in Carts})
        BY DEF Surjection
      <3> QED BY <3>1, FS_Surjection
    <2>2. IsFiniteSet(T)
      BY <2>1
    <2> HIDE DEF T, f
    <2> QED BY <2>2, FS_Singleton, FS_Union
  <1>4. \E x \in S : \A y \in S : id[y] <= id[x]
    <2>1. S # {} /\ \A x \in S : id[x] \in Int
      BY <1>2
    <2> HIDE DEF S, id
    <2> QED BY <1>3, <2>1, MaxAt
  <1>5. \E x \in S : \A y \in S : x >= y
    BY <1>2, <1>4
  <1>6. MostTaken(r) \in S /\ \A y \in S : MostTaken(r) >= y
    BY <1>5 DEF MostTaken, Max
  <1>7. \A cart \in Carts : Taken(cart, r) \in S
    OBVIOUS
  <1> HIDE DEF S
  <1> QED BY <1>1, <1>2, <1>6, <1>7

\* No claim is more than a cart takes.
LEMMA ClaimBound ==
    ASSUME IsFiniteSet(Carts), CartsInv, NEW w \in Workers, NEW r \in Rows
    PROVE  Claim(req[w], r) \in Nat /\ Claim(req[w], r) <= MostTaken(r)
  <1> DEFINE q == req[w]
  <1>1. q \in Request /\ WellFormed(q)
    BY DEF CartsInv, LedgerInv, TypeOK
  <1>2. Claim(q, r) \in Nat /\ MostTaken(r) \in Nat
    BY <1>1, CheckedNat, MostTakenBounds
  <1>3. CASE ~Selling(q)
    BY <1>2, <1>3 DEF Claim
  <1>4. CASE Selling(q) /\ q.oid \in OrderIds
    <2>1. PICK cart \in Carts \cup {NoUnits} : Fits(q.amt, cart)
      BY <1>4 DEF CartsInv, FromACart
    <2> DEFINE f == CheckedUnits(q, r)
               g == [l \in Lines |-> cart[l] * Need[l][r]]
    <2>2. ASSUME NEW l \in Lines PROVE f[l] \in Int /\ g[l] \in Int /\ f[l] <= g[l]
      <3>1. q.amt[l] \in Nat /\ cart[l] \in Nat /\ Need[l][r] \in Nat /\ q.amt[l] <= cart[l]
        BY <1>1, <2>1, RequestFields, NeedAssumption, CartsAssumption DEF Cart, NoUnits, Fits
      <3>2. q.amt[l] * Need[l][r] <= cart[l] * Need[l][r] /\ cart[l] * Need[l][r] \in Nat
        BY <3>1
      <3>3. f[l] \in Int
        BY <1>1, CheckedNat
      <3>4. f[l] = IF Checked(q, l, r) THEN q.amt[l] * Need[l][r] ELSE 0
        BY DEF CheckedUnits
      <3>5. g[l] = cart[l] * Need[l][r]
        OBVIOUS
      <3> HIDE DEF f, g
      <3> QED BY <3>2, <3>3, <3>4, <3>5
    <2>3. Claim(q, r) = SumFunctionOnSet(f, Lines)
      BY <1>4 DEF Claim, SumOfLines
    <2>4. Taken(cart, r) = SumFunctionOnSet(g, Lines)
      BY DEF Taken
    <2> HIDE DEF f
    <2>5. SumFunctionOnSet(f, Lines) <= SumFunctionOnSet(g, Lines)
      <3> HIDE DEF g
      <3> QED BY <2>2, FiniteAssumption, SumOrder
    <2>6. Taken(cart, r) <= MostTaken(r)
      <3>1. CASE cart \in Carts
        BY <3>1, MostTakenBounds
      <3>2. CASE cart = NoUnits
        <4>1. \A l \in Lines : g[l] = 0
          BY <3>2, NeedAssumption DEF NoUnits
        <4> HIDE DEF g
        <4>2. SumFunctionOnSet(g, Lines) = 0
          BY <4>1, FiniteAssumption, SumZero
        <4> QED BY <1>2, <2>4, <4>2
      <3> QED BY <3>1, <3>2
    <2>7. SumFunctionOnSet(g, Lines) \in Int
      <3> HIDE DEF g
      <3> QED BY <2>2, FiniteAssumption, SumInt
    <2> HIDE DEF g, q
    <2>8. Claim(q, r) \in Int /\ MostTaken(r) \in Int
      BY <1>2
    <2>9. Claim(q, r) <= MostTaken(r)
      BY <2>3, <2>4, <2>5, <2>6, <2>7, <2>8
    <2> QED BY <1>2, <2>9 DEF q
  <1>5. q.oid \notin OrderIds => ~Selling(q)
    BY <1>1 DEF WellFormed, Selling, CartsInv, NewHasStatus
  <1> QED BY <1>2, <1>3, <1>4, <1>5

\* Another order, or a request that stays with its order.
LEMMA FromACartOthers ==
    ASSUME CartsInv, NEW w \in Workers, NEW p, req' = [req EXCEPT ![w] = p],
           NEW o \in OrderIds, order'[o] = order[o],
           p.oid = o => /\ req[w].oid = o
                        /\ \A cart \in Carts \cup {NoUnits} :
                              /\ Fits(order[o].qty, cart)
                              /\ Fits(req[w].seen.qty, cart)
                              /\ Fits(req[w].amt, cart)
                              => Fits(p.seen.qty, cart) /\ Fits(p.amt, cart)
    PROVE  FromACart(o)'
  <1>1. FromACart(o) /\ req \in [Workers -> Request]
    BY DEF CartsInv, LedgerInv, TypeOK
  <1>2. PICK cart \in Carts \cup {NoUnits} :
           /\ Fits(order[o].qty, cart)
           /\ \A v \in Workers : req[v].oid = o =>
                Fits(req[v].seen.qty, cart) /\ Fits(req[v].amt, cart)
    BY <1>1 DEF FromACart
  <1>3. ASSUME NEW v \in Workers, req'[v].oid = o
        PROVE  Fits(req'[v].seen.qty, cart) /\ Fits(req'[v].amt, cart)
    <2>1. CASE v # w
      BY <1>1, <1>2, <1>3, <2>1
    <2>2. CASE v = w
      BY <1>1, <1>2, <1>3, <2>2
    <2> QED BY <2>1, <2>2
  <1>4. Fits(order'[o].qty, cart)
    BY <1>2
  <1>5. order'[o].status = "absent" => order'[o].qty = NoUnits
    BY <1>1 DEF FromACart
  <1> QED BY <1>3, <1>4, <1>5 DEF FromACart

\* What a request starts with fits the cart of its order.
LEMMA StartCart ==
    ASSUME CartsInv, NEW w \in Workers, Start(w)
    PROVE  NewHasStatus' /\ \A o \in OrderIds : FromACart(o)'
  <1>1. PICK o \in OrderIds :
         \/ StartCreate(w, o)
         \/ StartHold(w, o)
         \/ StartConfirm(w, o)
         \/ StartCancel(w, o)
         \/ StartAsk(w, o)
         \/ StartReturn(w, o)
         \/ StartPartial(w, o)
         \/ StartReject(w, o)
    BY DEF Start
  <1>t. /\ TypeOK /\ order[o] \in OrderRow /\ order[o].qty \in Cart /\ FromACart(o)
        /\ req \in [Workers -> Request]
    BY DEF CartsInv, LedgerInv, TypeOK, OrderRow
  <1>2. ASSUME NEW op, NEW row, NEW amt, NEW pc, Begin(w, op, o, row, amt, pc),
               op = "create" => row.status # "absent", pc # "idle",
               \/ /\ req[w].pc = "idle" /\ Untouched(o) /\ order[o].status = "absent"
                  /\ \E cart \in Carts : Fits(row.qty, cart) /\ Fits(amt, cart)
               \/ row = order[o] /\ Fits(amt, order[o].qty) /\ amt \in Cart
        PROVE  NewHasStatus' /\ \A x \in OrderIds : FromACart(x)'
    <2> DEFINE p == [Idle EXCEPT !.pc = pc, !.op = op, !.oid = o, !.seen = row,
                       !.amt = amt, !.todo = {l \in Lines : amt[l] > 0}]
    <2>1. req' = [req EXCEPT ![w] = p] /\ order' = order
      BY <1>2 DEF Begin
    <2>2. p.pc = pc /\ p.op = op /\ p.oid = o /\ p.seen = row /\ p.amt = amt
      BY DEF Idle
    <2> HIDE DEF p
    <2>3. NewHasStatus'
      BY <1>2, <1>t, <2>1, <2>2 DEF CartsInv, NewHasStatus
    <2>4. ASSUME NEW x \in OrderIds \ {o} PROVE FromACart(x)'
      BY <2>1, <2>2, <2>4, FromACartOthers
    <2>5. PICK cart \in Carts \cup {NoUnits} :
             /\ Fits(order[o].qty, cart) /\ Fits(row.qty, cart) /\ Fits(amt, cart)
             /\ \A v \in Workers \ {w} : req[v].oid = o =>
                  Fits(req[v].seen.qty, cart) /\ Fits(req[v].amt, cart)
      <3>1. CASE Untouched(o) /\ order[o].status = "absent"
                 /\ \E cart \in Carts : Fits(row.qty, cart) /\ Fits(amt, cart)
        <4>1. PICK cart \in Carts : Fits(row.qty, cart) /\ Fits(amt, cart)
          BY <3>1
        <4>2. Fits(order[o].qty, cart)
          BY <1>t, <3>1, CartsAssumption DEF FromACart, Fits, NoUnits, Cart
        <4> QED BY <3>1, <4>1, <4>2 DEF Untouched
      <3>2. CASE row = order[o] /\ Fits(amt, order[o].qty) /\ amt \in Cart
        <4>1. PICK cart \in Carts \cup {NoUnits} :
                 /\ Fits(order[o].qty, cart)
                 /\ \A v \in Workers : req[v].oid = o =>
                      Fits(req[v].seen.qty, cart) /\ Fits(req[v].amt, cart)
          BY <1>t DEF FromACart
        <4>2. cart \in Cart
          BY CartsAssumption DEF Cart, NoUnits
        <4>3. Fits(amt, cart)
          BY <1>t, <3>2, <4>1, <4>2 DEF Fits, Cart
        <4> QED BY <3>2, <4>1, <4>3
      <3> QED BY <1>2, <3>1, <3>2
    <2>6. FromACart(o)'
      <3>1. ASSUME NEW v \in Workers, req'[v].oid = o
            PROVE  Fits(req'[v].seen.qty, cart) /\ Fits(req'[v].amt, cart)
        BY <1>t, <2>1, <2>2, <2>5, <3>1
      <3>2. order'[o].status = "absent" => order'[o].qty = NoUnits
        BY <1>t, <2>1 DEF FromACart
      <3> QED BY <2>1, <2>5, <3>1, <3>2 DEF FromACart
    <2> QED BY <2>3, <2>4, <2>6
  <1>3. CASE StartCreate(w, o)
    <2>1. PICK st \in CreateStatuses, cart \in Carts, code \in Codes :
             Begin(w, "create", o,
                [Absent EXCEPT !.status = st, !.qty = cart, !.coded = code],
                IF st \in Deducted THEN cart ELSE NoUnits,
                IF code THEN "validate" ELSE "lines")
      BY <1>3 DEF StartCreate
    <2> DEFINE row == [Absent EXCEPT !.status = st, !.qty = cart, !.coded = code]
               amt == IF st \in Deducted THEN cart ELSE NoUnits
               pc == IF code THEN "validate" ELSE "lines"
    <2>2. row.status = st /\ row.qty = cart /\ st # "absent"
      BY CreateAssumption DEF Absent
    <2>3. Fits(row.qty, cart) /\ Fits(amt, cart)
      BY <2>2, CartsAssumption DEF Fits, Cart, NoUnits
    <2>4. req[w].pc = "idle" /\ Untouched(o) /\ order[o].status = "absent"
      BY <1>3 DEF StartCreate
    <2>5. pc # "idle"
      OBVIOUS
    <2> HIDE DEF row, amt, pc
    <2>6. Begin(w, "create", o, row, amt, pc)
      BY <2>1 DEF row, amt, pc
    <2> QED BY <1>2, <2>2, <2>3, <2>4, <2>5, <2>6
  <1>4. CASE StartConfirm(w, o)
    <2> DEFINE pc == IF order[o].coded THEN "validate" ELSE "lines"
    <2>1. Begin(w, "confirm", o, order[o], order[o].qty, pc) /\ pc # "idle"
      BY <1>4 DEF StartConfirm
    <2>2. Fits(order[o].qty, order[o].qty)
      BY <1>t DEF Fits, Cart
    <2> HIDE DEF pc
    <2> QED BY <1>2, <1>t, <2>1, <2>2
  <1>5. CASE StartPartial(w, o)
    <2>1. PICK sel \in [Lines -> UNION {0 .. order[o].qty[l] : l \in Lines}] :
             /\ \A l \in Lines : sel[l] <= order[o].qty[l]
             /\ Begin(w, "partial", o, order[o], sel, "lines")
      BY <1>5 DEF StartPartial
    <2>2. sel \in Cart
      BY <1>t DEF Cart
    <2>3. Fits(sel, order[o].qty)
      BY <2>1 DEF Fits
    <2> QED BY <1>2, <2>1, <2>2, <2>3
  <1>6. CASE StartCancel(w, o) \/ StartHold(w, o) \/ StartAsk(w, o) \/ StartReturn(w, o)
             \/ StartReject(w, o)
    <2>1. \E op, amt, pc :
             /\ Begin(w, op, o, order[o], amt, pc) /\ op # "create" /\ pc # "idle"
             /\ amt = order[o].qty \/ amt = NoUnits
      BY <1>6 DEF StartCancel, StartHold, StartAsk, StartReturn, StartReject
    <2>2. PICK op, amt, pc :
             /\ Begin(w, op, o, order[o], amt, pc) /\ op # "create" /\ pc # "idle"
             /\ amt = order[o].qty \/ amt = NoUnits
      BY <2>1
    <2>3. Fits(amt, order[o].qty) /\ amt \in Cart
      BY <1>t, <2>2 DEF Fits, Cart, NoUnits
    <2> QED BY <1>2, <2>2, <2>3
  <1> QED BY <1>1, <1>3, <1>4, <1>5, <1>6

LEMMA StatementCart ==
    ASSUME CartsInv, NEW w \in Workers, Statement(w)
    PROVE  NewHasStatus' /\ \A o \in OrderIds : FromACart(o)'
  <1> DEFINE q == req[w]
             p == req'[w]
  <1>1. /\ TypeOK /\ req \in [Workers -> Request] /\ q \in Request /\ WellFormed(q)
        /\ req' = [req EXCEPT ![w] = p] /\ UNCHANGED <<order, out, stock>>
    BY StatementLocal DEF CartsInv, LedgerInv, TypeOK
  <1> DEFINE Kept == /\ p.op = q.op /\ p.oid = q.oid /\ p.pc # "idle" /\ q.pc # "idle"
                     /\ \/ p.seen = q.seen /\ p.amt = q.amt
                        \/ /\ q.op = "return" /\ p.seen = order[q.oid]
                           /\ p.amt = order[q.oid].qty
  <1>2. Kept
    <2>1. CASE Reread(w)
      BY <1>1, <2>1 DEF Reread, Request, WellFormed
    <2>2. CASE Validate(w) \/ Consume(w)
      BY <1>1, <2>2 DEF Validate, Consume, LinesDone, Request
    <2>3. ASSUME NEW l \in Lines, StartLine(w, l) PROVE Kept
      BY <1>1, <2>3 DEF StartLine, Request
    <2>4. ASSUME NEW r \in Rows, CheckRow(w, r) PROVE Kept
      BY <1>1, <2>4 DEF CheckRow, Request
    <2>5. ASSUME NEW r \in Rows, ApplyRow(w, r) PROVE Kept
      BY <1>1, <2>5 DEF ApplyRow, Request
    <2> QED BY <2>1, <2>2, <2>3, <2>4, <2>5 DEF Statement
  <1> HIDE DEF p
  <1>3. NewHasStatus'
    BY <1>1, <1>2 DEF CartsInv, NewHasStatus
  <1>4. ASSUME NEW o \in OrderIds PROVE FromACart(o)'
    BY <1>1, <1>2, FromACartOthers
  <1> QED BY <1>3, <1>4

\* What a request writes on its order fits the cart of the order.
LEMMA FinishCart ==
    ASSUME CartsInv, NEW w \in Workers, Finish(w)
    PROVE  NewHasStatus' /\ \A o \in OrderIds : FromACart(o)'
  <1> DEFINE q == req[w]
             o == q.oid
  <1>1. /\ TypeOK /\ req \in [Workers -> Request] /\ q \in Request /\ WellFormed(q)
        /\ req' = [req EXCEPT ![w] = Idle] /\ Idle.op = "none" /\ Idle.pc = "idle"
        /\ Idle.oid = NoOrder
    BY FinishLedger DEF CartsInv, LedgerInv, TypeOK, Idle
  <1>2. NewHasStatus'
    BY <1>1 DEF CartsInv, NewHasStatus
  <1>3. ASSUME NEW x \in OrderIds, order'[x] = order[x] PROVE FromACart(x)'
    BY <1>1, <1>3, NullAssumption, FromACartOthers
  <1>4. ASSUME NEW row, q.pc # "idle", order' = [order EXCEPT ![o] = row],
               row.status = "absent" => order[o].status = "absent" /\ row.qty = order[o].qty,
               \A l \in Lines : row.qty[l] = order[o].qty[l] \/ row.qty[l] = q.seen.qty[l]
                                \/ row.qty[l] = q.seen.qty[l] - q.amt[l]
        PROVE  \A x \in OrderIds : FromACart(x)'
    <2>1. o \in OrderIds /\ order \in [OrderIds -> OrderRow]
      BY <1>1, <1>4 DEF WellFormed, TypeOK
    <2>2. PICK cart \in Carts \cup {NoUnits} :
             /\ Fits(order[o].qty, cart) /\ Fits(q.seen.qty, cart)
             /\ \A v \in Workers : req[v].oid = o =>
                  Fits(req[v].seen.qty, cart) /\ Fits(req[v].amt, cart)
      BY <2>1 DEF CartsInv, FromACart
    <2>3. order'[o] = row /\ \A x \in OrderIds \ {o} : order'[x] = order[x]
      BY <1>4, <2>1
    <2>4. Fits(row.qty, cart)
      <3>1. ASSUME NEW l \in Lines PROVE row.qty[l] <= cart[l]
        <4>1. cart[l] \in Nat /\ q.amt[l] \in Nat /\ q.seen.qty[l] \in Nat /\ order[o].qty[l] \in Nat
          BY <1>1, <2>1, CartsAssumption DEF Cart, NoUnits, Request, OrderRow
        <4>2. order[o].qty[l] <= cart[l] /\ q.seen.qty[l] <= cart[l]
          BY <2>2 DEF Fits
        <4>3. row.qty[l] = order[o].qty[l] \/ row.qty[l] = q.seen.qty[l]
                                \/ row.qty[l] = q.seen.qty[l] - q.amt[l]
          BY <1>4
        <4> HIDE DEF q, o
        <4> QED BY <4>1, <4>2, <4>3
      <3> QED BY <3>1 DEF Fits
    <2>5. ASSUME NEW v \in Workers, req'[v].oid = o
          PROVE  Fits(req'[v].seen.qty, cart) /\ Fits(req'[v].amt, cart)
      <3>1. v # w
        BY <1>1, <2>1, <2>5, NullAssumption
      <3> QED BY <1>1, <2>2, <2>5, <3>1
    <2>6. row.status = "absent" => row.qty = NoUnits
      BY <1>4, <2>1 DEF CartsInv, FromACart
    <2> HIDE DEF o, q
    <2>7. ASSUME NEW x \in OrderIds, x = o PROVE FromACart(x)'
      BY <2>2, <2>3, <2>4, <2>5, <2>6, <2>7 DEF FromACart
    <2> QED BY <1>3, <2>3, <2>7
  <1>5. CASE Fail(w)
    BY <1>2, <1>3, <1>5 DEF Fail
  <1>6. q.pc # "idle" => order[o] \in OrderRow
    BY <1>1 DEF WellFormed, TypeOK
  <1>7. ASSUME NEW row, Write(w, row) \/ Commit(w, row)
        PROVE  q.pc # "idle" /\ order' = [order EXCEPT ![o] = row]
    BY <1>7 DEF Write, Commit, ReadyToCommit, LinesDone
  <1>8. CASE WriteHold(w) \/ WriteAsk(w) \/ WriteReject(w) \/ CommitConfirm(w)
             \/ CommitCancel(w) \/ CommitReturn(w)
    <2>1. PICK row : /\ Write(w, row) \/ Commit(w, row)
                     /\ row.qty = order[o].qty
                     /\ row.status = "absent" => order[o].status = "absent"
      <3>1. q.pc # "idle"
        BY <1>8 DEF WriteHold, WriteAsk, WriteReject, CommitConfirm, CommitCancel, CommitReturn,
              Write, Commit, ReadyToCommit, LinesDone
      <3>2. order[o] \in OrderRow
        BY <1>6, <3>1
      <3>3. CASE WriteHold(w) \/ WriteAsk(w) \/ WriteReject(w)
        BY <3>2, <3>3 DEF WriteHold, WriteAsk, WriteReject, OrderRow
      <3>4. CASE CommitConfirm(w)
        BY <3>2, <3>4 DEF CommitConfirm, OrderRow
      <3>5. CASE CommitCancel(w)
        <4> DEFINE row == [order[o] EXCEPT !.status = "CANCELLED",
                             !.refunded = @ \/ q.seen.status \in Deducted]
        <4>1. row.qty = order[o].qty /\ row.status = "CANCELLED"
          BY <3>2 DEF OrderRow
        <4>2. Commit(w, row)
          BY <3>5 DEF CommitCancel
        <4> HIDE DEF row, q, o
        <4> QED BY <4>1, <4>2
      <3>6. CASE CommitReturn(w)
        <4> DEFINE row == [order[o] EXCEPT !.status = "RETURNED", !.refunded = TRUE,
                             !.asked = FALSE]
        <4>1. row.qty = order[o].qty /\ row.status = "RETURNED"
          BY <3>2 DEF OrderRow
        <4>2. Commit(w, row)
          BY <3>6 DEF CommitReturn
        <4> HIDE DEF row, q, o
        <4> QED BY <4>1, <4>2
      <3> QED BY <1>8, <3>3, <3>4, <3>5, <3>6
    <2> HIDE DEF o, q
    <2> QED BY <1>2, <1>4, <1>7, <2>1
  <1>9. CASE CommitCreate(w)
    <2>1. Commit(w, q.seen) /\ q.op = "create"
      BY <1>9 DEF CommitCreate
    <2>2. q.seen.status # "absent"
      BY <2>1 DEF CartsInv, NewHasStatus
    <2> HIDE DEF o, q
    <2> QED BY <1>2, <1>4, <1>7, <2>1, <2>2
  <1>10. CASE CommitPartial(w)
    <2> DEFINE old == order[o]
               qty == [l \in Lines |-> IF q.amt[l] > 0 THEN q.seen.qty[l] - q.amt[l]
                                                       ELSE old.qty[l]]
               row == [old EXCEPT !.qty = qty]
    <2>1. Commit(w, row) /\ \A l \in Lines : q.amt[l] > 0 => old.qty[l] > 0
      BY <1>10 DEF CommitPartial
    <2>2. q.pc # "idle" /\ order' = [order EXCEPT ![o] = row]
      BY <1>7, <2>1
    <2>3. old \in OrderRow /\ o \in OrderIds
      BY <1>1, <1>6, <2>2 DEF WellFormed
    <2>4. row.qty = qty /\ row.status = old.status
      BY <2>3 DEF OrderRow
    <2>5. old.status = "absent" => qty = old.qty
      <3> SUFFICES ASSUME old.status = "absent" PROVE qty = old.qty
        OBVIOUS
      <3>1. old.qty = NoUnits
        BY <2>3 DEF CartsInv, FromACart
      <3>2. \A l \in Lines : ~(q.amt[l] > 0)
        BY <2>1, <3>1 DEF NoUnits
      <3> QED BY <3>1, <3>2 DEF NoUnits
    <2>6. \A l \in Lines : qty[l] = old.qty[l] \/ qty[l] = q.seen.qty[l]
                                \/ qty[l] = q.seen.qty[l] - q.amt[l]
      OBVIOUS
    <2> HIDE DEF qty, row
    <2> QED BY <1>2, <1>4, <2>2, <2>4, <2>5, <2>6
  <1> QED BY <1>2, <1>5, <1>8, <1>9, <1>10 DEF Finish

LEMMA CartsNext == CartsInv /\ [Next]_vars => CartsInv'
  <1> SUFFICES ASSUME CartsInv, [Next]_vars PROVE CartsInv'
    OBVIOUS
  <1>1. LedgerInv'
    BY LedgerNext DEF CartsInv
  <1>2. ASSUME NEW w \in Workers, Start(w) \/ Statement(w) \/ Finish(w) PROVE CartsInv'
    BY <1>1, <1>2, StartCart, StatementCart, FinishCart DEF CartsInv
  <1>3. CASE UNCHANGED vars
    BY <1>1, <1>3 DEF vars, CartsInv, NewHasStatus, FromACart
  <1> QED BY <1>2, <1>3 DEF Next

LEMMA CartsInit == Init => CartsInv
  <1> SUFFICES ASSUME Init PROVE CartsInv
    OBVIOUS
  <1>1. LedgerInv
    BY LedgerInit
  <1>2. NewHasStatus
    BY DEF Init, NewHasStatus, Idle
  <1>3. ASSUME NEW o \in OrderIds PROVE FromACart(o)
    <2>1. order[o].qty = NoUnits /\ \A w \in Workers : req[w].oid # o
      BY NullAssumption DEF Init, Absent, Idle
    <2>2. Fits(NoUnits, NoUnits)
      BY DEF Fits, NoUnits
    <2> QED BY <2>1, <2>2 DEF FromACart
  <1> QED BY <1>1, <1>2, <1>3 DEF CartsInv

\* Some requests are served, finitely many at a time, and carts have a greatest size.
Bounded == IsFiniteSet(Workers) /\ Workers # {} /\ IsFiniteSet(Carts)

LEMMA WorkersCount ==
    ASSUME Bounded, NEW w \in Workers
    PROVE  /\ IsFiniteSet(Workers \ {w})
           /\ Cardinality(Workers \ {w}) = Cardinality(Workers) - 1
           /\ Cardinality(Workers) - 1 \in Nat
  <1>1. IsFiniteSet(Workers \ {w}) /\ Cardinality(Workers \ {w}) = Cardinality(Workers) - 1
    BY FS_RemoveElement DEF Bounded
  <1>2. Cardinality(Workers \ {w}) \in Nat
    BY <1>1, FS_CardinalityType
  <1> QED BY <1>1, <1>2

\* One request's claim changes the sum by as much.
LEMMA ClaimsChange ==
    ASSUME Bounded, NEW s \in [Workers -> Request], NEW t \in [Workers -> Request],
           NEW w \in Workers, NEW r \in Rows, \A v \in Workers \ {w} : t[v] = s[v]
    PROVE  /\ Claims(t, r) = Claims(s, r) - Claim(s[w], r) + Claim(t[w], r)
           /\ Claims(s, r) \in Int /\ Claims(t, r) \in Int
           /\ Claim(s[w], r) \in Nat /\ Claim(t[w], r) \in Nat
  <1> DEFINE f == [v \in Workers |-> Claim(s[v], r)]
             g == [v \in Workers |-> Claim(t[v], r)]
  <1>1. \A v \in Workers : f[v] \in Nat /\ g[v] \in Nat
    BY CheckedNat
  <1>2. \A v \in Workers \ {w} : g[v] = f[v]
    OBVIOUS
  <1>3. f[w] = Claim(s[w], r) /\ g[w] = Claim(t[w], r)
    OBVIOUS
  <1> HIDE DEF f, g
  <1>4. SumFunctionOnSet(g, Workers) = SumFunctionOnSet(f, Workers) - f[w] + g[w]
    BY <1>1, <1>2, SumChange DEF Bounded
  <1>5. SumFunctionOnSet(f, Workers) \in Int /\ SumFunctionOnSet(g, Workers) \in Int
    BY <1>1, SumInt DEF Bounded
  <1> QED BY <1>1, <1>3, <1>4, <1>5 DEF f, g, Claims

\* The claims of all but one request come to n - 1 carts at most.
LEMMA OtherClaims ==
    ASSUME Bounded, CartsInv, NEW w \in Workers, NEW r \in Rows
    PROVE  Claims(req, r) - Claim(req[w], r) <= (Cardinality(Workers) - 1) * MostTaken(r)
  <1> DEFINE f == [v \in Workers |-> Claim(req[v], r)]
  <1>1. \A v \in Workers : f[v] \in Nat /\ f[v] <= MostTaken(r)
    BY ClaimBound DEF Bounded
  <1>2. MostTaken(r) \in Int
    BY MostTakenBounds DEF Bounded
  <1>3. f[w] = Claim(req[w], r)
    OBVIOUS
  <1> HIDE DEF f
  <1>4. SumFunctionOnSet(f, Workers) = f[w] + SumFunctionOnSet(f, Workers \ {w})
    BY <1>1, SumOut DEF Bounded
  <1>5. SumFunctionOnSet(f, Workers \ {w}) <= Cardinality(Workers \ {w}) * MostTaken(r)
    <2> DEFINE T == Workers \ {w}
    <2>1. IsFiniteSet(T) /\ \A v \in T : f[v] \in Int /\ f[v] <= MostTaken(r)
      BY <1>1, WorkersCount
    <2> HIDE DEF T
    <2>2. SumFunctionOnSet(f, T) <= Cardinality(T) * MostTaken(r)
      BY <1>2, <2>1, SumBound
    <2> QED BY <2>2 DEF T
  <1>6. SumFunctionOnSet(f, Workers \ {w}) \in Int
    BY <1>1, WorkersCount, SumInt
  <1>7. SumFunctionOnSet(f, Workers) - f[w] <= Cardinality(Workers \ {w}) * MostTaken(r)
    BY <1>1, <1>4, <1>5, <1>6
  <1>8. Cardinality(Workers \ {w}) = Cardinality(Workers) - 1
    BY WorkersCount
  <1> QED BY <1>3, <1>7, <1>8 DEF f, Claims

\* A step after which the changed request claims no more, or no more than the
\* stock it has checked.
LEMMA ClaimsCoveredStep ==
    ASSUME Bounded, OversellInv, CartsInv', NEW w \in Workers,
           \A v \in Workers \ {w} : req'[v] = req[v],
           \A r \in Rows :
              \/ stock'[r] - Claim(req'[w], r) >= stock[r] - Claim(req[w], r)
              \/ Claim(req'[w], r) <= stock'[r]
    PROVE  ClaimsCovered'
  <1>1. ASSUME NEW r \in Rows
        PROVE  stock'[r] - Claims(req', r) >= 0 - (Cardinality(Workers) - 1) * MostTaken(r)
    <2>1. req \in [Workers -> Request] /\ req' \in [Workers -> Request]
          /\ stock \in [Rows -> Int] /\ stock' \in [Rows -> Int]
      BY DEF OversellInv, CartsInv, LedgerInv, TypeOK
    <2>2. /\ Claims(req', r) = Claims(req, r) - Claim(req[w], r) + Claim(req'[w], r)
          /\ Claims(req, r) \in Int /\ Claims(req', r) \in Int
          /\ Claim(req[w], r) \in Nat /\ Claim(req'[w], r) \in Nat
      BY <2>1, ClaimsChange
    <2> DEFINE most == (Cardinality(Workers) - 1) * MostTaken(r)
    <2>3. most \in Int
      <3>1. Cardinality(Workers) - 1 \in Nat
        BY WorkersCount
      <3>2. MostTaken(r) \in Int
        BY MostTakenBounds DEF Bounded
      <3> QED BY <3>1, <3>2
    <2>4. stock[r] - Claims(req, r) >= 0 - most
      BY DEF OversellInv, ClaimsCovered
    <2>5. Claims(req, r) - Claim(req[w], r) <= most
      BY OtherClaims DEF OversellInv
    <2>6. stock[r] \in Int /\ stock'[r] \in Int
      BY <2>1
    <2> HIDE DEF most
    <2>7. stock'[r] - Claims(req', r) >= 0 - most
      <3>1. CASE stock'[r] - Claim(req'[w], r) >= stock[r] - Claim(req[w], r)
        BY <2>2, <2>3, <2>4, <2>6, <3>1
      <3>2. CASE Claim(req'[w], r) <= stock'[r]
        BY <2>2, <2>3, <2>5, <2>6, <3>2
      <3> QED BY <3>1, <3>2
    <2> QED BY <2>7 DEF most
  <1> QED BY <1>1 DEF ClaimsCovered

LEMMA StartClaims ==
    ASSUME CartsInv, NEW w \in Workers, Start(w), NEW r \in Rows
    PROVE  /\ Claim(req'[w], r) = 0
           /\ \A v \in Workers \ {w} : req'[v] = req[v]
           /\ stock' = stock
  <1>1. \E op, o, row, amt, pc :
           /\ Begin(w, op, o, row, amt, pc)
           /\ pc \in {"write", "reread", "validate", "lines"}
    BY DEF Start, StartCreate, StartHold, StartConfirm, StartCancel, StartAsk,
           StartReturn, StartPartial, StartReject
  <1>2. PICK op, o, row, amt, pc :
           /\ Begin(w, op, o, row, amt, pc)
           /\ pc \in {"write", "reread", "validate", "lines"}
    BY <1>1
  <1> DEFINE p == [Idle EXCEPT !.pc = pc, !.op = op, !.oid = o, !.seen = row,
                     !.amt = amt, !.todo = {l \in Lines : amt[l] > 0}]
  <1>3. req' = [req EXCEPT ![w] = p] /\ stock' = stock
    BY <1>2 DEF Begin
  <1>4. p.pc = pc /\ p.amt = amt /\ p.todo = {l \in Lines : amt[l] > 0}
    BY DEF Idle
  <1> HIDE DEF p
  <1>5. TypeOK' /\ req \in [Workers -> Request]
    BY StartType DEF CartsInv, LedgerInv, TypeOK
  <1>6. p \in Request /\ req'[w] = p /\ \A v \in Workers \ {w} : req'[v] = req[v]
    BY <1>3, <1>5 DEF TypeOK
  <1>7. \A l \in Lines : l \notin p.todo => p.amt[l] = 0
    BY <1>4, <1>6, RequestFields DEF Cart
  <1>8. Claim(p, r) = 0
    BY <1>2, <1>4, <1>6, <1>7, ClaimFresh
  <1> QED BY <1>3, <1>6, <1>8

\* A statement leaves its request's claim as it was, or has just checked it.
LEMMA StatementClaims ==
    ASSUME LedgerInv, NEW w \in Workers, Statement(w), NEW x \in Rows
    PROVE  Claim(req'[w], x) = Claim(req[w], x) \/ Claim(req'[w], x) <= stock[x]
                                                \/ Claim(req'[w], x) = 0
  <1> DEFINE q == req[w]
             p == req'[w]
             Goal == Claim(p, x) = Claim(q, x) \/ Claim(p, x) <= stock[x] \/ Claim(p, x) = 0
  <1>1. TypeOK /\ TypeOK' /\ q \in Request /\ p \in Request /\ Balanced(q)
    BY StatementType DEF LedgerInv, TypeOK
  <1>2. CASE Reread(w)
    <2>1. p.op = "return"
      BY <1>1, <1>2 DEF Reread, TypeOK, WellFormed, Request
    <2> QED BY <2>1 DEF Claim, Selling
  <1>3. CASE Validate(w) \/ Consume(w)
    <2>1. /\ p.op = q.op /\ p.todo = q.todo /\ p.amt = q.amt
          /\ q.pc \in {"validate", "consume", "lines"}
          /\ p.pc \in {"consume", "lines", "commit"}
      BY <1>1, <1>3 DEF Validate, Consume, LinesDone, TypeOK, Request
    <2> HIDE DEF p, q
    <2>2. ASSUME NEW l \in Lines
          PROVE  CheckedUnits(p, x)[l] = CheckedUnits(q, x)[l]
      BY <2>1 DEF CheckedUnits, Checked
    <2>3. Claim(p, x) = Claim(q, x)
      BY <1>1, <2>1, <2>2, ClaimSame DEF p, q
    <2> QED BY <2>3 DEF p, q
  <1>4. ASSUME NEW l \in Lines, StartLine(w, l) PROVE Goal
    <2>1. /\ q.pc = "lines" /\ l \in q.todo
          /\ p.op = q.op /\ p.amt = q.amt
          /\ p.todo = q.todo \ {l} /\ p.line = l /\ p.part = RowsOf(l)
          /\ p.pc \in {"lines", "check", "apply"} /\ (p.pc = "lines" => RowsOf(l) = {})
          /\ p.pc = "apply" => ~Selling(q)
      BY <1>1, <1>4 DEF StartLine, TypeOK, Request, Deducts, Selling
    <2> HIDE DEF p, q
    <2> QED BY <1>1, <2>1, ClaimLine
  <1>5. ASSUME NEW r \in Rows, CheckRow(w, r) PROVE Goal
    <2>1. q.pc = "check" /\ q.line \in Lines /\ r \in q.part
          /\ Visible(w, r) >= Amount(w, r)
      BY <1>1, <1>5 DEF CheckRow, TypeOK, WellFormed
    <2>2. /\ p.op = q.op /\ p.amt = q.amt /\ p.todo = q.todo /\ p.line = q.line
          /\ \/ p.pc = "check" /\ p.part = q.part \ {r}
             \/ p.pc = "apply" /\ q.part \ {r} = {}
      BY <1>1, <1>5 DEF CheckRow, TypeOK, Request
    <2>3. /\ stock[r] + q.delta[r] >= q.amt[q.line] * Need[q.line][r]
          /\ stock[r] \in Int /\ q.delta[r] \in Int
          /\ q.amt[q.line] * Need[q.line][r] \in Int
      BY <1>1, <2>1, RequestFields, UnitsAreNat DEF Visible, Amount, TypeOK
    <2> HIDE DEF p, q
    <2>4. \/ p.pc = "check" /\ p.part = q.part \ {r}
          \/ p.pc = "apply" /\ q.part = {r}
      BY <2>1, <2>2
    <2>5. /\ \A y \in Rows \ {r} : Claim(p, y) = Claim(q, y)
          /\ Selling(q) => Claim(p, r) = q.amt[q.line] * Need[q.line][r] - q.delta[r]
          /\ ~Selling(q) => Claim(p, r) = 0
      BY <1>1, <2>1, <2>2, <2>4, ClaimCheck
    <2>6. CASE x # r
      BY <2>5, <2>6
    <2>7. CASE x = r
      BY <2>3, <2>5, <2>7
    <2> QED BY <2>6, <2>7
  <1>6. ASSUME NEW r \in Rows, ApplyRow(w, r) PROVE Goal
    <2>1. /\ q.pc = "apply" /\ p.op = q.op /\ p.amt = q.amt /\ p.todo = q.todo
          /\ p.pc \in {"apply", "lines"}
      BY <1>1, <1>6 DEF ApplyRow, TypeOK, Request
    <2> HIDE DEF p, q
    <2> QED BY <1>1, <2>1, ClaimApply
  <1> HIDE DEF Goal
  <1> QED BY <1>2, <1>3, <1>4, <1>5, <1>6 DEF Statement, Goal

\* What a request that ends takes is what it claimed, or nothing.
LEMMA FinishClaims ==
    ASSUME LedgerInv, NEW w \in Workers, Finish(w), NEW r \in Rows
    PROVE  stock'[r] >= stock[r] - Claim(req[w], r) /\ Claim(req'[w], r) = 0
  <1>1. req' = [req EXCEPT ![w] = Idle] /\ req \in [Workers -> Request]
        /\ stock \in [Rows -> Int] /\ req[w] \in Request
    BY FinishLedger DEF LedgerInv, TypeOK
  <1>2. Claim(req'[w], r) = 0
    BY <1>1, IdleClaim
  <1>3. Claim(req[w], r) \in Nat /\ stock[r] \in Int /\ req[w].delta[r] \in Int
    BY <1>1, CheckedNat, RequestFields
  <1>4. CASE stock' = stock
    BY <1>2, <1>3, <1>4
  <1>5. ASSUME NEW row, Commit(w, row)
        PROVE  stock'[r] >= stock[r] - Claim(req[w], r)
    <2>1. stock'[r] = stock[r] + req[w].delta[r] /\ ReadyToCommit(w)
      BY <1>5 DEF Commit
    <2>2. req[w].delta[r] >= 0 - Claim(req[w], r)
      BY <2>1, ClaimCommit
    <2> QED BY <1>3, <2>1, <2>2
  <1>6. stock' = stock \/ \E row : Commit(w, row)
    BY DEF Finish, WriteHold, WriteAsk, WriteReject, Write, Fail, CommitCreate,
           CommitConfirm, CommitCancel, CommitReturn, CommitPartial
  <1> QED BY <1>2, <1>4, <1>5, <1>6

LEMMA OversellNext ==
    ASSUME Bounded PROVE OversellInv /\ [Next]_vars => OversellInv'
  <1> SUFFICES ASSUME OversellInv, [Next]_vars PROVE OversellInv'
    OBVIOUS
  <1>1. CartsInv' /\ CartsInv /\ LedgerInv /\ TypeOK /\ TypeOK'
    BY CartsNext DEF OversellInv, CartsInv, LedgerInv
  <1>2. ASSUME NEW w \in Workers, NEW r \in Rows
        PROVE  stock[r] \in Int /\ Claim(req[w], r) \in Nat /\ Claim(req'[w], r) \in Nat
    <2>1. req[w] \in Request /\ req'[w] \in Request /\ stock[r] \in Int
      BY <1>1 DEF TypeOK
    <2> QED BY <2>1, CheckedNat
  <1>3. ASSUME NEW w \in Workers, Start(w) PROVE ClaimsCovered'
    <2>1. \A r \in Rows : /\ Claim(req'[w], r) = 0
                          /\ \A v \in Workers \ {w} : req'[v] = req[v]
                          /\ stock' = stock
      BY <1>1, <1>3, StartClaims
    <2>2. \A r \in Rows : stock'[r] - Claim(req'[w], r) >= stock[r] - Claim(req[w], r)
      BY <1>2, <2>1
    <2>3. CASE Rows = {}
      BY <2>3 DEF ClaimsCovered
    <2>4. CASE Rows # {}
      BY <1>1, <2>1, <2>2, <2>4, ClaimsCoveredStep
    <2> QED BY <2>3, <2>4
  <1>4. ASSUME NEW w \in Workers, Statement(w) PROVE ClaimsCovered'
    <2>1. req' = [req EXCEPT ![w] = req'[w]] /\ stock' = stock
      BY <1>1, <1>4, StatementLocal
    <2>2. \A v \in Workers \ {w} : req'[v] = req[v]
      BY <1>1, <2>1 DEF TypeOK
    <2>3. ASSUME NEW r \in Rows
          PROVE  \/ stock'[r] - Claim(req'[w], r) >= stock[r] - Claim(req[w], r)
                 \/ Claim(req'[w], r) <= stock'[r]
      <3>1. \/ Claim(req'[w], r) = Claim(req[w], r) \/ Claim(req'[w], r) <= stock[r]
            \/ Claim(req'[w], r) = 0
        BY <1>1, <1>4, StatementClaims
      <3> QED BY <1>2, <2>1, <3>1
    <2> QED BY <1>1, <2>2, <2>3, ClaimsCoveredStep
  <1>5. ASSUME NEW w \in Workers, Finish(w) PROVE ClaimsCovered'
    <2>1. req' = [req EXCEPT ![w] = Idle]
      BY <1>1, <1>5, FinishLedger
    <2>2. \A v \in Workers \ {w} : req'[v] = req[v]
      BY <1>1, <2>1 DEF TypeOK
    <2>3. ASSUME NEW r \in Rows
          PROVE  stock'[r] - Claim(req'[w], r) >= stock[r] - Claim(req[w], r)
      <3>1. stock'[r] >= stock[r] - Claim(req[w], r) /\ Claim(req'[w], r) = 0
        BY <1>1, <1>5, FinishClaims
      <3>2. stock'[r] \in Int
        BY <1>1 DEF TypeOK
      <3> QED BY <1>2, <3>1, <3>2
    <2> QED BY <1>1, <2>2, <2>3, ClaimsCoveredStep
  <1>6. CASE UNCHANGED vars
    <2>1. req' = req /\ stock' = stock
      BY <1>6 DEF vars
    <2>2. ClaimsCovered'
      BY <2>1 DEF OversellInv, ClaimsCovered
    <2> QED BY <1>1, <2>2 DEF OversellInv
  <1> QED BY <1>1, <1>3, <1>4, <1>5, <1>6 DEF Next, OversellInv

LEMMA OversellInit == ASSUME Bounded PROVE Init => OversellInv
  <1> SUFFICES ASSUME Init PROVE OversellInv
    OBVIOUS
  <1>1. CartsInv
    BY CartsInit
  <1>2. ASSUME NEW r \in Rows
        PROVE  stock[r] - Claims(req, r) >= 0 - (Cardinality(Workers) - 1) * MostTaken(r)
    <2> DEFINE f == [w \in Workers |-> Claim(req[w], r)]
    <2>1. \A w \in Workers : f[w] = 0
      BY IdleClaim DEF Init
    <2> HIDE DEF f
    <2>2. SumFunctionOnSet(f, Workers) = 0
      BY <2>1, SumZero DEF Bounded
    <2>3. Claims(req, r) = 0
      BY <2>2 DEF f, Claims
    <2>4. (Cardinality(Workers) - 1) * MostTaken(r) \in Nat
      <3>1. PICK w : w \in Workers
        BY DEF Bounded
      <3>2. Cardinality(Workers) - 1 \in Nat /\ MostTaken(r) \in Nat
        BY <3>1, WorkersCount, MostTakenBounds DEF Bounded
      <3> QED BY <3>2
    <2>5. stock[r] \in Nat
      BY StockAssumption DEF Init
    <2> QED BY <2>3, <2>4, <2>5
  <1> QED BY <1>1, <1>2 DEF OversellInv, ClaimsCovered

\* However the requests interleave, overlap and fail, a row is oversold by at
\* most what n - 1 carts take from it: the check of deductLine, made before the
\* row is locked, still holds each request to what it saw.
THEOREM OversellIsBounded ==
    ASSUME Bounded PROVE Spec => []OversellBounded
  <1>1. OversellInv => OversellBounded
    <2> SUFFICES ASSUME OversellInv, NEW r \in Rows
                 PROVE  stock[r] >= 0 - (Cardinality(Workers) - 1) * MostTaken(r)
      BY DEF OversellBounded
    <2> DEFINE f == [w \in Workers |-> Claim(req[w], r)]
    <2>1. \A w \in Workers : f[w] \in Nat
      BY CheckedNat DEF OversellInv, CartsInv, LedgerInv, TypeOK
    <2> HIDE DEF f
    <2>2. SumFunctionOnSet(f, Workers) \in Nat
      BY <2>1, SumNat DEF Bounded
    <2>3. Claims(req, r) \in Nat
      BY <2>2 DEF f, Claims
    <2>4. stock[r] \in Int /\ (Cardinality(Workers) - 1) * MostTaken(r) \in Int
      <3>1. PICK w : w \in Workers
        BY DEF Bounded
      <3>2. Cardinality(Workers) - 1 \in Nat /\ MostTaken(r) \in Nat
        BY <3>1, WorkersCount, MostTakenBounds DEF Bounded
      <3>3. stock[r] \in Int
        BY DEF OversellInv, CartsInv, LedgerInv, TypeOK
      <3> QED BY <3>2, <3>3
    <2>5. stock[r] - Claims(req, r) >= 0 - (Cardinality(Workers) - 1) * MostTaken(r)
      BY DEF OversellInv, ClaimsCovered
    <2> QED BY <2>3, <2>4, <2>5
  <1> QED BY <1>1, OversellInit, OversellNext, PTL DEF Spec

-----------------------------------------------------------------------------
(* Uses of the discount code. *)

\* The request has counted a use and has not yet committed its sale.
Counted(q) ==
    \/ q.op = "create" /\ q.pc = "commit"
    \/ q.op = "confirm" /\ q.seen.coded /\ q.pc \in {"lines", "check", "apply"}
Counting == {w \in Workers : Counted(req[w])}

\* A new order has one request; every other request knows whether its order
\* carries the code.
CodeKnown(w) ==
    req[w].pc # "idle" =>
        IF req[w].op = "create"
        THEN /\ order[req[w].oid].status = "absent"
             /\ \A v \in Workers \ {w} : req[v].oid # req[w].oid
        ELSE /\ order[req[w].oid].status # "absent"
             /\ req[w].seen.coded = order[req[w].oid].coded

\* Only create and confirm ask for the code, and only create counts it last.
CodeSteps(q) ==
    /\ q.pc = "consume" => q.op = "confirm"
    /\ q.pc = "commit" => q.op = "create"

UsesInv ==
    /\ TypeOK
    /\ \A w \in Workers : CodeKnown(w) /\ CodeSteps(req[w])
    /\ Cardinality(SoldWithCode) + Cardinality(Counting) <= used

\* The effect of a step on the uses: the request's, and the order's.
LEMMA UsesCount ==
    ASSUME UsesInv, IsFiniteSet(Workers), TypeOK', NEW w \in Workers, NEW o \in OrderIds,
           \A v \in Workers \ {w} : req'[v] = req[v],
           \A x \in OrderIds \ {o} : order'[x] = order[x],
           \/ /\ o \in SoldWithCode' => o \in SoldWithCode
              /\ Counted(req'[w]) => Counted(req[w])
              /\ used' = used
           \/ /\ o \in SoldWithCode' => o \in SoldWithCode
              /\ used' = used + 1
           \/ /\ Counted(req[w]) /\ ~Counted(req'[w])
              /\ used' = used
    PROVE  Cardinality(SoldWithCode') + Cardinality(Counting') <= used'
  <1> DEFINE C == Counting
             D == Counting'
             S == SoldWithCode
             T == SoldWithCode'
  <1>1. /\ C \subseteq Workers /\ D \subseteq C \cup {w}
        /\ (Counted(req'[w]) => Counted(req[w])) => D \subseteq C
        /\ (~Counted(req'[w])) => w \notin D
        /\ Counted(req[w]) => w \in C
    BY DEF Counting
  <1>2. /\ S \subseteq OrderIds /\ T \subseteq S \cup {o}
        /\ (o \in T => o \in S) => T \subseteq S
    BY DEF SoldWithCode
  <1>3. IsFiniteSet(C) /\ IsFiniteSet(S)
    BY <1>1, <1>2, FiniteAssumption, FS_Subset
  <1>4. Cardinality(S) + Cardinality(C) <= used /\ used \in Nat /\ used' \in Nat
    BY DEF UsesInv, TypeOK
  <1> HIDE DEF C, D, S, T
  <1>5. /\ IsFiniteSet(S \cup {o}) /\ Cardinality(S \cup {o}) <= Cardinality(S) + 1
        /\ IsFiniteSet(C \cup {w}) /\ Cardinality(C \cup {w}) <= Cardinality(C) + 1
        /\ Cardinality(S) \in Nat /\ Cardinality(C) \in Nat
    <2>1. Cardinality(S) \in Nat /\ Cardinality(C) \in Nat
      BY <1>3, FS_CardinalityType
    <2>2. IsFiniteSet(S \cup {o})
          /\ Cardinality(S \cup {o}) = IF o \in S THEN Cardinality(S) ELSE Cardinality(S) + 1
      BY <1>3, FS_AddElement
    <2>3. IsFiniteSet(C \cup {w})
          /\ Cardinality(C \cup {w}) = IF w \in C THEN Cardinality(C) ELSE Cardinality(C) + 1
      BY <1>3, FS_AddElement
    <2> QED BY <2>1, <2>2, <2>3
  <1>6. /\ IsFiniteSet(T) /\ Cardinality(T) <= Cardinality(S \cup {o}) /\ Cardinality(T) \in Nat
        /\ T \subseteq S => Cardinality(T) <= Cardinality(S)
    BY <1>2, <1>3, <1>5, FS_Subset, FS_CardinalityType
  <1>7. /\ IsFiniteSet(D) /\ Cardinality(D) <= Cardinality(C \cup {w}) /\ Cardinality(D) \in Nat
        /\ D \subseteq C => Cardinality(D) <= Cardinality(C)
    BY <1>1, <1>3, <1>5, FS_Subset, FS_CardinalityType
  <1>c. Cardinality(S \cup {o}) \in Nat /\ Cardinality(C \cup {w}) \in Nat
    BY <1>5, FS_CardinalityType
  <1>8. ASSUME T \subseteq S, D \subseteq C, used' = used
        PROVE  Cardinality(T) + Cardinality(D) <= used'
    BY <1>4, <1>5, <1>6, <1>7, <1>8
  <1>9. ASSUME T \subseteq S, used' = used + 1
        PROVE  Cardinality(T) + Cardinality(D) <= used'
    BY <1>4, <1>5, <1>6, <1>7, <1>9, <1>c
  <1>10. ASSUME w \in C, w \notin D, used' = used
         PROVE  Cardinality(T) + Cardinality(D) <= used'
    <2>1. IsFiniteSet(C \ {w}) /\ Cardinality(C \ {w}) = Cardinality(C) - 1
      BY <1>3, <1>10, FS_RemoveElement
    <2>2. D \subseteq C \ {w}
      BY <1>1, <1>10
    <2>3. Cardinality(D) <= Cardinality(C \ {w})
      BY <2>1, <2>2, FS_Subset
    <2> QED BY <1>4, <1>5, <1>6, <1>7, <1>10, <1>c, <2>1, <2>3
  <1>11. \/ T \subseteq S /\ D \subseteq C /\ used' = used
         \/ T \subseteq S /\ used' = used + 1
         \/ w \in C /\ w \notin D /\ used' = used
    BY <1>1, <1>2 DEF S, T
  <1>12. Cardinality(T) + Cardinality(D) <= used'
    BY <1>8, <1>9, <1>10, <1>11
  <1> QED BY <1>12 DEF D, T

LEMMA StartUses ==
    ASSUME UsesInv, IsFiniteSet(Workers), NEW w \in Workers, Start(w)
    PROVE  UsesInv'
  <1>1. PICK o \in OrderIds :
         \/ StartCreate(w, o)
         \/ StartHold(w, o)
         \/ StartConfirm(w, o)
         \/ StartCancel(w, o)
         \/ StartAsk(w, o)
         \/ StartReturn(w, o)
         \/ StartPartial(w, o)
         \/ StartReject(w, o)
    BY DEF Start
  <1>t. TypeOK /\ TypeOK' /\ req \in [Workers -> Request] /\ order \in [OrderIds -> OrderRow]
    BY StartType DEF UsesInv, TypeOK
  <1>2. ASSUME NEW op, NEW row, NEW amt, NEW pc, Begin(w, op, o, row, amt, pc),
               pc \in {"write", "reread", "validate", "lines"},
               op = "confirm" /\ row.coded => pc # "lines",
               IF op = "create" THEN order[o].status = "absent" /\ Untouched(o)
                                ELSE order[o].status # "absent" /\ row = order[o]
        PROVE  UsesInv'
    <2> DEFINE p == [Idle EXCEPT !.pc = pc, !.op = op, !.oid = o, !.seen = row,
                       !.amt = amt, !.todo = {l \in Lines : amt[l] > 0}]
    <2>1. req' = [req EXCEPT ![w] = p] /\ UNCHANGED <<order, out, stock, used>>
      BY <1>2 DEF Begin
    <2>2. p.pc = pc /\ p.op = op /\ p.oid = o /\ p.seen = row
      BY DEF Idle
    <2> HIDE DEF p
    <2>3. req'[w] = p /\ \A v \in Workers \ {w} : req'[v] = req[v]
      BY <1>t, <2>1
    <2>4. CodeSteps(p) /\ ~Counted(p)
      BY <1>2, <2>2 DEF CodeSteps, Counted
    <2>5. ASSUME NEW v \in Workers PROVE CodeKnown(v)' /\ CodeSteps(req'[v])
      <3>1. CASE v = w
        BY <1>2, <2>1, <2>2, <2>3, <2>4, <3>1 DEF CodeKnown, Untouched
      <3>2. CASE v # w
        <4>1. CodeKnown(v) /\ CodeSteps(req[v]) /\ req'[v] = req[v]
          BY <2>3, <3>2 DEF UsesInv
        <4>2. req[v].op = "create" /\ req[v].pc # "idle" => req[v].oid # o
          BY <1>2, <4>1 DEF CodeKnown, Untouched
        <4>3. CodeKnown(v)'
          BY <2>1, <2>2, <2>3, <3>2, <4>1, <4>2 DEF CodeKnown
        <4> QED BY <4>1, <4>3
      <3> QED BY <3>1, <3>2
    <2>6. o \in SoldWithCode' => o \in SoldWithCode
      BY <2>1 DEF SoldWithCode
    <2>7. Cardinality(SoldWithCode') + Cardinality(Counting') <= used'
      BY <1>t, <2>1, <2>3, <2>4, <2>6, UsesCount
    <2> QED BY <1>t, <2>5, <2>7 DEF UsesInv
  <1>3. CASE StartCreate(w, o)
    <2>1. PICK st \in CreateStatuses, cart \in Carts, code \in Codes :
             Begin(w, "create", o,
                [Absent EXCEPT !.status = st, !.qty = cart, !.coded = code],
                IF st \in Deducted THEN cart ELSE NoUnits,
                IF code THEN "validate" ELSE "lines")
      BY <1>3 DEF StartCreate
    <2> DEFINE row == [Absent EXCEPT !.status = st, !.qty = cart, !.coded = code]
               amt == IF st \in Deducted THEN cart ELSE NoUnits
               pc == IF code THEN "validate" ELSE "lines"
    <2>2. pc \in {"write", "reread", "validate", "lines"}
      OBVIOUS
    <2>3. order[o].status = "absent" /\ Untouched(o)
      BY <1>3 DEF StartCreate
    <2> HIDE DEF row, amt, pc
    <2>4. Begin(w, "create", o, row, amt, pc)
      BY <2>1 DEF row, amt, pc
    <2> QED BY <1>2, <2>2, <2>3, <2>4
  <1>4. CASE StartConfirm(w, o)
    <2> DEFINE pc == IF order[o].coded THEN "validate" ELSE "lines"
    <2>1. Begin(w, "confirm", o, order[o], order[o].qty, pc)
          /\ pc \in {"write", "reread", "validate", "lines"}
          /\ (order[o].coded => pc # "lines") /\ order[o].status # "absent"
      BY <1>4 DEF StartConfirm
    <2> HIDE DEF pc
    <2> QED BY <1>2, <2>1
  <1>5. CASE StartCancel(w, o) \/ StartHold(w, o) \/ StartAsk(w, o) \/ StartReturn(w, o)
             \/ StartReject(w, o) \/ StartPartial(w, o)
    <2>1. \E op, amt, pc :
             /\ Begin(w, op, o, order[o], amt, pc) /\ op \notin {"create", "confirm"}
             /\ pc \in {"write", "reread", "validate", "lines"}
      BY <1>5 DEF StartCancel, StartHold, StartAsk, StartReturn, StartReject, StartPartial
    <2>2. order[o].status # "absent"
      BY <1>5 DEF StartCancel, StartHold, StartAsk, StartReturn, StartReject, StartPartial,
             Returnable, PendingReturn, Deducted
    <2> QED BY <1>2, <2>1, <2>2
  <1> QED BY <1>1, <1>3, <1>4, <1>5

LEMMA StatementUses ==
    ASSUME UsesInv, IsFiniteSet(Workers), NEW w \in Workers, Statement(w)
    PROVE  UsesInv'
  <1> DEFINE q == req[w]
             p == req'[w]
  <1>1. /\ TypeOK /\ TypeOK' /\ q \in Request /\ WellFormed(q)
        /\ req' = [req EXCEPT ![w] = p] /\ UNCHANGED <<order, out, stock>>
        /\ req \in [Workers -> Request]
    BY StatementLocal, StatementType DEF UsesInv, TypeOK
  <1> DEFINE Kept == /\ p.op = q.op /\ p.oid = q.oid /\ q.pc # "idle"
                     /\ \/ p.seen = q.seen
                        \/ q.op = "return" /\ p.seen = order[q.oid]
                     /\ \/ used' = used /\ CodeSteps(p) /\ (Counted(p) => Counted(q))
                        \/ used' = used + 1 /\ CodeSteps(p)
  <1>s. CodeSteps(q) /\ CodeKnown(w)
    BY DEF UsesInv
  <1>2. Kept
    <2>1. CASE Reread(w)
      <3>1. /\ q.op = "return" /\ q.pc = "reread" /\ p.op = q.op /\ p.oid = q.oid
            /\ p.seen = order[q.oid] /\ p.pc = "lines" /\ used' = used
        BY <1>1, <2>1 DEF Reread, Request, WellFormed
      <3> HIDE DEF p, q
      <3> QED BY <3>1 DEF CodeSteps, Counted
    <2>2. CASE Validate(w)
      <3>1. /\ p.op = q.op /\ p.oid = q.oid /\ p.seen = q.seen /\ used' = used
            /\ q.pc = "validate" /\ p.pc = IF q.op = "confirm" THEN "consume" ELSE "lines"
        BY <1>1, <2>2 DEF Validate, Request
      <3> HIDE DEF p, q
      <3> QED BY <3>1 DEF CodeSteps, Counted
    <2>3. CASE Consume(w)
      <3>1. /\ p.op = q.op /\ p.oid = q.oid /\ p.seen = q.seen /\ used' = used + 1
            /\ q.pc = "consume" \/ (q.pc = "lines" /\ q.op = "create")
            /\ p.pc = IF q.op = "confirm" THEN "lines" ELSE "commit"
        BY <1>1, <2>3 DEF Consume, LinesDone, ConsumeDue, Request
      <3> HIDE DEF p, q
      <3> QED BY <1>s, <3>1 DEF CodeSteps, Counted
    <2>4. ASSUME /\ p.op = q.op /\ p.oid = q.oid /\ p.seen = q.seen /\ used' = used
                 /\ q.pc \in {"lines", "check", "apply"}
                 /\ p.pc \in {"lines", "check", "apply"}
          PROVE  Kept
      <3> HIDE DEF p, q
      <3> QED BY <2>4 DEF CodeSteps, Counted
    <2>5. ASSUME NEW l \in Lines, StartLine(w, l) PROVE Kept
      <3>1. /\ p.op = q.op /\ p.oid = q.oid /\ p.seen = q.seen /\ used' = used
            /\ q.pc \in {"lines", "check", "apply"}
            /\ p.pc \in {"lines", "check", "apply"}
        BY <1>1, <2>5 DEF StartLine, Request
      <3> QED BY <2>4, <3>1
    <2>6. ASSUME NEW r \in Rows, CheckRow(w, r) PROVE Kept
      <3>1. /\ p.op = q.op /\ p.oid = q.oid /\ p.seen = q.seen /\ used' = used
            /\ q.pc \in {"lines", "check", "apply"}
            /\ p.pc \in {"lines", "check", "apply"}
        BY <1>1, <2>6 DEF CheckRow, Request
      <3> QED BY <2>4, <3>1
    <2>7. ASSUME NEW r \in Rows, ApplyRow(w, r) PROVE Kept
      <3>1. /\ p.op = q.op /\ p.oid = q.oid /\ p.seen = q.seen /\ used' = used
            /\ q.pc \in {"lines", "check", "apply"}
            /\ p.pc \in {"lines", "check", "apply"}
        BY <1>1, <2>7 DEF ApplyRow, Request
      <3> QED BY <2>4, <3>1
    <2> HIDE DEF Kept
    <2> QED BY <2>1, <2>2, <2>3, <2>5, <2>6, <2>7 DEF Statement
  <1>3. \A v \in Workers \ {w} : req'[v] = req[v]
    BY <1>1
  <1>4. q.oid \in OrderIds
    BY <1>1, <1>2 DEF WellFormed
  <1> HIDE DEF p
  <1>5. ASSUME NEW v \in Workers PROVE CodeKnown(v)' /\ CodeSteps(req'[v])
    <2>1. CASE v = w
      <3>1. CodeSteps(req'[v])
        BY <1>2, <2>1 DEF p
      <3>2. CodeKnown(v)'
        BY <1>1, <1>2, <1>3, <1>s, <2>1 DEF CodeKnown, p
      <3> QED BY <3>1, <3>2
    <2>2. CASE v # w
      <3>1. CodeKnown(v) /\ CodeSteps(req[v]) /\ req'[v] = req[v]
        BY <1>3, <2>2 DEF UsesInv
      <3>2. \A u \in Workers : req'[u].oid = req[u].oid
        BY <1>2, <1>3 DEF p
      <3>3. CodeKnown(v)'
        BY <1>1, <3>1, <3>2 DEF CodeKnown
      <3> QED BY <3>1, <3>3
    <2> QED BY <2>1, <2>2
  <1>6. Cardinality(SoldWithCode') + Cardinality(Counting') <= used'
    <2>1. \A o \in OrderIds : o \in SoldWithCode' => o \in SoldWithCode
      BY <1>1 DEF SoldWithCode
    <2>2. PICK o \in OrderIds : o = q.oid
      BY <1>4
    <2> QED BY <1>1, <1>2, <1>3, <2>1, UsesCount DEF p
  <1> QED BY <1>1, <1>5, <1>6 DEF UsesInv

\* What a request other than create writes keeps the order's code, and sells the
\* order only if it confirms it.
LEMMA WriteKeepsCode ==
    ASSUME UsesInv, NEW w \in Workers, Finish(w), ~Fail(w), req[w].op # "create"
    PROVE  /\ req[w].pc # "idle"
           /\ req[w].op = "confirm" => ReadyToCommit(w)
           /\ \E row :
                /\ order' = [order EXCEPT ![req[w].oid] = row]
                /\ row.coded = order[req[w].oid].coded
                /\ row.status # "absent"
                /\ row.status \in Deducted =>
                      req[w].op = "confirm" \/ order[req[w].oid].status \in Deducted
  <1> DEFINE q == req[w]
             old == order[q.oid]
  <1>p. q.pc # "idle" /\ (q.op = "confirm" => ReadyToCommit(w))
    <2>1. CASE WriteHold(w) \/ WriteAsk(w) \/ WriteReject(w)
      BY <2>1 DEF WriteHold, WriteAsk, WriteReject, Write
    <2>2. CASE CommitCreate(w) \/ CommitConfirm(w) \/ CommitCancel(w) \/ CommitReturn(w)
               \/ CommitPartial(w)
      <3>1. ReadyToCommit(w)
        BY <2>2 DEF CommitCreate, CommitConfirm, CommitCancel, CommitReturn, CommitPartial, Commit
      <3> QED BY <3>1 DEF ReadyToCommit, LinesDone
    <2> QED BY <2>1, <2>2 DEF Finish
  <1>2. /\ old \in OrderRow /\ old.status # "absent" /\ q.oid \in OrderIds
    BY <1>p DEF UsesInv, CodeKnown, TypeOK, WellFormed
  <1> DEFINE Row(row) == /\ order' = [order EXCEPT ![q.oid] = row]
                         /\ row.coded = old.coded
                         /\ row.status # "absent"
                         /\ row.status \in Deducted => q.op = "confirm" \/ old.status \in Deducted
  <1>3. CASE WriteHold(w)
    <2> DEFINE row == [old EXCEPT !.status = "HELD"]
    <2>1. row.status = "HELD" /\ row.coded = old.coded
      BY <1>2 DEF OrderRow
    <2>2. order' = [order EXCEPT ![q.oid] = row]
      BY <1>3 DEF WriteHold, Write
    <2> HIDE DEF row, q, old
    <2>3. Row(row)
      BY <2>1, <2>2 DEF Deducted
    <2> QED BY <1>p, <2>3 DEF q, old
  <1>4. CASE WriteAsk(w) \/ WriteReject(w)
    <2>1. PICK b : order' = [order EXCEPT ![q.oid] = [old EXCEPT !.asked = b]]
      BY <1>4 DEF WriteAsk, WriteReject, Write
    <2> DEFINE row == [old EXCEPT !.asked = b]
    <2>2. row.status = old.status /\ row.coded = old.coded
      BY <1>2 DEF OrderRow
    <2>3. order' = [order EXCEPT ![q.oid] = row]
      BY <2>1
    <2> HIDE DEF row, q, old
    <2>4. Row(row)
      BY <1>2, <2>2, <2>3
    <2> QED BY <1>p, <2>4 DEF q, old
  <1>5. CASE CommitConfirm(w)
    <2> DEFINE row == [old EXCEPT !.status = "CONFIRMED"]
    <2>1. row.status = "CONFIRMED" /\ row.coded = old.coded
      BY <1>2 DEF OrderRow
    <2>2. order' = [order EXCEPT ![q.oid] = row] /\ q.op = "confirm"
      BY <1>5 DEF CommitConfirm, Commit
    <2> HIDE DEF row, q, old
    <2>3. Row(row)
      BY <2>1, <2>2
    <2> QED BY <1>p, <2>3 DEF q, old
  <1>6. CASE CommitCancel(w)
    <2> DEFINE row == [old EXCEPT !.status = "CANCELLED",
                                  !.refunded = @ \/ q.seen.status \in Deducted]
    <2>1. row.status = "CANCELLED" /\ row.coded = old.coded
      BY <1>2 DEF OrderRow
    <2>2. order' = [order EXCEPT ![q.oid] = row]
      BY <1>6 DEF CommitCancel, Commit
    <2> HIDE DEF row, q, old
    <2>3. Row(row)
      BY <2>1, <2>2 DEF Deducted
    <2> QED BY <1>p, <2>3 DEF q, old
  <1>7. CASE CommitReturn(w)
    <2> DEFINE row == [old EXCEPT !.status = "RETURNED", !.refunded = TRUE, !.asked = FALSE]
    <2>1. row.status = "RETURNED" /\ row.coded = old.coded
      BY <1>2 DEF OrderRow
    <2>2. order' = [order EXCEPT ![q.oid] = row]
      BY <1>7 DEF CommitReturn, Commit
    <2> HIDE DEF row, q, old
    <2>3. Row(row)
      BY <2>1, <2>2 DEF Deducted
    <2> QED BY <1>p, <2>3 DEF q, old
  <1>8. CASE CommitPartial(w)
    <2>1. PICK u : order' = [order EXCEPT ![q.oid] = [old EXCEPT !.qty = u]]
      BY <1>8 DEF CommitPartial, Commit
    <2> DEFINE row == [old EXCEPT !.qty = u]
    <2>2. row.status = old.status /\ row.coded = old.coded
      BY <1>2 DEF OrderRow
    <2>3. order' = [order EXCEPT ![q.oid] = row]
      BY <2>1
    <2> HIDE DEF row, q, old
    <2>4. Row(row)
      BY <1>2, <2>2, <2>3
    <2> QED BY <1>p, <2>4 DEF q, old
  <1>9. ~CommitCreate(w)
    BY DEF CommitCreate
  <1> HIDE DEF q, old
  <1> QED BY <1>3, <1>4, <1>5, <1>6, <1>7, <1>8, <1>9 DEF Finish

LEMMA FinishUses ==
    ASSUME UsesInv, IsFiniteSet(Workers), NEW w \in Workers, Finish(w)
    PROVE  UsesInv'
  <1> DEFINE q == req[w]
  <1>1. /\ TypeOK /\ TypeOK' /\ q \in Request /\ WellFormed(q)
        /\ req' = [req EXCEPT ![w] = Idle] /\ used' = used
        /\ req \in [Workers -> Request] /\ order \in [OrderIds -> OrderRow]
        /\ CodeKnown(w) /\ CodeSteps(q)
    <2>1. TypeOK'
      BY FinishType DEF UsesInv
    <2>2. req' = [req EXCEPT ![w] = Idle] /\ used' = used
      BY DEF Finish, WriteHold, WriteAsk, WriteReject, Write, Fail, CommitCreate,
           CommitConfirm, CommitCancel, CommitReturn, CommitPartial, Commit
    <2> QED BY <2>1, <2>2 DEF UsesInv, TypeOK
  <1>2. /\ \A v \in Workers \ {w} : req'[v] = req[v]
        /\ req'[w].pc = "idle" /\ req'[w].op = "none" /\ req'[w].oid = NoOrder
        /\ CodeSteps(req'[w]) /\ ~Counted(req'[w])
    BY <1>1 DEF Idle, CodeSteps, Counted
  <1>3. CASE Fail(w)
    <2>1. order' = order
      BY <1>3 DEF Fail
    <2>2. ASSUME NEW v \in Workers PROVE CodeKnown(v)' /\ CodeSteps(req'[v])
      <3>1. CASE v = w
        BY <1>2, <3>1 DEF CodeKnown
      <3>2. CASE v # w
        <4>1. CodeKnown(v) /\ CodeSteps(req[v]) /\ req'[v] = req[v]
          BY <1>2, <3>2 DEF UsesInv
        <4>2. req[v].pc # "idle" => req[v].oid # NoOrder
          BY <1>1, NullAssumption DEF TypeOK, WellFormed
        <4>3. CodeKnown(v)'
          BY <1>2, <2>1, <4>1, <4>2 DEF CodeKnown
        <4> QED BY <4>1, <4>3
      <3> QED BY <3>1, <3>2
    <2>3. q.oid \in OrderIds
      BY <1>1, <1>3 DEF Fail, WellFormed
    <2>4. PICK o \in OrderIds : o = q.oid
      BY <2>3
    <2>5. o \in SoldWithCode' => o \in SoldWithCode
      BY <2>1 DEF SoldWithCode
    <2>6. Cardinality(SoldWithCode') + Cardinality(Counting') <= used'
      BY <1>1, <1>2, <2>1, <2>5, UsesCount
    <2> QED BY <1>1, <2>2, <2>6 DEF UsesInv
  <1>4. ASSUME NEW o \in OrderIds, o = q.oid, NEW row,
               order' = [order EXCEPT ![o] = row], q.pc # "idle",
               q.op # "create" => row.coded = order[o].coded /\ row.status # "absent",
               \/ row.coded /\ row.status \in Deducted => o \in SoldWithCode
               \/ Counted(q)
        PROVE  UsesInv'
    <2>1. order'[o] = row /\ \A x \in OrderIds \ {o} : order'[x] = order[x]
      BY <1>1, <1>4
    <2>2. ASSUME NEW v \in Workers PROVE CodeKnown(v)' /\ CodeSteps(req'[v])
      <3>1. CASE v = w
        BY <1>2, <3>1 DEF CodeKnown
      <3>2. CASE v # w
        <4>1. CodeKnown(v) /\ CodeSteps(req[v]) /\ req'[v] = req[v]
          BY <1>2, <3>2 DEF UsesInv
        <4>2. req[v].pc # "idle" => req[v].oid # NoOrder /\ req[v].oid \in OrderIds
          BY <1>1, NullAssumption DEF TypeOK, WellFormed
        <4>3. CASE req[v].oid # o
          BY <1>2, <2>1, <4>1, <4>2, <4>3 DEF CodeKnown
        <4>4. CASE req[v].oid = o /\ req[v].pc # "idle"
          <5>1. req[v].op # "create"
            BY <1>4, <3>2, <4>1, <4>4 DEF CodeKnown
          <5>2. q.op # "create"
            BY <1>1, <1>4, <3>2, <4>4 DEF CodeKnown
          <5> QED BY <1>2, <1>4, <2>1, <4>1, <4>4, <5>1, <5>2 DEF CodeKnown
        <4>5. CASE req[v].pc = "idle"
          BY <4>1, <4>5 DEF CodeKnown
        <4> QED BY <4>3, <4>4, <4>5
      <3> QED BY <3>1, <3>2
    <2>3. \/ (o \in SoldWithCode' => o \in SoldWithCode) \/ Counted(q)
      BY <1>4, <2>1 DEF SoldWithCode
    <2>4. Cardinality(SoldWithCode') + Cardinality(Counting') <= used'
      BY <1>1, <1>2, <2>1, <2>3, UsesCount
    <2> QED BY <1>1, <2>2, <2>4 DEF UsesInv
  <1>5. CASE CommitCreate(w)
    <2>1. /\ order' = [order EXCEPT ![q.oid] = q.seen] /\ ReadyToCommit(w) /\ q.op = "create"
      BY <1>5 DEF CommitCreate, Commit
    <2>2. q.pc # "idle" /\ q.oid \in OrderIds
      BY <1>1, <2>1 DEF ReadyToCommit, LinesDone, WellFormed
    <2>3. Counted(q) \/ ~(q.seen.coded /\ q.seen.status \in Deducted)
      BY <2>1 DEF ReadyToCommit, ConsumeDue, Counted
    <2>4. PICK o \in OrderIds : o = q.oid
      BY <2>2
    <2> DEFINE row == q.seen
    <2>5. order' = [order EXCEPT ![o] = row]
      BY <2>1, <2>4
    <2> QED BY <1>4, <2>1, <2>2, <2>3, <2>4, <2>5
  <1>6. CASE ~Fail(w) /\ ~CommitCreate(w)
    <2>1. q.op # "create"
      BY <1>6 DEF Finish, WriteHold, WriteAsk, WriteReject, CommitConfirm, CommitCancel,
             CommitReturn, CommitPartial
    <2>2. /\ q.pc # "idle" /\ (q.op = "confirm" => ReadyToCommit(w))
      BY <1>6, <2>1, WriteKeepsCode
    <2>3. PICK row :
             /\ order' = [order EXCEPT ![q.oid] = row]
             /\ row.coded = order[q.oid].coded
             /\ row.status # "absent"
             /\ row.status \in Deducted => q.op = "confirm" \/ order[q.oid].status \in Deducted
      BY <1>6, <2>1, WriteKeepsCode
    <2>4. q.oid \in OrderIds
      BY <1>1, <2>2 DEF WellFormed
    <2>5. PICK o \in OrderIds : o = q.oid
      BY <2>4
    <2>6. q.op = "confirm" /\ row.coded => Counted(q)
      <3>1. q.seen.coded = order[o].coded
        BY <1>1, <2>1, <2>2, <2>5 DEF CodeKnown
      <3>2. q.op = "confirm" => q.pc = "lines"
        BY <1>1, <2>2 DEF ReadyToCommit, LinesDone, CodeSteps
      <3> QED BY <2>3, <2>5, <3>1, <3>2 DEF Counted
    <2>7. \/ row.coded /\ row.status \in Deducted => o \in SoldWithCode
          \/ Counted(q)
      BY <2>3, <2>5, <2>6 DEF SoldWithCode
    <2>8. order' = [order EXCEPT ![o] = row] /\ row.coded = order[o].coded /\ row.status # "absent"
      BY <2>3, <2>5
    <2> QED BY <1>4, <2>2, <2>5, <2>7, <2>8
  <1> QED BY <1>3, <1>5, <1>6

\* Every order that stands sold with the code has been counted in timesUsed,
\* however the requests interleave, even two on one order, and whichever fail.
THEOREM UsesAreCounted ==
    ASSUME IsFiniteSet(Workers) PROVE Spec => []EveryUseCounted
  <1>1. Init => UsesInv
    <2> SUFFICES ASSUME Init PROVE UsesInv
      OBVIOUS
    <2>1. SoldWithCode = {} /\ Counting = {} /\ used = 0
      BY DEF Init, SoldWithCode, Counting, Counted, Absent, Idle, Deducted
    <2>2. \A w \in Workers : CodeKnown(w) /\ CodeSteps(req[w])
      BY DEF Init, CodeKnown, CodeSteps, Idle
    <2> QED BY <2>1, <2>2, TypeInit, FS_EmptySet DEF UsesInv
  <1>2. UsesInv /\ [Next]_vars => UsesInv'
    <2> SUFFICES ASSUME UsesInv, [Next]_vars PROVE UsesInv'
      OBVIOUS
    <2>1. CASE Next
      BY <2>1, StartUses, StatementUses, FinishUses DEF Next
    <2>2. CASE UNCHANGED vars
      <3>1. TypeOK'
        BY TypeNext DEF UsesInv
      <3> QED BY <2>2, <3>1 DEF vars, UsesInv, CodeKnown, Counting, SoldWithCode
    <2> QED BY <2>1, <2>2
  <1>3. UsesInv => EveryUseCounted
    <2> SUFFICES ASSUME UsesInv PROVE EveryUseCounted
      OBVIOUS
    <2>1. IsFiniteSet(Counting) /\ IsFiniteSet(SoldWithCode)
      BY FiniteAssumption, FS_Subset DEF Counting, SoldWithCode
    <2>2. Cardinality(Counting) \in Nat /\ Cardinality(SoldWithCode) \in Nat
      BY <2>1, FS_CardinalityType
    <2> QED BY <2>2 DEF UsesInv, TypeOK, EveryUseCounted
  <1> QED BY <1>1, <1>2, <1>3, PTL DEF Spec
=============================================================================
