----------------------------- MODULE ShopProofs -----------------------------
(* Theorems about Shifts, Notices and Catalog, for every value of their constants. *)
EXTENDS Shifts, Notices, Catalog, Sums

-----------------------------------------------------------------------------
(* Shifts: types and times *)

ShiftRow == [st : {"none", "open", "closed"}, of : People \cup {NoOne}, start : Nat,
             end : Nat, expected : Int, counted : Int, alerted : BOOLEAN]
BillRow == [st : {"none", "held", "sold", "cancelled", "returned"}, by : People \cup {NoOne},
            at : Nat, payer : People \cup {NoOne}, out : Nat]
TransRow == [row : BillRow, who : People \cup {NoOne}, t : Nat]
MoveRow == [bill : Bills, sale : BOOLEAN, who : People \cup {NoOne}, t : Nat]
Request == [pc : {"idle", "create", "opened", "sales", "refunds", "update", "audit", "closed"},
            user : People \cup {NoOne}, back : Desks \cup {NoDesk},
            shift : ShiftIds \cup {NoShift}, now : Nat, sales : Int, refunds : Int, off : Int]

ShiftsTyped ==
    /\ clock \in Nat
    /\ shift \in [ShiftIds -> ShiftRow]
    /\ bill \in [Bills -> BillRow]
    /\ trans \in [Bills -> TransRow]
    /\ flow \subseteq MoveRow
    /\ unsettled \in [ShiftIds -> SUBSET Bills]
    /\ request \in [Slots -> Request]

\* No time is later than the clock's; a shift that was opened started after the
\* beginning; who is closing knows its shift.
Closing == {"sales", "refunds", "update"}
Timely ==
    /\ \A o \in Bills : trans[o].t <= clock
    /\ \A e \in flow : e.t <= clock
    /\ \A s \in ShiftIds : /\ shift[s].st # "none" => shift[s].start > 0
                           /\ shift[s].end <= clock
    /\ \A k \in Slots :
          /\ request[k].pc \in Closing \cup {"audit"} =>
                request[k].shift \in ShiftIds /\ shift[request[k].shift].st # "none"
          /\ request[k].now <= clock

LEMMA NoRequestTyped ==
    /\ NoRequest \in Request /\ NoBill \in BillRow /\ NoRowYet \in ShiftRow
    /\ NoTrans \in TransRow /\ NoTrans.t = 0
  BY DEF NoRequest, Request, NoBill, BillRow, NoRowYet, ShiftRow, NoTrans, TransRow

\* A field of a record may be set to any value of its type.
LEMMA RequestSet ==
    ASSUME NEW w \in Request
    PROVE  /\ \A p \in {"idle", "create", "opened", "sales", "refunds", "update", "audit",
                        "closed"} : [w EXCEPT !.pc = p] \in Request
           /\ \A u \in People \cup {NoOne} : [w EXCEPT !.user = u] \in Request
           /\ \A d \in Desks \cup {NoDesk} : [w EXCEPT !.back = d] \in Request
           /\ \A s \in ShiftIds \cup {NoShift} : [w EXCEPT !.shift = s] \in Request
           /\ \A t \in Nat : [w EXCEPT !.now = t] \in Request
           /\ \A n \in Int : /\ [w EXCEPT !.sales = n] \in Request
                             /\ [w EXCEPT !.refunds = n] \in Request
                             /\ [w EXCEPT !.off = n] \in Request
  BY DEF Request

LEMMA ShiftRowSet ==
    ASSUME NEW r \in ShiftRow
    PROVE  /\ \A x \in {"none", "open", "closed"} : [r EXCEPT !.st = x] \in ShiftRow
           /\ \A u \in People \cup {NoOne} : [r EXCEPT !.of = u] \in ShiftRow
           /\ \A t \in Nat : [r EXCEPT !.start = t] \in ShiftRow /\ [r EXCEPT !.end = t] \in ShiftRow
           /\ \A n \in Int : /\ [r EXCEPT !.expected = n] \in ShiftRow
                             /\ [r EXCEPT !.counted = n] \in ShiftRow
           /\ \A b \in BOOLEAN : [r EXCEPT !.alerted = b] \in ShiftRow
  BY DEF ShiftRow

LEMMA BillRowSet ==
    ASSUME NEW b \in BillRow
    PROVE  /\ \A x \in {"none", "held", "sold", "cancelled", "returned"} : [b EXCEPT !.st = x] \in BillRow
           /\ \A u \in People \cup {NoOne} : /\ [b EXCEPT !.by = u] \in BillRow
                                            /\ [b EXCEPT !.payer = u] \in BillRow
           /\ \A t \in Nat : [b EXCEPT !.at = t] \in BillRow /\ [b EXCEPT !.out = t] \in BillRow
  BY DEF BillRow

LEMMA SumOfInt == ASSUME NEW S \in SUBSET Bills PROVE SumOf(S) \in Int
  <1>1. IsFiniteSet(S) /\ \A o \in S : AmountOf[o] \in Int
    BY ShiftsAssumption, FS_Subset
  <1> QED BY <1>1, SumInt DEF SumOf

LEMMA ShiftsTypedInit == ShiftsInit => ShiftsTyped /\ Timely
  <1> SUFFICES ASSUME ShiftsInit PROVE ShiftsTyped /\ Timely
    OBVIOUS
  <1>1. ShiftsTyped
    BY NoRequestTyped DEF ShiftsInit, ShiftsTyped
  <1>2. NoRequest.pc = "idle" /\ NoRequest.now = 0
        /\ NoRowYet.st = "none" /\ NoRowYet.end = 0
    BY DEF NoRequest, NoRowYet
  <1>3. Timely
    BY <1>2, NoRequestTyped DEF ShiftsInit, Timely, Closing
  <1> QED BY <1>1, <1>3

\* What each action leaves of the request that takes it, and that it leaves the
\* other requests alone.
Puts(k, w) == w \in Request /\ request' = [request EXCEPT ![k] = w]

LEMMA OpensRequest ==
    ASSUME ShiftsTyped, NEW k \in Slots, NEW d \in Desks, OpenShift(k, d)
    PROVE  \E w : Puts(k, w) /\ w.pc = "create" /\ w.user = UserAt[d] /\ w.now = 0
  <1> DEFINE w == [NoRequest EXCEPT !.pc = "create", !.user = UserAt[d], !.back = d]
  <1>1. request' = [request EXCEPT ![k] = w] /\ UserAt[d] \in People
    BY ShiftsAssumption DEF OpenShift, AskOpen
  <1>2. w \in Request
    BY <1>1, NoRequestTyped, RequestSet
  <1>3. w.pc = "create" /\ w.user = UserAt[d] /\ w.now = 0
    BY DEF NoRequest
  <1> HIDE DEF w
  <1> QED BY <1>1, <1>2, <1>3 DEF Puts

\* Entering the POS changes nothing of the requests but who hears the answer.
SameBut(w, x) == /\ w.pc = x.pc /\ w.user = x.user /\ w.shift = x.shift /\ w.now = x.now
                 /\ w.sales = x.sales /\ w.refunds = x.refunds /\ w.off = x.off

LEMMA EntersRequest ==
    ASSUME ShiftsTyped, NEW d \in Desks, Enter(d)
    PROVE  request' \in [Slots -> Request] /\ \A k \in Slots : SameBut(request'[k], request[k])
  <1> SUFFICES ASSUME NEW k \in Slots PROVE request'[k] \in Request /\ SameBut(request'[k], request[k])
    BY DEF Enter
  <1> DEFINE w == [request[k] EXCEPT !.back = NoDesk]
  <1>1. request[k] \in Request /\ request'[k] \in {request[k], w}
    BY DEF ShiftsTyped, Enter
  <1>2. w \in Request
    BY <1>1, RequestSet
  <1>3. SameBut(w, request[k])
    BY <1>1 DEF Request, SameBut
  <1>4. SameBut(request[k], request[k])
    BY DEF SameBut
  <1> HIDE DEF w
  <1> QED BY <1>1, <1>2, <1>3, <1>4

LEMMA HearsRequest ==
    ASSUME NEW k \in Slots, Hear(k) \/ ShiftFails(k)
    PROVE  \E w : Puts(k, w) /\ w.pc = "idle" /\ w.now = 0
  <1>1. NoRequest.pc = "idle" /\ NoRequest.now = 0
    BY DEF NoRequest
  <1>2. Puts(k, NoRequest)
    BY NoRequestTyped DEF Puts, Hear, ShiftFails
  <1> QED BY <1>1, <1>2

LEMMA CreatesRequest ==
    ASSUME ShiftsTyped, NEW k \in Slots, NEW s \in ShiftIds, CreateShift(k, s)
    PROVE  /\ \E w : Puts(k, w) /\ w.pc = "opened" /\ w.now = 0
           /\ \E r \in ShiftRow : /\ shift' = [shift EXCEPT ![s] = r]
                                  /\ r.st = "open" /\ r.of = request[k].user
                                  /\ r.start = clock + 1 /\ r.end = 0
  <1>1. /\ clock + 1 \in Nat
        /\ request[k].user \in People \cup {NoOne} /\ request[k].back \in Desks \cup {NoDesk}
    BY DEF ShiftsTyped, Request
  <1> DEFINE w == [NoRequest EXCEPT !.pc = "opened", !.back = request[k].back, !.shift = s]
             r == [NoRowYet EXCEPT !.st = "open", !.of = request[k].user, !.start = clock + 1]
  <1>2. w \in Request
    BY <1>1, NoRequestTyped, RequestSet
  <1>3. w.pc = "opened" /\ w.now = 0
    BY DEF NoRequest
  <1>4. request' = [request EXCEPT ![k] = w] /\ shift' = [shift EXCEPT ![s] = r]
    BY DEF CreateShift
  <1>5. r \in ShiftRow
    BY <1>1, NoRequestTyped, ShiftRowSet
  <1>6. r.st = "open" /\ r.of = request[k].user /\ r.start = clock + 1 /\ r.end = 0
    BY DEF NoRowYet
  <1> HIDE DEF w, r
  <1> QED BY <1>2, <1>3, <1>4, <1>5, <1>6 DEF Puts

LEMMA EndsRequest ==
    ASSUME ShiftsTyped, NEW k \in Slots, NEW u \in People, NEW s \in ShiftIds,
           NEW d \in Desks \cup {NoDesk}, EndShift(k, u, s, d)
    PROVE  \E w : Puts(k, w) /\ w.pc = "sales" /\ w.shift = s /\ w.now = clock
  <1> DEFINE w == [NoRequest EXCEPT !.pc = "sales", !.back = d, !.shift = s, !.now = clock]
  <1>1. clock \in Nat /\ request' = [request EXCEPT ![k] = w]
    BY DEF EndShift, ShiftsTyped
  <1>2. w \in Request
    BY <1>1, NoRequestTyped, RequestSet
  <1>3. w.pc = "sales" /\ w.shift = s /\ w.now = clock
    BY DEF NoRequest
  <1> HIDE DEF w
  <1> QED BY <1>1, <1>2, <1>3 DEF Puts

\* The two sums of cashMovements, for a shift and the time it is closed at.
SalesIn(s, t) == {o \in Cash : /\ bill[o].st = "sold" /\ bill[o].by = shift[s].of
                               /\ Between(bill[o].at, shift[s].start, t)}
RefundsIn(s, t) == {o \in Cash : /\ bill[o].st \in {"cancelled", "returned"}
                                 /\ bill[o].payer = shift[s].of
                                 /\ Between(bill[o].out, shift[s].start, t)}

LEMMA SumsInt ==
    ASSUME NEW s, NEW t
    PROVE  SumOf(SalesIn(s, t)) \in Int /\ SumOf(RefundsIn(s, t)) \in Int
  <1>1. SalesIn(s, t) \in SUBSET Bills /\ RefundsIn(s, t) \in SUBSET Bills
    BY ShiftsAssumption DEF SalesIn, RefundsIn
  <1> QED BY <1>1, SumOfInt

LEMMA ReadsSalesRequest ==
    ASSUME ShiftsTyped, NEW k \in Slots, ReadSales(k)
    PROVE  \E w : /\ Puts(k, w) /\ w.pc = "refunds" /\ w.shift = request[k].shift
                  /\ w.now = request[k].now /\ w.sales = SumOf(SalesIn(request[k].shift, request[k].now))
  <1> DEFINE n == SumOf(SalesIn(request[k].shift, request[k].now))
             w == [request[k] EXCEPT !.pc = "refunds", !.sales = n]
  <1>1. request[k] \in Request /\ n \in Int
    BY SumsInt DEF ShiftsTyped
  <1>2. request' = [request EXCEPT ![k] = w]
    BY DEF ReadSales, SalesIn
  <1> HIDE DEF n
  <1>3. w \in Request
    BY <1>1, RequestSet
  <1>4. w.pc = "refunds" /\ w.shift = request[k].shift /\ w.now = request[k].now /\ w.sales = n
    BY <1>1 DEF Request
  <1> HIDE DEF w
  <1> QED BY <1>2, <1>3, <1>4 DEF Puts, n

LEMMA ReadsRefundsRequest ==
    ASSUME ShiftsTyped, NEW k \in Slots, ReadRefunds(k)
    PROVE  \E w : /\ Puts(k, w) /\ w.pc = "update" /\ w.shift = request[k].shift
                  /\ w.now = request[k].now /\ w.sales = request[k].sales
                  /\ w.refunds = SumOf(RefundsIn(request[k].shift, request[k].now))
  <1> DEFINE n == SumOf(RefundsIn(request[k].shift, request[k].now))
             w == [request[k] EXCEPT !.pc = "update", !.refunds = n]
  <1>1. request[k] \in Request /\ n \in Int
    BY SumsInt DEF ShiftsTyped
  <1>2. request' = [request EXCEPT ![k] = w]
    BY DEF ReadRefunds, RefundsIn
  <1> HIDE DEF n
  <1>3. w \in Request
    BY <1>1, RequestSet
  <1>4. /\ w.pc = "update" /\ w.shift = request[k].shift /\ w.now = request[k].now
        /\ w.sales = request[k].sales /\ w.refunds = n
    BY <1>1 DEF Request
  <1> HIDE DEF w
  <1> QED BY <1>2, <1>3, <1>4 DEF Puts, n

LEMMA ClosesRequest ==
    ASSUME ShiftsTyped, Timely, NEW k \in Slots, NEW off \in Off, CloseShift(k, off)
    PROVE  LET x == request[k]
               old == shift[x.shift] IN
           /\ \E w : Puts(k, w) /\ w.pc = "audit" /\ w.shift = x.shift /\ w.now = 0 /\ w.off = off
           /\ \E r \in ShiftRow :
                 /\ shift' = [shift EXCEPT ![x.shift] = r]
                 /\ r.st = "closed" /\ r.of = old.of /\ r.start = old.start /\ r.end = x.now
                 /\ r.expected = x.sales - x.refunds /\ r.counted = r.expected + off
                 /\ r.alerted = old.alerted
  <1> DEFINE x == request[k]
             old == shift[x.shift]
             e == x.sales - x.refunds
             c == e + off
             r == [old EXCEPT !.st = "closed", !.end = x.now, !.expected = e, !.counted = c]
             w == [NoRequest EXCEPT !.pc = "audit", !.back = x.back, !.shift = x.shift, !.off = off]
  <1>1. x \in Request /\ x.shift \in ShiftIds /\ old \in ShiftRow
    BY DEF CloseShift, ShiftsTyped, Timely, Closing
  <1>2. /\ shift' = [shift EXCEPT ![x.shift] = r]
        /\ request' = [request EXCEPT ![k] = w]
    BY DEF CloseShift
  <1>3. /\ off \in Int /\ e \in Int /\ c \in Int /\ x.now \in Nat
        /\ x.back \in Desks \cup {NoDesk}
    BY <1>1, ShiftsAssumption DEF Request
  <1>4. c = e + off
    OBVIOUS
  <1> HIDE DEF e, c, x, old
  <1>5. r \in ShiftRow
    BY <1>1, <1>3, ShiftRowSet
  <1>6. /\ r.st = "closed" /\ r.of = old.of /\ r.start = old.start /\ r.end = x.now
        /\ r.expected = e /\ r.counted = c /\ r.alerted = old.alerted
    BY <1>1 DEF ShiftRow
  <1>7. w \in Request
    BY <1>1, <1>3, NoRequestTyped, RequestSet
  <1>8. w.pc = "audit" /\ w.shift = x.shift /\ w.now = 0 /\ w.off = off
    BY DEF NoRequest
  <1> HIDE DEF r, w
  <1>9. \E v : Puts(k, v) /\ v.pc = "audit" /\ v.shift = x.shift /\ v.now = 0 /\ v.off = off
    BY <1>2, <1>7, <1>8 DEF Puts
  <1>10. \E v \in ShiftRow :
            /\ shift' = [shift EXCEPT ![x.shift] = v]
            /\ v.st = "closed" /\ v.of = old.of /\ v.start = old.start /\ v.end = x.now
            /\ v.expected = e /\ v.counted = v.expected + off
            /\ v.alerted = old.alerted
    BY <1>2, <1>4, <1>5, <1>6
  <1> QED BY <1>9, <1>10 DEF x, old, e

LEMMA AlertsRequest ==
    ASSUME ShiftsTyped, Timely, NEW k \in Slots, AlertDiscrepancy(k)
    PROVE  LET x == request[k]
               old == shift[x.shift] IN
           /\ \E w : Puts(k, w) /\ w.pc = "closed" /\ w.now = 0
           /\ \E r \in ShiftRow :
                 /\ shift' = [shift EXCEPT ![x.shift] = r]
                 /\ r.st = old.st /\ r.of = old.of /\ r.start = old.start /\ r.end = old.end
                 /\ r.expected = old.expected /\ r.counted = old.counted
                 /\ old.alerted \/ Beyond(x.off) => r.alerted
  <1> DEFINE x == request[k]
             old == shift[x.shift]
             a == old.alerted \/ Beyond(x.off)
             r == [old EXCEPT !.alerted = a]
             w == [NoRequest EXCEPT !.pc = "closed", !.back = x.back]
  <1>1. x \in Request /\ x.shift \in ShiftIds /\ old \in ShiftRow
    BY DEF AlertDiscrepancy, ShiftsTyped, Timely
  <1>2. a \in BOOLEAN
    BY <1>1 DEF ShiftRow
  <1>3. /\ shift' = [shift EXCEPT ![x.shift] = r]
        /\ request' = [request EXCEPT ![k] = w]
    BY DEF AlertDiscrepancy
  <1>4. old.alerted \/ Beyond(x.off) => a
    OBVIOUS
  <1> HIDE DEF a, x, old
  <1>5. r \in ShiftRow
    BY <1>1, <1>2, ShiftRowSet
  <1>6. /\ r.st = old.st /\ r.of = old.of /\ r.start = old.start /\ r.end = old.end
        /\ r.expected = old.expected /\ r.counted = old.counted
    BY <1>1 DEF ShiftRow
  <1>7. r.alerted = a
    BY <1>1 DEF ShiftRow
  <1>8. w \in Request
    <2>1. x.back \in Desks \cup {NoDesk}
      BY <1>1 DEF Request
    <2> QED BY <2>1, NoRequestTyped, RequestSet
  <1>9. w.pc = "closed" /\ w.now = 0
    BY DEF NoRequest
  <1> HIDE DEF r, w
  <1>10. \E v : Puts(k, v) /\ v.pc = "closed" /\ v.now = 0
    BY <1>3, <1>8, <1>9 DEF Puts
  <1>11. \E v \in ShiftRow :
                 /\ shift' = [shift EXCEPT ![x.shift] = v]
                 /\ v.st = old.st /\ v.of = old.of /\ v.start = old.start /\ v.end = old.end
                 /\ v.expected = old.expected /\ v.counted = old.counted
                 /\ old.alerted \/ Beyond(x.off) => v.alerted
    BY <1>3, <1>4, <1>5, <1>6, <1>7
  <1> QED BY <1>10, <1>11 DEF x, old

LEMMA PutsEach ==
    ASSUME ShiftsTyped, NEW k \in Slots, NEW w, Puts(k, w)
    PROVE  /\ request' \in [Slots -> Request] /\ request'[k] = w
           /\ \A v \in Slots : v # k => request'[v] = request[v]
  BY DEF Puts, ShiftsTyped

-----------------------------------------------------------------------------
(* What transactions do to the bills *)

\* What a transaction leaves of the bill it has stamped.
Stamped(row, who, t) ==
    /\ row \in BillRow /\ who \in People
    /\ \/ row.st = "sold" /\ row.at = t
       \/ row.st \in {"cancelled", "returned"} /\ row.out = t /\ row.payer = who

Stamping(o) ==
    \/ \E d \in Desks : SellNew(d, o)
    \/ \E u \in People : Confirm(u, o) \/ \E st \in {"cancelled", "returned"} : Refund(u, o, st)

LEMMA StampIs ==
    ASSUME ShiftsTyped, NEW o \in Bills, Stamping(o)
    PROVE  \E who, row : /\ StampBill(o, who, row) /\ Stamped(row, who, clock + 1)
                         /\ bill[o].st # "none" => row.by = bill[o].by
  <1>1. bill[o] \in BillRow /\ clock + 1 \in Nat
    BY DEF ShiftsTyped
  <1>2. ASSUME NEW d \in Desks, SellNew(d, o)
        PROVE  \E who, row : /\ StampBill(o, who, row) /\ Stamped(row, who, clock + 1)
                             /\ bill[o].st # "none" => row.by = bill[o].by
    <2> DEFINE row == [NoBill EXCEPT !.st = "sold", !.by = UserAt[d], !.at = clock + 1]
    <2>1. UserAt[d] \in People
      BY ShiftsAssumption
    <2>2. row \in BillRow
      BY <1>1, <2>1, NoRequestTyped, BillRowSet
    <2>3. row.st = "sold" /\ row.at = clock + 1
      BY DEF NoBill
    <2>4. StampBill(o, UserAt[d], row) /\ bill[o].st = "none"
      BY <1>2 DEF SellNew
    <2> HIDE DEF row
    <2> QED BY <2>1, <2>2, <2>3, <2>4 DEF Stamped
  <1>3. ASSUME NEW u \in People, Confirm(u, o)
        PROVE  \E who, row : /\ StampBill(o, who, row) /\ Stamped(row, who, clock + 1)
                             /\ bill[o].st # "none" => row.by = bill[o].by
    <2> DEFINE row == [bill[o] EXCEPT !.st = "sold", !.at = clock + 1]
    <2>1. row \in BillRow
      BY <1>1, BillRowSet
    <2>2. row.st = "sold" /\ row.at = clock + 1 /\ row.by = bill[o].by
      BY <1>1 DEF BillRow
    <2>3. StampBill(o, u, row)
      BY <1>3 DEF Confirm
    <2> HIDE DEF row
    <2> QED BY <2>1, <2>2, <2>3 DEF Stamped
  <1>4. ASSUME NEW u \in People, NEW st \in {"cancelled", "returned"}, Refund(u, o, st)
        PROVE  \E who, row : /\ StampBill(o, who, row) /\ Stamped(row, who, clock + 1)
                             /\ bill[o].st # "none" => row.by = bill[o].by
    <2> DEFINE row == [bill[o] EXCEPT !.st = st, !.payer = u, !.out = clock + 1]
    <2>1. row \in BillRow
      BY <1>1, BillRowSet
    <2>2. row.st = st /\ row.out = clock + 1 /\ row.payer = u /\ row.by = bill[o].by
      BY <1>1 DEF BillRow
    <2>3. StampBill(o, u, row)
      BY <1>4 DEF Refund
    <2> HIDE DEF row
    <2> QED BY <2>1, <2>2, <2>3 DEF Stamped
  <1> QED BY <1>2, <1>3, <1>4 DEF Stamping

\* What is held, or cancelled without a stamp, is not known to the drawer.
Unpaid(o) == CancelUnpaid(o) \/ \E d \in Desks : Hold(d, o)

LEMMA UnpaidIs ==
    ASSUME ShiftsTyped, NEW o \in Bills, Unpaid(o)
    PROVE  /\ AtRest(o) /\ UNCHANGED <<clock, trans, flow, shift, unsettled, request, told, doubled>>
           /\ \E b \in BillRow :
                 /\ bill' = [bill EXCEPT ![o] = b]
                 /\ bill[o].st # "none" => b.by = bill[o].by
                 /\ \/ bill[o].st = "none" /\ b.st = "held" /\ b.out = 0
                    \/ /\ bill[o].st \in {"held", "returned"} /\ b.st = "cancelled"
                       /\ b.out = bill[o].out /\ b.payer = bill[o].payer
  <1>1. bill[o] \in BillRow
    BY DEF ShiftsTyped
  <1>2. ASSUME NEW d \in Desks, Hold(d, o)
        PROVE  \E b \in BillRow : /\ bill' = [bill EXCEPT ![o] = b] /\ bill[o].st = "none"
                                  /\ b.st = "held" /\ b.out = 0
    <2> DEFINE b == [NoBill EXCEPT !.st = "held", !.by = UserAt[d]]
    <2>1. b \in BillRow
      BY NoRequestTyped, BillRowSet, ShiftsAssumption
    <2>2. b.st = "held" /\ b.out = 0
      BY DEF NoBill
    <2>3. bill' = [bill EXCEPT ![o] = b] /\ bill[o].st = "none"
      BY <1>2 DEF Hold
    <2> HIDE DEF b
    <2> QED BY <2>1, <2>2, <2>3
  <1>3. ASSUME CancelUnpaid(o)
        PROVE  \E b \in BillRow : /\ bill' = [bill EXCEPT ![o] = b] /\ b.by = bill[o].by
                                  /\ bill[o].st \in {"held", "returned"} /\ b.st = "cancelled"
                                  /\ b.out = bill[o].out /\ b.payer = bill[o].payer
    <2> DEFINE b == [bill[o] EXCEPT !.st = "cancelled"]
    <2>1. b \in BillRow
      BY <1>1, BillRowSet
    <2>2. /\ b.st = "cancelled" /\ b.by = bill[o].by
          /\ b.out = bill[o].out /\ b.payer = bill[o].payer
      BY <1>1 DEF BillRow
    <2>3. bill' = [bill EXCEPT ![o] = b] /\ bill[o].st \in {"held", "returned"}
      BY <1>3 DEF CancelUnpaid
    <2> HIDE DEF b
    <2> QED BY <2>1, <2>2, <2>3
  <1>4. AtRest(o) /\ UNCHANGED <<clock, trans, flow, shift, unsettled, request, told, doubled>>
    BY DEF Unpaid, CancelUnpaid, Hold
  <1> QED BY <1>2, <1>3, <1>4 DEF Unpaid

\* A step on a bill: nothing else changes with it.
OnBill(o) == Unpaid(o) \/ Stamping(o) \/ CommitBill(o) \/ RollBackBill(o)

LEMMA OnBillLeaves ==
    ASSUME NEW o, OnBill(o)
    PROVE  UNCHANGED <<shift, request, told, doubled>>
  BY DEF OnBill, Unpaid, Stamping, CancelUnpaid, Hold, SellNew, Confirm, Refund, StampBill, CommitBill, RollBackBill

\* The other steps, which leave the bills alone.
OffBill ==
    \/ \E d \in Desks : Enter(d)
    \/ \E r \in Slots : \/ \E d \in Desks : OpenShift(r, d)
                        \/ \E s \in ShiftIds : CreateShift(r, s)
                        \/ \E u \in People, s \in ShiftIds, d \in Desks \cup {NoDesk} :
                              EndShift(r, u, s, d)
                        \/ ReadSales(r) \/ ReadRefunds(r) \/ AlertDiscrepancy(r)
                        \/ \E off \in Off : CloseShift(r, off)
                        \/ Hear(r) \/ ShiftFails(r)

LEMMA OffBillLeaves == OffBill => UNCHANGED <<bill, trans, flow>>
  BY DEF OffBill, billVars, Enter, OpenShift, AskOpen, Hear, ShiftFails, CreateShift, EndShift,
         ReadSales, ReadRefunds, AlertDiscrepancy, CloseShift

LEMMA NextIs == ShiftsNext <=> OffBill \/ \E o \in Bills : OnBill(o)
  BY DEF ShiftsNext, OffBill, OnBill, Unpaid, Stamping

LEMMA ShiftsTypedStep ==
    ASSUME ShiftsTyped, Timely, [ShiftsNext]_shiftVars
    PROVE  ShiftsTyped' /\ Timely'
  <1> DEFINE KeptRequests ==
                 /\ request' \in [Slots -> Request]
                 /\ \A k \in Slots :
                       /\ request'[k].pc \in Closing \cup {"audit"} =>
                             request'[k].shift \in ShiftIds /\ shift[request'[k].shift].st # "none"
                       /\ request'[k].now <= clock
             KeptShifts ==
                 /\ shift' \in [ShiftIds -> ShiftRow]
                 /\ \A s \in ShiftIds : /\ shift[s].st # "none" => shift'[s].st # "none"
                                        /\ shift'[s].st # "none" => shift'[s].start > 0
                                        /\ shift'[s].end <= clock
             KeptBills ==
                 /\ clock' \in Nat /\ clock <= clock' /\ bill' \in [Bills -> BillRow]
                 /\ trans' \in [Bills -> TransRow] /\ \A o \in Bills : trans'[o].t <= clock'
                 /\ flow' \subseteq MoveRow /\ \A e \in flow' : e.t <= clock'
             KeptLate == unsettled' \in [ShiftIds -> SUBSET Bills]
  <1>1. ASSUME KeptRequests, KeptShifts, KeptBills, KeptLate
        PROVE  ShiftsTyped' /\ Timely'
    <2>1. ShiftsTyped'
      BY <1>1 DEF ShiftsTyped
    <2>2. /\ clock \in Nat /\ clock' \in Nat /\ clock <= clock'
          /\ \A k \in Slots : request'[k].now \in Nat
          /\ \A s \in ShiftIds : shift'[s].end \in Nat
      BY <1>1 DEF ShiftsTyped, Request, ShiftRow
    <2>3. \A k \in Slots : request'[k].now <= clock'
      BY <1>1, <2>2
    <2>4. \A s \in ShiftIds : shift'[s].end <= clock'
      BY <1>1, <2>2
    <2> QED BY <1>1, <2>1, <2>3, <2>4 DEF Timely
  <1>2. UNCHANGED request => KeptRequests
    BY DEF ShiftsTyped, Timely
  <1>3. UNCHANGED shift => KeptShifts
    BY DEF ShiftsTyped, Timely
  <1>4. UNCHANGED <<bill, trans, flow>> /\ clock' \in {clock, clock + 1} => KeptBills
    <2>1. /\ clock \in Nat /\ \A o \in Bills : trans[o].t \in Nat /\ trans[o].t <= clock
          /\ \A e \in flow : e.t \in Nat /\ e.t <= clock
      BY DEF ShiftsTyped, Timely, TransRow, MoveRow
    <2> QED BY <2>1 DEF ShiftsTyped
  <1>5. ASSUME NEW k \in Slots, NEW w, Puts(k, w), w.now <= clock,
               w.pc \in Closing \cup {"audit"} => w.shift \in ShiftIds /\ shift[w.shift].st # "none"
        PROVE  KeptRequests
    BY <1>5, PutsEach DEF Timely
  <1>16. UNCHANGED unsettled => KeptLate
    BY DEF ShiftsTyped
  <1> HIDE DEF KeptRequests, KeptShifts, KeptBills, KeptLate
  <1>6. ASSUME NEW o \in Bills, OnBill(o)
        PROVE  KeptBills /\ KeptLate
    <2>1. /\ clock \in Nat /\ bill[o] \in BillRow
          /\ \A p \in Bills : trans[p].t \in Nat /\ trans[p].t <= clock
          /\ \A e \in flow : e.t \in Nat /\ e.t <= clock
      BY DEF ShiftsTyped, Timely, TransRow, MoveRow
    <2>2. ASSUME Unpaid(o)
          PROVE  KeptBills /\ KeptLate
      <3>1. PICK b \in BillRow : bill' = [bill EXCEPT ![o] = b]
        BY <2>2, UnpaidIs
      <3>2. UNCHANGED <<clock, trans, flow, unsettled>>
        BY <2>2, UnpaidIs
      <3>3. KeptBills
        BY <2>1, <3>1, <3>2 DEF KeptBills, ShiftsTyped
      <3> QED BY <3>2, <3>3, <1>16
    <2>3. ASSUME Stamping(o)
          PROVE  KeptBills /\ KeptLate
      <3>1. PICK who, row : StampBill(o, who, row) /\ Stamped(row, who, clock + 1)
        BY <2>3, StampIs
      <3> DEFINE v == [row |-> row, who |-> who, t |-> clock + 1]
      <3>2. v \in TransRow /\ v.t = clock + 1
        BY <2>1, <3>1 DEF Stamped, TransRow
      <3>3. trans' = [trans EXCEPT ![o] = v] /\ clock' = clock + 1 /\ UNCHANGED <<bill, flow>>
        BY <3>1 DEF StampBill, Tick
      <3> HIDE DEF v
      <3>4. trans' \in [Bills -> TransRow] /\ \A p \in Bills : trans'[p] \in {trans[p], v}
        BY <3>2, <3>3 DEF ShiftsTyped
      <3>5. KeptBills
        BY <2>1, <3>2, <3>3, <3>4 DEF KeptBills, ShiftsTyped
      <3>6. KeptLate
        BY <3>1 DEF StampBill, KeptLate, ShiftsTyped
      <3> QED BY <3>5, <3>6
    <2>4. ASSUME CommitBill(o)
          PROVE  KeptBills /\ KeptLate
      <3>1. trans[o] \in TransRow
        BY DEF ShiftsTyped
      <3>2. Move(o) \in MoveRow /\ Move(o).t = trans[o].t
        BY <3>1 DEF Move, MoveRow, TransRow
      <3>3. /\ bill' = [bill EXCEPT ![o] = trans[o].row] /\ flow' = flow \cup {Move(o)}
            /\ trans' = [trans EXCEPT ![o] = NoTrans] /\ UNCHANGED <<clock, unsettled>>
        BY <2>4 DEF CommitBill
      <3>4. bill' \in [Bills -> BillRow]
        BY <3>1, <3>3 DEF ShiftsTyped, TransRow
      <3>5. trans' \in [Bills -> TransRow] /\ \A p \in Bills : trans'[p] \in {trans[p], NoTrans}
        BY <3>3, NoRequestTyped DEF ShiftsTyped
      <3>6. flow' \subseteq MoveRow /\ \A e \in flow' : e.t <= clock
        BY <2>1, <3>2, <3>3 DEF ShiftsTyped
      <3>7. KeptBills
        BY <2>1, <3>3, <3>4, <3>5, <3>6, NoRequestTyped DEF KeptBills
      <3> QED BY <3>3, <3>7, <1>16
    <2>5. ASSUME RollBackBill(o)
          PROVE  KeptBills /\ KeptLate
      <3>1. trans' = [trans EXCEPT ![o] = NoTrans] /\ UNCHANGED <<clock, bill, flow, unsettled>>
        BY <2>5 DEF RollBackBill
      <3>2. trans' \in [Bills -> TransRow] /\ \A p \in Bills : trans'[p] \in {trans[p], NoTrans}
        BY <3>1, NoRequestTyped DEF ShiftsTyped
      <3>3. KeptBills
        BY <2>1, <3>1, <3>2, NoRequestTyped DEF KeptBills, ShiftsTyped
      <3> QED BY <3>1, <3>3, <1>16
    <2> QED BY <1>6, <2>2, <2>3, <2>4, <2>5 DEF OnBill
  <1>7. ASSUME \/ \E d \in Desks : Enter(d)
               \/ \E k \in Slots : Hear(k) \/ ShiftFails(k) \/ \E d \in Desks : OpenShift(k, d)
        PROVE  KeptRequests /\ UNCHANGED <<clock, shift, unsettled>>
    <2>1. UNCHANGED <<clock, shift, unsettled>>
      BY <1>7 DEF Enter, OpenShift, AskOpen, Hear, ShiftFails, billVars
    <2>2. ASSUME NEW d \in Desks, Enter(d)
          PROVE  KeptRequests
      BY <2>2, EntersRequest DEF KeptRequests, Timely, SameBut
    <2>3. 0 <= clock
      BY DEF ShiftsTyped
    <2>4. ASSUME NEW k \in Slots, Hear(k) \/ ShiftFails(k) \/ \E d \in Desks : OpenShift(k, d)
          PROVE  KeptRequests
      <3>1. \E w : Puts(k, w) /\ w.pc \in {"idle", "create"} /\ w.now = 0
        BY <2>4, OpensRequest, HearsRequest
      <3> QED BY <3>1, <2>3, <1>5 DEF Closing
    <2> QED BY <1>7, <2>1, <2>2, <2>4
  <1>8. ASSUME NEW s \in ShiftIds, NEW r \in ShiftRow, shift' = [shift EXCEPT ![s] = r],
               r.st # "none", r.start > 0, r.end <= clock
        PROVE  KeptShifts
    BY <1>8 DEF ShiftsTyped, Timely, KeptShifts
  <1>9. ASSUME NEW k \in Slots, NEW s \in ShiftIds, CreateShift(k, s)
        PROVE  KeptRequests /\ KeptShifts /\ KeptBills /\ KeptLate
    <2>1. PICK w : Puts(k, w) /\ w.pc = "opened" /\ w.now = 0
      BY <1>9, CreatesRequest
    <2>2. KeptRequests
      BY <2>1, <1>5 DEF ShiftsTyped, Closing
    <2>3. PICK r \in ShiftRow : /\ shift' = [shift EXCEPT ![s] = r]
                                /\ r.st = "open" /\ r.start = clock + 1 /\ r.end = 0
      BY <1>9, CreatesRequest
    <2>4. clock \in Nat /\ clock' = clock + 1 /\ UNCHANGED <<bill, trans, flow, unsettled>>
      BY <1>9 DEF CreateShift, Tick, ShiftsTyped
    <2>5. r.st # "none" /\ r.start > 0 /\ r.end <= clock
      BY <2>3, <2>4
    <2>6. KeptShifts
      BY <2>3, <2>5, <1>8
    <2> QED BY <2>2, <2>4, <2>6, <1>4, <1>16
  <1>10. ASSUME NEW k \in Slots, NEW u \in People, NEW s \in ShiftIds,
                NEW d \in Desks \cup {NoDesk}, EndShift(k, u, s, d)
         PROVE  KeptRequests /\ KeptLate /\ UNCHANGED <<clock, shift>>
    <2>1. shift[s].st # "none" /\ clock <= clock /\ UNCHANGED <<clock, shift>>
      BY <1>10 DEF EndShift, ShiftsTyped, billVars
    <2>2. KeptLate
      BY <1>10 DEF EndShift, KeptLate, ShiftsTyped
    <2> QED BY <1>10, <2>1, <2>2, EndsRequest, <1>5
  <1>11. ASSUME NEW k \in Slots, ReadSales(k) \/ ReadRefunds(k)
         PROVE  KeptRequests /\ UNCHANGED <<clock, shift, unsettled>>
    <2>1. /\ request[k].pc \in Closing /\ UNCHANGED <<clock, shift, unsettled>>
          /\ request[k].shift \in ShiftIds /\ shift[request[k].shift].st # "none" /\ request[k].now <= clock
      BY <1>11 DEF ReadSales, ReadRefunds, Closing, Timely, billVars
    <2>2. \E w : Puts(k, w) /\ w.shift = request[k].shift /\ w.now = request[k].now
      BY <1>11, ReadsSalesRequest, ReadsRefundsRequest
    <2> QED BY <2>1, <2>2, <1>5
  <1>12. ASSUME NEW k \in Slots, AlertDiscrepancy(k)
         PROVE  KeptRequests /\ KeptShifts /\ UNCHANGED <<clock, unsettled>>
    <2> DEFINE s == request[k].shift
    <2>1. /\ s \in ShiftIds /\ shift[s].st # "none" /\ shift[s].start > 0 /\ shift[s].end <= clock
          /\ 0 <= clock /\ UNCHANGED <<clock, unsettled>>
      BY <1>12 DEF AlertDiscrepancy, Timely, Closing, ShiftsTyped, billVars
    <2>2. KeptRequests
      BY <1>12, <2>1, AlertsRequest, <1>5 DEF Closing
    <2>3. KeptShifts
      BY <1>12, <2>1, AlertsRequest, <1>8
    <2> QED BY <2>1, <2>2, <2>3
  <1>13. ASSUME NEW k \in Slots, NEW off \in Off, CloseShift(k, off)
         PROVE  KeptRequests /\ KeptShifts /\ UNCHANGED <<clock, unsettled>>
    <2> DEFINE s == request[k].shift
    <2>1. /\ s \in ShiftIds /\ shift[s].st # "none" /\ shift[s].start > 0
          /\ request[k].now <= clock /\ 0 <= clock /\ UNCHANGED <<clock, unsettled>>
      BY <1>13 DEF CloseShift, Timely, Closing, ShiftsTyped, billVars
    <2>2. KeptRequests
      BY <1>13, <2>1, ClosesRequest, <1>5
    <2>3. KeptShifts
      BY <1>13, <2>1, ClosesRequest, <1>8
    <2> QED BY <2>1, <2>2, <2>3
  <1>14. CASE UNCHANGED shiftVars
    BY <1>14, <1>1, <1>2, <1>3, <1>4, <1>16 DEF shiftVars, billVars
  <1>15. CASE ShiftsNext
    <2>1. CASE OffBill
      <3>1. KeptRequests /\ KeptShifts /\ KeptBills /\ KeptLate
        BY <2>1, OffBillLeaves, <1>3, <1>4, <1>7, <1>9, <1>10, <1>11, <1>12, <1>13, <1>16 DEF OffBill
      <3> QED BY <3>1, <1>1
    <2>2. ASSUME NEW o \in Bills, OnBill(o)
          PROVE  ShiftsTyped' /\ Timely'
      BY <2>2, OnBillLeaves, <1>1, <1>2, <1>3, <1>6
    <2> QED BY <1>15, <2>1, <2>2, NextIs
  <1> QED BY <1>14, <1>15

-----------------------------------------------------------------------------
(* One open shift *)

\* The request is about to create a shift of u.
Opening(k, u) == request[k].pc = "create" /\ request[k].user = u

\* Of a user who has not doubled there is one such request at most, and no shift
\* is open meanwhile; and never two are.
OnlyShift ==
    \A u \in People \ doubled :
        /\ \A k \in Slots : Opening(k, u) => OpenOf(u) = {}
        /\ \A j, k \in Slots : Opening(j, u) /\ Opening(k, u) => j = k
        /\ \A s, t \in OpenOf(u) : s = t

\* Rows change in three actions only; an opened shift keeps its owner and start.
LEMMA RowsChange ==
    ASSUME ShiftsTyped, Timely, ShiftsNext
    PROVE  \/ UNCHANGED shift
           \/ \E k \in Slots, s \in ShiftIds, r \in ShiftRow :
                 /\ CreateShift(k, s) /\ shift' = [shift EXCEPT ![s] = r]
                 /\ r.st = "open" /\ r.of = request[k].user /\ r.start = clock + 1
           \/ \E k \in Slots, s \in ShiftIds, r \in ShiftRow :
                 /\ AlertDiscrepancy(k) \/ \E off \in Off : CloseShift(k, off)
                 /\ s = request[k].shift /\ shift[s].st # "none"
                 /\ shift' = [shift EXCEPT ![s] = r]
                 /\ r.st \in {shift[s].st, "closed"} /\ r.of = shift[s].of
                 /\ r.start = shift[s].start
  <1>1. ASSUME NEW k \in Slots, NEW s \in ShiftIds, CreateShift(k, s)
        PROVE  \E r \in ShiftRow : /\ shift' = [shift EXCEPT ![s] = r]
                                   /\ r.st = "open" /\ r.of = request[k].user /\ r.start = clock + 1
    BY <1>1, CreatesRequest
  <1>2. ASSUME NEW k \in Slots, AlertDiscrepancy(k) \/ \E off \in Off : CloseShift(k, off)
        PROVE  /\ request[k].shift \in ShiftIds /\ shift[request[k].shift].st # "none"
               /\ \E r \in ShiftRow :
                     /\ shift' = [shift EXCEPT ![request[k].shift] = r]
                     /\ r.st \in {shift[request[k].shift].st, "closed"}
                     /\ r.of = shift[request[k].shift].of /\ r.start = shift[request[k].shift].start
    <2>1. request[k].pc \in {"audit", "update"}
      BY <1>2 DEF AlertDiscrepancy, CloseShift
    <2>2. request[k].shift \in ShiftIds /\ shift[request[k].shift].st # "none"
      BY <2>1 DEF Timely, Closing
    <2>3. CASE AlertDiscrepancy(k)
      BY <2>2, <2>3, AlertsRequest
    <2>4. ASSUME NEW off \in Off, CloseShift(k, off)
          PROVE  \E r \in ShiftRow :
                     /\ shift' = [shift EXCEPT ![request[k].shift] = r]
                     /\ r.st \in {shift[request[k].shift].st, "closed"}
                     /\ r.of = shift[request[k].shift].of /\ r.start = shift[request[k].shift].start
      BY <2>4, ClosesRequest
    <2> QED BY <1>2, <2>2, <2>3, <2>4
  <1>3. \/ UNCHANGED shift
        \/ \E k \in Slots, s \in ShiftIds : CreateShift(k, s)
        \/ \E k \in Slots : AlertDiscrepancy(k) \/ \E off \in Off : CloseShift(k, off)
    BY NextIs, OnBillLeaves
       DEF OffBill, Enter, OpenShift, AskOpen, Hear, ShiftFails, EndShift, ReadSales, ReadRefunds
  <1>4. ASSUME NEW k \in Slots, NEW s \in ShiftIds, CreateShift(k, s)
        PROVE  \E v \in Slots, x \in ShiftIds, r \in ShiftRow :
                 /\ CreateShift(v, x) /\ shift' = [shift EXCEPT ![x] = r]
                 /\ r.st = "open" /\ r.of = request[v].user /\ r.start = clock + 1
    BY <1>4, <1>1
  <1>5. ASSUME NEW k \in Slots, AlertDiscrepancy(k) \/ \E off \in Off : CloseShift(k, off)
        PROVE  \E v \in Slots, s \in ShiftIds, r \in ShiftRow :
                 /\ AlertDiscrepancy(v) \/ \E off \in Off : CloseShift(v, off)
                 /\ s = request[v].shift /\ shift[s].st # "none"
                 /\ shift' = [shift EXCEPT ![s] = r]
                 /\ r.st \in {shift[s].st, "closed"} /\ r.of = shift[s].of
                 /\ r.start = shift[s].start
    BY <1>5, <1>2
  <1> QED BY <1>3, <1>4, <1>5

\* Only OpenShift brings a request to the insert.
LEMMA CreatesNext ==
    ASSUME ShiftsTyped, Timely, [ShiftsNext]_shiftVars, NEW k \in Slots, request'[k].pc = "create"
    PROVE  \/ request[k].pc = "create" /\ request'[k].user = request[k].user
           \/ \E d \in Desks : OpenShift(k, d) /\ request'[k].user = UserAt[d]
  <1>1. ASSUME NEW v \in Slots, NEW w, Puts(v, w), w.pc # "create"
        PROVE  request'[k] = request[k]
    BY <1>1, PutsEach
  <1>2. ASSUME NEW v \in Slots, NEW d \in Desks, OpenShift(v, d)
        PROVE  request'[k] = request[k] \/ (v = k /\ request'[k].user = UserAt[d])
    BY <1>2, OpensRequest, PutsEach
  <1>3. ASSUME NEW v \in Slots, Hear(v) \/ ShiftFails(v)
        PROVE  request'[k] = request[k]
    <2>1. \E w : Puts(v, w) /\ w.pc = "idle"
      BY <1>3, HearsRequest
    <2> QED BY <2>1, <1>1
  <1>4. ASSUME NEW v \in Slots, NEW s \in ShiftIds,
               CreateShift(v, s) \/ \E u \in People, d \in Desks \cup {NoDesk} : EndShift(v, u, s, d)
        PROVE  request'[k] = request[k]
    <2>1. \E w : Puts(v, w) /\ w.pc \in {"opened", "sales"}
      BY <1>4, CreatesRequest, EndsRequest
    <2> QED BY <2>1, <1>1
  <1>5. ASSUME NEW v \in Slots, ReadSales(v) \/ ReadRefunds(v) \/ AlertDiscrepancy(v)
        PROVE  request'[k] = request[k]
    <2>1. \E w : Puts(v, w) /\ w.pc \in {"refunds", "update", "closed"}
      BY <1>5, ReadsSalesRequest, ReadsRefundsRequest, AlertsRequest
    <2> QED BY <2>1, <1>1
  <1>6. ASSUME NEW v \in Slots, NEW off \in Off, CloseShift(v, off)
        PROVE  request'[k] = request[k]
    <2>1. \E w : Puts(v, w) /\ w.pc = "audit"
      BY <1>6, ClosesRequest
    <2> QED BY <2>1, <1>1
  <1>7. ASSUME NEW d \in Desks, Enter(d)
        PROVE  request'[k].pc = request[k].pc /\ request'[k].user = request[k].user
    BY <1>7, EntersRequest DEF SameBut
  <1>8. CASE UNCHANGED request
    BY <1>8
  <1> QED
    BY <1>2, <1>3, <1>4, <1>5, <1>6, <1>7, <1>8, NextIs, OnBillLeaves DEF OffBill, shiftVars

LEMMA RacedStays == [ShiftsNext]_shiftVars => doubled \subseteq doubled'
  BY NextIs, OnBillLeaves
     DEF OffBill, shiftVars, Enter, OpenShift, AskOpen, Hear, ShiftFails, CreateShift, EndShift,
         ReadSales, ReadRefunds, AlertDiscrepancy, CloseShift

\* A request to open finds no shift open and, unless the user races, no other.
LEMMA OpensAlone ==
    ASSUME ShiftsTyped, NEW k \in Slots, NEW d \in Desks, OpenShift(k, d)
    PROVE  /\ OpenOf(UserAt[d]) = {} /\ UNCHANGED shift
           /\ UserAt[d] \notin doubled' =>
                 \A j \in Slots : j # k => ~ Opening(j, UserAt[d])'
  <1>1. /\ OpenOf(UserAt[d]) = {} /\ UNCHANGED shift
        /\ UserAt[d] \notin doubled' => \A j \in Slots : ~ Opening(j, UserAt[d])
    BY DEF OpenShift, AskOpen, Opening
  <1>2. \A j \in Slots : j # k => request'[j] = request[j]
    BY OpensRequest, PutsEach
  <1> QED BY <1>1, <1>2 DEF Opening

LEMMA OnlyShiftStep ==
    ASSUME ShiftsTyped, Timely, OnlyShift, [ShiftsNext]_shiftVars
    PROVE  OnlyShift'
  <1> SUFFICES ASSUME NEW u \in People, u \notin doubled'
               PROVE  /\ \A k \in Slots : Opening(k, u)' => OpenOf(u)' = {}
                      /\ \A j, k \in Slots : Opening(j, u)' /\ Opening(k, u)' => j = k
                      /\ \A s, t \in OpenOf(u)' : s = t
    BY DEF OnlyShift
  <1>1. /\ \A k \in Slots : Opening(k, u) => OpenOf(u) = {}
        /\ \A j, k \in Slots : Opening(j, u) /\ Opening(k, u) => j = k
        /\ \A s, t \in OpenOf(u) : s = t
    BY RacedStays DEF OnlyShift
  <1>2. ASSUME NEW k \in Slots, Opening(k, u)'
        PROVE  \/ Opening(k, u)
               \/ /\ OpenOf(u) = {} /\ UNCHANGED shift
                  /\ \A j \in Slots : j # k => ~ Opening(j, u)'
    BY <1>2, CreatesNext, OpensAlone DEF Opening
  <1>3. \A j, k \in Slots : Opening(j, u)' /\ Opening(k, u)' => j = k
    BY <1>1, <1>2
  <1>4. CASE UNCHANGED shift
    <2>1. OpenOf(u)' = OpenOf(u)
      BY <1>4 DEF OpenOf
    <2> QED BY <1>1, <1>2, <1>3, <2>1
  <1>5. ASSUME NEW k \in Slots, NEW s \in ShiftIds, NEW r \in ShiftRow, CreateShift(k, s),
               shift' = [shift EXCEPT ![s] = r], r.st = "open", r.of = request[k].user
        PROVE  /\ \A j \in Slots : Opening(j, u)' => OpenOf(u)' = {}
               /\ \A x, t \in OpenOf(u)' : x = t
    <2>1. shift[s].st = "none" /\ request[k].pc = "create" /\ ~ Opening(k, u)'
      <3>1. PICK w : Puts(k, w) /\ w.pc = "opened"
        BY <1>5, CreatesRequest
      <3>2. request'[k].pc = "opened"
        BY <3>1, PutsEach
      <3> QED BY <1>5, <3>2 DEF CreateShift, Opening
    <2>2. shift' # shift
      BY <1>5, <2>1 DEF ShiftsTyped
    <2>3. \A j \in Slots : Opening(j, u)' => Opening(j, u) /\ j # k
      BY <1>2, <2>1, <2>2
    <2>4. CASE request[k].user = u
      <3>1. Opening(k, u)
        BY <2>1, <2>4 DEF Opening
      <3>2. OpenOf(u)' = {s}
        BY <1>1, <1>5, <2>4, <3>1 DEF OpenOf, ShiftsTyped
      <3>3. \A j \in Slots : ~ Opening(j, u)'
        BY <1>1, <2>3, <3>1
      <3> QED BY <3>2, <3>3
    <2>5. CASE request[k].user # u
      <3>1. OpenOf(u)' = OpenOf(u)
        BY <1>5, <2>1, <2>5 DEF OpenOf, ShiftsTyped
      <3> QED BY <1>1, <2>3, <3>1
    <2> QED BY <2>4, <2>5
  <1>6. ASSUME NEW s \in ShiftIds, NEW r \in ShiftRow, shift' = [shift EXCEPT ![s] = r],
               r.st \in {shift[s].st, "closed"}, r.of = shift[s].of
        PROVE  /\ \A j \in Slots : Opening(j, u)' => OpenOf(u)' = {}
               /\ \A x, t \in OpenOf(u)' : x = t
    <2>1. OpenOf(u)' \subseteq OpenOf(u)
      BY <1>6 DEF OpenOf, ShiftsTyped
    <2> QED BY <1>1, <1>2, <2>1
  <1> QED BY <1>3, <1>4, <1>5, <1>6, RowsChange DEF shiftVars

\* A shift that exists keeps its owner and start.
LEMMA RowKeeps ==
    ASSUME ShiftsTyped, Timely, [ShiftsNext]_shiftVars, NEW s \in ShiftIds,
           shift[s].st # "none"
    PROVE  shift'[s].of = shift[s].of /\ shift'[s].start = shift[s].start
  <1>1. CASE UNCHANGED shift
    BY <1>1
  <1>2. ASSUME NEW k \in Slots, NEW x \in ShiftIds, NEW r \in ShiftRow, CreateShift(k, x),
               shift' = [shift EXCEPT ![x] = r]
        PROVE  shift'[s] = shift[s]
    <2>1. shift[x].st = "none"
      BY <1>2 DEF CreateShift
    <2> QED BY <1>2, <2>1 DEF ShiftsTyped
  <1>3. ASSUME NEW x \in ShiftIds, NEW r \in ShiftRow, shift' = [shift EXCEPT ![x] = r],
               r.of = shift[x].of, r.start = shift[x].start
        PROVE  shift'[s].of = shift[s].of /\ shift'[s].start = shift[s].start
    BY <1>3 DEF ShiftsTyped
  <1> QED BY <1>1, <1>2, <1>3, RowsChange DEF shiftVars

\* A row is closed because it was, with the same end and sums, or by a close.
LEMMA ClosedRow ==
    ASSUME ShiftsTyped, Timely, [ShiftsNext]_shiftVars, NEW s \in ShiftIds,
           shift'[s].st = "closed"
    PROVE  \/ /\ shift[s].st = "closed" /\ shift'[s].end = shift[s].end
              /\ shift'[s].expected = shift[s].expected /\ shift'[s].counted = shift[s].counted
              /\ shift[s].alerted => shift'[s].alerted
           \/ \E k \in Slots, off \in Off :
                 /\ CloseShift(k, off) /\ request[k].shift = s
                 /\ shift'[s].end = request[k].now
                 /\ shift'[s].expected = request[k].sales - request[k].refunds
                 /\ shift'[s].counted = shift'[s].expected + off
  <1>1. ASSUME NEW k \in Slots, NEW x \in ShiftIds, CreateShift(k, x)
        PROVE  shift'[s] = shift[s]
    <2>1. PICK r \in ShiftRow : shift' = [shift EXCEPT ![x] = r] /\ r.st = "open"
      BY <1>1, CreatesRequest
    <2>2. x # s
      BY <2>1 DEF ShiftsTyped
    <2> QED BY <2>1, <2>2 DEF ShiftsTyped
  <1>2. ASSUME NEW k \in Slots, AlertDiscrepancy(k)
        PROVE  /\ shift[s].st = "closed" /\ shift'[s].end = shift[s].end
               /\ shift'[s].expected = shift[s].expected /\ shift'[s].counted = shift[s].counted
               /\ shift[s].alerted => shift'[s].alerted
    <2>1. PICK r \in ShiftRow :
             /\ shift' = [shift EXCEPT ![request[k].shift] = r]
             /\ r.st = shift[request[k].shift].st /\ r.end = shift[request[k].shift].end
             /\ r.expected = shift[request[k].shift].expected
             /\ r.counted = shift[request[k].shift].counted
             /\ shift[request[k].shift].alerted => r.alerted
      BY <1>2, AlertsRequest
    <2>2. CASE request[k].shift = s
      BY <2>1, <2>2 DEF ShiftsTyped
    <2>3. CASE request[k].shift # s
      BY <2>1, <2>3 DEF ShiftsTyped
    <2> QED BY <2>2, <2>3
  <1>3. ASSUME NEW k \in Slots, NEW off \in Off, CloseShift(k, off), request[k].shift # s
        PROVE  shift'[s] = shift[s]
    BY <1>3 DEF CloseShift, ShiftsTyped
  <1>4. ASSUME NEW k \in Slots, NEW off \in Off, CloseShift(k, off), request[k].shift = s
        PROVE  /\ shift'[s].end = request[k].now
               /\ shift'[s].expected = request[k].sales - request[k].refunds
               /\ shift'[s].counted = shift'[s].expected + off
    <2>1. PICK r \in ShiftRow :
             /\ shift' = [shift EXCEPT ![s] = r] /\ r.end = request[k].now
             /\ r.expected = request[k].sales - request[k].refunds /\ r.counted = r.expected + off
      BY <1>4, ClosesRequest
    <2> QED BY <2>1 DEF ShiftsTyped
  <1>5. \/ UNCHANGED shift
        \/ \E k \in Slots, x \in ShiftIds : CreateShift(k, x)
        \/ \E k \in Slots : AlertDiscrepancy(k)
        \/ \E k \in Slots, off \in Off : CloseShift(k, off)
    BY NextIs, OnBillLeaves
       DEF OffBill, shiftVars, Enter, OpenShift, AskOpen, Hear, ShiftFails, EndShift, ReadSales,
           ReadRefunds
  <1> QED BY <1>1, <1>2, <1>3, <1>4, <1>5

\* A request holds a sum because it did, for the same shift, or by reading it now.
LEMMA SumHeld ==
    ASSUME ShiftsTyped, Timely, [ShiftsNext]_shiftVars, NEW k \in Slots
    PROVE  \/ SameBut(request'[k], request[k])
           \/ request'[k].pc \notin {"refunds", "update"}
           \/ /\ ReadSales(k) /\ request'[k].pc = "refunds" /\ request'[k].shift = request[k].shift
              /\ request'[k].now = request[k].now
              /\ request'[k].sales = SumOf(SalesIn(request[k].shift, request[k].now))
           \/ /\ ReadRefunds(k) /\ request'[k].pc = "update" /\ request'[k].shift = request[k].shift
              /\ request'[k].now = request[k].now /\ request'[k].sales = request[k].sales
              /\ request'[k].refunds = SumOf(RefundsIn(request[k].shift, request[k].now))
  <1> DEFINE Out == SameBut(request'[k], request[k]) \/ request'[k].pc \notin {"refunds", "update"}
  <1>1. ASSUME NEW v \in Slots, NEW w, Puts(v, w), w.pc \notin {"refunds", "update"} \/ v # k
        PROVE  Out
    BY <1>1, PutsEach DEF SameBut
  <1> HIDE DEF Out
  <1>2. ASSUME NEW v \in Slots, Hear(v) \/ ShiftFails(v) \/ \E d \in Desks : OpenShift(v, d)
        PROVE  Out
    <2>1. \E w : Puts(v, w) /\ w.pc \in {"create", "idle"}
      BY <1>2, OpensRequest, HearsRequest
    <2> QED BY <2>1, <1>1
  <1>3. ASSUME NEW v \in Slots, NEW s \in ShiftIds,
               CreateShift(v, s) \/ \E u \in People, d \in Desks \cup {NoDesk} : EndShift(v, u, s, d)
        PROVE  Out
    <2>1. \E w : Puts(v, w) /\ w.pc \in {"opened", "sales"}
      BY <1>3, CreatesRequest, EndsRequest
    <2> QED BY <2>1, <1>1
  <1>4. ASSUME NEW v \in Slots, AlertDiscrepancy(v) \/ \E off \in Off : CloseShift(v, off)
        PROVE  Out
    <2>1. \E w : Puts(v, w) /\ w.pc \in {"closed", "audit"}
      BY <1>4, AlertsRequest, ClosesRequest
    <2> QED BY <2>1, <1>1
  <1>5. ASSUME NEW d \in Desks, Enter(d)
        PROVE  Out
    BY <1>5, EntersRequest DEF Out
  <1>6. ASSUME NEW v \in Slots, v # k, ReadSales(v) \/ ReadRefunds(v)
        PROVE  Out
    <2>1. \E w : Puts(v, w)
      BY <1>6, ReadsSalesRequest, ReadsRefundsRequest
    <2> QED BY <1>6, <2>1, <1>1
  <1>7. ASSUME ReadSales(k)
        PROVE  /\ request'[k].pc = "refunds" /\ request'[k].shift = request[k].shift
               /\ request'[k].now = request[k].now
               /\ request'[k].sales = SumOf(SalesIn(request[k].shift, request[k].now))
    BY <1>7, ReadsSalesRequest, PutsEach
  <1>8. ASSUME ReadRefunds(k)
        PROVE  /\ request'[k].pc = "update" /\ request'[k].shift = request[k].shift
               /\ request'[k].now = request[k].now /\ request'[k].sales = request[k].sales
               /\ request'[k].refunds = SumOf(RefundsIn(request[k].shift, request[k].now))
    BY <1>8, ReadsRefundsRequest, PutsEach
  <1>9. UNCHANGED request => Out
    BY DEF Out, SameBut
  <1>10. \/ Out
         \/ ReadSales(k) \/ ReadRefunds(k)
    BY <1>2, <1>3, <1>4, <1>5, <1>6, <1>9, NextIs, OnBillLeaves DEF OffBill, shiftVars
  <1> QED
    BY <1>7, <1>8, <1>10 DEF Out

-----------------------------------------------------------------------------
(* The expected cash *)

\* Moves and their plainness up to t, the end of a shift or the time its close took.
DuringTo(s, t) == {e \in flow : e.bill \in Cash /\ Between(e.t, shift[s].start, t)}
MovedTo(s, t, sale) ==
    {e.bill : e \in {m \in DuringTo(s, t) : m.who = shift[s].of /\ m.sale = sale}}
PlainTo(s, t) ==
    /\ \A e \in DuringTo(s, t) : e.sale => e.who = bill[e.bill].by
    /\ \A e, f \in DuringTo(s, t) : e.bill = f.bill => e = f

\* A sum of those moves that leaves out only bills that moved meanwhile.
Counts(n, s, t, sale) ==
    \E X \in SUBSET MovedTo(s, t, sale) :
        MovedTo(s, t, sale) \ X \subseteq unsettled[s] /\ n = SumOf(X)

\* The row of a bill tells its last move.
Tells(b, e) ==
    \/ e.sale /\ b.st = "sold" /\ b.at = e.t
    \/ ~ e.sale /\ b.st \in {"cancelled", "returned"} /\ b.out = e.t /\ b.payer = e.who

History ==
    \A o \in Bills :
        /\ (\A e \in flow : e.bill # o) =>
              bill[o].st = "none" \/ (bill[o].st \in {"held", "cancelled"} /\ bill[o].out = 0)
        /\ \A e \in flow : e.bill = o =>
              \E g \in flow : /\ g.bill = o /\ Tells(bill[o], g)
                              /\ \A f \in flow : f.bill = o => f.t <= g.t
        /\ ~ AtRest(o) =>
              /\ Stamped(trans[o].row, trans[o].who, trans[o].t)
              /\ \A f \in flow : f.bill = o => f.t < trans[o].t
              /\ bill[o].st # "none" => trans[o].row.by = bill[o].by

\* Shift s was closed, or is being, with time t.
ClosedAt(s, t) ==
    \/ shift[s].st = "closed" /\ shift[s].end = t
    \/ \E k \in Slots : request[k].pc \in Closing /\ request[k].shift = s /\ request[k].now = t

\* What moves while a shift is closed is noted: what was stamped before and not
\* committed, and what moves again before both sums are read.
Noted ==
    /\ \A s \in ShiftIds, t \in Nat : ClosedAt(s, t) =>
          \A o \in Bills : ~ AtRest(o) /\ trans[o].t <= t => o \in unsettled[s]
    /\ \A k \in Slots : request[k].pc \in {"sales", "refunds"} =>
          \A o \in Bills :
              /\ \E e \in flow : e.bill = o /\ e.t <= request[k].now
              /\ trans[o].t > request[k].now \/ \E f \in flow : f.bill = o /\ f.t > request[k].now
              => o \in unsettled[request[k].shift]

Summed ==
    /\ \A k \in Slots, s \in ShiftIds, t \in Nat :
          request[k].shift = s /\ request[k].now = t /\ PlainTo(s, t) =>
             /\ request[k].pc \in {"refunds", "update"} => Counts(request[k].sales, s, t, TRUE)
             /\ request[k].pc = "update" => Counts(request[k].refunds, s, t, FALSE)
    /\ \A s \in ShiftIds, t \in Nat :
          shift[s].st = "closed" /\ shift[s].end = t /\ PlainTo(s, t) =>
             \E m, n \in Int : /\ Counts(m, s, t, TRUE) /\ Counts(n, s, t, FALSE)
                               /\ shift[s].expected = m - n

\* The moves of the drawer grow by a commit only, whose row the bill then has.
LEMMA FlowGrows ==
    ASSUME ShiftsTyped, Timely, History, [ShiftsNext]_shiftVars
    PROVE  \/ UNCHANGED <<bill, flow, trans>>
           \/ \E o \in Bills : Stamping(o)
           \/ \E o \in Bills : Unpaid(o) \/ RollBackBill(o)
           \/ \E o \in Bills : CommitBill(o)
  <1>1. CASE UNCHANGED shiftVars
    BY <1>1 DEF shiftVars, billVars
  <1> QED BY <1>1, NextIs, OffBillLeaves DEF OnBill

LEMMA HistoryStep ==
    ASSUME ShiftsTyped, Timely, History, [ShiftsNext]_shiftVars
    PROVE  History'
  <1>1. /\ clock \in Nat /\ bill \in [Bills -> BillRow] /\ trans \in [Bills -> TransRow]
        /\ \A e \in flow : e.t \in Nat /\ e.t <= clock
        /\ \A o \in Bills : trans[o].t \in Nat
    BY DEF ShiftsTyped, Timely, TransRow, MoveRow
  <1>2. CASE UNCHANGED <<bill, flow, trans>>
    BY <1>2 DEF History, AtRest
  <1>3. ASSUME NEW o \in Bills, Unpaid(o)
        PROVE  History'
    <2>1. UNCHANGED <<trans, flow>> /\ AtRest(o)
      BY <1>3, UnpaidIs
    <2>2. PICK b \in BillRow :
              /\ bill' = [bill EXCEPT ![o] = b]
              /\ \/ bill[o].st = "none" /\ b.st = "held" /\ b.out = 0
                 \/ /\ bill[o].st \in {"held", "returned"} /\ b.st = "cancelled"
                    /\ b.out = bill[o].out /\ b.payer = bill[o].payer
      BY <1>3, UnpaidIs
    <2>3. bill'[o] = b /\ \A p \in Bills : p # o => bill'[p] = bill[p]
      BY <1>1, <2>2
    <2>4. (\A e \in flow : e.bill # o) => b.st \in {"held", "cancelled"} /\ b.out = 0
      BY <2>2 DEF History
    <2>5. ASSUME NEW e \in flow, e.bill = o
          PROVE  \E g \in flow : /\ g.bill = o /\ Tells(b, g)
                                 /\ \A f \in flow : f.bill = o => f.t <= g.t
      <3>1. PICK g \in flow : /\ g.bill = o /\ Tells(bill[o], g)
                              /\ \A f \in flow : f.bill = o => f.t <= g.t
        BY <2>5 DEF History
      <3>2. Tells(b, g)
        BY <2>2, <3>1 DEF Tells
      <3> QED BY <3>1, <3>2
    <2>6. \A p \in Bills : AtRest(p)' <=> AtRest(p)
      BY <2>1 DEF AtRest
    <2> QED BY <2>1, <2>3, <2>4, <2>5, <2>6 DEF History
  <1>4. ASSUME NEW o \in Bills, Stamping(o)
        PROVE  History'
    <2>1. PICK who, row : /\ StampBill(o, who, row) /\ Stamped(row, who, clock + 1)
                          /\ bill[o].st # "none" => row.by = bill[o].by
      BY <1>4, StampIs
    <2> DEFINE v == [row |-> row, who |-> who, t |-> clock + 1]
    <2>2. v.row = row /\ v.who = who /\ v.t = clock + 1
      OBVIOUS
    <2>3. trans' = [trans EXCEPT ![o] = v] /\ UNCHANGED <<bill, flow>>
      BY <2>1 DEF StampBill
    <2> HIDE DEF v
    <2>4. trans'[o] = v /\ \A p \in Bills : p # o => trans'[p] = trans[p]
      BY <1>1, <2>3
    <2>5. \A p \in Bills : p # o => (AtRest(p)' <=> AtRest(p))
      BY <2>4 DEF AtRest
    <2>6. /\ Stamped(trans'[o].row, trans'[o].who, trans'[o].t)
          /\ \A f \in flow : f.bill = o => f.t < trans'[o].t
          /\ bill[o].st # "none" => trans'[o].row.by = bill[o].by
      BY <1>1, <2>1, <2>2, <2>4
    <2>7. \A p \in Bills : ~ AtRest(p)' =>
              /\ Stamped(trans'[p].row, trans'[p].who, trans'[p].t)
              /\ \A f \in flow : f.bill = p => f.t < trans'[p].t
              /\ bill[p].st # "none" => trans'[p].row.by = bill[p].by
      BY <2>4, <2>5, <2>6 DEF History
    <2> QED BY <2>3, <2>7 DEF History
  <1>5. ASSUME NEW o \in Bills, RollBackBill(o) \/ CommitBill(o)
        PROVE  \A p \in Bills : ~ AtRest(p)' => p # o /\ ~ AtRest(p) /\ trans'[p] = trans[p]
    BY <1>1, <1>5, NoRequestTyped DEF RollBackBill, CommitBill, AtRest
  <1>6. ASSUME NEW o \in Bills, RollBackBill(o)
        PROVE  History'
    <2>1. UNCHANGED <<bill, flow>>
      BY <1>6 DEF RollBackBill
    <2> QED BY <1>5, <1>6, <2>1 DEF History
  <1>7. ASSUME NEW o \in Bills, CommitBill(o)
        PROVE  History'
    <2> DEFINE m == Move(o)
    <2>1. /\ ~ AtRest(o) /\ flow' = flow \cup {m}
          /\ bill' = [bill EXCEPT ![o] = trans[o].row]
      BY <1>7 DEF CommitBill
    <2>2. bill'[o] = trans[o].row /\ \A p \in Bills : p # o => bill'[p] = bill[p]
      BY <1>1, <2>1
    <2>3. /\ m.bill = o /\ m.t = trans[o].t /\ m.who = trans[o].who
          /\ m.sale = (trans[o].row.st = "sold")
      BY DEF Move
    <2> HIDE DEF m
    <2>4. /\ Stamped(trans[o].row, trans[o].who, trans[o].t)
          /\ \A f \in flow : f.bill = o => f.t < trans[o].t
      BY <2>1 DEF History
    <2>5. Tells(bill'[o], m)
      BY <2>2, <2>3, <2>4 DEF Tells, Stamped
    <2>6. \A f \in flow' : f.bill = o => f.t <= m.t
      BY <1>1, <2>1, <2>3, <2>4
    <2>7. ASSUME NEW p \in Bills
          PROVE  /\ (\A e \in flow' : e.bill # p) =>
                      \/ bill'[p].st = "none"
                      \/ bill'[p].st \in {"held", "cancelled"} /\ bill'[p].out = 0
                 /\ \A e \in flow' : e.bill = p =>
                      \E g \in flow' : /\ g.bill = p /\ Tells(bill'[p], g)
                                       /\ \A f \in flow' : f.bill = p => f.t <= g.t
                 /\ ~ AtRest(p)' =>
                      /\ Stamped(trans'[p].row, trans'[p].who, trans'[p].t)
                      /\ \A f \in flow' : f.bill = p => f.t < trans'[p].t
                      /\ bill'[p].st # "none" => trans'[p].row.by = bill'[p].by
      <3>1. CASE p = o
        BY <1>5, <1>7, <2>1, <2>3, <2>5, <2>6, <3>1
      <3>2. CASE p # o
        <4>1. bill'[p] = bill[p] /\ \A e \in flow' : e.bill = p <=> e \in flow /\ e.bill = p
          BY <2>1, <2>2, <2>3, <3>2
        <4>2. (\A e \in flow' : e.bill # p) =>
                  \/ bill'[p].st = "none"
                  \/ bill'[p].st \in {"held", "cancelled"} /\ bill'[p].out = 0
          BY <2>1, <4>1 DEF History
        <4>3. ASSUME NEW e \in flow', e.bill = p
              PROVE  \E g \in flow' : /\ g.bill = p /\ Tells(bill'[p], g)
                                      /\ \A f \in flow' : f.bill = p => f.t <= g.t
          <5>1. PICK g \in flow : /\ g.bill = p /\ Tells(bill[p], g)
                                  /\ \A f \in flow : f.bill = p => f.t <= g.t
            BY <4>1, <4>3 DEF History
          <5> QED BY <2>1, <4>1, <5>1
        <4>4. ~ AtRest(p)' =>
                  /\ Stamped(trans'[p].row, trans'[p].who, trans'[p].t)
                  /\ \A f \in flow' : f.bill = p => f.t < trans'[p].t
                  /\ bill'[p].st # "none" => trans'[p].row.by = bill'[p].by
          BY <1>5, <1>7, <4>1 DEF History
        <4> QED BY <4>2, <4>3, <4>4
      <3> QED BY <3>1, <3>2
    <2> QED BY <2>7 DEF History
  <1> QED BY <1>2, <1>3, <1>4, <1>6, <1>7, FlowGrows

\* What was noted stays noted.
LEMMA UnsettledGrows ==
    ASSUME ShiftsTyped, [ShiftsNext]_shiftVars, NEW s \in ShiftIds
    PROVE  unsettled[s] \subseteq unsettled'[s]
  <1>1. ASSUME NEW o \in Bills, OnBill(o)
        PROVE  unsettled[s] \subseteq unsettled'[s]
    <2>1. ASSUME Stamping(o)
          PROVE  unsettled[s] \subseteq unsettled'[s]
      <3>1. \E who, row : StampBill(o, who, row)
        BY <2>1, StampIs
      <3> QED BY <3>1 DEF StampBill
    <2>2. ASSUME Unpaid(o) \/ CommitBill(o) \/ RollBackBill(o)
          PROVE  UNCHANGED unsettled
      BY <2>2, UnpaidIs DEF CommitBill, RollBackBill
    <2> QED BY <1>1, <2>1, <2>2 DEF OnBill
  <1>2. ASSUME NEW k \in Slots, NEW u \in People, NEW x \in ShiftIds,
               NEW d \in Desks \cup {NoDesk}, EndShift(k, u, x, d)
        PROVE  unsettled[s] \subseteq unsettled'[s]
    BY <1>2 DEF EndShift, ShiftsTyped
  <1>3. \/ UNCHANGED unsettled
        \/ \E o \in Bills : OnBill(o)
        \/ \E k \in Slots, u \in People, x \in ShiftIds, d \in Desks \cup {NoDesk} :
              EndShift(k, u, x, d)
    BY NextIs
       DEF OffBill, shiftVars, Enter, OpenShift, AskOpen, Hear, ShiftFails, CreateShift,
           ReadSales, ReadRefunds, AlertDiscrepancy, CloseShift
  <1> QED BY <1>1, <1>2, <1>3

\* What a step does to the transactions, the moves, and who had created a bill.
LEMMA BillsNext ==
    ASSUME ShiftsTyped, Timely, History, [ShiftsNext]_shiftVars
    PROVE  /\ \A o \in Bills : ~ AtRest(o)' =>
                 \/ ~ AtRest(o) /\ trans'[o] = trans[o]
                 \/ Stamping(o) /\ trans'[o].t = clock + 1
           /\ flow \subseteq flow'
           /\ \A e \in flow' \ flow : /\ e.bill \in Bills /\ CommitBill(e.bill) /\ ~ AtRest(e.bill)
                                      /\ e.t = trans[e.bill].t
           /\ \A o \in Bills : bill[o].st # "none" => bill'[o].by = bill[o].by
  <1> DEFINE Goal == /\ \A o \in Bills : ~ AtRest(o)' =>
                           \/ ~ AtRest(o) /\ trans'[o] = trans[o]
                           \/ Stamping(o) /\ trans'[o].t = clock + 1
                     /\ flow \subseteq flow'
                     /\ \A e \in flow' \ flow :
                           /\ e.bill \in Bills /\ CommitBill(e.bill) /\ ~ AtRest(e.bill)
                           /\ e.t = trans[e.bill].t
                     /\ \A o \in Bills : bill[o].st # "none" => bill'[o].by = bill[o].by
  <1>1. bill \in [Bills -> BillRow] /\ trans \in [Bills -> TransRow]
    BY DEF ShiftsTyped
  <1>2. UNCHANGED <<bill, flow, trans>> => Goal
    BY DEF AtRest
  <1>3. ASSUME NEW o \in Bills, Unpaid(o)
        PROVE  Goal
    <2>1. UNCHANGED <<trans, flow>> /\ \A p \in Bills : bill[p].st # "none" => bill'[p].by = bill[p].by
      BY <1>1, <1>3, UnpaidIs
    <2> QED BY <2>1 DEF AtRest
  <1>4. ASSUME NEW o \in Bills, Stamping(o)
        PROVE  Goal
    <2>1. PICK who, row : StampBill(o, who, row)
      BY <1>4, StampIs
    <2>2. UNCHANGED <<bill, flow>> /\ trans'[o].t = clock + 1
          /\ \A p \in Bills : p # o => trans'[p] = trans[p]
      BY <1>1, <2>1 DEF StampBill
    <2> QED BY <1>4, <2>2 DEF AtRest
  <1>5. ASSUME NEW o \in Bills, RollBackBill(o) \/ CommitBill(o)
        PROVE  \A p \in Bills : ~ AtRest(p)' => ~ AtRest(p) /\ trans'[p] = trans[p]
    BY <1>1, <1>5, NoRequestTyped DEF RollBackBill, CommitBill, AtRest
  <1>6. ASSUME NEW o \in Bills, RollBackBill(o)
        PROVE  Goal
    <2>1. UNCHANGED <<bill, flow>>
      BY <1>6 DEF RollBackBill
    <2> QED BY <1>5, <1>6, <2>1
  <1>7. ASSUME NEW o \in Bills, CommitBill(o)
        PROVE  Goal
    <2>1. /\ flow' = flow \cup {Move(o)} /\ Move(o).bill = o /\ Move(o).t = trans[o].t
          /\ bill' = [bill EXCEPT ![o] = trans[o].row] /\ ~ AtRest(o)
      BY <1>7 DEF CommitBill, Move
    <2>2. \A p \in Bills : bill[p].st # "none" => bill'[p].by = bill[p].by
      BY <1>1, <2>1 DEF History
    <2> QED BY <1>5, <1>7, <2>1, <2>2
  <1> QED BY <1>2, <1>3, <1>4, <1>6, <1>7, FlowGrows

\* A request that is closing a shift was, or has just taken its time.
LEMMA ClosingNext ==
    ASSUME ShiftsTyped, Timely, [ShiftsNext]_shiftVars, NEW k \in Slots, request'[k].pc \in Closing
    PROVE  \/ /\ request[k].pc \in Closing /\ request'[k].shift = request[k].shift
              /\ request'[k].now = request[k].now
              /\ request'[k].pc \in {"sales", "refunds"} => request[k].pc \in {"sales", "refunds"}
           \/ \E u \in People, s \in ShiftIds, d \in Desks \cup {NoDesk} :
                 EndShift(k, u, s, d) /\ request'[k].shift = s /\ request'[k].now = clock
  <1> DEFINE Out == \/ /\ request[k].pc \in Closing /\ request'[k].shift = request[k].shift
                       /\ request'[k].now = request[k].now
                       /\ request'[k].pc \in {"sales", "refunds"} => request[k].pc \in {"sales", "refunds"}
                    \/ \E u \in People, s \in ShiftIds, d \in Desks \cup {NoDesk} :
                          EndShift(k, u, s, d) /\ request'[k].shift = s /\ request'[k].now = clock
  <1>1. ASSUME NEW v \in Slots, NEW w, Puts(v, w), w.pc \notin Closing \/ v # k
        PROVE  Out
    BY <1>1, PutsEach
  <1>2. SameBut(request'[k], request[k]) => Out
    BY DEF SameBut
  <1>3. ASSUME NEW u \in People, NEW s \in ShiftIds, NEW d \in Desks \cup {NoDesk},
               EndShift(k, u, s, d)
        PROVE  Out
    <2>1. request'[k].shift = s /\ request'[k].now = clock
      BY <1>3, EndsRequest, PutsEach
    <2> QED BY <1>3, <2>1
  <1>4. ASSUME ReadSales(k)
        PROVE  Out
    <2>1. request'[k].pc = "refunds" /\ request'[k].shift = request[k].shift /\ request'[k].now = request[k].now
      BY <1>4, ReadsSalesRequest, PutsEach
    <2>2. request[k].pc = "sales"
      BY <1>4 DEF ReadSales
    <2> QED BY <2>1, <2>2 DEF Closing
  <1>5. ASSUME ReadRefunds(k)
        PROVE  Out
    <2>1. request'[k].pc = "update" /\ request'[k].shift = request[k].shift /\ request'[k].now = request[k].now
      BY <1>5, ReadsRefundsRequest, PutsEach
    <2>2. request[k].pc = "refunds"
      BY <1>5 DEF ReadRefunds
    <2> QED BY <2>1, <2>2 DEF Closing
  <1> HIDE DEF Out
  <1>6. ASSUME NEW v \in Slots, Hear(v) \/ ShiftFails(v) \/ \E d \in Desks : OpenShift(v, d)
        PROVE  Out
    <2>1. \E w : Puts(v, w) /\ w.pc \in {"create", "idle"}
      BY <1>6, OpensRequest, HearsRequest
    <2> QED BY <2>1, <1>1 DEF Closing
  <1>7. ASSUME NEW v \in Slots, NEW s \in ShiftIds, CreateShift(v, s)
        PROVE  Out
    <2>1. \E w : Puts(v, w) /\ w.pc = "opened"
      BY <1>7, CreatesRequest
    <2> QED BY <2>1, <1>1 DEF Closing
  <1>8. ASSUME NEW v \in Slots, AlertDiscrepancy(v) \/ \E off \in Off : CloseShift(v, off)
        PROVE  Out
    <2>1. \E w : Puts(v, w) /\ w.pc \in {"closed", "audit"}
      BY <1>8, AlertsRequest, ClosesRequest
    <2> QED BY <2>1, <1>1 DEF Closing
  <1>9. ASSUME NEW v \in Slots, v # k,
               \/ ReadSales(v) \/ ReadRefunds(v)
               \/ \E u \in People, s \in ShiftIds, d \in Desks \cup {NoDesk} : EndShift(v, u, s, d)
        PROVE  Out
    <2>1. \E w : Puts(v, w)
      BY <1>9, ReadsSalesRequest, ReadsRefundsRequest, EndsRequest
    <2> QED BY <1>9, <2>1, <1>1
  <1>10. ASSUME NEW d \in Desks, Enter(d)
         PROVE  Out
    BY <1>10, <1>2, EntersRequest
  <1>11. UNCHANGED request => Out
    BY <1>2 DEF SameBut
  <1>12. Out
    BY <1>3, <1>4, <1>5, <1>6, <1>7, <1>8, <1>9, <1>10, <1>11, NextIs, OnBillLeaves
       DEF OffBill, shiftVars
  <1> QED BY <1>12 DEF Out

\* The end of a shift that is closed, or being closed, is past.
LEMMA ClosedAtPast ==
    ASSUME ShiftsTyped, Timely, NEW s \in ShiftIds, NEW t \in Nat, ClosedAt(s, t)
    PROVE  t <= clock /\ shift[s].st # "none"
  BY DEF ClosedAt, Timely

\* Shift s is closed at t because it was, or a close has just taken its time.
LEMMA ClosedAtNext ==
    ASSUME ShiftsTyped, Timely, [ShiftsNext]_shiftVars, NEW s \in ShiftIds, NEW t \in Nat,
           ClosedAt(s, t)'
    PROVE  \/ ClosedAt(s, t)
           \/ \E k \in Slots, u \in People, d \in Desks \cup {NoDesk} :
                 EndShift(k, u, s, d) /\ t = clock
  <1>1. CASE shift'[s].st = "closed" /\ shift'[s].end = t
    <2>1. ASSUME NEW k \in Slots, NEW off \in Off, CloseShift(k, off), request[k].shift = s,
                 shift'[s].end = request[k].now
          PROVE  ClosedAt(s, t)
      <3>1. request[k].pc = "update"
        BY <2>1 DEF CloseShift
      <3> QED BY <1>1, <2>1, <3>1 DEF ClosedAt, Closing
    <2> QED BY <1>1, <2>1, ClosedRow DEF ClosedAt
  <1>2. ASSUME NEW k \in Slots, request'[k].pc \in Closing, request'[k].shift = s, request'[k].now = t
        PROVE  \/ ClosedAt(s, t)
               \/ \E u \in People, d \in Desks \cup {NoDesk} : EndShift(k, u, s, d) /\ t = clock
    BY <1>2, ClosingNext DEF ClosedAt
  <1> QED BY <1>1, <1>2 DEF ClosedAt

LEMMA NotedStep ==
    ASSUME ShiftsTyped, Timely, History, Noted, [ShiftsNext]_shiftVars
    PROVE  Noted'
  <1>1. /\ clock \in Nat /\ \A o \in Bills : trans[o].t \in Nat /\ trans[o].t <= clock
        /\ \A e \in flow : e.t \in Nat /\ e.t <= clock
        /\ \A k \in Slots : request[k].now \in Nat /\ request[k].now <= clock
    BY DEF ShiftsTyped, Timely, TransRow, MoveRow, Request
  <1>2. ASSUME NEW k \in Slots, NEW u \in People, NEW s \in ShiftIds,
               NEW d \in Desks \cup {NoDesk}, EndShift(k, u, s, d)
        PROVE  UNCHANGED <<trans, flow>> /\ \A o \in Bills : ~ AtRest(o) => o \in unsettled'[s]
    BY <1>2 DEF EndShift, billVars, ShiftsTyped
  <1>3. ASSUME NEW s \in ShiftIds, NEW t \in Nat, ClosedAt(s, t)',
               NEW o \in Bills, ~ AtRest(o)', trans'[o].t <= t
        PROVE  o \in unsettled'[s]
    <2>1. CASE ClosedAt(s, t)
      <3>1. t <= clock
        BY <2>1, ClosedAtPast
      <3>2. ~ AtRest(o) /\ trans'[o] = trans[o]
        BY <1>1, <1>3, <3>1, BillsNext
      <3> QED BY <1>3, <2>1, <3>2, UnsettledGrows DEF Noted
    <2>2. ASSUME NEW k \in Slots, NEW u \in People, NEW d \in Desks \cup {NoDesk},
                 EndShift(k, u, s, d)
          PROVE  o \in unsettled'[s]
      BY <1>2, <1>3, <2>2 DEF AtRest
    <2> QED BY <1>3, <2>1, <2>2, ClosedAtNext
  <1>4. ASSUME NEW k \in Slots, request'[k].pc \in {"sales", "refunds"}, NEW o \in Bills,
               NEW e \in flow', e.bill = o, e.t <= request'[k].now,
               trans'[o].t > request'[k].now \/ \E f \in flow' : f.bill = o /\ f.t > request'[k].now
        PROVE  o \in unsettled'[request'[k].shift]
    <2>1. ASSUME NEW u \in People, NEW s \in ShiftIds, NEW d \in Desks \cup {NoDesk},
                 EndShift(k, u, s, d), request'[k].now = clock
          PROVE  FALSE
      <3>1. UNCHANGED <<trans, flow>>
        BY <1>2, <2>1
      <3> QED BY <1>1, <1>4, <2>1, <3>1
    <2>2. ASSUME request[k].pc \in {"sales", "refunds"}, request'[k].shift = request[k].shift,
                 request'[k].now = request[k].now
          PROVE  o \in unsettled'[request'[k].shift]
      <3> DEFINE s == request[k].shift
                 t == request[k].now
      <3>1. /\ s \in ShiftIds /\ t \in Nat /\ t <= clock /\ ClosedAt(s, t)
        BY <1>1, <2>2 DEF Timely, Closing, ClosedAt
      <3>2. unsettled[s] \subseteq unsettled'[s]
        BY <3>1, UnsettledGrows
      <3> SUFFICES o \in unsettled'[s]
        BY <2>2
      <3>3. ASSUME NEW g \in flow, g.bill = o, g.t <= t,
                   trans[o].t > t \/ \E f \in flow : f.bill = o /\ f.t > t
            PROVE  o \in unsettled'[s]
        BY <2>2, <3>2, <3>3 DEF Noted
      <3>4. CASE UNCHANGED <<trans, flow>>
        BY <1>4, <2>2, <3>3, <3>4
      <3>5. ASSUME NEW p \in Bills, Stamping(p)
            PROVE  o \in unsettled'[s]
        <4>1. PICK who, row : StampBill(p, who, row)
          BY <3>5, StampIs
        <4>2. flow' = flow /\ \A x \in Bills : x # p => trans'[x] = trans[x]
          BY <4>1 DEF StampBill, ShiftsTyped
        <4>3. CASE p = o
          <5>1. bill[o].st \notin {"none", "held"}
            BY <1>4, <4>2 DEF History, Tells
          <5>2. Summing(s)
            BY <2>2 DEF Summing
          <5> QED BY <3>1, <4>1, <4>3, <5>1, <5>2 DEF StampBill
        <4>4. CASE p # o
          BY <1>4, <2>2, <3>3, <4>2, <4>4
        <4> QED BY <4>3, <4>4
      <3>6. ASSUME NEW p \in Bills, RollBackBill(p) \/ CommitBill(p)
            PROVE  trans'[o].t > t => trans[o].t > t
        <4>1. trans' = [trans EXCEPT ![p] = NoTrans]
          BY <3>6 DEF RollBackBill, CommitBill
        <4> QED BY <1>1, <3>1, <4>1, NoRequestTyped DEF ShiftsTyped
      <3>7. ASSUME NEW p \in Bills, RollBackBill(p)
            PROVE  o \in unsettled'[s]
        <4>1. UNCHANGED flow
          BY <3>7 DEF RollBackBill
        <4> QED BY <1>4, <2>2, <3>3, <3>6, <3>7, <4>1
      <3>8. ASSUME NEW p \in Bills, CommitBill(p)
            PROVE  o \in unsettled'[s]
        <4>1. \A f \in flow' : f \in flow \/ (~ AtRest(f.bill) /\ f.t = trans[f.bill].t)
          BY BillsNext
        <4>2. CASE e \in flow
          <5>1. trans[o].t > t \/ \E f \in flow : f.bill = o /\ f.t > t
            BY <1>4, <2>2, <3>6, <3>8, <4>1
          <5> QED BY <1>4, <2>2, <3>3, <4>2, <5>1
        <4>3. CASE ~ AtRest(o) /\ e.t = trans[o].t
          BY <1>4, <2>2, <3>1, <3>2, <4>3 DEF Noted
        <4> QED BY <1>4, <4>1, <4>2, <4>3
      <3>9. \/ UNCHANGED <<trans, flow>>
            \/ \E p \in Bills : Stamping(p) \/ RollBackBill(p) \/ CommitBill(p)
        BY FlowGrows, UnpaidIs
      <3> QED BY <3>4, <3>5, <3>7, <3>8, <3>9
    <2> QED BY <1>4, <2>1, <2>2, ClosingNext DEF Closing
  <1> QED BY <1>3, <1>4 DEF Noted

\* A shift that is closed keeps what its sums were, but for bills noted meanwhile.
LEMMA CountsKeep ==
    ASSUME ShiftsTyped, Timely, History, Noted, [ShiftsNext]_shiftVars, NEW s \in ShiftIds,
           NEW t \in Nat, ClosedAt(s, t), PlainTo(s, t)'
    PROVE  /\ PlainTo(s, t)
           /\ \A n, sale : Counts(n, s, t, sale) => Counts(n, s, t, sale)'
  <1>1. /\ shift[s].st # "none"
        /\ shift'[s].of = shift[s].of /\ shift'[s].start = shift[s].start
    BY ClosedAtPast, RowKeeps
  <1>2. DuringTo(s, t) \subseteq DuringTo(s, t)'
    BY <1>1, BillsNext DEF DuringTo
  <1>3. \A e \in DuringTo(s, t)' : e \notin DuringTo(s, t) => e.bill \in unsettled[s]
    <2> SUFFICES ASSUME NEW e \in DuringTo(s, t)', e \notin DuringTo(s, t) PROVE e.bill \in unsettled[s]
      OBVIOUS
    <2>1. e \in flow' \ flow /\ e.t <= t
      BY <1>1 DEF DuringTo, Between
    <2>2. e.bill \in Bills /\ ~ AtRest(e.bill) /\ e.t = trans[e.bill].t
      BY <2>1, BillsNext
    <2> QED BY <2>1, <2>2 DEF Noted
  <1>4. \A e \in DuringTo(s, t) : bill'[e.bill].by = bill[e.bill].by
    <2> SUFFICES ASSUME NEW e \in DuringTo(s, t) PROVE bill'[e.bill].by = bill[e.bill].by
      OBVIOUS
    <2>1. e \in flow /\ e.bill \in Bills
      BY ShiftsAssumption DEF DuringTo
    <2>2. bill[e.bill].st # "none"
      BY <2>1 DEF History, Tells
    <2> QED BY <2>1, <2>2, BillsNext
  <1>5. PlainTo(s, t)
    BY <1>2, <1>4 DEF PlainTo
  <1>6. ASSUME NEW sale
        PROVE  /\ MovedTo(s, t, sale) \subseteq MovedTo(s, t, sale)'
               /\ MovedTo(s, t, sale)' \ MovedTo(s, t, sale) \subseteq unsettled[s]
    BY <1>1, <1>2, <1>3 DEF MovedTo
  <1>7. ASSUME NEW n, NEW sale, Counts(n, s, t, sale)
        PROVE  Counts(n, s, t, sale)'
    <2>1. PICK X \in SUBSET MovedTo(s, t, sale) :
             MovedTo(s, t, sale) \ X \subseteq unsettled[s] /\ n = SumOf(X)
      BY <1>7 DEF Counts
    <2>2. X \in SUBSET MovedTo(s, t, sale)' /\ MovedTo(s, t, sale)' \ X \subseteq unsettled'[s]
      BY <1>6, <2>1, UnsettledGrows
    <2> QED BY <2>1, <2>2 DEF Counts, SumOf
  <1> QED BY <1>5, <1>7

\* A sum that is read counts the moves up to then, but for bills noted meanwhile.
LEMMA ReadCounts ==
    ASSUME ShiftsTyped, Timely, History, Noted, NEW k \in Slots,
           request[k].pc \in {"sales", "refunds"}, NEW s \in ShiftIds, s = request[k].shift,
           NEW t \in Nat, t = request[k].now, PlainTo(s, t)
    PROVE  /\ Counts(SumOf(SalesIn(s, t)), s, t, TRUE)
           /\ Counts(SumOf(RefundsIn(s, t)), s, t, FALSE)
  <1>1. /\ Cash \subseteq Bills /\ \A e \in flow : e.t \in Nat /\ e.bill \in Bills
        /\ \A o \in Bills : bill[o].at \in Nat /\ bill[o].out \in Nat
        /\ shift[s].start \in Nat /\ shift[s].start > 0
    BY ShiftsAssumption DEF ShiftsTyped, MoveRow, BillRow, ShiftRow, Timely, Closing
  <1>2. ASSUME NEW o \in Cash, \/ bill[o].st = "sold"
                               \/ bill[o].st \in {"cancelled", "returned"} /\ bill[o].out > 0
        PROVE  \E g \in flow : g.bill = o /\ Tells(bill[o], g)
    <2>1. \E e \in flow : e.bill = o
      BY <1>1, <1>2 DEF History
    <2> QED BY <1>1, <2>1 DEF History
  <1>3. ASSUME NEW e \in DuringTo(s, t), e.bill \notin unsettled[s]
        PROVE  Tells(bill[e.bill], e)
    <2>1. e \in flow /\ e.bill \in Cash /\ shift[s].start <= e.t /\ e.t <= t
      BY DEF DuringTo, Between
    <2>2. PICK g \in flow : /\ g.bill = e.bill /\ Tells(bill[e.bill], g)
                            /\ \A f \in flow : f.bill = e.bill => f.t <= g.t
      BY <1>1, <2>1 DEF History
    <2>3. ~ g.t > t
      BY <1>1, <1>3, <2>1, <2>2 DEF Noted
    <2>4. g \in DuringTo(s, t)
      BY <1>1, <2>1, <2>2, <2>3 DEF DuringTo, Between
    <2> QED BY <2>2, <2>4 DEF PlainTo
  <1>4. SalesIn(s, t) \subseteq MovedTo(s, t, TRUE)
    <2> SUFFICES ASSUME NEW o \in SalesIn(s, t) PROVE o \in MovedTo(s, t, TRUE)
      OBVIOUS
    <2>1. /\ o \in Cash /\ bill[o].st = "sold" /\ bill[o].by = shift[s].of
          /\ Between(bill[o].at, shift[s].start, t)
      BY DEF SalesIn
    <2>2. PICK g \in flow : g.bill = o /\ Tells(bill[o], g)
      BY <1>2, <2>1
    <2>3. g.sale /\ g.t = bill[o].at
      BY <2>1, <2>2 DEF Tells
    <2>4. g \in DuringTo(s, t)
      BY <2>1, <2>2, <2>3 DEF DuringTo
    <2>5. g.who = shift[s].of
      BY <2>1, <2>2, <2>3, <2>4 DEF PlainTo
    <2>6. g.sale \in BOOLEAN
      BY DEF ShiftsTyped, MoveRow
    <2> QED BY <2>2, <2>3, <2>4, <2>5, <2>6 DEF MovedTo
  <1>5. RefundsIn(s, t) \subseteq MovedTo(s, t, FALSE)
    <2> SUFFICES ASSUME NEW o \in RefundsIn(s, t) PROVE o \in MovedTo(s, t, FALSE)
      OBVIOUS
    <2>1. /\ o \in Cash /\ bill[o].st \in {"cancelled", "returned"} /\ bill[o].payer = shift[s].of
          /\ Between(bill[o].out, shift[s].start, t)
      BY DEF RefundsIn
    <2>2. bill[o].out > 0
      BY <1>1, <2>1 DEF Between
    <2>3. PICK g \in flow : g.bill = o /\ Tells(bill[o], g)
      BY <1>2, <2>1, <2>2
    <2>4. ~ g.sale /\ g.t = bill[o].out /\ g.who = shift[s].of
      BY <2>1, <2>3 DEF Tells
    <2>5. g \in DuringTo(s, t)
      BY <2>1, <2>3, <2>4 DEF DuringTo
    <2>6. g.sale \in BOOLEAN
      BY DEF ShiftsTyped, MoveRow
    <2> QED BY <2>3, <2>4, <2>5, <2>6 DEF MovedTo
  <1>6. MovedTo(s, t, TRUE) \ SalesIn(s, t) \subseteq unsettled[s]
    <2> SUFFICES ASSUME NEW o \in MovedTo(s, t, TRUE), o \notin unsettled[s] PROVE o \in SalesIn(s, t)
      OBVIOUS
    <2>2. PICK e \in DuringTo(s, t) : e.who = shift[s].of /\ e.sale = TRUE /\ e.bill = o
      BY DEF MovedTo
    <2>1. bill[e.bill].st = "sold" /\ bill[e.bill].at = e.t /\ bill[e.bill].by = shift[s].of
      BY <1>3, <2>2 DEF Tells, PlainTo
    <2> QED BY <2>1, <2>2 DEF DuringTo, SalesIn
  <1>7. MovedTo(s, t, FALSE) \ RefundsIn(s, t) \subseteq unsettled[s]
    <2> SUFFICES ASSUME NEW o \in MovedTo(s, t, FALSE), o \notin unsettled[s] PROVE o \in RefundsIn(s, t)
      OBVIOUS
    <2>2. PICK e \in DuringTo(s, t) : e.who = shift[s].of /\ e.sale = FALSE /\ e.bill = o
      BY DEF MovedTo
    <2>1. /\ bill[e.bill].st \in {"cancelled", "returned"} /\ bill[e.bill].out = e.t
          /\ bill[e.bill].payer = shift[s].of
      BY <1>3, <2>2 DEF Tells
    <2> QED BY <2>1, <2>2 DEF DuringTo, RefundsIn
  <1> QED BY <1>4, <1>5, <1>6, <1>7 DEF Counts

LEMMA SummedStep ==
    ASSUME ShiftsTyped, Timely, History, Noted, Summed, [ShiftsNext]_shiftVars
    PROVE  Summed'
  <1>1. ASSUME NEW k \in Slots, NEW s \in ShiftIds, NEW t \in Nat,
               request'[k].shift = s, request'[k].now = t, request'[k].pc \in {"refunds", "update"},
               PlainTo(s, t)'
        PROVE  /\ Counts(request[k].sales, s, t, TRUE)'
               /\ request'[k].pc = "update" => Counts(request[k].refunds, s, t, FALSE)'
    <2>1. /\ request[k].shift = s /\ request[k].now = t /\ request[k].pc \in Closing
      BY <1>1, SumHeld DEF Closing, ReadSales, ReadRefunds, SameBut
    <2>2. /\ PlainTo(s, t)
          /\ \A n, sale : Counts(n, s, t, sale) => Counts(n, s, t, sale)'
      BY <1>1, <2>1, CountsKeep DEF ClosedAt
    <2>3. /\ request[k].pc \in {"refunds", "update"} => Counts(request[k].sales, s, t, TRUE)
          /\ request[k].pc = "update" => Counts(request[k].refunds, s, t, FALSE)
      BY <2>1, <2>2 DEF Summed
    <2>4. ASSUME NEW n, NEW m, Counts(n, s, t, TRUE), n = request'[k].sales,
                 request'[k].pc = "update" => Counts(m, s, t, FALSE) /\ m = request'[k].refunds
          PROVE  /\ Counts(request[k].sales, s, t, TRUE)'
                 /\ request'[k].pc = "update" => Counts(request[k].refunds, s, t, FALSE)'
      <3>1. Counts(n, s, t, TRUE)' /\ (request'[k].pc = "update" => Counts(m, s, t, FALSE)')
        BY <2>2, <2>4
      <3> QED BY <2>4, <3>1 DEF Counts
    <2>5. CASE SameBut(request'[k], request[k])
      BY <1>1, <2>3, <2>4, <2>5 DEF SameBut
    <2>6. CASE ReadSales(k) /\ request'[k].pc = "refunds" /\ request'[k].sales = SumOf(SalesIn(s, t))
      <3>1. Counts(SumOf(SalesIn(s, t)), s, t, TRUE)
        BY <2>1, <2>2, <2>6, ReadCounts DEF ReadSales
      <3> QED BY <2>4, <2>6, <3>1
    <2>7. CASE /\ ReadRefunds(k) /\ request'[k].sales = request[k].sales
               /\ request'[k].refunds = SumOf(RefundsIn(s, t))
      <3>1. request[k].pc = "refunds"
        BY <2>7 DEF ReadRefunds
      <3>2. Counts(SumOf(RefundsIn(s, t)), s, t, FALSE)
        BY <2>1, <2>2, <3>1, ReadCounts
      <3> QED BY <2>3, <2>4, <2>7, <3>1, <3>2
    <2> QED BY <1>1, <2>1, <2>5, <2>6, <2>7, SumHeld
  <1>2. ASSUME NEW s \in ShiftIds, NEW t \in Nat,
               shift'[s].st = "closed", shift'[s].end = t, PlainTo(s, t)'
        PROVE  \E m, n \in Int : /\ Counts(m, s, t, TRUE)' /\ Counts(n, s, t, FALSE)'
                                 /\ shift'[s].expected = m - n
    <2>1. CASE /\ shift[s].st = "closed" /\ shift[s].end = t
               /\ shift'[s].expected = shift[s].expected
      <3>1. ClosedAt(s, t)
        BY <2>1 DEF ClosedAt
      <3>2. /\ PlainTo(s, t)
            /\ \A n, sale : Counts(n, s, t, sale) => Counts(n, s, t, sale)'
        BY <1>2, <3>1, CountsKeep
      <3>3. PICK m, n \in Int : /\ Counts(m, s, t, TRUE) /\ Counts(n, s, t, FALSE)
                                /\ shift[s].expected = m - n
        BY <2>1, <3>2 DEF Summed
      <3> QED BY <2>1, <3>2, <3>3
    <2>2. ASSUME NEW k \in Slots, NEW off \in Off, CloseShift(k, off), request[k].shift = s,
                 request[k].now = t, shift'[s].expected = request[k].sales - request[k].refunds
          PROVE  \E m, n \in Int : /\ Counts(m, s, t, TRUE)' /\ Counts(n, s, t, FALSE)'
                                   /\ shift'[s].expected = m - n
      <3>1. request[k].pc = "update"
        BY <2>2 DEF CloseShift
      <3>2. /\ PlainTo(s, t)
            /\ \A n, sale : Counts(n, s, t, sale) => Counts(n, s, t, sale)'
        BY <1>2, <2>2, <3>1, CountsKeep DEF ClosedAt, Closing
      <3>3. Counts(request[k].sales, s, t, TRUE) /\ Counts(request[k].refunds, s, t, FALSE)
        BY <2>2, <3>1, <3>2 DEF Summed
      <3>4. request[k].sales \in Int /\ request[k].refunds \in Int
        BY DEF ShiftsTyped, Request
      <3>5. PICK m, n \in Int : m = request[k].sales /\ n = request[k].refunds
        BY <3>4
      <3>6. Counts(m, s, t, TRUE) /\ Counts(n, s, t, FALSE)
        BY <3>3, <3>5
      <3> QED BY <2>2, <3>2, <3>5, <3>6
    <2> QED BY <1>2, <2>1, <2>2, ClosedRow
  <1> QED BY <1>1, <1>2 DEF Summed

-----------------------------------------------------------------------------
(* Alerted differences *)

\* The difference of a closed row that is neither alerted nor told is about to
\* be alerted by a request that knows it.
Alerting ==
    \A s \in ShiftIds : shift[s].st = "closed" /\ Beyond(shift[s].counted - shift[s].expected)
        => \/ shift[s].alerted \/ s \in told
           \/ \E k \in Slots : request[k].pc = "audit" /\ request[k].shift = s /\ Beyond(request[k].off)

LEMMA AlertingStep ==
    ASSUME ShiftsTyped, Timely, Alerting, [ShiftsNext]_shiftVars
    PROVE  Alerting'
  <1> SUFFICES ASSUME NEW s \in ShiftIds, shift'[s].st = "closed",
                      Beyond(shift'[s].counted - shift'[s].expected)
               PROVE  \/ shift'[s].alerted \/ s \in told'
                      \/ \E k \in Slots : request'[k].pc = "audit" /\ request'[k].shift = s /\ Beyond(request'[k].off)
    BY DEF Alerting
  <1>1. ASSUME NEW k \in Slots, NEW off \in Off, CloseShift(k, off), request[k].shift = s,
               shift'[s].counted = shift'[s].expected + off
        PROVE  request'[k].pc = "audit" /\ request'[k].shift = s /\ Beyond(request'[k].off)
    <2>1. shift'[s].expected \in Int /\ off \in Int
      BY ShiftsTypedStep, ShiftsAssumption DEF ShiftsTyped, ShiftRow
    <2>2. shift'[s].counted - shift'[s].expected = off
      BY <1>1, <2>1
    <2> QED BY <1>1, <2>2, ClosesRequest, PutsEach
  <1>2. told \subseteq told'
    <2>1. \/ UNCHANGED told
          \/ \E k \in Slots : ShiftFails(k)
      BY NextIs, OnBillLeaves
         DEF OffBill, shiftVars, Enter, OpenShift, AskOpen, Hear, CreateShift, EndShift, ReadSales,
             ReadRefunds, AlertDiscrepancy, CloseShift
    <2> QED BY <2>1 DEF ShiftFails
  <1>3. ASSUME NEW k \in Slots, request[k].pc = "audit", ~ SameBut(request'[k], request[k])
        PROVE  AlertDiscrepancy(k) \/ ShiftFails(k)
    <2>0. SameBut(request[k], request[k])
      BY DEF SameBut
    <2>1. ASSUME NEW v \in Slots, ShiftFails(v) \/ AlertDiscrepancy(v)
          PROVE  v = k
      <3>1. \E w : Puts(v, w)
        BY <2>1, HearsRequest, AlertsRequest
      <3> QED BY <1>3, <2>0, <3>1, PutsEach
    <2>2. ASSUME NEW v \in Slots, NEW w, Puts(v, w), request[v].pc # "audit"
          PROVE  FALSE
      BY <1>3, <2>0, <2>2, PutsEach
    <2>3. ASSUME NEW v \in Slots, Hear(v) \/ \E d \in Desks : OpenShift(v, d)
          PROVE  FALSE
      <3>1. request[v].pc # "audit"
        BY <2>3 DEF OpenShift, AskOpen, Hear
      <3>2. \E w : Puts(v, w)
        BY <2>3, OpensRequest, HearsRequest
      <3> QED BY <3>1, <3>2, <2>2
    <2>4. ASSUME NEW v \in Slots, NEW x \in ShiftIds,
                 CreateShift(v, x) \/ \E u \in People, d \in Desks \cup {NoDesk} : EndShift(v, u, x, d)
          PROVE  FALSE
      <3>1. request[v].pc # "audit"
        BY <2>4 DEF CreateShift, EndShift
      <3>2. \E w : Puts(v, w)
        BY <2>4, CreatesRequest, EndsRequest
      <3> QED BY <3>1, <3>2, <2>2
    <2>5. ASSUME NEW v \in Slots, ReadSales(v) \/ ReadRefunds(v)
          PROVE  FALSE
      <3>1. request[v].pc # "audit"
        BY <2>5 DEF ReadSales, ReadRefunds
      <3>2. \E w : Puts(v, w)
        BY <2>5, ReadsSalesRequest, ReadsRefundsRequest
      <3> QED BY <3>1, <3>2, <2>2
    <2>6. ASSUME NEW v \in Slots, NEW off \in Off, CloseShift(v, off)
          PROVE  FALSE
      <3>1. request[v].pc # "audit"
        BY <2>6 DEF CloseShift
      <3>2. \E w : Puts(v, w)
        BY <2>6, ClosesRequest
      <3> QED BY <3>1, <3>2, <2>2
    <2>7. ~ (UNCHANGED request) /\ \A d \in Desks : ~ Enter(d)
      BY <1>3, <2>0, EntersRequest
    <2> QED
      BY <2>1, <2>3, <2>4, <2>5, <2>6, <2>7, NextIs, OnBillLeaves DEF OffBill, shiftVars
  <1>4. ASSUME NEW k \in Slots, request[k].pc = "audit", request[k].shift = s, Beyond(request[k].off)
        PROVE  \/ shift'[s].alerted \/ s \in told'
               \/ request'[k].pc = "audit" /\ request'[k].shift = s /\ Beyond(request'[k].off)
    <2>1. CASE SameBut(request'[k], request[k])
      BY <1>4, <2>1 DEF SameBut
    <2>2. CASE AlertDiscrepancy(k)
      <3>1. PICK r \in ShiftRow : shift' = [shift EXCEPT ![s] = r] /\ r.alerted
        BY <1>4, <2>2, AlertsRequest
      <3> QED BY <3>1 DEF ShiftsTyped
    <2>3. CASE ShiftFails(k)
      BY <1>4, <2>3 DEF ShiftFails
    <2> QED BY <1>3, <1>4, <2>1, <2>2, <2>3
  <1>5. CASE /\ shift[s].st = "closed" /\ Beyond(shift[s].counted - shift[s].expected)
             /\ shift[s].alerted => shift'[s].alerted
    BY <1>2, <1>4, <1>5 DEF Alerting
  <1> QED BY <1>1, <1>5, ClosedRow DEF Beyond

-----------------------------------------------------------------------------
(* Theorems *)

ShiftsIInv == ShiftsTyped /\ Timely /\ OnlyShift /\ History /\ Noted /\ Summed /\ Alerting

LEMMA ShiftsInductive == ShiftsSpec => []ShiftsIInv
  <1>1. ShiftsInit => ShiftsIInv
    <2> SUFFICES ASSUME ShiftsInit PROVE ShiftsIInv
      OBVIOUS
    <2>1. ShiftsTyped /\ Timely
      BY ShiftsTypedInit
    <2>2. /\ \A k \in Slots : request[k].pc = "idle"
          /\ \A u \in People : OpenOf(u) = {}
          /\ \A s \in ShiftIds : shift[s].st = "none"
          /\ \A o \in Bills : bill[o].st = "none" /\ AtRest(o)
          /\ flow = {}
      BY DEF ShiftsInit, NoRequest, NoRowYet, OpenOf, NoBill, NoTrans, AtRest
    <2>3. History /\ Noted
      BY <2>2 DEF History, Noted, ClosedAt, Closing
    <2> QED BY <2>1, <2>2, <2>3 DEF ShiftsIInv, OnlyShift, Opening, Summed, Alerting
  <1>2. ShiftsIInv /\ [ShiftsNext]_shiftVars => ShiftsIInv'
    BY ShiftsTypedStep, OnlyShiftStep, HistoryStep, NotedStep, SummedStep, AlertingStep DEF ShiftsIInv
  <1> QED BY <1>1, <1>2, PTL DEF ShiftsSpec

\* No user has two open shifts who did not have two requests to open at once,
\* however many requests there are and whatever is lost or unsettled.
THEOREM OneShiftIsOpen == ShiftsSpec => []OneOpenShift
  <1>1. ShiftsIInv => OneOpenShift
    <2> SUFFICES ASSUME ShiftsIInv, NEW u \in People \ doubled PROVE Cardinality(OpenOf(u)) <= 1
      BY DEF OneOpenShift
    <2>1. CASE OpenOf(u) = {}
      BY <2>1, FS_EmptySet
    <2>2. ASSUME NEW s \in OpenOf(u) PROVE Cardinality(OpenOf(u)) <= 1
      <3>1. OpenOf(u) = {s}
        BY <2>2 DEF ShiftsIInv, OnlyShift
      <3>2. Cardinality({s}) = 1
        BY FS_Singleton
      <3> QED BY <3>1, <3>2
    <2> QED BY <2>1, <2>2
  <1> QED BY <1>1, ShiftsInductive, PTL

\* The expected cash of a plain closed shift is what went through its drawer, but
\* for bills that moved while it was being closed, each of which counts or not:
\* whatever transactions commit between the two sums, or roll back.
THEOREM ExpectedCashIsDrawer == ShiftsSpec => []ExpectedIsDrawer
  <1>1. ShiftsIInv => ExpectedIsDrawer
    <2> SUFFICES ASSUME ShiftsIInv, NEW s \in ShiftIds, shift[s].st = "closed", Plain(s)
                 PROVE  \E X \in SUBSET MovedIn(s, TRUE), Y \in SUBSET MovedIn(s, FALSE) :
                           /\ MovedIn(s, TRUE) \ X \subseteq unsettled[s]
                           /\ MovedIn(s, FALSE) \ Y \subseteq unsettled[s]
                           /\ shift[s].expected = SumOf(X) - SumOf(Y)
      BY Zenon DEF ExpectedIsDrawer
    <2> DEFINE t == shift[s].end
    <2>1. t \in Nat /\ DuringTo(s, t) = During(s)
      BY DEF ShiftsIInv, ShiftsTyped, ShiftRow, DuringTo, During
    <2>2. PlainTo(s, t) /\ MovedTo(s, t, TRUE) = MovedIn(s, TRUE) /\ MovedTo(s, t, FALSE) = MovedIn(s, FALSE)
      BY <2>1 DEF Plain, PlainTo, MovedIn, MovedTo
    <2>3. PICK m, n \in Int : /\ Counts(m, s, t, TRUE) /\ Counts(n, s, t, FALSE)
                              /\ shift[s].expected = m - n
      BY <2>1, <2>2 DEF ShiftsIInv, Summed
    <2>4. PICK X \in SUBSET MovedIn(s, TRUE) : MovedIn(s, TRUE) \ X \subseteq unsettled[s] /\ m = SumOf(X)
      BY <2>2, <2>3 DEF Counts
    <2>5. PICK Y \in SUBSET MovedIn(s, FALSE) : MovedIn(s, FALSE) \ Y \subseteq unsettled[s] /\ n = SumOf(Y)
      BY <2>2, <2>3 DEF Counts
    <2> QED BY <2>3, <2>4, <2>5
  <1> QED BY <1>1, ShiftsInductive, PTL

\* A difference of a drawer beyond the threshold is alerted, or its close was
\* answered with an error.
THEOREM DifferencesAreAlerted == ShiftsSpec => []AlertedOrTold
  <1>1. ShiftsIInv => AlertedOrTold
    BY DEF ShiftsIInv, Alerting, AlertedOrTold
  <1> QED BY <1>1, ShiftsInductive, PTL

-----------------------------------------------------------------------------
(* Alerts *)

JobSet == [pc : {"idle", "look", "create", "emit", "push", "build", "deliver"},
           push : BOOLEAN, phones : SUBSET Phones]
FetchSet == [pc : {"idle", "asked", "read"}, count : Nat, late : BOOLEAN]
PageSet == [on : BOOLEAN, badge : Nat, fetch : [Fetches -> FetchSet]]

NoticesTyped ==
    /\ inbox \in [Kinds -> Nat]
    /\ job \in [Jobs -> JobSet]
    /\ page \in [Windows -> PageSet]
    /\ behind \subseteq Windows

\* An alert of low stock is created only while none is unread; an event's only
\* below the bound.
NoPile ==
    /\ inbox["low"] <= 1 /\ inbox["event"] <= MaxUnread
    /\ job["low"].pc = "create" => inbox["low"] = 0
    /\ job["low"].pc \in {"idle", "look", "create", "emit", "push"}
    /\ job["event"].pc \in {"create", "build", "deliver"} => inbox["event"] < MaxUnread
    /\ job["event"].pc # "look"

\* What a window shows, or has read and will show, is not under what is unread,
\* the alerts not yet sent apart.
Honest(p, missed, due) ==
    /\ p.on /\ ~missed => p.badge >= due
    /\ \A i \in Fetches : p.fetch[i].pc = "read" /\ ~p.fetch[i].late => p.fetch[i].count >= due
StillDue == Unread - Cardinality(Emitting)

NoticesIInv ==
    /\ NoticesTyped /\ NoPile
    /\ \A w \in Windows : Honest(page[w], w \in behind, StillDue)

LEMMA UnreadIs ==
    ASSUME NEW i \in [Kinds -> Nat]
    PROVE  /\ SumFunctionOnSet(i, Kinds) = i["low"] + i["event"]
           /\ SumFunctionOnSet(i, Kinds) \in Nat
  <1>1. IsFiniteSet({"event"}) /\ IsFiniteSet(Kinds) /\ Kinds \ {"low"} = {"event"}
        /\ {"event"} \ {"event"} = {}
    <2>1. IsFiniteSet({"event"})
      BY FS_Singleton
    <2>2. IsFiniteSet({"event"} \cup {"low"})
      BY <2>1, FS_AddElement
    <2>3. {"event"} \cup {"low"} = Kinds
      BY DEF Kinds
    <2>4. "low" # "event"
      OBVIOUS
    <2> QED BY <2>1, <2>2, <2>3, <2>4 DEF Kinds
  <1>2. \A k \in Kinds : i[k] \in Int
    OBVIOUS
  <1>3. "low" \in Kinds /\ "event" \in Kinds
    BY DEF Kinds
  <1>4. SumFunctionOnSet(i, Kinds) = i["low"] + SumFunctionOnSet(i, {"event"})
    <2>1. SumFunctionOnSet(i, Kinds) = i["low"] + SumFunctionOnSet(i, Kinds \ {"low"})
      BY <1>1, <1>2, <1>3, SumOut
    <2> QED BY <1>1, <2>1
  <1>5. SumFunctionOnSet(i, {"event"}) = i["event"] + SumFunctionOnSet(i, {})
    <2>1. \A k \in {"event"} : i[k] \in Int
      BY <1>2, <1>3
    <2>2. SumFunctionOnSet(i, {"event"}) = i["event"] + SumFunctionOnSet(i, {"event"} \ {"event"})
      BY <1>1, <2>1, SumOut
    <2> QED BY <1>1, <2>2
  <1>6. SumFunctionOnSet(i, {}) = 0
    BY SumEmpty
  <1>7. i["low"] \in Nat /\ i["event"] \in Nat
    BY <1>3
  <1> QED BY <1>4, <1>5, <1>6, <1>7

LEMMA EmittingIs ==
    /\ IsFiniteSet(Emitting) /\ Cardinality(Emitting) \in Nat
    /\ IsFiniteSet(Emitting') /\ Cardinality(Emitting') \in Nat
  <1>1. IsFiniteSet(Kinds)
    <2>1. IsFiniteSet({"event"} \cup {"low"})
      BY FS_Singleton, FS_AddElement
    <2>2. {"event"} \cup {"low"} = Kinds
      BY DEF Kinds
    <2> QED BY <2>1, <2>2
  <1>2. Emitting \subseteq Kinds /\ Emitting' \subseteq Kinds
    BY DEF Emitting, Jobs
  <1> QED BY <1>1, <1>2, FS_Subset, FS_CardinalityType

\* One job's step, and what it does to the alerts not yet sent.
LEMMA EmittingStep ==
    ASSUME NEW j \in Jobs, \A i \in Jobs \ {j} : job'[i] = job[i]
    PROVE  /\ job[j].pc # "emit" /\ job'[j].pc = "emit"
                 => Cardinality(Emitting') = Cardinality(Emitting) + 1
           /\ job[j].pc = "emit" /\ job'[j].pc # "emit"
                 => Cardinality(Emitting') = Cardinality(Emitting) - 1
           /\ (job[j].pc = "emit" <=> job'[j].pc = "emit")
                 => Cardinality(Emitting') = Cardinality(Emitting)
  <1>1. job[j].pc # "emit" /\ job'[j].pc = "emit" => Emitting' = Emitting \cup {j} /\ j \notin Emitting
    BY DEF Emitting
  <1>2. job[j].pc = "emit" /\ job'[j].pc # "emit" => Emitting' = Emitting \ {j} /\ j \in Emitting
    BY DEF Emitting
  <1>3. (job[j].pc = "emit" <=> job'[j].pc = "emit") => Emitting' = Emitting
    BY DEF Emitting
  <1> QED BY <1>1, <1>2, <1>3, EmittingIs, FS_AddElement, FS_RemoveElement

LEMMA DueInt ==
    ASSUME NoticesTyped, NoticesTyped'
    PROVE  /\ StillDue \in Int /\ StillDue' \in Int
           /\ Unread = inbox["low"] + inbox["event"] /\ Unread \in Nat
           /\ Unread' = inbox'["low"] + inbox'["event"] /\ Unread' \in Nat
           /\ StillDue = Unread - Cardinality(Emitting) /\ StillDue' = Unread' - Cardinality(Emitting')
  <1>1. /\ Unread = inbox["low"] + inbox["event"] /\ Unread \in Nat
        /\ Unread' = inbox'["low"] + inbox'["event"] /\ Unread' \in Nat
    BY UnreadIs DEF NoticesTyped, Unread
  <1>2. StillDue = Unread - Cardinality(Emitting) /\ StillDue' = Unread' - Cardinality(Emitting')
    BY DEF StillDue
  <1> QED BY <1>1, <1>2, EmittingIs

LEMMA FetchTypes ==
    /\ \A f \in FetchSet : /\ f.pc \in {"idle", "asked", "read"} /\ f.count \in Nat /\ f.late \in BOOLEAN
                          /\ \A v \in BOOLEAN : /\ [f EXCEPT !.late = v] \in FetchSet
                                                /\ [f EXCEPT !.late = v].pc = f.pc
                                                /\ [f EXCEPT !.late = v].late = v
    /\ NoFetch \in FetchSet /\ NoFetch.pc = "idle"
    /\ Asked \in FetchSet /\ Asked.pc = "asked"
  BY DEF FetchSet, NoFetch, Asked

LEMMA PageTypes ==
    ASSUME NEW g \in PageSet
    PROVE  /\ g.on \in BOOLEAN /\ g.badge \in Nat /\ g.fetch \in [Fetches -> FetchSet]
           /\ \A i \in Fetches : /\ g.fetch[i] \in FetchSet
                                 /\ g.fetch[i].count \in Nat /\ g.fetch[i].late \in BOOLEAN
  <1>1. g.on \in BOOLEAN /\ g.badge \in Nat /\ g.fetch \in [Fetches -> FetchSet]
    BY DEF PageSet
  <1> QED BY <1>1, FetchTypes

\* What Rung and Missed make of a window.
LEMMA RungIs ==
    ASSUME NoticesTyped, NEW w \in Windows
    PROVE  /\ Missed(w) \in PageSet /\ Rung(w) \in PageSet
           /\ Missed(w).on = page[w].on /\ Missed(w).badge = page[w].badge
           /\ Rung(w).on = page[w].on
           /\ Rung(w).badge = IF page[w].badge = MaxBadge THEN MaxBadge ELSE page[w].badge + 1
           /\ \A i \in Fetches : Missed(w).fetch[i].pc = "read" => Missed(w).fetch[i].late
           /\ \A i \in Fetches : Rung(w).fetch[i].pc = "read" => Rung(w).fetch[i].late
  <1> DEFINE g == page[w]
             b == IF g.badge = MaxBadge THEN g.badge ELSE g.badge + 1
             o == Outdated(w)
  <1>1. g \in PageSet
    BY DEF NoticesTyped
  <1>2. b \in Nat /\ g.fetch \in [Fetches -> FetchSet]
    BY <1>1, PageTypes
  <1>3. ASSUME NEW i \in Fetches
        PROVE  o[i] \in FetchSet /\ (o[i].pc = "read" => o[i].late)
    <2> DEFINE f == page[w].fetch[i]
               undone == f.late \/ f.pc = "read"
    <2>1. f \in FetchSet /\ undone \in BOOLEAN
      BY <1>2, FetchTypes
    <2>2. o[i] = [f EXCEPT !.late = undone]
      BY <2>1 DEF Outdated
    <2>3. [f EXCEPT !.late = undone] \in FetchSet /\ [f EXCEPT !.late = undone].pc = f.pc
          /\ [f EXCEPT !.late = undone].late = undone
      <3> HIDE DEF f, undone
      <3> QED BY <2>1, FetchTypes
    <2>4. f.pc = "read" => undone
      OBVIOUS
    <2> HIDE DEF f, undone, o
    <2> QED BY <2>2, <2>3, <2>4
  <1>4. o \in [Fetches -> FetchSet]
    <2>1. o = [i \in Fetches |-> o[i]]
      BY DEF Outdated
    <2> HIDE DEF o
    <2> QED BY <1>3, <2>1
  <1>5. Missed(w) = [g EXCEPT !.fetch = o]
    BY DEF Missed
  <1>6. Rung(w) = [g EXCEPT !.badge = b, !.fetch = o]
    BY <1>1 DEF Rung
  <1>7. b = IF g.badge = MaxBadge THEN MaxBadge ELSE g.badge + 1
    OBVIOUS
  <1> HIDE DEF o, b, g
  <1>8. [g EXCEPT !.fetch = o].on = g.on /\ [g EXCEPT !.fetch = o].badge = g.badge
        /\ [g EXCEPT !.fetch = o].fetch = o /\ [g EXCEPT !.fetch = o] \in PageSet
    BY <1>1, <1>4 DEF PageSet
  <1>9. [g EXCEPT !.badge = b, !.fetch = o].on = g.on /\ [g EXCEPT !.badge = b, !.fetch = o].badge = b
        /\ [g EXCEPT !.badge = b, !.fetch = o].fetch = o /\ [g EXCEPT !.badge = b, !.fetch = o] \in PageSet
    BY <1>1, <1>2, <1>4 DEF PageSet
  <1> QED BY <1>3, <1>5, <1>6, <1>7, <1>8, <1>9 DEF g

LEMMA JobTypes ==
    ASSUME NEW r \in JobSet
    PROVE  /\ \A v \in {"idle", "look", "create", "emit", "push", "build", "deliver"} :
                 [r EXCEPT !.pc = v] \in JobSet /\ [r EXCEPT !.pc = v].pc = v
           /\ \A v \in SUBSET Phones :
                 [r EXCEPT !.phones = v] \in JobSet /\ [r EXCEPT !.phones = v].pc = r.pc
           /\ \A v \in BOOLEAN :
                 [r EXCEPT !.push = v] \in JobSet /\ [r EXCEPT !.push = v].pc = r.pc
           /\ Idle \in JobSet /\ Idle.pc = "idle"
  BY DEF JobSet, Idle

\* A job's step that neither stores an alert nor sends one.
LEMMA JobMoves ==
    ASSUME NoticesIInv, NEW j \in Jobs, NEW r \in JobSet, job' = [job EXCEPT ![j] = r],
           UNCHANGED <<inbox, page, behind>>, job[j].pc # "emit", r.pc # "emit",
           j = "low" => /\ r.pc \in {"idle", "look", "create", "push"}
                        /\ r.pc = "create" => inbox["low"] = 0,
           j = "event" => /\ r.pc # "look"
                          /\ r.pc \in {"create", "build", "deliver"} => inbox["event"] < MaxUnread
    PROVE  NoticesIInv'
  <1>1. job \in [Jobs -> JobSet] /\ job' \in [Jobs -> JobSet]
        /\ job'[j] = r /\ \A i \in Jobs \ {j} : job'[i] = job[i]
    BY DEF NoticesIInv, NoticesTyped
  <1>2. NoticesTyped /\ NoticesTyped'
    BY <1>1 DEF NoticesIInv, NoticesTyped
  <1>3. NoPile'
    <2>1. "low" \in Jobs /\ "event" \in Jobs /\ j \in {"low", "event"}
      BY DEF Jobs, Kinds
    <2> QED BY <1>1, <2>1 DEF NoticesIInv, NoPile
  <1>4. StillDue' = StillDue
    <2>1. Cardinality(Emitting') = Cardinality(Emitting)
      BY <1>1, EmittingStep
    <2> QED BY <2>1 DEF StillDue, Unread
  <1>5. \A w \in Windows : Honest(page'[w], w \in behind', StillDue')
    BY <1>4 DEF NoticesIInv
  <1> QED BY <1>2, <1>3, <1>5 DEF NoticesIInv, Honest

\* A step of one window.
LEMMA WindowMoves ==
    ASSUME NoticesIInv, NEW w \in Windows, NEW r \in PageSet, page' = [page EXCEPT ![w] = r],
           UNCHANGED <<inbox, job>>, behind' \subseteq Windows,
           \A v \in Windows \ {w} : v \in behind' <=> v \in behind,
           Honest(r, w \in behind', StillDue)
    PROVE  NoticesIInv'
  <1>1. page \in [Windows -> PageSet] /\ page' \in [Windows -> PageSet]
        /\ page'[w] = r /\ \A v \in Windows \ {w} : page'[v] = page[v]
    BY DEF NoticesIInv, NoticesTyped
  <1>2. NoticesTyped' /\ NoPile'
    BY <1>1 DEF NoticesIInv, NoticesTyped, NoPile
  <1>3. StillDue' = StillDue
    BY DEF StillDue, Unread, Emitting
  <1>4. ASSUME NEW v \in Windows PROVE Honest(page'[v], v \in behind', StillDue')
    <2>1. CASE v = w
      BY <1>1, <1>3, <2>1
    <2>2. CASE v # w
      <3>1. Honest(page[v], v \in behind, StillDue)
        BY DEF NoticesIInv
      <3> QED BY <1>1, <1>3, <2>2, <3>1 DEF Honest
    <2> QED BY <2>1, <2>2
  <1> QED BY <1>2, <1>4 DEF NoticesIInv, Honest

\* What is due does not grow, and a window that changes only starts a refresh.
LEMMA LessDue ==
    ASSUME NEW p \in PageSet, NEW m \in BOOLEAN, NEW d \in Int, NEW e \in Int, e <= d,
           Honest(p, m, d)
    PROVE  Honest(p, m, e)
  BY PageTypes DEF Honest

LEMMA NoticesInitial == NoticesInit => NoticesIInv
  <1> SUFFICES ASSUME NoticesInit PROVE NoticesIInv
    OBVIOUS
  <1> DEFINE none == [i \in Fetches |-> NoFetch]
  <1>1. /\ none \in [Fetches -> FetchSet] /\ \A i \in Fetches : none[i].pc = "idle"
        /\ Idle \in JobSet /\ Idle.pc = "idle"
    BY FetchTypes DEF Idle, JobSet
  <1>2. [on |-> FALSE, badge |-> 0, fetch |-> none] \in PageSet
    BY <1>1 DEF PageSet
  <1>3. NoticesTyped
    BY <1>1, <1>2 DEF NoticesInit, NoticesTyped
  <1>4. NoPile
    BY <1>1, NoticesAssumption DEF NoticesInit, NoPile, Jobs, Kinds
  <1>5. \A w \in Windows : Honest(page[w], w \in behind, StillDue)
    BY <1>1 DEF NoticesInit, Honest
  <1> QED BY <1>3, <1>4, <1>5 DEF NoticesIInv

\* What raises an alert, and the pushes to the phones.
LEMMA RaisingKeeps ==
    ASSUME NoticesIInv,
           \/ StockMoves \/ RaiseEvent \/ Summarise
           \/ Scan \/ ScanInbox \/ BuildSummary \/ Deliver
           \/ \E j \in Jobs, p \in Phones : Push(j, p)
           \/ \E p \in Phones : EnablePush(p) \/ OpenPhone(p) \/ SubscriptionEnds(p)
    PROVE  NoticesIInv'
  <1>1. /\ "low" \in Jobs /\ "event" \in Jobs /\ Jobs = {"low", "event"} /\ "low" # "event"
        /\ job \in [Jobs -> JobSet] /\ NoPile
    BY DEF Jobs, Kinds, NoticesIInv, NoticesTyped
  <1>2. ASSUME NEW j \in Jobs,
               NEW pc \in {"idle", "look", "create", "emit", "push", "build", "deliver"},
               GoOn(j, pc)
        PROVE  /\ [job[j] EXCEPT !.pc = pc] \in JobSet /\ [job[j] EXCEPT !.pc = pc].pc = pc
               /\ job' = [job EXCEPT ![j] = [job[j] EXCEPT !.pc = pc]]
    <2>1. job[j] \in JobSet
      BY <1>1
    <2>2. job' = [job EXCEPT ![j] = [job[j] EXCEPT !.pc = pc]]
      BY <1>1, <1>2 DEF GoOn
    <2>3. \A v \in {"idle", "look", "create", "emit", "push", "build", "deliver"} :
             [job[j] EXCEPT !.pc = v] \in JobSet /\ [job[j] EXCEPT !.pc = v].pc = v
      BY <2>1, JobTypes
    <2> QED BY <1>2, <2>2, <2>3
  <1>3. ASSUME inbox' = inbox, job' = job, page' = page, behind' = behind PROVE NoticesIInv'
    BY <1>3 DEF NoticesIInv, NoticesTyped, NoPile, Honest, StillDue, Unread, Emitting
  <1>4. CASE StockMoves
    BY <1>3, <1>4 DEF StockMoves
  <1>5. CASE RaiseEvent
    <2>1. job["event"].pc = "idle" /\ inbox["event"] < MaxUnread /\ GoOn("event", "create")
          /\ UNCHANGED <<inbox, page, behind>>
      BY <1>5 DEF RaiseEvent
    <2> DEFINE r == [job["event"] EXCEPT !.pc = "create"]
    <2>2. r \in JobSet /\ r.pc = "create" /\ job' = [job EXCEPT !["event"] = r]
      BY <1>1, <1>2, <2>1
    <2> HIDE DEF r
    <2> QED BY <1>1, <2>1, <2>2, JobMoves
  <1>6. CASE Summarise
    <2> DEFINE i == [Idle EXCEPT !.pc = "build"]
               r == [i EXCEPT !.push = FALSE]
    <2>1. i \in JobSet /\ i.pc = "build"
      BY DEF JobSet, Idle
    <2>2. r \in JobSet /\ r.pc = "build"
      <3> HIDE DEF i
      <3> QED BY <2>1, JobTypes
    <2>3. job["event"].pc = "idle" /\ inbox["event"] < MaxUnread
          /\ job' = [job EXCEPT !["event"] = r] /\ UNCHANGED <<inbox, page, behind>>
      BY <1>6 DEF Summarise, Idle
    <2> HIDE DEF r
    <2> QED BY <1>1, <2>2, <2>3, JobMoves
  <1>7. CASE Scan
    <2>1. job["low"].pc = "idle" /\ GoOn("low", "look") /\ UNCHANGED <<inbox, page, behind>>
      BY <1>7 DEF Scan
    <2> DEFINE r == [job["low"] EXCEPT !.pc = "look"]
    <2>2. r \in JobSet /\ r.pc = "look" /\ job' = [job EXCEPT !["low"] = r]
      BY <1>1, <1>2, <2>1
    <2> HIDE DEF r
    <2> QED BY <1>1, <2>1, <2>2, JobMoves
  <1>8. CASE ScanInbox
    <2> DEFINE pc == IF inbox["low"] > 0 THEN "idle" ELSE "create"
               r == [job["low"] EXCEPT !.pc = pc]
    <2>1. job["low"].pc = "look" /\ GoOn("low", pc) /\ UNCHANGED <<inbox, page, behind>>
      BY <1>8 DEF ScanInbox
    <2>2. pc \in {"idle", "create"} /\ (pc = "create" => inbox["low"] = 0)
      <3>1. inbox["low"] \in Nat
        BY <1>1 DEF NoticesIInv, NoticesTyped, Kinds
      <3> QED BY <3>1
    <2>3. r \in JobSet /\ r.pc = pc /\ job' = [job EXCEPT !["low"] = r]
      <3> HIDE DEF pc
      <3> QED BY <1>1, <1>2, <2>1, <2>2
    <2> HIDE DEF r, pc
    <2> QED BY <1>1, <2>1, <2>2, <2>3, JobMoves
  <1>9. CASE BuildSummary
    <2>1. job["event"].pc = "build" /\ GoOn("event", "deliver") /\ UNCHANGED <<inbox, page, behind>>
      BY <1>9 DEF BuildSummary
    <2> DEFINE r == [job["event"] EXCEPT !.pc = "deliver"]
    <2>2. r \in JobSet /\ r.pc = "deliver" /\ job' = [job EXCEPT !["event"] = r]
      BY <1>1, <1>2, <2>1
    <2>3. inbox["event"] < MaxUnread
      BY <1>1, <2>1 DEF NoPile
    <2> HIDE DEF r
    <2> QED BY <1>1, <2>1, <2>2, <2>3, JobMoves
  <1>10. CASE Deliver
    <2>1. job["event"].pc = "deliver" /\ GoOn("event", "create") /\ UNCHANGED <<inbox, page, behind>>
      BY <1>10 DEF Deliver
    <2> DEFINE r == [job["event"] EXCEPT !.pc = "create"]
    <2>2. r \in JobSet /\ r.pc = "create" /\ job' = [job EXCEPT !["event"] = r]
      BY <1>1, <1>2, <2>1
    <2>3. inbox["event"] < MaxUnread
      BY <1>1, <2>1 DEF NoPile
    <2> HIDE DEF r
    <2> QED BY <1>1, <2>1, <2>2, <2>3, JobMoves
  <1>11. CASE \E j \in Jobs, p \in Phones : Push(j, p)
    <2>1. PICK j \in Jobs, p \in Phones : Push(j, p)
      BY <1>11
    <2> DEFINE left == job[j].phones \ {p}
               less == [job[j] EXCEPT !.phones = left]
               r == IF job[j].phones = {p} THEN Idle ELSE less
    <2>2. job[j] \in JobSet /\ left \in SUBSET Phones
      BY <1>1 DEF JobSet
    <2>3. less \in JobSet /\ less.pc = job[j].pc
      <3> HIDE DEF left
      <3> QED BY <2>2, JobTypes
    <2>4. r \in JobSet /\ r.pc \in {"idle", job[j].pc}
      <3> HIDE DEF less
      <3> QED BY <2>2, <2>3, JobTypes
    <2>5. job[j].pc = "push" /\ UNCHANGED <<inbox, page, behind>>
      BY <2>1 DEF Push
    <2>6. job' = [job EXCEPT ![j] = IF job[j].phones = {p} THEN Idle
                                     ELSE [job[j] EXCEPT !.phones = job[j].phones \ {p}]]
      BY <2>1 DEF Push
    <2>7. job' = [job EXCEPT ![j] = r]
      BY <2>6
    <2> HIDE DEF r
    <2> QED BY <1>1, <2>4, <2>5, <2>7, JobMoves
  <1>12. CASE \E p \in Phones : EnablePush(p) \/ OpenPhone(p) \/ SubscriptionEnds(p)
    BY <1>3, <1>12 DEF EnablePush, OpenPhone, SubscriptionEnds
  <1> QED BY <1>4, <1>5, <1>6, <1>7, <1>8, <1>9, <1>10, <1>11, <1>12

\* The alert is stored: one more is unread, and one more not yet sent.
LEMMA CreateKeeps ==
    ASSUME NoticesIInv, NEW j \in Jobs, CreateAlert(j)
    PROVE  NoticesIInv'
  <1> DEFINE r == [job[j] EXCEPT !.pc = "emit"]
  <1>1. job \in [Jobs -> JobSet] /\ NoPile /\ inbox \in [Kinds -> Nat] /\ j \in {"low", "event"}
        /\ page \in [Windows -> PageSet] /\ behind \subseteq Windows
    BY DEF NoticesIInv, NoticesTyped, Jobs, Kinds
  <1>2. r \in JobSet /\ r.pc = "emit"
    BY <1>1, JobTypes
  <1>3. job[j].pc = "create" /\ job' = [job EXCEPT ![j] = r]
        /\ inbox' = [inbox EXCEPT ![j] = @ + 1] /\ UNCHANGED <<page, behind>>
    BY DEF CreateAlert, GoOn
  <1> HIDE DEF r
  <1>4. job' \in [Jobs -> JobSet] /\ job'[j].pc = "emit" /\ \A i \in Jobs \ {j} : job'[i] = job[i]
    BY <1>1, <1>2, <1>3
  <1>5. inbox' \in [Kinds -> Nat] /\ inbox'[j] = inbox[j] + 1
        /\ \A i \in Kinds \ {j} : inbox'[i] = inbox[i]
    BY <1>1, <1>3 DEF Kinds
  <1>6. NoticesTyped /\ NoticesTyped'
    BY <1>1, <1>3, <1>4, <1>5 DEF NoticesTyped
  <1>7. NoPile'
    BY <1>1, <1>3, <1>4, <1>5, NoticesAssumption DEF NoPile, Jobs, Kinds
  <1>8. StillDue' = StillDue
    <2>1. Cardinality(Emitting') = Cardinality(Emitting) + 1
      BY <1>3, <1>4, EmittingStep
    <2>2. inbox'["low"] + inbox'["event"] = inbox["low"] + inbox["event"] + 1
      BY <1>1, <1>5 DEF Kinds
    <2> QED BY <1>6, <2>1, <2>2, DueInt, EmittingIs
  <1>9. \A w \in Windows : Honest(page'[w], w \in behind', StillDue')
    BY <1>3, <1>8 DEF NoticesIInv
  <1> QED BY <1>6, <1>7, <1>9 DEF NoticesIInv, Honest

\* The alert goes to the windows: one more is due, and every connected window
\* counts it, or missed it.
LEMMA EmitKeeps ==
    ASSUME NoticesIInv, NEW j \in Jobs, Emit(j)
    PROVE  NoticesIInv'
  <1>1. job \in [Jobs -> JobSet] /\ NoPile /\ inbox \in [Kinds -> Nat] /\ j \in {"low", "event"}
        /\ page \in [Windows -> PageSet] /\ behind \subseteq Windows
    BY DEF NoticesIInv, NoticesTyped, Jobs, Kinds
  <1>2. job'[j] \in JobSet /\ job'[j].pc \in {"idle", "push"}
        /\ job' \in [Jobs -> JobSet] /\ \A i \in Jobs \ {j} : job'[i] = job[i]
    <2> DEFINE was == job[j]
               more == [was EXCEPT !.pc = "push", !.phones = Subscribed]
               r == IF ~was.push \/ Subscribed = {} THEN Idle ELSE more
    <2>1. job' = [job EXCEPT ![j] = r]
      BY <1>1 DEF Emit
    <2>2. was \in JobSet /\ Subscribed \in SUBSET Phones
      BY <1>1 DEF Subscribed
    <2>3. more \in JobSet /\ more.pc = "push"
      <3> HIDE DEF was
      <3> QED BY <2>2 DEF JobSet
    <2>4. r \in JobSet /\ r.pc \in {"idle", "push"}
      <3> HIDE DEF more
      <3> QED BY <2>2, <2>3, JobTypes
    <2> HIDE DEF r
    <2> QED BY <1>1, <2>1, <2>4
  <1>3. job[j].pc = "emit" /\ inbox' = inbox
        /\ page' = [w \in Windows |-> IF page[w].on THEN Rung(w) ELSE Missed(w)]
        /\ behind' = behind \cup {w \in Windows : ~page[w].on}
    BY DEF Emit
  <1>4. NoticesTyped /\ NoticesTyped'
    <2>1. page' \in [Windows -> PageSet]
      <3>1. \A w \in Windows : Rung(w) \in PageSet /\ Missed(w) \in PageSet
        BY RungIs DEF NoticesIInv
      <3> QED BY <1>3, <3>1
    <2> QED BY <1>1, <1>2, <1>3, <2>1 DEF NoticesIInv, NoticesTyped
  <1>5. NoPile'
    BY <1>1, <1>2, <1>3 DEF NoPile, Jobs, Kinds
  <1>6. StillDue' = StillDue + 1 /\ StillDue' <= MaxBadge
    <2>1. Cardinality(Emitting') = Cardinality(Emitting) - 1
      BY <1>2, <1>3, EmittingStep
    <2>2. Unread' = Unread /\ Unread <= MaxBadge
      <3>1. inbox["low"] <= 1 /\ inbox["event"] <= MaxUnread /\ inbox["low"] \in Nat /\ inbox["event"] \in Nat
        BY <1>1 DEF NoPile, Kinds
      <3> QED BY <1>3, <1>4, <3>1, DueInt, NoticesAssumption DEF Unread
    <2> QED BY <1>4, <2>1, <2>2, DueInt, EmittingIs, NoticesAssumption
  <1>7. StillDue \in Int /\ StillDue' \in Int
    BY <1>4, DueInt
  <1>8. ASSUME NEW w \in Windows PROVE Honest(page'[w], w \in behind', StillDue')
    <2>1. page[w] \in PageSet /\ Honest(page[w], w \in behind, StillDue)
      BY <1>1 DEF NoticesIInv
    <2>2. page[w].on \in BOOLEAN /\ page[w].badge \in Nat
      BY <2>1, PageTypes
    <2>3. ASSUME page[w].on PROVE Honest(page'[w], w \in behind', StillDue')
      <3>1. page'[w] = Rung(w) /\ (w \in behind' <=> w \in behind)
        BY <1>3, <2>3
      <3>2. /\ Rung(w).badge = IF page[w].badge = MaxBadge THEN MaxBadge ELSE page[w].badge + 1
            /\ \A i \in Fetches : Rung(w).fetch[i].pc = "read" => Rung(w).fetch[i].late
        BY <1>4, RungIs
      <3>3. w \notin behind => page[w].badge >= StillDue
        BY <2>1, <2>3 DEF Honest
      <3>4. w \notin behind => Rung(w).badge >= StillDue'
        BY <1>6, <1>7, <2>2, <3>2, <3>3, NoticesAssumption
      <3> QED BY <3>1, <3>2, <3>4 DEF Honest
    <2>4. ASSUME ~page[w].on PROVE Honest(page'[w], w \in behind', StillDue')
      <3>1. page'[w] = Missed(w) /\ w \in behind'
        BY <1>3, <2>4
      <3>2. \A i \in Fetches : Missed(w).fetch[i].pc = "read" => Missed(w).fetch[i].late
        BY <1>4, RungIs
      <3> QED BY <3>1, <3>2 DEF Honest
    <2> QED BY <2>2, <2>3, <2>4
  <1> QED BY <1>4, <1>5, <1>8 DEF NoticesIInv, Honest

\* A failure: what was stored and not sent is missed by every window.
LEMMA FaultKeeps ==
    ASSUME NoticesIInv, RestartServer \/ \E j \in Jobs : RaiseFails(j)
    PROVE  NoticesIInv'
  <1>1. job \in [Jobs -> JobSet] /\ NoPile /\ inbox \in [Kinds -> Nat] /\ NoticesTyped
        /\ page \in [Windows -> PageSet] /\ behind \subseteq Windows
    BY DEF NoticesIInv, NoticesTyped
  <1>2. Idle \in JobSet /\ Idle.pc = "idle"
    BY DEF Idle, JobSet
  <1>3. ASSUME NEW g \in [Windows -> PageSet], page' = g, behind' = Windows, inbox' = inbox,
               job' \in [Jobs -> JobSet], \A i \in Jobs : job'[i] \in {job[i], Idle},
               \A w \in Windows, i \in Fetches : g[w].fetch[i].pc = "read" => g[w].fetch[i].late
        PROVE  NoticesIInv'
    <2>1. NoticesTyped'
      BY <1>1, <1>3 DEF NoticesTyped
    <2>2. NoPile'
      BY <1>1, <1>2, <1>3 DEF NoPile, Jobs, Kinds
    <2>3. \A w \in Windows : Honest(page'[w], w \in behind', StillDue')
      BY <1>3 DEF Honest
    <2> QED BY <2>1, <2>2, <2>3 DEF NoticesIInv, Honest
  <1>4. \A w \in Windows : /\ Missed(w) \in PageSet
                           /\ \A i \in Fetches : Missed(w).fetch[i].pc = "read" => Missed(w).fetch[i].late
    BY <1>1, RungIs
  <1>5. CASE RestartServer
    <2> DEFINE g == [w \in Windows |-> [Missed(w) EXCEPT !.on = FALSE]]
    <2>1. \A w \in Windows : [Missed(w) EXCEPT !.on = FALSE] \in PageSet
                             /\ [Missed(w) EXCEPT !.on = FALSE].fetch = Missed(w).fetch
      BY <1>4 DEF PageSet
    <2>2. g \in [Windows -> PageSet]
          /\ \A w \in Windows, i \in Fetches : g[w].fetch[i].pc = "read" => g[w].fetch[i].late
      BY <1>4, <2>1
    <2>3. page' = g /\ behind' = Windows /\ inbox' = inbox /\ job' = [j \in Jobs |-> Idle]
      BY <1>5 DEF RestartServer
    <2> HIDE DEF g
    <2> QED BY <1>2, <1>3, <2>2, <2>3
  <1>6. ASSUME NEW j \in Jobs, RaiseFails(j) PROVE NoticesIInv'
    <2>1. job' = [job EXCEPT ![j] = Idle] /\ inbox' = inbox
      BY <1>6 DEF RaiseFails
    <2>2. job' \in [Jobs -> JobSet] /\ \A i \in Jobs : job'[i] \in {job[i], Idle}
      BY <1>1, <1>2, <2>1
    <2>3. CASE job[j].pc = "emit"
      <3> DEFINE g == [w \in Windows |-> Missed(w)]
      <3>1. page' = g /\ behind' = Windows
        BY <1>6, <2>3 DEF RaiseFails
      <3>2. g \in [Windows -> PageSet]
          /\ \A w \in Windows, i \in Fetches : g[w].fetch[i].pc = "read" => g[w].fetch[i].late
        BY <1>4
      <3> HIDE DEF g
      <3> QED BY <1>3, <2>1, <2>2, <3>1, <3>2
    <2>4. CASE job[j].pc # "emit"
      <3>1. UNCHANGED <<inbox, page, behind>>
        BY <1>6, <2>4 DEF RaiseFails
      <3> QED BY <1>2, <2>1, <2>4, <3>1, JobMoves
    <2> QED BY <2>3, <2>4
  <1> QED BY <1>5, <1>6

\* One refresh of a window moves to what has not been read, or to what is unread now.
LEMMA FetchMoves ==
    ASSUME NoticesIInv, NEW w \in Windows, NEW i \in Fetches, NEW f \in FetchSet, NEW b \in Nat,
           f.pc # "read" \/ f.count = Unread,
           page' = [page EXCEPT ![w] = [page[w] EXCEPT !.badge = b, !.fetch = [page[w].fetch EXCEPT ![i] = f]]],
           UNCHANGED <<inbox, job>>, behind' \subseteq Windows,
           \A v \in Windows \ {w} : v \in behind' <=> v \in behind,
           page[w].on /\ w \notin behind' => b >= StillDue
    PROVE  NoticesIInv'
  <1> DEFINE p == page[w]
             g == [p.fetch EXCEPT ![i] = f]
             r == [p EXCEPT !.badge = b, !.fetch = g]
  <1>1. p \in PageSet /\ Honest(p, w \in behind, StillDue) /\ NoticesTyped
    BY DEF NoticesIInv, NoticesTyped
  <1>2. g \in [Fetches -> FetchSet] /\ g[i] = f /\ \A k \in Fetches \ {i} : g[k] = p.fetch[k]
    <2>1. p.fetch \in [Fetches -> FetchSet]
      BY <1>1, PageTypes
    <2> HIDE DEF p
    <2> QED BY <2>1
  <1>3. page' = [page EXCEPT ![w] = r]
    OBVIOUS
  <1>4. p.on /\ w \notin behind' => b >= StillDue
    OBVIOUS
  <1>5. StillDue <= Unread /\ StillDue \in Int /\ Unread \in Nat
    <2>1. Unread \in Nat
      BY <1>1, UnreadIs DEF NoticesTyped, Unread
    <2> QED BY <2>1, EmittingIs DEF StillDue
  <1>6. r \in PageSet /\ r.on = p.on /\ r.badge = b /\ r.fetch = g
    <2> HIDE DEF g, p
    <2> QED BY <1>1, <1>2 DEF PageSet
  <1>7. Honest(r, w \in behind', StillDue)
    <2>1. ASSUME NEW k \in Fetches, g[k].pc = "read", ~g[k].late PROVE g[k].count >= StillDue
      <3>1. CASE k = i
        <4> HIDE DEF g
        <4> QED BY <1>2, <1>5, <2>1, <3>1
      <3>2. CASE k # i
        <4>1. g[k] = p.fetch[k]
          <5> HIDE DEF g, p
          <5> QED BY <1>2, <3>2
        <4> HIDE DEF g, p
        <4> QED BY <1>1, <2>1, <4>1 DEF Honest
      <3> QED BY <3>1, <3>2
    <2> HIDE DEF g, p, r
    <2> QED BY <1>4, <1>6, <2>1 DEF Honest
  <1> HIDE DEF r
  <1> QED BY <1>3, <1>6, <1>7, WindowMoves

\* A window connects, breaks off, and refreshes: it shows what it has read.
LEMMA WindowKeeps ==
    ASSUME NoticesIInv, NEW w \in Windows,
           \/ Disconnect(w) \/ \E fresh \in BOOLEAN : Connect(w, fresh)
           \/ \E i \in Fetches :
                 Refresh(w, i) \/ CountUnread(w, i) \/ ShowInbox(w, i) \/ RefreshFails(w, i)
    PROVE  NoticesIInv'
  <1> DEFINE p == page[w]
  <1>1. /\ page \in [Windows -> PageSet] /\ p \in PageSet /\ behind \subseteq Windows
        /\ NoticesTyped /\ Honest(p, w \in behind, StillDue)
    BY DEF NoticesIInv, NoticesTyped
  <1>2. /\ p.on \in BOOLEAN /\ p.badge \in Nat /\ p.fetch \in [Fetches -> FetchSet]
        /\ \A i \in Fetches : p.fetch[i].count \in Nat
    <2> HIDE DEF p
    <2> QED BY <1>1, PageTypes
  <1>3. p.on /\ w \notin behind => p.badge >= StillDue
    BY <1>1 DEF Honest
  <1>4. \A g \in [Fetches -> FetchSet] :
            page' = [page EXCEPT ![w].fetch = g]
              => page' = [page EXCEPT ![w] = [page[w] EXCEPT !.badge = p.badge, !.fetch = g]]
    <2>1. \A g \in [Fetches -> FetchSet] : [p EXCEPT !.fetch = g] = [p EXCEPT !.badge = p.badge, !.fetch = g]
      <3> HIDE DEF p
      <3> QED BY <1>1 DEF PageSet
    <2> QED BY <1>1, <2>1
  <1>5. ASSUME NEW i \in Fetches, NEW f \in FetchSet, f.pc # "read" \/ f.count = Unread,
               page' = [page EXCEPT ![w].fetch[i] = f], UNCHANGED <<inbox, job, behind>>
        PROVE  NoticesIInv'
    <2> DEFINE g == [p.fetch EXCEPT ![i] = f]
    <2>1. g \in [Fetches -> FetchSet]
      <3> HIDE DEF p
      <3> QED BY <1>2, <1>5
    <2>2. page' = [page EXCEPT ![w].fetch = g]
      BY <1>1, <1>5
    <2>3. page' = [page EXCEPT ![w] = [page[w] EXCEPT !.badge = p.badge, !.fetch = [page[w].fetch EXCEPT ![i] = f]]]
      BY <1>4, <2>1, <2>2
    <2>4. /\ p.badge \in Nat /\ behind' \subseteq Windows
          /\ \A v \in Windows \ {w} : v \in behind' <=> v \in behind
          /\ page[w].on /\ w \notin behind' => p.badge >= StillDue
      BY <1>1, <1>2, <1>3, <1>5
    <2> DEFINE b == p.badge
    <2> HIDE DEF b
    <2>5. page' = [page EXCEPT ![w] = [page[w] EXCEPT !.badge = b, !.fetch = [page[w].fetch EXCEPT ![i] = f]]]
          /\ b \in Nat /\ (page[w].on /\ w \notin behind' => b >= StillDue)
      BY <2>3, <2>4 DEF b
    <2>6. (f.pc # "read" \/ f.count = Unread) /\ UNCHANGED <<inbox, job>>
      BY <1>5
    <2> HIDE DEF p
    <2> QED BY <2>4, <2>5, <2>6, FetchMoves
  <1>6. CASE Disconnect(w)
    <2> DEFINE r == [p EXCEPT !.on = FALSE]
    <2>1. r \in PageSet /\ ~r.on /\ r.fetch = p.fetch
      <3> HIDE DEF p
      <3> QED BY <1>1 DEF PageSet
    <2>2. page' = [page EXCEPT ![w] = r] /\ UNCHANGED <<inbox, job, behind>>
      BY <1>1, <1>6 DEF Disconnect
    <2>3. Honest(r, w \in behind', StillDue)
      BY <1>1, <2>1, <2>2 DEF Honest
    <2> HIDE DEF r
    <2> QED BY <1>1, <2>1, <2>2, <2>3, WindowMoves
  <1>7. ASSUME NEW i \in Fetches, Refresh(w, i) PROVE NoticesIInv'
    BY <1>5, <1>7, FetchTypes DEF Refresh
  <1>8. ASSUME NEW i \in Fetches, RefreshFails(w, i) PROVE NoticesIInv'
    BY <1>5, <1>8, FetchTypes DEF RefreshFails
  <1>9. ASSUME NEW i \in Fetches, CountUnread(w, i) PROVE NoticesIInv'
    <2> DEFINE f == [pc |-> "read", count |-> Unread, late |-> FALSE]
    <2>1. page' = [page EXCEPT ![w].fetch[i] = f] /\ UNCHANGED <<inbox, job, behind>>
      BY <1>9 DEF CountUnread
    <2>2. Unread \in Nat
      BY <1>1, UnreadIs DEF NoticesTyped, Unread
    <2>3. f \in FetchSet /\ f.count = Unread
      BY <2>2 DEF FetchSet
    <2> HIDE DEF f
    <2> QED BY <1>5, <2>1, <2>3
  <1>10. ASSUME NEW i \in Fetches, ShowInbox(w, i) PROVE NoticesIInv'
    <2> DEFINE was == p.fetch[i]
               c == was.count
    <2>1. was.pc = "read" /\ page' = [page EXCEPT ![w] = [p EXCEPT !.badge = c, !.fetch[i] = NoFetch]]
          /\ UNCHANGED <<inbox, job>>
          /\ behind' = IF p.on /\ ~was.late THEN behind \ {w} ELSE behind \cup {w}
      BY <1>1, <1>10 DEF ShowInbox
    <2>2. page' = [page EXCEPT ![w] = [page[w] EXCEPT !.badge = c, !.fetch = [page[w].fetch EXCEPT ![i] = NoFetch]]]
      <3>1. \A b : [p EXCEPT !.badge = b, !.fetch[i] = NoFetch]
                     = [p EXCEPT !.badge = b, !.fetch = [p.fetch EXCEPT ![i] = NoFetch]]
        <4> HIDE DEF p
        <4> QED BY <1>1 DEF PageSet
      <3> HIDE DEF c
      <3> QED BY <2>1, <3>1
    <2>3. c \in Nat /\ (~was.late => c >= StillDue)
      BY <1>1, <1>2, <2>1 DEF Honest
    <2>4. behind' \subseteq Windows /\ (\A v \in Windows \ {w} : v \in behind' <=> v \in behind)
          /\ (p.on /\ w \notin behind' => c >= StillDue)
      <3> HIDE DEF p, was, c
      <3> QED BY <1>1, <2>1, <2>3
    <2>5. NoFetch \in FetchSet /\ NoFetch.pc # "read" /\ c \in Nat
          /\ (page[w].on /\ w \notin behind' => c >= StillDue)
      BY <2>3, <2>4, FetchTypes
    <2> HIDE DEF c, was, p
    <2> QED BY <2>1, <2>2, <2>4, <2>5, FetchMoves
  <1>11. ASSUME NEW fresh \in BOOLEAN, Connect(w, fresh) PROVE NoticesIInv'
    <2>1. behind' = behind \cup {w} /\ UNCHANGED <<inbox, job>>
      BY <1>11 DEF Connect
    <2>2. ASSUME NEW r \in PageSet, page' = [page EXCEPT ![w] = r],
                 \A i \in Fetches : r.fetch[i].pc # "read" \/ r.fetch[i] = p.fetch[i]
          PROVE  NoticesIInv'
      <3>1. Honest(r, w \in behind', StillDue)
        <4> HIDE DEF p
        <4> QED BY <1>1, <2>1, <2>2 DEF Honest
      <3> QED BY <1>1, <2>1, <2>2, <3>1, WindowMoves
    <2>3. CASE ~fresh
      <3> DEFINE r == [p EXCEPT !.on = TRUE]
      <3>1. r \in PageSet /\ r.fetch = p.fetch
        <4> HIDE DEF p
        <4> QED BY <1>1 DEF PageSet
      <3>2. page' = [page EXCEPT ![w] = r]
        BY <1>1, <1>11, <2>3 DEF Connect
      <3> HIDE DEF r
      <3> QED BY <2>2, <3>1, <3>2
    <2>4. CASE fresh
      <3>1. PICK i \in Fetches :
              page' = [page EXCEPT ![w] = [on |-> TRUE, badge |-> 0,
                                           fetch |-> [k \in Fetches |-> IF k = i THEN Asked ELSE NoFetch]]]
        BY <1>11, <2>4 DEF Connect
      <3> DEFINE g == [k \in Fetches |-> IF k = i THEN Asked ELSE NoFetch]
                 r == [on |-> TRUE, badge |-> 0, fetch |-> g]
      <3>2. g \in [Fetches -> FetchSet] /\ \A k \in Fetches : g[k].pc # "read"
        BY FetchTypes
      <3>3. r \in PageSet /\ r.fetch = g
        <4> HIDE DEF g
        <4> QED BY <3>2 DEF PageSet
      <3>4. page' = [page EXCEPT ![w] = r]
        BY <3>1
      <3> HIDE DEF g, r
      <3> QED BY <2>2, <3>2, <3>3, <3>4
    <2> QED BY <2>3, <2>4
  <1> QED BY <1>6, <1>7, <1>8, <1>9, <1>10, <1>11

\* Alerts are read: fewer are unread.
LEMMA ReadKeeps ==
    ASSUME NoticesIInv, MarkRead(Kinds) \/ \E k \in Kinds : MarkRead({k})
    PROVE  NoticesIInv'
  <1>1. NoPile /\ inbox \in [Kinds -> Nat] /\ NoticesTyped /\ page \in [Windows -> PageSet]
        /\ behind \subseteq Windows
    BY DEF NoticesIInv, NoticesTyped
  <1>2. /\ \A k \in Kinds : inbox'[k] \in Nat /\ inbox'[k] <= inbox[k]
        /\ inbox' = [k \in Kinds |-> inbox'[k]]
    <2>1. CASE MarkRead(Kinds)
      <3>1. inbox' = [k \in Kinds |-> 0]
        BY <2>1 DEF MarkRead
      <3> QED BY <1>1, <3>1
    <2>2. ASSUME NEW j \in Kinds, MarkRead({j})
          PROVE  \A k \in Kinds : inbox'[k] \in Nat /\ inbox'[k] <= inbox[k]
      <3>1. inbox[j] > 0 /\ inbox' = [k \in Kinds |-> IF {j} = Kinds THEN 0
                                        ELSE IF k \in {j} THEN inbox[k] - 1 ELSE inbox[k]]
        BY <2>2 DEF MarkRead
      <3> QED BY <1>1, <3>1
    <2> QED BY <2>1, <2>2 DEF MarkRead
  <1>3. inbox' \in [Kinds -> Nat]
    BY <1>2
  <1>4. UNCHANGED <<job, behind>>
        /\ (page' = page \/ \E w \in Windows, i \in Fetches : page' = [page EXCEPT ![w].fetch[i] = Asked])
    BY DEF MarkRead
  <1>5. ASSUME NEW w \in Windows
        PROVE  page'[w] \in PageSet /\ Honest(page'[w], w \in behind', StillDue)
    <2> DEFINE p == page[w]
               asks(i) == [p EXCEPT !.fetch = [p.fetch EXCEPT ![i] = Asked]]
    <2>1. p \in PageSet /\ Honest(p, w \in behind, StillDue)
      BY <1>1 DEF NoticesIInv
    <2>2. page'[w] = p \/ \E i \in Fetches : page'[w] = asks(i)
      BY <1>1, <1>4
    <2>3. ASSUME NEW i \in Fetches PROVE asks(i) \in PageSet /\ Honest(asks(i), w \in behind, StillDue)
      <3> DEFINE g == [p.fetch EXCEPT ![i] = Asked]
      <3>1. p.fetch \in [Fetches -> FetchSet]
        BY <2>1, PageTypes
      <3>2. g \in [Fetches -> FetchSet] /\ \A k \in Fetches : g[k].pc # "read" \/ g[k] = p.fetch[k]
        <4> HIDE DEF p
        <4> QED BY <3>1, FetchTypes
      <3>3. asks(i) \in PageSet /\ asks(i).on = p.on /\ asks(i).badge = p.badge /\ asks(i).fetch = g
        <4> HIDE DEF p, g
        <4> QED BY <2>1, <3>2 DEF PageSet, g
      <3> HIDE DEF p, g, asks
      <3> QED BY <2>1, <3>2, <3>3 DEF Honest
    <2> HIDE DEF p, asks
    <2> QED BY <1>4, <2>1, <2>2, <2>3
  <1>6. page' \in [Windows -> PageSet]
    <2>1. page' = [w \in Windows |-> page'[w]]
      BY <1>1, <1>4
    <2> QED BY <1>5, <2>1
  <1>7. NoticesTyped'
    BY <1>1, <1>3, <1>4, <1>6 DEF NoticesTyped
  <1>8. NoPile'
    <2>1. inbox["low"] \in Nat /\ inbox["event"] \in Nat /\ inbox'["low"] \in Nat /\ inbox'["event"] \in Nat
          /\ inbox'["low"] <= inbox["low"] /\ inbox'["event"] <= inbox["event"]
      BY <1>1, <1>2 DEF Kinds
    <2> QED BY <1>1, <1>4, <2>1, NoticesAssumption DEF NoPile
  <1>9. StillDue' <= StillDue /\ StillDue \in Int /\ StillDue' \in Int
    <2>1. Cardinality(Emitting') = Cardinality(Emitting)
      BY <1>4 DEF Emitting
    <2>2. Unread' <= Unread
      BY <1>1, <1>2, <1>7, DueInt DEF Kinds
    <2> QED BY <1>1, <1>7, <2>1, <2>2, DueInt, EmittingIs
  <1>10. ASSUME NEW w \in Windows PROVE Honest(page'[w], w \in behind', StillDue')
    <2>1. (w \in behind') \in BOOLEAN
      OBVIOUS
    <2> QED BY <1>5, <1>9, <2>1, LessDue
  <1> QED BY <1>7, <1>8, <1>10 DEF NoticesIInv, Honest

LEMMA NoticesStep == NoticesIInv /\ [NoticesNext]_noticesVars => NoticesIInv'
  <1> SUFFICES ASSUME NoticesIInv, [NoticesNext]_noticesVars PROVE NoticesIInv'
    OBVIOUS
  <1>1. ASSUME NEW j \in Jobs, Raise(j) PROVE NoticesIInv'
    BY <1>1, CreateKeeps, EmitKeeps, RaisingKeeps DEF Raise
  <1>2. ASSUME NEW w \in Windows,
               \/ Disconnect(w) \/ \E fresh \in BOOLEAN : Connect(w, fresh)
               \/ \E i \in Fetches :
                     Refresh(w, i) \/ CountUnread(w, i) \/ ShowInbox(w, i) \/ RefreshFails(w, i)
        PROVE  NoticesIInv'
    BY <1>2, WindowKeeps
  <1>3. CASE UNCHANGED noticesVars
    BY <1>3 DEF noticesVars, NoticesIInv, NoticesTyped, NoPile, Honest, StillDue, Unread, Emitting
  <1> QED BY <1>1, <1>2, <1>3, RaisingKeeps, FaultKeeps, ReadKeeps DEF NoticesNext

\* NoticesIInv is inductive.
THEOREM NoticesHold == NoticesSpec => []NoticesIInv
  <1> QED BY NoticesInitial, NoticesStep, PTL DEF NoticesSpec

\* The watch never stores a second alert of low stock while one is unread: what
\* it looked up still holds when it stores (StockWatchCron.scan).
THEOREM WatchKeepsOneUnread == NoticesSpec => []OneUnreadLow
  <1>1. NoticesIInv => OneUnreadLow
    BY DEF NoticesIInv, NoPile, OneUnreadLow
  <1> QED BY <1>1, NoticesHold, PTL

\* The badge of a window that missed nothing is never under the alerts that are
\* unread and were sent (store/alerts.ts).
THEOREM BadgeIsNotUnder == NoticesSpec => []BadgeNotUnder
  <1>1. NoticesIInv => BadgeNotUnder
    BY DEF NoticesIInv, Honest, BadgeNotUnder, StillDue
  <1> QED BY <1>1, NoticesHold, PTL

-----------------------------------------------------------------------------
(* The catalogue *)

RowSet == [st : {"none", "row", "gone"}, code : Codes \cup {"none"}, price : Tags \cup {0},
           active : BOOLEAN, stocked : BOOLEAN, open : SUBSET (Tags \cup {0})]
EditSet == [pc : {"idle", "insert", "price", "stock", "close", "open", "row", "delete", "hide", "bust"},
            of : Products \cup {"none"}, code : Codes \cup {"none"}, price : Tags \cup {0},
            was : Codes \cup {"none"}, wrote : BOOLEAN]

CatalogTyped ==
    /\ prod \in [Products -> RowSet]
    /\ edit \in [Editors -> EditSet]
    /\ entry = [c \in Codes |-> entry[c]]

\* Two rows never have one barcode.
SoleCode ==
    \A p, q \in Products :
        prod[p].st = "row" /\ prod[q].st = "row" /\ prod[p].code = prod[q].code => p = q

Whole(r) == r.stocked /\ r.open = {r.price}

\* Edit x has brought row r to where its next statement expects it.
OnTrack(x, r) ==
    /\ x.pc = "insert" => r.st = "none"
    /\ x.pc = "price" => r.price = x.price
    /\ x.pc = "stock" => r.open = {r.price}
    /\ x.pc = "close" => Whole(r) /\ r.code = x.was
    /\ x.pc = "open" => r.stocked /\ r.open = {} /\ r.code = x.was
    /\ x.pc = "row" => /\ r.stocked /\ r.open = {x.price} /\ r.code = x.was
                       /\ ~x.wrote => r.price = x.price
    /\ x.pc \in {"delete", "hide"} => Whole(r) /\ r.code = x.was
    /\ x.pc = "bust" => (r.st = "row" => Whole(r))
    /\ x.pc \in {"price", "stock", "open"} => x.wrote

\* Edits of one product that is not spoilt do not overlap, and each is on its way.
Orderly ==
    /\ \A e \in Editors : IF edit[e].pc = "idle" THEN edit[e] = Rest ELSE edit[e].of \in Products
    /\ \A e, f \in Editors :
          e # f /\ edit[e].of = edit[f].of => edit[e].of \in spoilt \cup {"none"}
    /\ \A e \in Editors :
          edit[e].pc # "idle" /\ edit[e].of \notin spoilt => OnTrack(edit[e], prod[edit[e].of])

CatalogIInv == CatalogTyped /\ SoleCode /\ Orderly /\ WholeProduct /\ CachedIsCurrent

\* What a scan reads: the product that has the barcode, and there is one at most.
LEMMA CurrentIs ==
    ASSUME SoleCode, SoleCode'
    PROVE  \A c \in Codes :
              /\ Current(c) # NoEntry => Holders(c) # {}
              /\ Current(c)' # NoEntry => Holders(c)' # {}
              /\ \A p \in Holders(c) :
                    Current(c) = [of |-> p, price |-> prod[p].price, active |-> prod[p].active]
              /\ \A p \in Holders(c)' :
                    Current(c)' = [of |-> p, price |-> prod'[p].price, active |-> prod'[p].active]
  <1> SUFFICES ASSUME NEW c \in Codes
               PROVE  /\ Current(c) # NoEntry => Holders(c) # {}
                      /\ Current(c)' # NoEntry => Holders(c)' # {}
                      /\ \A p \in Holders(c) :
                            Current(c) = [of |-> p, price |-> prod[p].price, active |-> prod[p].active]
                      /\ \A p \in Holders(c)' :
                            Current(c)' = [of |-> p, price |-> prod'[p].price, active |-> prod'[p].active]
    OBVIOUS
  <1>1. Current(c) # NoEntry => Holders(c) # {}
    BY DEF Current
  <1>2. Current(c)' # NoEntry => Holders(c)' # {}
    BY DEF Current
  <1>3. ASSUME NEW p \in Holders(c)
        PROVE  Current(c) = [of |-> p, price |-> prod[p].price, active |-> prod[p].active]
    <2>1. \A q \in Holders(c) : q = p
      BY DEF Holders, SoleCode
    <2>2. (CHOOSE q \in Holders(c) : TRUE) = p
      BY <2>1
    <2> QED BY <2>2 DEF Current
  <1>4. ASSUME NEW p \in Holders(c)'
        PROVE  Current(c)' = [of |-> p, price |-> prod'[p].price, active |-> prod'[p].active]
    <2>1. \A q \in Holders(c)' : q = p
      BY DEF Holders, SoleCode
    <2>2. (CHOOSE q \in Holders(c)' : TRUE) = p
      BY <2>1
    <2> QED BY <2>2 DEF Current
  <1> QED BY <1>1, <1>2, <1>3, <1>4

\* A cached entry stays current, or becomes one somebody will delete.
LEMMA CacheKept ==
    ASSUME CatalogIInv, SoleCode', UNCHANGED <<entry, late>>, spoilt' = spoilt,
           \A c \in Codes : Due(c) => Due(c)',
           \A c \in Codes : \A p \in Holders(c) :
              p \in spoilt \/ Due(c)' \/ (/\ p \in Holders(c)' /\ prod'[p].price = prod[p].price
                                          /\ prod'[p].active = prod[p].active)
    PROVE  CachedIsCurrent'
  <1> SUFFICES ASSUME NEW c \in Codes, entry[c] # NoEntry, entry[c] # Current(c)'
               PROVE  c \in late \/ Due(c)' \/ entry[c].of \in spoilt
    BY DEF CachedIsCurrent
  <1>1. CASE entry[c] # Current(c)
    BY <1>1 DEF CatalogIInv, CachedIsCurrent
  <1>2. CASE entry[c] = Current(c)
    <2>1. PICK p \in Holders(c) : TRUE
      BY <1>2, CurrentIs DEF CatalogIInv
    <2>2. entry[c] = [of |-> p, price |-> prod[p].price, active |-> prod[p].active]
      BY <1>2, CurrentIs DEF CatalogIInv
    <2>3. ~(/\ p \in Holders(c)' /\ prod'[p].price = prod[p].price /\ prod'[p].active = prod[p].active)
      BY <2>2, CurrentIs DEF CatalogIInv
    <2> QED BY <2>1, <2>2, <2>3
  <1> QED BY <1>1, <1>2

\* One statement of an edit that is on its way.
LEMMA StatementKeeps ==
    ASSUME CatalogIInv, NEW e \in Editors, edit[e].pc # "idle", NEW row \in RowSet,
           NEW next \in {"price", "stock", "open", "row", "bust"}, Statement(e, row, next),
           NEW r, r = prod[edit[e].of], NEW x, x = [edit[e] EXCEPT !.pc = next, !.wrote = TRUE],
           row.st = "row" => \/ r.st = "row" /\ row.code = r.code
                             \/ ~CodeTaken(edit[e].of, row.code),
           r.st = "row" => \/ r.code = edit[e].was
                           \/ edit[e].of \in spoilt
                           \/ row.st = "row" /\ row.code = r.code /\ row.price = r.price /\ row.active = r.active,
           edit[e].of \notin spoilt => OnTrack(x, row)
    PROVE  CatalogIInv'
  <1> DEFINE o == edit[e].of
  <1>1. /\ prod \in [Products -> RowSet] /\ edit \in [Editors -> EditSet]
        /\ o \in Products /\ edit[e] \in EditSet
    BY DEF CatalogIInv, CatalogTyped, Orderly
  <1>2. /\ prod' = [prod EXCEPT ![o] = row] /\ edit' = [edit EXCEPT ![e] = x]
        /\ UNCHANGED <<entry, late, spoilt>>
    BY <1>1 DEF Statement
  <1>3. x \in EditSet /\ x.pc = next /\ x.wrote /\ x.of = o /\ x.code = edit[e].code /\ x.was = edit[e].was
    <2> DEFINE y == edit[e]
    <2>1. y \in EditSet /\ x = [y EXCEPT !.pc = next, !.wrote = TRUE]
      BY <1>1
    <2>2. y.of = o /\ y.code = edit[e].code /\ y.was = edit[e].was
      OBVIOUS
    <2> HIDE DEF y, o
    <2>3. /\ [y EXCEPT !.pc = next, !.wrote = TRUE] \in EditSet
          /\ [y EXCEPT !.pc = next, !.wrote = TRUE].pc = next
          /\ [y EXCEPT !.pc = next, !.wrote = TRUE].wrote
          /\ [y EXCEPT !.pc = next, !.wrote = TRUE].of = y.of
          /\ [y EXCEPT !.pc = next, !.wrote = TRUE].code = y.code
          /\ [y EXCEPT !.pc = next, !.wrote = TRUE].was = y.was
      BY <2>1 DEF EditSet
    <2> QED BY <2>1, <2>2, <2>3
  <1> HIDE DEF o
  <1>4. prod'[o] = row /\ prod[o] = r /\ \A p \in Products \ {o} : prod'[p] = prod[p]
    BY <1>1, <1>2 DEF o
  <1>5. edit'[e] = x /\ \A f \in Editors \ {e} : edit'[f] = edit[f]
    BY <1>1, <1>2
  <1>6. CatalogTyped'
    BY <1>1, <1>2, <1>3 DEF CatalogIInv, CatalogTyped
  <1>7. SoleCode'
    <2>1. ASSUME NEW p \in Products \ {o}, row.st = "row", prod[p].st = "row", prod[p].code = row.code
          PROVE  FALSE
      <3>1. p \in Holders(row.code) \ {o}
        BY <2>1 DEF Holders
      <3>2. r.st = "row" /\ row.code = r.code
        BY <2>1, <3>1 DEF CodeTaken, o
      <3> QED BY <1>1, <1>4, <2>1, <3>2 DEF CatalogIInv, SoleCode
    <2>2. SoleCode
      BY DEF CatalogIInv
    <2>3. ASSUME NEW p \in Products, NEW q \in Products, prod'[p].st = "row", prod'[q].st = "row",
                 prod'[p].code = prod'[q].code
          PROVE  p = q
      <3>1. CASE p # o /\ q # o
        BY <1>4, <2>2, <2>3, <3>1 DEF SoleCode
      <3>2. CASE p = o /\ q # o
        BY <1>4, <2>1, <2>3, <3>2
      <3>3. CASE p # o /\ q = o
        BY <1>4, <2>1, <2>3, <3>3
      <3> QED BY <3>1, <3>2, <3>3
    <2> QED BY <2>3 DEF SoleCode
  <1>8. Orderly'
    <2>1. \A f \in Editors : edit'[f].of = edit[f].of
      BY <1>3, <1>5 DEF o
    <2>2. \A f \in Editors : IF edit'[f].pc = "idle" THEN edit'[f] = Rest ELSE edit'[f].of \in Products
      <3>1. ASSUME NEW f \in Editors \ {e}
            PROVE  IF edit'[f].pc = "idle" THEN edit'[f] = Rest ELSE edit'[f].of \in Products
        BY <1>5 DEF CatalogIInv, Orderly
      <3>2. edit'[e].pc # "idle" /\ edit'[e].of \in Products
        BY <1>1, <1>3, <1>5
      <3> QED BY <3>1, <3>2
    <2>3. \A f, g \in Editors : f # g /\ edit'[f].of = edit'[g].of => edit'[f].of \in spoilt' \cup {"none"}
      BY <1>2, <2>1 DEF CatalogIInv, Orderly
    <2>4. ASSUME NEW f \in Editors, edit'[f].pc # "idle", edit'[f].of \notin spoilt'
          PROVE  OnTrack(edit'[f], prod'[edit'[f].of])
      <3>1. CASE f = e
        BY <1>2, <1>3, <1>4, <1>5, <2>4, <3>1 DEF o
      <3>2. CASE f # e
        <4>1. edit'[f] = edit[f] /\ edit[f].of \in Products /\ edit[f].of \notin spoilt
          BY <1>2, <1>5, <2>4, <3>2 DEF CatalogIInv, Orderly
        <4>2. edit[f].of # o
          BY <1>1, <3>2, <4>1, CatalogAssumption DEF CatalogIInv, Orderly, o
        <4>3. prod'[edit[f].of] = prod[edit[f].of]
          BY <1>4, <4>1, <4>2
        <4>4. OnTrack(edit[f], prod[edit[f].of])
          BY <2>4, <4>1 DEF CatalogIInv, Orderly
        <4> QED BY <4>1, <4>3, <4>4
      <3> QED BY <3>1, <3>2
    <2> QED BY <2>2, <2>3, <2>4 DEF Orderly, OnTrack, Whole
  <1>9. WholeProduct'
    <2> SUFFICES ASSUME NEW p \in Products, prod'[p].st = "row", Editing(p)' = {}, p \notin spoilt
                 PROVE  prod'[p].stocked /\ prod'[p].open = {prod'[p].price}
      BY <1>2 DEF WholeProduct
    <2>0. \A f \in Editors : edit'[f].of # p /\ edit'[f].of = edit[f].of
      <3>1. \A f \in Editors : edit'[f].of # p
        BY DEF Editing
      <3> QED BY <1>3, <1>5, <3>1 DEF o
    <2>1. p # o
      BY <1>3, <1>5, <2>0
    <2>2. Editing(p) = {}
      BY <2>0 DEF Editing
    <2> QED BY <1>4, <2>1, <2>2 DEF CatalogIInv, WholeProduct
  <1>10. CachedIsCurrent'
    <2>1. \A c \in Codes : Due(c) => Due(c)'
      <3> SUFFICES ASSUME NEW c \in Codes, NEW f \in Editors, edit[f].of # "none", c \in Stale(f)
                   PROVE  edit'[f].of # "none" /\ c \in Stale(f)'
        BY DEF Due
      <3>1. CASE f = e
        BY <1>3, <1>5, <3>1 DEF Stale, o
      <3>2. CASE f # e
        BY <1>5, <3>2 DEF Stale
      <3> QED BY <3>1, <3>2
    <2>2. ASSUME NEW c \in Codes, NEW p \in Holders(c)
          PROVE  p \in spoilt \/ Due(c)' \/ (/\ p \in Holders(c)' /\ prod'[p].price = prod[p].price
                                             /\ prod'[p].active = prod[p].active)
      <3>1. p \in Products /\ prod[p].st = "row" /\ prod[p].code = c
        BY DEF Holders
      <3>2. CASE p # o
        BY <1>4, <3>1, <3>2 DEF Holders
      <3>3. CASE p = o /\ r.code = edit[e].was
        <4>1. c \in Stale(e)' /\ edit'[e].of # "none"
          BY <1>1, <1>3, <1>4, <1>5, <3>1, <3>3, CatalogAssumption DEF Stale
        <4> QED BY <4>1 DEF Due
      <3>4. CASE p = o /\ o \in spoilt
        BY <3>4
      <3>5. CASE p = o /\ row.st = "row" /\ row.code = r.code /\ row.price = r.price /\ row.active = r.active
        BY <1>4, <3>1, <3>5 DEF Holders
      <3> QED BY <1>4, <3>1, <3>2, <3>3, <3>4, <3>5 DEF o
    <2> QED BY <1>2, <1>7, <2>1, <2>2, CacheKept
  <1> QED BY <1>6, <1>7, <1>8, <1>9, <1>10 DEF CatalogIInv

\* What a statement leaves of its edit.
LEMMA NextTypes ==
    ASSUME NEW q \in EditSet, NEW next \in {"price", "stock", "open", "row", "bust"}
    PROVE  \E x : /\ x = [q EXCEPT !.pc = next, !.wrote = TRUE]
                  /\ x.pc = next /\ x.wrote /\ x.was = q.was /\ x.price = q.price
  <1> DEFINE x == [q EXCEPT !.pc = next, !.wrote = TRUE]
  <1>1. x.pc = next /\ x.wrote /\ x.was = q.was /\ x.price = q.price
    BY DEF EditSet
  <1> HIDE DEF x
  <1>2. x = [q EXCEPT !.pc = next, !.wrote = TRUE]
    BY DEF x
  <1> QED BY <1>1, <1>2

\* The rows that the statements write.
LEMMA NewRow ==
    ASSUME NEW c \in Codes \cup {"none"}, NEW t \in Tags \cup {0}
    PROVE  \E w \in RowSet :
              /\ w = [Absent EXCEPT !.st = "row", !.code = c, !.price = t, !.active = TRUE]
              /\ w.st = "row" /\ w.code = c /\ w.price = t
  <1> DEFINE w == [Absent EXCEPT !.st = "row", !.code = c, !.price = t, !.active = TRUE]
  <1>1. w \in RowSet /\ w.st = "row" /\ w.code = c /\ w.price = t
    BY DEF RowSet, Absent
  <1>2. w = [Absent EXCEPT !.st = "row", !.code = c, !.price = t, !.active = TRUE]
    OBVIOUS
  <1> HIDE DEF w
  <1> QED BY <1>1, <1>2

LEMMA OpenRow ==
    ASSUME NEW r \in RowSet, NEW v \in SUBSET (Tags \cup {0})
    PROVE  \E w \in RowSet :
              /\ w = [r EXCEPT !.open = v]
              /\ w.st = r.st /\ w.code = r.code /\ w.price = r.price /\ w.active = r.active
              /\ w.stocked = r.stocked /\ w.open = v
  <1> DEFINE w == [r EXCEPT !.open = v]
  <1>1. w \in RowSet /\ w.st = r.st /\ w.code = r.code /\ w.price = r.price /\ w.active = r.active
        /\ w.stocked = r.stocked /\ w.open = v
    BY DEF RowSet
  <1>2. w = [r EXCEPT !.open = v]
    OBVIOUS
  <1> HIDE DEF w
  <1> QED BY <1>1, <1>2

LEMMA UpdatedRow ==
    ASSUME NEW r \in RowSet, NEW c \in Codes \cup {"none"}, NEW t \in Tags \cup {0}
    PROVE  \E w \in RowSet :
              /\ w = [r EXCEPT !.code = c, !.price = t]
              /\ w.st = r.st /\ w.code = c /\ w.price = t
              /\ w.stocked = r.stocked /\ w.open = r.open
  <1> DEFINE w == [r EXCEPT !.code = c, !.price = t]
  <1>1. w \in RowSet /\ w.st = r.st /\ w.code = c /\ w.price = t
        /\ w.stocked = r.stocked /\ w.open = r.open
    BY DEF RowSet
  <1>2. w = [r EXCEPT !.code = c, !.price = t]
    OBVIOUS
  <1> HIDE DEF w
  <1> QED BY <1>1, <1>2

LEMMA HiddenRow ==
    ASSUME NEW r \in RowSet
    PROVE  \E w \in RowSet :
              /\ w = [r EXCEPT !.active = FALSE]
              /\ w.st = r.st /\ w.code = r.code /\ w.price = r.price
              /\ w.stocked = r.stocked /\ w.open = r.open
  <1> DEFINE w == [r EXCEPT !.active = FALSE]
  <1>1. w \in RowSet /\ w.st = r.st /\ w.code = r.code /\ w.price = r.price
        /\ w.stocked = r.stocked /\ w.open = r.open
    BY DEF RowSet
  <1>2. w = [r EXCEPT !.active = FALSE]
    OBVIOUS
  <1> HIDE DEF w
  <1> QED BY <1>1, <1>2

LEMMA StockedRow ==
    ASSUME NEW r \in RowSet
    PROVE  \E w \in RowSet :
              /\ w = [r EXCEPT !.stocked = TRUE]
              /\ w.st = r.st /\ w.code = r.code /\ w.price = r.price /\ w.active = r.active
              /\ w.stocked /\ w.open = r.open
  <1> DEFINE w == [r EXCEPT !.stocked = TRUE]
  <1>1. w \in RowSet /\ w.st = r.st /\ w.code = r.code /\ w.price = r.price /\ w.active = r.active
        /\ w.stocked /\ w.open = r.open
    BY DEF RowSet
  <1>2. w = [r EXCEPT !.stocked = TRUE]
    OBVIOUS
  <1> HIDE DEF w
  <1> QED BY <1>1, <1>2

LEMMA GoneRow == \E w \in RowSet : w = [Absent EXCEPT !.st = "gone"] /\ w.st = "gone"
  <1> DEFINE w == [Absent EXCEPT !.st = "gone"]
  <1>1. w \in RowSet /\ w.st = "gone"
    BY DEF Absent, RowSet
  <1> QED BY <1>1

\* The statements of create, update and remove.
LEMMA StatementsKeep ==
    ASSUME CatalogIInv, NEW e \in Editors,
           \/ InsertRow(e) \/ FirstPrice(e) \/ StockRow(e) \/ ClosePrices(e)
           \/ OpenPrice(e) \/ UpdateRow(e) \/ DeleteRow(e) \/ HideRow(e)
    PROVE  CatalogIInv'
  <1> DEFINE q == edit[e]
             r == prod[q.of]
  <1>1. q \in EditSet
    BY DEF CatalogIInv, CatalogTyped
  <1>2. ASSUME q.pc # "idle" PROVE r \in RowSet /\ (q.of \notin spoilt => OnTrack(q, r))
    BY <1>2 DEF CatalogIInv, CatalogTyped, Orderly
  <1>3. CASE InsertRow(e)
    <2>1. q.pc = "insert" /\ r \in RowSet /\ (q.of \notin spoilt => OnTrack(q, r))
      BY <1>2, <1>3 DEF InsertRow
    <2>2. Statement(e, [Absent EXCEPT !.st = "row", !.code = q.code, !.price = q.price, !.active = TRUE], "price") /\ ~CodeTaken(q.of, q.code)
      BY <1>3 DEF InsertRow
    <2>3. PICK x : /\ x = [q EXCEPT !.pc = "price", !.wrote = TRUE]
                   /\ x.pc = "price" /\ x.wrote /\ x.was = q.was /\ x.price = q.price
      <3> HIDE DEF q
      <3> QED BY <1>1, NextTypes
    <2>4. PICK w \in RowSet :
              /\ w = [Absent EXCEPT !.st = "row", !.code = q.code, !.price = q.price, !.active = TRUE]
              /\ w.st = "row" /\ w.code = q.code /\ w.price = q.price
      <3> DEFINE c == q.code
                 t == q.price
      <3>1. c \in Codes \cup {"none"} /\ t \in Tags \cup {0}
        BY <1>1 DEF EditSet
      <3> HIDE DEF q, r, c, t
      <3>2. \E w \in RowSet :
              /\ w = [Absent EXCEPT !.st = "row", !.code = c, !.price = t, !.active = TRUE]
              /\ w.st = "row" /\ w.code = c /\ w.price = t
        BY <2>1, <3>1, NewRow
      <3> QED BY <3>2 DEF c, t
    <2>5. q.of \notin spoilt => OnTrack(x, w)
      <3> HIDE DEF q, r
      <3> QED BY <2>1, <2>3, <2>4 DEF OnTrack, Whole
    <2>6. /\ w.st = "row" => (r.st = "row" /\ w.code = r.code) \/ ~CodeTaken(q.of, w.code)
          /\ r.st = "row" => \/ r.code = q.was
                             \/ q.of \in spoilt
                             \/ w.st = "row" /\ w.code = r.code /\ w.price = r.price /\ w.active = r.active
      <3> HIDE DEF q, r
      <3> QED BY <2>1, <2>2, <2>4 DEF OnTrack
    <2>7. Statement(e, w, "price")
      BY <2>2, <2>4
    <2>8. r = prod[edit[e].of] /\ x = [edit[e] EXCEPT !.pc = "price", !.wrote = TRUE] /\ edit[e].pc # "idle"
      BY <2>1, <2>3
    <2> HIDE DEF r
    <2> QED BY <2>5, <2>6, <2>7, <2>8, StatementKeeps
  <1>4. CASE FirstPrice(e)
    <2>1. q.pc = "price" /\ r \in RowSet /\ (q.of \notin spoilt => OnTrack(q, r))
      BY <1>2, <1>4 DEF FirstPrice
    <2>2. Statement(e, [r EXCEPT !.open = {q.price}], "stock")
      BY <1>4 DEF FirstPrice
    <2>3. PICK x : /\ x = [q EXCEPT !.pc = "stock", !.wrote = TRUE]
                   /\ x.pc = "stock" /\ x.wrote /\ x.was = q.was /\ x.price = q.price
      <3> HIDE DEF q
      <3> QED BY <1>1, NextTypes
    <2>4. PICK w \in RowSet :
              /\ w = [r EXCEPT !.open = {q.price}]
              /\ w.st = r.st /\ w.code = r.code /\ w.price = r.price /\ w.active = r.active
              /\ w.open = {q.price}
      <3> DEFINE v == {q.price}
      <3>1. v \in SUBSET (Tags \cup {0})
        BY <1>1, <2>1 DEF EditSet, RowSet
      <3> HIDE DEF q, r, v
      <3>2. \E w \in RowSet :
              /\ w = [r EXCEPT !.open = v]
              /\ w.st = r.st /\ w.code = r.code /\ w.price = r.price /\ w.active = r.active
              /\ w.open = v
        BY <2>1, <3>1, OpenRow
      <3> QED BY <3>2 DEF v
    <2>5. q.of \notin spoilt => OnTrack(x, w)
      <3> HIDE DEF q, r
      <3> QED BY <2>1, <2>3, <2>4 DEF OnTrack, Whole
    <2>6. /\ w.st = "row" => (r.st = "row" /\ w.code = r.code) \/ ~CodeTaken(q.of, w.code)
          /\ r.st = "row" => \/ r.code = q.was
                             \/ q.of \in spoilt
                             \/ w.st = "row" /\ w.code = r.code /\ w.price = r.price /\ w.active = r.active
      <3> HIDE DEF q, r
      <3> QED BY <2>1, <2>2, <2>4 DEF OnTrack
    <2>7. Statement(e, w, "stock")
      BY <2>2, <2>4
    <2>8. r = prod[edit[e].of] /\ x = [edit[e] EXCEPT !.pc = "stock", !.wrote = TRUE] /\ edit[e].pc # "idle"
      BY <2>1, <2>3
    <2> HIDE DEF r
    <2> QED BY <2>5, <2>6, <2>7, <2>8, StatementKeeps
  <1>5. CASE StockRow(e)
    <2>1. q.pc = "stock" /\ r \in RowSet /\ (q.of \notin spoilt => OnTrack(q, r))
      BY <1>2, <1>5 DEF StockRow
    <2>2. Statement(e, [r EXCEPT !.stocked = TRUE], "bust")
      BY <1>5 DEF StockRow
    <2>3. PICK x : /\ x = [q EXCEPT !.pc = "bust", !.wrote = TRUE]
                   /\ x.pc = "bust" /\ x.wrote /\ x.was = q.was /\ x.price = q.price
      <3> HIDE DEF q
      <3> QED BY <1>1, NextTypes
    <2>4. PICK w \in RowSet :
              /\ w = [r EXCEPT !.stocked = TRUE]
              /\ w.st = r.st /\ w.code = r.code /\ w.price = r.price /\ w.active = r.active
              /\ w.stocked /\ w.open = r.open
      <3> HIDE DEF q, r
      <3> QED BY <2>1, StockedRow
    <2>5. q.of \notin spoilt => OnTrack(x, w)
      <3> HIDE DEF q, r
      <3> QED BY <2>1, <2>3, <2>4 DEF OnTrack, Whole
    <2>6. /\ w.st = "row" => (r.st = "row" /\ w.code = r.code) \/ ~CodeTaken(q.of, w.code)
          /\ r.st = "row" => \/ r.code = q.was
                             \/ q.of \in spoilt
                             \/ w.st = "row" /\ w.code = r.code /\ w.price = r.price /\ w.active = r.active
      <3> HIDE DEF q, r
      <3> QED BY <2>1, <2>2, <2>4 DEF OnTrack
    <2>7. Statement(e, w, "bust")
      BY <2>2, <2>4
    <2>8. r = prod[edit[e].of] /\ x = [edit[e] EXCEPT !.pc = "bust", !.wrote = TRUE] /\ edit[e].pc # "idle"
      BY <2>1, <2>3
    <2> HIDE DEF r
    <2> QED BY <2>5, <2>6, <2>7, <2>8, StatementKeeps
  <1>6. CASE ClosePrices(e)
    <2>1. q.pc = "close" /\ r \in RowSet /\ (q.of \notin spoilt => OnTrack(q, r))
      BY <1>2, <1>6 DEF ClosePrices
    <2>2. Statement(e, [r EXCEPT !.open = {}], "open")
      BY <1>6 DEF ClosePrices
    <2>3. PICK x : /\ x = [q EXCEPT !.pc = "open", !.wrote = TRUE]
                   /\ x.pc = "open" /\ x.wrote /\ x.was = q.was /\ x.price = q.price
      <3> HIDE DEF q
      <3> QED BY <1>1, NextTypes
    <2>4. PICK w \in RowSet :
              /\ w = [r EXCEPT !.open = {}]
              /\ w.st = r.st /\ w.code = r.code /\ w.price = r.price /\ w.active = r.active
              /\ w.stocked = r.stocked /\ w.open = {}
      <3> DEFINE v == {}
      <3>1. v \in SUBSET (Tags \cup {0})
        BY <1>1, <2>1 DEF EditSet, RowSet
      <3> HIDE DEF q, r, v
      <3>2. \E w \in RowSet :
              /\ w = [r EXCEPT !.open = v]
              /\ w.st = r.st /\ w.code = r.code /\ w.price = r.price /\ w.active = r.active
              /\ w.stocked = r.stocked /\ w.open = v
        BY <2>1, <3>1, OpenRow
      <3> QED BY <3>2 DEF v
    <2>5. q.of \notin spoilt => OnTrack(x, w)
      <3> HIDE DEF q, r
      <3> QED BY <2>1, <2>3, <2>4 DEF OnTrack, Whole
    <2>6. /\ w.st = "row" => (r.st = "row" /\ w.code = r.code) \/ ~CodeTaken(q.of, w.code)
          /\ r.st = "row" => \/ r.code = q.was
                             \/ q.of \in spoilt
                             \/ w.st = "row" /\ w.code = r.code /\ w.price = r.price /\ w.active = r.active
      <3> HIDE DEF q, r
      <3> QED BY <2>1, <2>2, <2>4 DEF OnTrack
    <2>7. Statement(e, w, "open")
      BY <2>2, <2>4
    <2>8. r = prod[edit[e].of] /\ x = [edit[e] EXCEPT !.pc = "open", !.wrote = TRUE] /\ edit[e].pc # "idle"
      BY <2>1, <2>3
    <2> HIDE DEF r
    <2> QED BY <2>5, <2>6, <2>7, <2>8, StatementKeeps
  <1>7. CASE OpenPrice(e)
    <2>1. q.pc = "open" /\ r \in RowSet /\ (q.of \notin spoilt => OnTrack(q, r))
      BY <1>2, <1>7 DEF OpenPrice
    <2>2. Statement(e, [r EXCEPT !.open = r.open \cup {q.price}], "row")
      BY <1>7 DEF OpenPrice
    <2>3. PICK x : /\ x = [q EXCEPT !.pc = "row", !.wrote = TRUE]
                   /\ x.pc = "row" /\ x.wrote /\ x.was = q.was /\ x.price = q.price
      <3> HIDE DEF q
      <3> QED BY <1>1, NextTypes
    <2>4. PICK w \in RowSet :
              /\ w = [r EXCEPT !.open = r.open \cup {q.price}]
              /\ w.st = r.st /\ w.code = r.code /\ w.price = r.price /\ w.active = r.active
              /\ w.stocked = r.stocked /\ w.open = r.open \cup {q.price}
      <3> DEFINE v == r.open \cup {q.price}
      <3>1. v \in SUBSET (Tags \cup {0})
        BY <1>1, <2>1 DEF EditSet, RowSet
      <3> HIDE DEF q, r, v
      <3>2. \E w \in RowSet :
              /\ w = [r EXCEPT !.open = v]
              /\ w.st = r.st /\ w.code = r.code /\ w.price = r.price /\ w.active = r.active
              /\ w.stocked = r.stocked /\ w.open = v
        BY <2>1, <3>1, OpenRow
      <3> QED BY <3>2 DEF v
    <2>5. q.of \notin spoilt => OnTrack(x, w)
      <3> HIDE DEF q, r
      <3> QED BY <2>1, <2>3, <2>4 DEF OnTrack, Whole
    <2>6. /\ w.st = "row" => (r.st = "row" /\ w.code = r.code) \/ ~CodeTaken(q.of, w.code)
          /\ r.st = "row" => \/ r.code = q.was
                             \/ q.of \in spoilt
                             \/ w.st = "row" /\ w.code = r.code /\ w.price = r.price /\ w.active = r.active
      <3> HIDE DEF q, r
      <3> QED BY <2>1, <2>2, <2>4 DEF OnTrack
    <2>7. Statement(e, w, "row")
      BY <2>2, <2>4
    <2>8. r = prod[edit[e].of] /\ x = [edit[e] EXCEPT !.pc = "row", !.wrote = TRUE] /\ edit[e].pc # "idle"
      BY <2>1, <2>3
    <2> HIDE DEF r
    <2> QED BY <2>5, <2>6, <2>7, <2>8, StatementKeeps
  <1>8. CASE UpdateRow(e)
    <2>1. q.pc = "row" /\ r \in RowSet /\ (q.of \notin spoilt => OnTrack(q, r))
      BY <1>2, <1>8 DEF UpdateRow
    <2>2. Statement(e, [r EXCEPT !.code = q.code, !.price = q.price], "bust") /\ ~CodeTaken(q.of, q.code)
      BY <1>8 DEF UpdateRow
    <2>3. PICK x : /\ x = [q EXCEPT !.pc = "bust", !.wrote = TRUE]
                   /\ x.pc = "bust" /\ x.wrote /\ x.was = q.was /\ x.price = q.price
      <3> HIDE DEF q
      <3> QED BY <1>1, NextTypes
    <2>4. PICK w \in RowSet :
              /\ w = [r EXCEPT !.code = q.code, !.price = q.price]
              /\ w.st = r.st /\ w.code = q.code /\ w.price = q.price
              /\ w.stocked = r.stocked /\ w.open = r.open
      <3> DEFINE c == q.code
                 t == q.price
      <3>1. c \in Codes \cup {"none"} /\ t \in Tags \cup {0}
        BY <1>1 DEF EditSet
      <3> HIDE DEF q, r, c, t
      <3>2. \E w \in RowSet :
              /\ w = [r EXCEPT !.code = c, !.price = t]
              /\ w.st = r.st /\ w.code = c /\ w.price = t
              /\ w.stocked = r.stocked /\ w.open = r.open
        BY <2>1, <3>1, UpdatedRow
      <3> QED BY <3>2 DEF c, t
    <2>5. q.of \notin spoilt => OnTrack(x, w)
      <3> HIDE DEF q, r
      <3> QED BY <2>1, <2>3, <2>4 DEF OnTrack, Whole
    <2>6. /\ w.st = "row" => (r.st = "row" /\ w.code = r.code) \/ ~CodeTaken(q.of, w.code)
          /\ r.st = "row" => \/ r.code = q.was
                             \/ q.of \in spoilt
                             \/ w.st = "row" /\ w.code = r.code /\ w.price = r.price /\ w.active = r.active
      <3> HIDE DEF q, r
      <3> QED BY <2>1, <2>2, <2>4 DEF OnTrack
    <2>7. Statement(e, w, "bust")
      BY <2>2, <2>4
    <2>8. r = prod[edit[e].of] /\ x = [edit[e] EXCEPT !.pc = "bust", !.wrote = TRUE] /\ edit[e].pc # "idle"
      BY <2>1, <2>3
    <2> HIDE DEF r
    <2> QED BY <2>5, <2>6, <2>7, <2>8, StatementKeeps
  <1>9. CASE DeleteRow(e)
    <2>1. q.pc = "delete" /\ r \in RowSet /\ (q.of \notin spoilt => OnTrack(q, r))
      BY <1>2, <1>9 DEF DeleteRow
    <2>2. Statement(e, [Absent EXCEPT !.st = "gone"], "bust")
      BY <1>9 DEF DeleteRow
    <2>3. PICK x : /\ x = [q EXCEPT !.pc = "bust", !.wrote = TRUE]
                   /\ x.pc = "bust" /\ x.wrote /\ x.was = q.was /\ x.price = q.price
      <3> HIDE DEF q
      <3> QED BY <1>1, NextTypes
    <2>4. PICK w \in RowSet :
              /\ w = [Absent EXCEPT !.st = "gone"]
              /\ w.st = "gone"
      <3> HIDE DEF q, r
      <3> QED BY <2>1, GoneRow
    <2>5. q.of \notin spoilt => OnTrack(x, w)
      <3> HIDE DEF q, r
      <3> QED BY <2>1, <2>3, <2>4 DEF OnTrack, Whole
    <2>6. /\ w.st = "row" => (r.st = "row" /\ w.code = r.code) \/ ~CodeTaken(q.of, w.code)
          /\ r.st = "row" => \/ r.code = q.was
                             \/ q.of \in spoilt
                             \/ w.st = "row" /\ w.code = r.code /\ w.price = r.price /\ w.active = r.active
      <3> HIDE DEF q, r
      <3> QED BY <2>1, <2>2, <2>4 DEF OnTrack
    <2>7. Statement(e, w, "bust")
      BY <2>2, <2>4
    <2>8. r = prod[edit[e].of] /\ x = [edit[e] EXCEPT !.pc = "bust", !.wrote = TRUE] /\ edit[e].pc # "idle"
      BY <2>1, <2>3
    <2> HIDE DEF r
    <2> QED BY <2>5, <2>6, <2>7, <2>8, StatementKeeps
  <1>10. CASE HideRow(e)
    <2>1. q.pc = "hide" /\ r \in RowSet /\ (q.of \notin spoilt => OnTrack(q, r))
      BY <1>2, <1>10 DEF HideRow
    <2>2. Statement(e, [r EXCEPT !.active = FALSE], "bust")
      BY <1>10 DEF HideRow
    <2>3. PICK x : /\ x = [q EXCEPT !.pc = "bust", !.wrote = TRUE]
                   /\ x.pc = "bust" /\ x.wrote /\ x.was = q.was /\ x.price = q.price
      <3> HIDE DEF q
      <3> QED BY <1>1, NextTypes
    <2>4. PICK w \in RowSet :
              /\ w = [r EXCEPT !.active = FALSE]
              /\ w.st = r.st /\ w.code = r.code /\ w.price = r.price
              /\ w.stocked = r.stocked /\ w.open = r.open
      <3> HIDE DEF q, r
      <3> QED BY <2>1, HiddenRow
    <2>5. q.of \notin spoilt => OnTrack(x, w)
      <3> HIDE DEF q, r
      <3> QED BY <2>1, <2>3, <2>4 DEF OnTrack, Whole
    <2>6. /\ w.st = "row" => (r.st = "row" /\ w.code = r.code) \/ ~CodeTaken(q.of, w.code)
          /\ r.st = "row" => \/ r.code = q.was
                             \/ q.of \in spoilt
                             \/ w.st = "row" /\ w.code = r.code /\ w.price = r.price /\ w.active = r.active
      <3> HIDE DEF q, r
      <3> QED BY <2>1, <2>2, <2>4 DEF OnTrack
    <2>7. Statement(e, w, "bust")
      BY <2>2, <2>4
    <2>8. r = prod[edit[e].of] /\ x = [edit[e] EXCEPT !.pc = "bust", !.wrote = TRUE] /\ edit[e].pc # "idle"
      BY <2>1, <2>3
    <2> HIDE DEF r
    <2> QED BY <2>5, <2>6, <2>7, <2>8, StatementKeeps
  <1> QED BY <1>3, <1>4, <1>5, <1>6, <1>7, <1>8, <1>9, <1>10

\* An edit begins: one that overlaps another spoils the product.
LEMMA BeginKeeps ==
    ASSUME CatalogIInv, NEW e \in Editors, NEW x \in EditSet, BeginEdit(e, x),
           x.pc # "idle", x.of \in Products,
           Editing(x.of) = {} /\ x.of \notin spoilt => OnTrack(x, prod[x.of])
    PROVE  CatalogIInv'
  <1>1. /\ prod \in [Products -> RowSet] /\ edit \in [Editors -> EditSet]
        /\ edit[e] = Rest /\ edit[e].of = "none" /\ edit[e].of # x.of
    BY CatalogAssumption DEF CatalogIInv, CatalogTyped, Orderly, BeginEdit, Rest
  <1>2. /\ edit' = [edit EXCEPT ![e] = x] /\ UNCHANGED <<prod, entry, late>>
        /\ spoilt' = IF Editing(x.of) = {} THEN spoilt ELSE spoilt \cup {x.of}
    BY DEF BeginEdit
  <1>3. edit'[e] = x /\ \A f \in Editors \ {e} : edit'[f] = edit[f]
    BY <1>1, <1>2
  <1>4. spoilt \subseteq spoilt'
    BY <1>2
  <1>5. CatalogTyped' /\ SoleCode'
    BY <1>1, <1>2 DEF CatalogIInv, CatalogTyped, SoleCode
  <1>6. Orderly'
    <2>1. ASSUME NEW f \in Editors
          PROVE  IF edit'[f].pc = "idle" THEN edit'[f] = Rest ELSE edit'[f].of \in Products
      BY <1>3 DEF CatalogIInv, Orderly
    <2>2. ASSUME NEW f \in Editors \ {e}, edit[f].of = x.of PROVE x.of \in spoilt'
      <3>1. f \in Editing(x.of)
        BY <2>2 DEF Editing
      <3> QED BY <1>2, <3>1
    <2>3. ASSUME NEW f \in Editors, NEW g \in Editors, f # g, edit'[f].of = edit'[g].of
          PROVE  edit'[f].of \in spoilt' \cup {"none"}
      <3>1. CASE f = e
        BY <1>3, <2>2, <2>3, <3>1
      <3>2. CASE g = e
        BY <1>3, <2>2, <2>3, <3>2
      <3>3. CASE f # e /\ g # e
        BY <1>3, <1>4, <2>3, <3>3 DEF CatalogIInv, Orderly
      <3> QED BY <3>1, <3>2, <3>3
    <2>4. ASSUME NEW f \in Editors, edit'[f].pc # "idle", edit'[f].of \notin spoilt'
          PROVE  OnTrack(edit'[f], prod'[edit'[f].of])
      <3>1. CASE f = e
        <4>1. Editing(x.of) = {} /\ x.of \notin spoilt
          BY <1>2, <1>3, <2>4, <3>1
        <4> QED BY <1>2, <1>3, <3>1, <4>1
      <3>2. CASE f # e
        <4>1. edit'[f] = edit[f] /\ edit[f].of \notin spoilt
          BY <1>3, <1>4, <2>4, <3>2
        <4>2. OnTrack(edit[f], prod[edit[f].of])
          BY <2>4, <4>1 DEF CatalogIInv, Orderly
        <4> QED BY <1>2, <4>1, <4>2
      <3> QED BY <3>1, <3>2
    <2> QED BY <2>1, <2>3, <2>4 DEF Orderly, OnTrack, Whole
  <1>7. WholeProduct'
    <2> SUFFICES ASSUME NEW p \in Products, prod[p].st = "row", Editing(p)' = {}, p \notin spoilt'
                 PROVE  prod[p].stocked /\ prod[p].open = {prod[p].price}
      BY <1>2 DEF WholeProduct
    <2>1. \A f \in Editors : edit'[f].of # p
      BY DEF Editing
    <2>2. \A f \in Editors : edit[f].of # p
      BY <1>1, <1>3, <2>1, CatalogAssumption
    <2>3. Editing(p) = {}
      BY <2>2 DEF Editing
    <2> QED BY <1>4, <2>3 DEF CatalogIInv, WholeProduct
  <1>8. CachedIsCurrent'
    <2> SUFFICES ASSUME NEW c \in Codes, entry[c] # NoEntry, entry[c] # Current(c)'
                 PROVE  c \in late \/ Due(c)' \/ entry[c].of \in spoilt'
      BY <1>2 DEF CachedIsCurrent
    <2>1. Current(c)' = Current(c)
      BY <1>2 DEF Current, Holders
    <2>2. Due(c) => Due(c)'
      <3> SUFFICES ASSUME NEW f \in Editors, edit[f].of # "none", c \in Stale(f)
                   PROVE  edit'[f].of # "none" /\ c \in Stale(f)'
        BY DEF Due
      <3>1. f # e
        BY <1>1
      <3> QED BY <1>3, <3>1 DEF Stale
    <2> QED BY <1>4, <2>1, <2>2 DEF CatalogIInv, CachedIsCurrent
  <1> QED BY <1>5, <1>6, <1>7, <1>8 DEF CatalogIInv

\* An edit ends, well or not, or goes on to its second cache entry.
LEMMA EndKeeps ==
    ASSUME CatalogIInv, NEW e \in Editors, NEW y \in EditSet, edit' = [edit EXCEPT ![e] = y],
           prod' = prod, spoilt \subseteq spoilt', edit[e].pc # "idle",
           entry' = [c \in Codes |-> entry'[c]],
           \/ /\ y = Rest
              /\ edit[e].of \notin spoilt' /\ prod[edit[e].of].st = "row" => Whole(prod[edit[e].of])
           \/ /\ y.pc # "idle" /\ y.of = edit[e].of
              /\ edit[e].of \notin spoilt' => OnTrack(y, prod[edit[e].of]),
           CachedIsCurrent'
    PROVE  CatalogIInv'
  <1>1. /\ prod \in [Products -> RowSet] /\ edit \in [Editors -> EditSet] /\ edit[e].of \in Products
        /\ Rest.of = "none" /\ Rest.pc = "idle"
    BY DEF CatalogIInv, CatalogTyped, Orderly, Rest
  <1>2. edit'[e] = y /\ \A f \in Editors \ {e} : edit'[f] = edit[f]
    BY <1>1
  <1>3. CatalogTyped' /\ SoleCode'
    BY <1>1 DEF CatalogIInv, CatalogTyped, SoleCode
  <1>4. Orderly'
    <2>1. ASSUME NEW f \in Editors
          PROVE  /\ IF edit'[f].pc = "idle" THEN edit'[f] = Rest ELSE edit'[f].of \in Products
                 /\ edit'[f].of \in {edit[f].of, "none"}
      BY <1>1, <1>2 DEF CatalogIInv, Orderly
    <2>2. ASSUME NEW f \in Editors, NEW g \in Editors, f # g, edit'[f].of = edit'[g].of
          PROVE  edit'[f].of \in spoilt' \cup {"none"}
      <3>1. CASE edit'[f].of = "none"
        BY <3>1
      <3>2. CASE edit'[f].of # "none"
        <4>1. edit[f].of = edit'[f].of /\ edit[g].of = edit'[f].of
          BY <2>1, <2>2, <3>2
        <4> QED BY <2>2, <4>1 DEF CatalogIInv, Orderly
      <3> QED BY <3>1, <3>2
    <2>3. ASSUME NEW f \in Editors, edit'[f].pc # "idle", edit'[f].of \notin spoilt'
          PROVE  OnTrack(edit'[f], prod'[edit'[f].of])
      <3>1. CASE f = e
        BY <1>1, <1>2, <2>3, <3>1
      <3>2. CASE f # e
        <4>1. edit'[f] = edit[f] /\ edit[f].of \notin spoilt
          BY <1>2, <2>3, <3>2
        <4>2. OnTrack(edit[f], prod[edit[f].of])
          BY <2>3, <4>1 DEF CatalogIInv, Orderly
        <4> QED BY <4>1, <4>2
      <3> QED BY <3>1, <3>2
    <2> QED BY <2>1, <2>2, <2>3 DEF Orderly, OnTrack, Whole
  <1>5. WholeProduct'
    <2> SUFFICES ASSUME NEW p \in Products, prod[p].st = "row", Editing(p)' = {}, p \notin spoilt'
                 PROVE  prod[p].stocked /\ prod[p].open = {prod[p].price}
      BY DEF WholeProduct
    <2>1. \A f \in Editors : edit'[f].of # p
      BY DEF Editing
    <2>2. CASE edit[e].of = p
      BY <1>2, <2>1, <2>2 DEF Whole
    <2>3. CASE edit[e].of # p
      <3>1. \A f \in Editors : edit[f].of # p
        BY <1>2, <2>1, <2>3
      <3>2. Editing(p) = {}
        BY <3>1 DEF Editing
      <3> QED BY <3>2 DEF CatalogIInv, WholeProduct
    <2> QED BY <2>2, <2>3
  <1> QED BY <1>3, <1>4, <1>5 DEF CatalogIInv

LEMMA BeginsKeep ==
    ASSUME CatalogIInv, NEW e \in Editors, NEW p \in Products,
           \/ \E c \in Codes, t \in Tags : CreateProduct(e, p, c, t) \/ UpdateProduct(e, p, c, t)
           \/ RemoveProduct(e, p)
    PROVE  CatalogIInv'
  <1>1. prod \in [Products -> RowSet] /\ prod[p] \in RowSet
    BY DEF CatalogIInv, CatalogTyped
  <1>2. ASSUME prod[p].st = "row", Editing(p) = {}, p \notin spoilt PROVE Whole(prod[p])
    BY <1>2 DEF CatalogIInv, WholeProduct, Whole
  <1>3. ASSUME NEW c \in Codes, NEW t \in Tags, CreateProduct(e, p, c, t) PROVE CatalogIInv'
    <2> DEFINE x == [Rest EXCEPT !.pc = "insert", !.of = p, !.code = c, !.was = c, !.price = t]
    <2>1. BeginEdit(e, x) /\ prod[p].st = "none"
      BY <1>3 DEF CreateProduct
    <2>2. x \in EditSet /\ x.pc = "insert" /\ x.of = p
      BY DEF Rest, EditSet
    <2> HIDE DEF x
    <2>3. OnTrack(x, prod[p])
      BY <2>1, <2>2 DEF OnTrack
    <2> QED BY <2>1, <2>2, <2>3, BeginKeeps
  <1>4. ASSUME NEW c \in Codes, NEW t \in Tags, UpdateProduct(e, p, c, t) PROVE CatalogIInv'
    <2> DEFINE pc == IF t # prod[p].price THEN "close" ELSE "row"
               was == prod[p].code
               x == [Rest EXCEPT !.pc = pc, !.of = p, !.code = c, !.was = was, !.price = t]
    <2>1. BeginEdit(e, x) /\ prod[p].st = "row"
      BY <1>4 DEF UpdateProduct
    <2>2. pc \in {"close", "row"} /\ (pc = "row" => prod[p].price = t) /\ was \in Codes \cup {"none"}
      BY <1>1 DEF RowSet
    <2> HIDE DEF pc
    <2>3. x \in EditSet /\ x.pc = pc /\ x.of = p /\ x.was = was /\ x.price = t
      <3> HIDE DEF was
      <3> QED BY <2>2 DEF Rest, EditSet
    <2> HIDE DEF x
    <2>4. Editing(p) = {} /\ p \notin spoilt => OnTrack(x, prod[p])
      BY <1>2, <2>1, <2>2, <2>3 DEF OnTrack, Whole
    <2> QED BY <2>1, <2>2, <2>3, <2>4, BeginKeeps
  <1>5. ASSUME NEW pc \in {"delete", "hide"}, prod[p].st = "row",
               BeginEdit(e, [Rest EXCEPT !.pc = pc, !.of = p, !.code = prod[p].code, !.was = prod[p].code])
        PROVE  CatalogIInv'
    <2> DEFINE was == prod[p].code
               x == [Rest EXCEPT !.pc = pc, !.of = p, !.code = was, !.was = was]
    <2>1. BeginEdit(e, x)
      BY <1>5
    <2>2. was \in Codes \cup {"none"}
      BY <1>1 DEF RowSet
    <2>3. x \in EditSet /\ x.pc = pc /\ x.of = p /\ x.was = was
      <3> HIDE DEF was
      <3> QED BY <1>5, <2>2 DEF Rest, EditSet
    <2> HIDE DEF x
    <2>4. Editing(p) = {} /\ p \notin spoilt => OnTrack(x, prod[p])
      BY <1>2, <1>5, <2>3 DEF OnTrack
    <2> QED BY <1>5, <2>1, <2>3, <2>4, BeginKeeps
  <1>6. RemoveProduct(e, p) => CatalogIInv'
    BY <1>5 DEF RemoveProduct
  <1> QED BY <1>3, <1>4, <1>6

\* The end of an edit: its cache entries are deleted or not, or it failed before.
LEMMA EndsKeep ==
    ASSUME CatalogIInv, NEW e \in Editors, Invalidate(e) \/ InvalidateLost(e) \/ EditFails(e)
    PROVE  CatalogIInv'
  <1> DEFINE x == edit[e]
             moved == [x EXCEPT !.was = x.code]
             y == IF x.was = x.code THEN Rest ELSE moved
  <1>1. /\ x \in EditSet /\ edit \in [Editors -> EditSet] /\ entry = [c \in Codes |-> entry[c]]
        /\ Rest \in EditSet /\ Rest.of = "none"
    BY DEF CatalogIInv, CatalogTyped, Rest, EditSet
  <1>2. /\ moved \in EditSet /\ moved.pc = x.pc /\ moved.of = x.of /\ moved.was = x.code
        /\ moved.code = x.code /\ moved.wrote = x.wrote
    <2> HIDE DEF x
    <2> QED BY <1>1 DEF EditSet
  <1>3. x.pc # "idle" => /\ x.of \in Products
                         /\ x.of \notin spoilt => OnTrack(x, prod[x.of])
    BY DEF CatalogIInv, Orderly
  <1>4. ASSUME x.pc = "bust", x.of \notin spoilt
        PROVE  /\ prod[x.of].st = "row" => Whole(prod[x.of])
               /\ OnTrack(moved, prod[x.of])
    <2> HIDE DEF x, moved
    <2> QED BY <1>2, <1>3, <1>4 DEF OnTrack
  <1>5. ASSUME NEW c \in Codes, prod' = prod PROVE Current(c)' = Current(c)
    BY <1>5 DEF Current, Holders
  <1>6. ASSUME NEW z \in EditSet, edit' = [edit EXCEPT ![e] = z], NEW c \in Codes, Due(c)
        PROVE  Due(c)' \/ (c \in Stale(e) /\ x.of # "none")
    <2>1. PICK f \in Editors : edit[f].of # "none" /\ c \in Stale(f)
      BY <1>6 DEF Due
    <2>2. CASE f = e
      BY <2>1, <2>2
    <2>3. CASE f # e
      <3>1. edit'[f] = edit[f]
        BY <1>1, <1>6, <2>3
      <3>2. edit'[f].of # "none" /\ c \in Stale(f)'
        BY <2>1, <3>1 DEF Stale
      <3> QED BY <3>2 DEF Due
    <2> QED BY <2>2, <2>3
  <1>7. ASSUME x.pc = "bust", edit' = [edit EXCEPT ![e] = y], NEW c \in Codes, Due(c), c # x.was
        PROVE  Due(c)'
    <2>1. y \in EditSet
      BY <1>1, <1>2
    <2>2. ASSUME c \in Stale(e), x.of # "none" PROVE Due(c)'
      <3>1. x.wrote /\ c = x.code /\ x.was # x.code
        BY <1>7, <2>2 DEF Stale
      <3>2. edit'[e] = moved
        <4>1. y = moved
          BY <3>1
        <4> HIDE DEF y
        <4> QED BY <1>1, <1>7, <4>1
      <3>3. edit'[e].of # "none" /\ c \in Stale(e)'
        <4> HIDE DEF moved, x
        <4> QED BY <1>2, <2>2, <3>1, <3>2 DEF Stale
      <3> QED BY <3>3 DEF Due
    <2> HIDE DEF y
    <2> QED BY <1>6, <1>7, <2>1, <2>2
  <1>8. ASSUME x.pc = "bust", edit' = [edit EXCEPT ![e] = y], UNCHANGED <<prod, spoilt>>,
               entry' = [c \in Codes |-> entry'[c]], CachedIsCurrent'
        PROVE  CatalogIInv'
    <2>1. y \in EditSet
      BY <1>1, <1>2
    <2>2. \/ y = Rest /\ (x.of \notin spoilt' /\ prod[x.of].st = "row" => Whole(prod[x.of]))
          \/ y.pc # "idle" /\ y.of = x.of /\ (x.of \notin spoilt' => OnTrack(y, prod[x.of]))
      <3>1. y = Rest \/ y = moved
        OBVIOUS
      <3> HIDE DEF x, y, moved
      <3> QED BY <1>2, <1>4, <1>8, <3>1
    <2> HIDE DEF y
    <2> QED BY <1>8, <2>1, <2>2, EndKeeps
  <1>9. CASE Invalidate(e)
    <2>1. /\ x.pc = "bust" /\ edit' = [edit EXCEPT ![e] = y] /\ UNCHANGED <<prod, spoilt>>
          /\ entry' = [entry EXCEPT ![x.was] = NoEntry] /\ late' = late \ {x.was}
      BY <1>9 DEF Invalidate, Drop
    <2> HIDE DEF y, moved
    <2>2. entry' = [c \in Codes |-> entry'[c]]
      BY <1>1, <2>1
    <2>3. CachedIsCurrent'
      <3> SUFFICES ASSUME NEW c \in Codes, entry'[c] # NoEntry, entry'[c] # Current(c)'
                   PROVE  c \in late' \/ Due(c)' \/ entry'[c].of \in spoilt'
        BY DEF CachedIsCurrent
      <3>1. c # x.was /\ entry'[c] = entry[c]
        BY <1>1, <2>1
      <3>2. c \in late \/ Due(c) \/ entry[c].of \in spoilt
        BY <1>5, <2>1, <3>1 DEF CatalogIInv, CachedIsCurrent
      <3> QED BY <1>7, <2>1, <3>1, <3>2
    <2> QED BY <1>8, <2>1, <2>2, <2>3
  <1>10. CASE InvalidateLost(e)
    <2>1. /\ x.pc = "bust" /\ edit' = [edit EXCEPT ![e] = y] /\ UNCHANGED <<prod, spoilt, entry>>
          /\ late' = late \cup {x.was}
      BY <1>10 DEF InvalidateLost
    <2> HIDE DEF y, moved
    <2>2. CachedIsCurrent'
      <3> SUFFICES ASSUME NEW c \in Codes, entry[c] # NoEntry, entry[c] # Current(c)'
                   PROVE  c \in late' \/ Due(c)' \/ entry[c].of \in spoilt'
        BY <2>1 DEF CachedIsCurrent
      <3>1. c \in late \/ Due(c) \/ entry[c].of \in spoilt
        BY <1>5, <2>1 DEF CatalogIInv, CachedIsCurrent
      <3> QED BY <1>7, <2>1, <3>1
    <2> QED BY <1>1, <1>8, <2>1, <2>2
  <1>11. CASE EditFails(e)
    <2>1. /\ x.pc # "idle" /\ edit' = [edit EXCEPT ![e] = Rest] /\ UNCHANGED <<prod, entry>>
          /\ late' = late \cup Stale(e)
          /\ spoilt' = IF x.wrote /\ x.pc # "bust" THEN spoilt \cup {x.of} ELSE spoilt
      BY <1>11 DEF EditFails
    <2>2. spoilt \subseteq spoilt'
      BY <2>1
    <2>3. x.of \notin spoilt' /\ prod[x.of].st = "row" => Whole(prod[x.of])
      <3> SUFFICES ASSUME x.of \notin spoilt', prod[x.of].st = "row" PROVE Whole(prod[x.of])
        OBVIOUS
      <3>1. OnTrack(x, prod[x.of]) /\ (~x.wrote \/ x.pc = "bust")
        BY <1>3, <2>1, <2>2
      <3>2. x.pc \in {"insert", "price", "stock", "close", "open", "row", "delete", "hide", "bust"}
        BY <1>1, <2>1 DEF EditSet
      <3> HIDE DEF x
      <3> QED BY <3>1, <3>2 DEF OnTrack, Whole
    <2>4. CachedIsCurrent'
      <3> SUFFICES ASSUME NEW c \in Codes, entry[c] # NoEntry, entry[c] # Current(c)'
                   PROVE  c \in late' \/ Due(c)' \/ entry[c].of \in spoilt'
        BY <2>1 DEF CachedIsCurrent
      <3>1. c \in late \/ Due(c) \/ entry[c].of \in spoilt
        BY <1>5, <2>1 DEF CatalogIInv, CachedIsCurrent
      <3> QED BY <1>1, <1>6, <2>1, <2>2, <3>1
    <2> QED BY <1>1, <2>1, <2>2, <2>3, <2>4, EndKeeps
  <1> QED BY <1>9, <1>10, <1>11

\* Scans fill the cache with what they read, and entries expire.
LEMMA CacheKeeps ==
    ASSUME CatalogIInv,
           \/ \E r \in Scanners : ScanStore(r) \/ \E c \in Codes : ScanMiss(r, c)
           \/ \E c \in Codes : Expire(c)
    PROVE  CatalogIInv'
  <1>1. UNCHANGED <<prod, edit, spoilt>>
    BY DEF ScanStore, ScanMiss, Expire
  <1>2. entry = [c \in Codes |-> entry[c]]
    BY DEF CatalogIInv, CatalogTyped
  <1>3. \A c \in Codes : Current(c)' = Current(c) /\ (Due(c)' <=> Due(c))
    BY <1>1 DEF Current, Holders, Due, Stale
  <1>4. ASSUME entry' = [c \in Codes |-> entry'[c]],
               \A c \in Codes : \/ entry'[c] = entry[c] /\ (c \in late => c \in late')
                                \/ entry'[c] = NoEntry
                                \/ entry'[c] = Current(c) \/ c \in late'
        PROVE  CatalogIInv'
    <2>1. CachedIsCurrent'
      <3> SUFFICES ASSUME NEW c \in Codes, entry'[c] # NoEntry, entry'[c] # Current(c)'
                   PROVE  c \in late' \/ Due(c)' \/ entry'[c].of \in spoilt'
        BY DEF CachedIsCurrent
      <3> QED BY <1>1, <1>3, <1>4 DEF CatalogIInv, CachedIsCurrent
    <2> QED BY <1>1, <1>4, <2>1 DEF CatalogIInv, CatalogTyped, SoleCode, Orderly, WholeProduct, Editing
  <1>5. ASSUME NEW r \in Scanners, ScanStore(r) PROVE CatalogIInv'
    <2>1. /\ entry' = [entry EXCEPT ![scan[r].code] = scan[r].saw]
          /\ late' = IF scan[r].saw = Current(scan[r].code) THEN late \ {scan[r].code}
                     ELSE late \cup {scan[r].code}
      BY <1>5 DEF ScanStore
    <2> QED BY <1>2, <1>4, <2>1
  <1>6. ASSUME NEW r \in Scanners, NEW c \in Codes, ScanMiss(r, c) PROVE CatalogIInv'
    BY <1>2, <1>4, <1>6 DEF ScanMiss
  <1>7. ASSUME NEW c \in Codes, Expire(c) PROVE CatalogIInv'
    BY <1>2, <1>4, <1>7 DEF Expire, Drop
  <1> QED BY <1>5, <1>6, <1>7

LEMMA CatalogInitial == CatalogInit => CatalogIInv
  <1> SUFFICES ASSUME CatalogInit PROVE CatalogIInv
    OBVIOUS
  <1>1. Absent \in RowSet /\ Absent.st = "none" /\ Rest \in EditSet /\ Rest.pc = "idle" /\ Rest.of = "none"
    BY DEF Absent, RowSet, Rest, EditSet
  <1>2. CatalogTyped
    BY <1>1 DEF CatalogInit, CatalogTyped
  <1>3. SoleCode /\ WholeProduct /\ CachedIsCurrent
    BY <1>1 DEF CatalogInit, SoleCode, WholeProduct, CachedIsCurrent
  <1>4. Orderly
    BY <1>1 DEF CatalogInit, Orderly
  <1> QED BY <1>2, <1>3, <1>4 DEF CatalogIInv

LEMMA CatalogStep == CatalogIInv /\ [CatalogNext]_catalogVars => CatalogIInv'
  <1> SUFFICES ASSUME CatalogIInv, [CatalogNext]_catalogVars PROVE CatalogIInv'
    OBVIOUS
  <1>1. CASE UNCHANGED catalogVars
    BY <1>1 DEF catalogVars, CatalogIInv, CatalogTyped, SoleCode, Orderly, WholeProduct, CachedIsCurrent,
                Current, Holders, Due, Stale, Editing
  <1> QED BY <1>1, BeginsKeep, StatementsKeep, EndsKeep, CacheKeeps DEF CatalogNext

\* CatalogIInv is inductive.
THEOREM CatalogHolds == CatalogSpec => []CatalogIInv
  <1> QED BY CatalogInitial, CatalogStep, PTL DEF CatalogSpec

\* An edit that ran alone and to its end leaves a product with its stock row and
\* one open price (ProductsService.create, update, remove).
THEOREM ProductsStayWhole == CatalogSpec => []WholeProduct
  <1>1. CatalogIInv => WholeProduct
    BY DEF CatalogIInv
  <1> QED BY <1>1, CatalogHolds, PTL

\* An entry of the cache is current, or its deletion is due or was lost, or a scan
\* stored it late, or edits overlapped (CacheService.invalidateProduct).
THEOREM CacheIsCurrent == CatalogSpec => []CachedIsCurrent
  <1>1. CatalogIInv => CachedIsCurrent
    BY DEF CatalogIInv
  <1> QED BY <1>1, CatalogHolds, PTL
=============================================================================
