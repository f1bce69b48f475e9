------------------------------- MODULE Shifts -------------------------------
(***************************************************************************)
(* Cashier shifts and the cash drawer: ShiftsService behind its controller *)
(* and the shift chip and modals of the POS.  A shift's expected cash is   *)
(* computed from the timestamps of the orders, which other requests sell   *)
(* and refund meanwhile.  Opening cash is counted as zero: amounts are     *)
(* relative to it.                                                         *)
(***************************************************************************)
EXTENDS Integers, FiniteSets, FiniteSetsExt

CONSTANTS
    People,     \* the users at the counter
    Cashiers,   \* those of them below level 50
    Desks,      \* the POS windows
    UserAt,     \* UserAt[d]: who is logged in at window d; a user may have several
    Slots,      \* requests under way at once
    ShiftIds,
    Bills,      \* the orders
    Cash,       \* the bills paid in cash
    AmountOf,      \* AmountOf[o]: what bill o comes to
    Off,        \* how far a count of the drawer may be off
    Threshold,  \* the setting cash_discrepancy_threshold
    NoShift,
    NoOne,
    NoDesk,
    MaxClock    \* bound: timestamps taken

ASSUME ShiftsAssumption ==
    /\ Cashiers \subseteq People /\ Cash \subseteq Bills
    /\ UserAt \in [Desks -> People]
    /\ NoShift \notin ShiftIds /\ NoOne \notin People /\ NoDesk \notin Desks
    /\ IsFiniteSet(Bills) /\ IsFiniteSet(ShiftIds)
    /\ AmountOf \in [Bills -> Nat]
    /\ Off \subseteq Int /\ Threshold \in Nat /\ MaxClock \in Nat

VARIABLES
    clock,      \* the time of the last timestamp
    shift,      \* the Shift rows
    bill,       \* the Order rows, as far as the drawer is concerned, as committed
    trans,      \* trans[o]: the transaction that has stamped bill o and not ended
    flow,       \* history: what went into a drawer and out of it
    unsettled,  \* history: unsettled[s]: the bills that moved while shift s was being closed
    shown,      \* shown[d]: the shift window d shows, or NoShift
    request,    \* the requests to open or close a shift, each with its locals
    told,       \* history: shifts closed by a request that was answered with an error
    doubled     \* history: users with two requests to open under way at once

billVars == <<clock, bill, trans, flow>>
shiftVars == <<billVars, shift, unsettled, shown, request, told, doubled>>

NoRowYet == [st |-> "none", of |-> NoOne, start |-> 0, end |-> 0, expected |-> 0,
             counted |-> 0, alerted |-> FALSE]
\* by: createdById; at: closedAt; payer and out: refundedById and refundedAt.
NoBill == [st |-> "none", by |-> NoOne, at |-> 0, payer |-> NoOne, out |-> 0]
\* row: what it leaves of the bill; who and t: whose stamp, and when.
NoTrans == [row |-> NoBill, who |-> NoOne, t |-> 0]

\* user: who opens; back: the window whose modal waits for the answer, if any.
NoRequest == [pc |-> "idle", user |-> NoOne, back |-> NoDesk, shift |-> NoShift, now |-> 0,
              sales |-> 0, refunds |-> 0, off |-> 0]

ShiftsInit ==
    /\ clock = 0
    /\ shift = [s \in ShiftIds |-> NoRowYet]
    /\ bill = [o \in Bills |-> NoBill]
    /\ trans = [o \in Bills |-> NoTrans]
    /\ flow = {}
    /\ unsettled = [s \in ShiftIds |-> {}]
    /\ shown = [d \in Desks |-> NoShift]
    /\ request = [r \in Slots |-> NoRequest]
    /\ told = {}
    /\ doubled = {}

Tick == clock < MaxClock /\ clock' = clock + 1

OpenOf(u) == {s \in ShiftIds : shift[s].st = "open" /\ shift[s].of = u}
SumOf(S) == SumFunctionOnSet(AmountOf, S)

-----------------------------------------------------------------------------
(* Orders reach the drawer by their timestamps (OrdersService).  A transaction *)
(* takes the timestamp first, and what it writes is seen when it commits.  Of  *)
(* one order, transactions do not overlap here; module Orders has those.       *)

\* The POS refuses a cashier without a shift; the backend does not ask.
MaySubmit(d) == UserAt[d] \in Cashiers => shown[d] # NoShift

AtRest(o) == trans[o].t = 0

Hold(d, o) ==
    /\ MaySubmit(d)
    /\ bill[o].st = "none" /\ AtRest(o)
    /\ bill' = [bill EXCEPT ![o] = [NoBill EXCEPT !.st = "held", !.by = UserAt[d]]]
    /\ UNCHANGED <<clock, trans, flow, shift, unsettled, shown, request, told, doubled>>

\* A close of the shift has taken its time and not both sums yet.
Summing(s) == \E r \in Slots : request[r].shift = s /\ request[r].pc \in {"sales", "refunds"}

\* Bill o is stamped.  One that was sold before has moved for who is summing.
StampBill(o, who, row) ==
    /\ AtRest(o)
    /\ Tick
    /\ trans' = [trans EXCEPT ![o] = [row |-> row, who |-> who, t |-> clock + 1]]
    /\ unsettled' = [s \in ShiftIds |-> IF Summing(s) /\ bill[o].st \notin {"none", "held"}
                                   THEN unsettled[s] \cup {o} ELSE unsettled[s]]
    /\ UNCHANGED <<bill, flow, shift, shown, request, told, doubled>>

SellNew(d, o) ==
    /\ MaySubmit(d)
    /\ bill[o].st = "none"
    /\ StampBill(o, UserAt[d], [NoBill EXCEPT !.st = "sold", !.by = UserAt[d], !.at = clock + 1])

\* A bill that was held is confirmed, or one that was returned is again.
Confirm(u, o) ==
    /\ bill[o].st \in {"held", "returned"}
    /\ StampBill(o, u, [bill[o] EXCEPT !.st = "sold", !.at = clock + 1])

\* Cancelled, or returned in full.
Refund(u, o, st) ==
    /\ bill[o].st = "sold"
    /\ StampBill(o, u, [bill[o] EXCEPT !.st = st, !.payer = u, !.out = clock + 1])

\* What was not paid, or not any more, is cancelled without a stamp.
CancelUnpaid(o) ==
    /\ bill[o].st \in {"held", "returned"} /\ AtRest(o)
    /\ bill' = [bill EXCEPT ![o].st = "cancelled"]
    /\ UNCHANGED <<clock, trans, flow, shift, unsettled, shown, request, told, doubled>>

Move(o) == [bill |-> o, sale |-> trans[o].row.st = "sold", who |-> trans[o].who, t |-> trans[o].t]

CommitBill(o) ==
    /\ ~AtRest(o)
    /\ bill' = [bill EXCEPT ![o] = trans[o].row]
    /\ flow' = flow \cup {Move(o)}
    /\ trans' = [trans EXCEPT ![o] = NoTrans]
    /\ UNCHANGED <<clock, shift, unsettled, shown, request, told, doubled>>

RollBackBill(o) ==
    /\ ~AtRest(o)
    /\ trans' = [trans EXCEPT ![o] = NoTrans]
    /\ UNCHANGED <<clock, bill, flow, shift, unsettled, shown, request, told, doubled>>

-----------------------------------------------------------------------------
(* The window *)

\* The POS is entered; only a cashier's window asks for the current shift, and
\* a failed answer leaves it without one.  What was asked before goes on, but
\* its answer finds another page.
Enter(d) ==
    /\ \E s \in {NoShift} \cup (IF UserAt[d] \in Cashiers THEN OpenOf(UserAt[d]) ELSE {}) :
          /\ \A x \in OpenOf(UserAt[d]) : s # NoShift => shift[x].start <= shift[s].start
          /\ shown' = [shown EXCEPT ![d] = s]
    /\ request' = [r \in Slots |-> IF request[r].back = d
                                    THEN [request[r] EXCEPT !.back = NoDesk] ELSE request[r]]
    /\ UNCHANGED <<billVars, shift, unsettled, told, doubled>>

\* An answer is heard: the new shift is shown, or none after any close.
Hear(r) ==
    /\ request[r].pc \in {"opened", "closed"}
    /\ shown' = [d \in Desks |-> IF d # request[r].back THEN shown[d]
                                 ELSE IF request[r].pc = "opened" THEN request[r].shift
                                 ELSE NoShift]
    /\ request' = [request EXCEPT ![r] = NoRequest]
    /\ UNCHANGED <<billVars, shift, unsettled, told, doubled>>

-----------------------------------------------------------------------------
(* ShiftsService.open *)

\* A window asks to open a shift.  The button waits for the answer, Enter in the
\* field of the amount does not.
AskOpen(r, d) ==
    /\ request[r].pc = "idle" /\ shown[d] = NoShift
    /\ request' = [request EXCEPT ![r] =
          [NoRequest EXCEPT !.pc = "create", !.user = UserAt[d], !.back = d]]
    /\ doubled' = IF \E q \in Slots : request[q].pc = "create" /\ request[q].user = UserAt[d]
                THEN doubled \cup {UserAt[d]} ELSE doubled
    /\ UNCHANGED <<billVars, shift, unsettled, shown, told>>

\* Mutant: the check for an open shift is dropped.
OpenUnchecked(r, d) == AskOpen(r, d)

\* Refused if the user has one open.
OpenShift(r, d) == AskOpen(r, d) /\ OpenOf(UserAt[d]) = {}

CreateShift(r, s) ==
    /\ request[r].pc = "create"
    /\ shift[s].st = "none"
    /\ Tick
    /\ shift' = [shift EXCEPT ![s] = [NoRowYet EXCEPT !.st = "open", !.of = request[r].user,
                                                      !.start = clock + 1]]
    /\ request' = [request EXCEPT ![r] =
          [NoRequest EXCEPT !.pc = "opened", !.back = request[r].back, !.shift = s]]
    /\ UNCHANGED <<bill, trans, flow, unsettled, shown, told, doubled>>

-----------------------------------------------------------------------------
(* ShiftsService.close: what it reads, in this order *)

\* The end-shift modal closes the shift its window shows, again with Enter; the
\* endpoint lets a manager close any.
EndShift(r, u, s, d) ==
    /\ request[r].pc = "idle"
    /\ IF d = NoDesk THEN u \notin Cashiers ELSE u = UserAt[d] /\ s = shown[d]
    /\ shift[s].st = "open"
    /\ shift[s].of = u \/ u \notin Cashiers
    /\ request' = [request EXCEPT ![r] = [NoRequest EXCEPT !.pc = "sales", !.back = d,
                                                   !.shift = s, !.now = clock]]
    /\ unsettled' = [unsettled EXCEPT ![s] = @ \cup {o \in Bills : ~AtRest(o)}]
    /\ UNCHANGED <<billVars, shift, shown, told, doubled>>

Between(t, a, b) == a <= t /\ t <= b

\* cashMovements: the sales by who created the bill, the refunds by who made them.
ReadSales(r) ==
    LET s == shift[request[r].shift] IN
    /\ request[r].pc = "sales"
    /\ request' = [request EXCEPT ![r].pc = "refunds", ![r].sales =
          SumOf({o \in Cash : bill[o].st = "sold" /\ bill[o].by = s.of
                              /\ Between(bill[o].at, s.start, request[r].now)})]
    /\ UNCHANGED <<billVars, shift, unsettled, shown, told, doubled>>

\* Mutant: the refunds of all cashiers are taken.
ReadRefundsOfAll(r) ==
    LET s == shift[request[r].shift] IN
    /\ request[r].pc = "refunds"
    /\ request' = [request EXCEPT ![r].pc = "update", ![r].refunds =
          SumOf({o \in Cash : bill[o].st \in {"cancelled", "returned"}
                              /\ Between(bill[o].out, s.start, request[r].now)})]
    /\ UNCHANGED <<billVars, shift, unsettled, shown, told, doubled>>

ReadRefunds(r) ==
    LET s == shift[request[r].shift] IN
    /\ request[r].pc = "refunds"
    /\ request' = [request EXCEPT ![r].pc = "update", ![r].refunds =
          SumOf({o \in Cash : bill[o].st \in {"cancelled", "returned"} /\ bill[o].payer = s.of
                              /\ Between(bill[o].out, s.start, request[r].now)})]
    /\ UNCHANGED <<billVars, shift, unsettled, shown, told, doubled>>

\* The update does not look at the status again.  The drawer was counted to
\* what is expected, or off by some amount.
CloseShift(r, off) ==
    LET q == request[r]
        expected == q.sales - q.refunds IN
    /\ q.pc = "update"
    /\ shift' = [shift EXCEPT ![q.shift] =
          [@ EXCEPT !.st = "closed", !.end = q.now, !.expected = expected,
                    !.counted = expected + off]]
    /\ request' = [request EXCEPT ![r] = [NoRequest EXCEPT !.pc = "audit", !.back = q.back,
                                                   !.shift = q.shift, !.off = off]]
    /\ UNCHANGED <<billVars, unsettled, shown, told, doubled>>

Beyond(n) == n > Threshold \/ n < -Threshold

\* Mutant: only a shortage is a discrepancy.
AlertShortage(r) ==
    /\ request[r].pc = "audit"
    /\ shift' = [shift EXCEPT ![request[r].shift].alerted = @ \/ request[r].off < -Threshold]
    /\ request' = [request EXCEPT ![r] =
          [NoRequest EXCEPT !.pc = "closed", !.back = request[r].back]]
    /\ UNCHANGED <<billVars, unsettled, shown, told, doubled>>

\* The audit row, and an alert beyond the threshold.
AlertDiscrepancy(r) ==
    /\ request[r].pc = "audit"
    /\ shift' = [shift EXCEPT ![request[r].shift].alerted = @ \/ Beyond(request[r].off)]
    /\ request' = [request EXCEPT ![r] =
          [NoRequest EXCEPT !.pc = "closed", !.back = request[r].back]]
    /\ UNCHANGED <<billVars, unsettled, shown, told, doubled>>

\* A statement fails, or the answer is lost: the window shows an error and
\* keeps what it had.
ShiftFails(r) ==
    /\ request[r].pc # "idle"
    /\ request' = [request EXCEPT ![r] = NoRequest]
    /\ told' = IF request[r].pc = "audit" THEN told \cup {request[r].shift} ELSE told
    /\ UNCHANGED <<billVars, shift, unsettled, shown, doubled>>

-----------------------------------------------------------------------------
ShiftsNext ==
    \/ \E d \in Desks, o \in Bills : Hold(d, o) \/ SellNew(d, o)
    \/ \E u \in People, o \in Bills : \/ Confirm(u, o)
                                     \/ \E st \in {"cancelled", "returned"} : Refund(u, o, st)
    \/ \E o \in Bills : CancelUnpaid(o) \/ CommitBill(o) \/ RollBackBill(o)
    \/ \E d \in Desks : Enter(d)
    \/ \E r \in Slots : \/ \E d \in Desks : OpenShift(r, d)
                        \/ \E s \in ShiftIds : CreateShift(r, s)
                        \/ \E u \in People, s \in ShiftIds, d \in Desks \cup {NoDesk} :
                              EndShift(r, u, s, d)
                        \/ ReadSales(r) \/ ReadRefunds(r) \/ AlertDiscrepancy(r)
                        \/ \E off \in Off : CloseShift(r, off)
                        \/ Hear(r) \/ ShiftFails(r)

ShiftsSpec == ShiftsInit /\ [][ShiftsNext]_shiftVars

-----------------------------------------------------------------------------
(* Properties *)

\* A user has one open shift, unless two requests to open were under way at
\* once: no constraint of the database says so, only the check before the insert.
OneOpenShift == \A u \in People \ doubled : Cardinality(OpenOf(u)) <= 1

\* What went through the drawer of shift s, by the stamps, while it was open.
During(s) == {e \in flow : e.bill \in Cash /\ Between(e.t, shift[s].start, shift[s].end)}
MovedIn(s, sale) == {e.bill : e \in {m \in During(s) : m.who = shift[s].of /\ m.sale = sale}}

\* Each bill was sold by who had created it, and moved once, in that time.
Plain(s) ==
    /\ \A e \in During(s) : e.sale => e.who = bill[e.bill].by
    /\ \A e, f \in During(s) : e.bill = f.bill => e = f

\* The expected cash of a closed plain shift is what went through its drawer,
\* however transactions fall between the two sums and other closes: every bill
\* counts as what it was but for those that moved meanwhile, each of which
\* counts or does not.
ExpectedIsDrawer ==
    \A s \in ShiftIds : shift[s].st = "closed" /\ Plain(s) =>
        \E X \in SUBSET MovedIn(s, TRUE), Y \in SUBSET MovedIn(s, FALSE) :
            /\ MovedIn(s, TRUE) \ X \subseteq unsettled[s]
            /\ MovedIn(s, FALSE) \ Y \subseteq unsettled[s]
            /\ shift[s].expected = SumOf(X) - SumOf(Y)

\* The rule at the head of ShiftsService: "expected_cash = opening_cash +
\* confirmed sales during shift - refunds during shift".
SalesLessRefunds ==
    \A s \in ShiftIds :
        /\ shift[s].st = "closed" /\ unsettled[s] = {}
        /\ \A e \in During(s) : e.sale => e.who = bill[e.bill].by
        => shift[s].expected = SumOf(MovedIn(s, TRUE)) - SumOf(MovedIn(s, FALSE))

\* A drawer that was off by more than the threshold is alerted, or the close was
\* answered with an error after the row was written: a retry is refused then,
\* and nobody is alerted.
AlertedOrTold ==
    \A s \in ShiftIds : shift[s].st = "closed" /\ Beyond(shift[s].counted - shift[s].expected)
        => \/ shift[s].alerted \/ s \in told
           \/ \E r \in Slots : request[r].pc = "audit" /\ request[r].shift = s
=============================================================================
