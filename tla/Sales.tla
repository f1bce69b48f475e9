-------------------------------- MODULE Sales --------------------------------
(***************************************************************************)
(* What the order component promises, with no requests, reads or           *)
(* transactions: every operation is one atomic step of one order that      *)
(* changes its status and the units it has out of stock together.          *)
(***************************************************************************)
EXTENDS Integers

CONSTANTS OrderIds, Lines

VARIABLES
    status,     \* status of each order
    units,      \* units each line of each order has out of stock
    refunded    \* has the order's money ever gone back?

saleVars == <<status, units, refunded>>

Sold   == {"CONFIRMED", "COMPLETED"}
Parked == {"PENDING", "HELD"}
None   == [l \in Lines |-> 0]

Init ==
    /\ status = [o \in OrderIds |-> "absent"]
    /\ units = [o \in OrderIds |-> None]
    /\ refunded = [o \in OrderIds |-> FALSE]

\* o's units become some cart; those of every other order stay.
TakeUnits(o) ==
    /\ units' = [units EXCEPT ![o] = units'[o]]
    /\ units'[o] \in [Lines -> Nat]

\* A cart is parked, or sold on the spot.
Park(o) ==
    /\ status[o] = "absent"
    /\ \E st \in Parked : status' = [status EXCEPT ![o] = st]
    /\ refunded' = [refunded EXCEPT ![o] = FALSE]
    /\ UNCHANGED units

Sell(o) ==
    /\ status[o] = "absent"
    /\ \E st \in Sold : status' = [status EXCEPT ![o] = st]
    /\ refunded' = [refunded EXCEPT ![o] = FALSE]
    /\ TakeUnits(o)

Hold(o) ==
    /\ status[o] = "PENDING"
    /\ status' = [status EXCEPT ![o] = "HELD"]
    /\ UNCHANGED <<units, refunded>>

\* A parked order, or one returned as a whole, is sold (again).
Settle(o) ==
    /\ status[o] \in Parked \cup {"RETURNED"}
    /\ units[o] = None
    /\ status' = [status EXCEPT ![o] = "CONFIRMED"]
    /\ TakeUnits(o)
    /\ UNCHANGED refunded

\* An order that has no stock out is cancelled.
Void(o) ==
    /\ status[o] \in Parked \cup {"RETURNED"}
    /\ status' = [status EXCEPT ![o] = "CANCELLED"]
    /\ UNCHANGED <<units, refunded>>

\* A sold order is cancelled or returned: all units come back, once, and the
\* refund is stamped in the same step.
Refund(o) ==
    /\ status[o] \in Sold
    /\ \E st \in {"CANCELLED", "RETURNED"} : status' = [status EXCEPT ![o] = st]
    /\ units' = [units EXCEPT ![o] = None]
    /\ refunded' = [refunded EXCEPT ![o] = TRUE]

\* Some units of a sold order come back; never more than it has out.
GiveBack(o) ==
    /\ status[o] \in Sold
    /\ TakeUnits(o)
    /\ \A l \in Lines : units'[o][l] <= units[o][l]
    /\ UNCHANGED <<status, refunded>>

Next ==
    \E o \in OrderIds :
        Park(o) \/ Sell(o) \/ Hold(o) \/ Settle(o) \/ Void(o) \/ Refund(o)
                \/ GiveBack(o)

Spec == Init /\ [][Next]_saleVars
=============================================================================
