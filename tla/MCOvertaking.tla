---------------------------- MODULE MCOvertaking ----------------------------
(* Values of the constants of Overtaking for TLC. *)
EXTENDS Overtaking, TLC

CONSTANTS w1, w2, o1, o2, bread, basket, flour, oil

\* bread is a product of its own, kept in the row flour; basket is a bundle of
\* one flour and two oil.
MCNeed == [l \in Lines |->
             [r \in Rows |-> IF r = flour THEN 1 ELSE IF l = basket THEN 2 ELSE 0]]

MCCart(b, k) == [l \in Lines |-> IF l = bread THEN b ELSE k]
\* The last one is more than there is.
MixedCarts == {MCCart(2, 0), MCCart(1, 1), MCCart(2, 1)}

MCStock == [r \in Rows |-> 2]

ParkOrSell == {"PENDING", "CONFIRMED"}
WithCode   == {TRUE}

WorkersAndOrders == Permutations(Workers) \cup Permutations(OrderIds)

\* Bound: how far double deductions and restorations of an order may pile up.
FewUnits == \A o \in OrderIds, l \in Lines : out[o][l] \in -1 .. 2
=============================================================================
