------------------------------ MODULE MCOrders ------------------------------
(* Values of the constants of Orders for TLC. *)
EXTENDS Orders, TLC

CONSTANTS w1, w2, o1, o2, o3, bread, basket, flour, oil

\* bread is a product of its own, kept in the row flour; basket is a bundle of
\* one flour and two oil.
MCNeed == [l \in Lines |->
             [r \in Rows |-> IF r = flour THEN 1 ELSE IF l = basket THEN 2 ELSE 0]]

MCCart(b, k) == [l \in Lines |-> IF l = bread THEN b ELSE k]
OneLoaf    == {MCCart(1, 0)}
OneBasket  == {MCCart(0, 1)}
MixedCarts == {MCCart(2, 0), MCCart(1, 1)}

MCStock == [r \in Rows |-> IF r = flour THEN 3 ELSE 2]

ParkOrSell == {"PENDING", "CONFIRMED"}
NoCode     == {FALSE}
WithCode   == {TRUE}

WorkersAndOrders == Permutations(Workers) \cup Permutations(OrderIds)

=============================================================================
