----------------------------- MODULE MCCheckout -----------------------------
(* Values of the constants of Checkout for TLC. *)
EXTENDS Checkout, TLC

CONSTANTS c1, c2, c3, s1, s2

\* Every sale a cart of its own; one cart, pressed again and again.
OwnCarts == [s \in Sales |-> s]
OneCart  == [s \in Sales |-> NoSale]

CallsAndSales == Permutations(Calls) \cup Permutations(Sales)
=============================================================================
