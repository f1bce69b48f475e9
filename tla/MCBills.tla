------------------------------ MODULE MCBills ------------------------------
(***************************************************************************)
(* Orders and the drawer for TLC in one run: they share no state, so a     *)
(* behaviour follows one of them and leaves the other alone.               *)
(***************************************************************************)
EXTENDS MCOrders, MCDrawer

VARIABLE part

\* Requests of the orders and of the drawer are the same values, so that one
\* permutation swaps both; so are orders and shifts.
Alike == Permutations(Workers) \cup Permutations(OrderIds)

billsVars == <<part, vars, shiftVars>>

BillsInit == part \in {"orders", "drawer"} /\ Init /\ ShiftsInit

BillsNext ==
    \/ part = "orders" /\ Next /\ UNCHANGED <<part, shiftVars>>
    \/ part = "drawer" /\ ShiftsNext /\ UNCHANGED <<part, vars>>

BillsSpec == BillsInit /\ [][BillsNext]_billsVars
=============================================================================
