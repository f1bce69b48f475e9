------------------------------ MODULE MCIntake ------------------------------
(* Values of the constants of Intake for TLC. *)
EXTENDS Intake, TLC

CONSTANTS c1, c2, c3, s1, s2

CallsAndSales == Permutations(Calls) \cup Permutations(Sales)

\* Bounds: orders made without a key are not followed past one ...
FewPlain == \A s \in Sales : made[s][FALSE] <= 1

\* ... nor those under a key past two, where they can grow.
FewOrders == FewPlain /\ \A s \in Sales : made[s][TRUE] <= 2
=============================================================================
