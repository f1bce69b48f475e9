------------------------------ MODULE MCCounter ------------------------------
(***************************************************************************)
(* The counter for TLC in one run: the cashier's page, the claims of keys, *)
(* and orders whose requests overlap.  The modules share no state, so a    *)
(* behaviour follows one of them and leaves the others alone.              *)
(***************************************************************************)
EXTENDS MCOvertaking, MCIntake, Till

CONSTANTS p1, p2, a1, a2, v1, q1

VARIABLE part

\* Requests of the orders and of the page are the same values, so that one
\* permutation swaps them all; more symmetry costs TLC more than it saves.
Alike == Permutations(Workers)

counterVars == <<part, overtakingVars, intakeVars, tillVars>>

CounterInit ==
    part \in {"page", "keys", "orders"} /\ OvertakingInit /\ IntakeInit /\ TillInit

CounterNext ==
    \/ part = "page" /\ TillNext /\ UNCHANGED <<part, overtakingVars, intakeVars>>
    \/ part = "keys" /\ IntakeNext /\ UNCHANGED <<part, overtakingVars, tillVars>>
    \/ part = "orders" /\ OvertakingNext /\ UNCHANGED <<part, intakeVars, tillVars>>

CounterSpec == CounterInit /\ [][CounterNext]_counterVars
=============================================================================
