------------------------------ MODULE MCDrawer ------------------------------
(* Values of the constants of Shifts for TLC. *)
EXTENDS Shifts, TLC

CONSTANTS cash, mgr, a1, a2, b1, r1, r2

\* Every bill comes to the smallest coin; a user has one window.
SmallBills == [o \in Bills |-> 1]
OneWindow  == [d \in Desks |-> d]

ShiftsAndRequests == Permutations(ShiftIds) \cup Permutations(Slots)

\* Bound: what follows two requests to open for one user is not followed; these
\* are the states OneOpenShift excepts.
NotDoubled == doubled = {}

\* Bound: once there is no shift left to open, one request at a time.
OneAtLast ==
    (\A s \in ShiftIds : shift[s].st # "none") =>
        \A r, q \in Slots : r # q => "idle" \in {request[r].pc, request[q].pc}
=============================================================================
