----------------------------- MODULE MCSettles -----------------------------
(***************************************************************************)
(* What must happen in the end, for TLC in one run without symmetry: the   *)
(* outbox of a station and the alerts.  They share no state, so a          *)
(* behaviour follows one of them, and fairness is asked of that one only.  *)
(***************************************************************************)
EXTENDS Checkout, Notices

CONSTANTS c1, c2, s1, w1, p1, f1, f2

OwnCarts == [s \in Sales |-> s]

VARIABLE part

settlesVars == <<part, vars, noticesVars>>

SettlesInit == part \in {"station", "alerts"} /\ Init /\ NoticesInit

SettlesNext ==
    \/ part = "station" /\ Next /\ UNCHANGED <<part, noticesVars>>
    \/ part = "alerts" /\ NoticesNext /\ UNCHANGED <<part, vars>>

\* Fairness of Checkout, and NoticesFairness of Notices.
SettlesFairness ==
    /\ WF_vars(part = "station" /\ Tick)
    /\ WF_vars(part = "station" /\ Pass)
    /\ WF_vars(part = "station" /\ Outcome)
    /\ WF_vars(part = "station" /\ FlushAsked)
    /\ \A s \in Sales : WF_vars(part = "station" /\ Elapse(s))
    /\ \A c \in Calls : WF_vars(part = "station" /\ Backend(c))
    /\ WF_noticesVars(part = "alerts" /\ Watch)

\* Bounds: no phone is subscribed while a window refreshes, and while two of its
\* refreshes are under way no row is low; the alerts of events go on.
Refreshing(w) == {i \in Fetches : page[w].fetch[i].pc # "idle"}

FewAtOnce ==
    /\ \/ \A w \in Windows : Refreshing(w) = {}
       \/ \A p \in Phones : ~sub[p].alive /\ ~sub[p].row /\ ~sub[p].shown
    /\ low = 0 \/ \A w \in Windows : Cardinality(Refreshing(w)) <= 1

SettlesSpec == SettlesInit /\ [][SettlesNext]_settlesVars /\ SettlesFairness
=============================================================================
