----------------------------- MODULE Overtaking -----------------------------
(***************************************************************************)
(* Orders with a history variable.  setStatus, requestReturn and           *)
(* finalizeReturn (orders.service.ts) decide from a row they read before   *)
(* their transaction and never look at it again: outdated holds the        *)
(* requests whose row another request has changed since they read it.  The *)
(* variable only watches; it restrains no step.                            *)
(***************************************************************************)
EXTENDS Orders

VARIABLE outdated

overtakingVars == <<vars, outdated>>

\* Another request, while v was under way, changed the row v works on.
RowChanges(v) ==
    req[v].pc # "idle" /\ order'[req[v].oid] # order[req[v].oid]

OvertakingInit == Init /\ outdated = {}

OvertakingNext ==
    /\ Next
    /\ outdated' = {v \in Workers : /\ req'[v].pc # "idle"
                                    /\ v \in outdated \/ RowChanges(v)}

OvertakingSpec == OvertakingInit /\ [][OvertakingNext]_overtakingVars
-----------------------------------------------------------------------------
\* The stock an order has out is what its status calls for.
Agrees(o) ==
    \A l \in Lines :
        out[o][l] = IF order[o].status \in Deducted THEN order[o].qty[l] ELSE 0

\* However requests on one order overlap, its status and its stock part only
\* when a request that another has overtaken writes: everything the handlers
\* do from a row that is still as they read it keeps the two together, through
\* rollbacks, deadlock victims and re-confirmed returns.  What their missing
\* recheck lets through is exactly the outdated requests.
PartsOnlyOvertaken ==
    [][\A o \in OrderIds :
          Agrees(o) /\ ~Agrees(o)'
              => \E w \in outdated : req[w].oid = o /\ req'[w].pc = "idle"
      ]_overtakingVars
=============================================================================
