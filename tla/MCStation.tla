------------------------------ MODULE MCStation ------------------------------
(***************************************************************************)
(* A station and the catalog it sells from, for TLC in one run: they share *)
(* no state, so a behaviour follows one of them and leaves the other       *)
(* alone.                                                                  *)
(***************************************************************************)
EXTENDS MCCheckout, Catalog

CONSTANTS e1, e2, g1

VARIABLE part

\* Calls; sales, which are the products as well; editors, which are the barcodes
\* as well.
Alike == CallsAndSales \cup Permutations({e1, e2})

\* Bound: a second sale is followed while the first is untouched, or while at
\* most one request is inside the backend, or two that post one sale each.
Untouched(s) == stage[s] = "cart" /\ op[s].status = "none" /\ \A c \in Calls : call[c].sale # s

Inside == {c \in Calls : ~At(c, "idle")}

Followed ==
    \/ \E s \in Sales : Untouched(s)
    \/ Cardinality(Inside) <= 1
    \/ Cardinality(Inside) = 2 /\ \A s \in Sales : Posting(s)

storeVars == <<part, vars, catalogVars>>

StoreInit == part \in {"station", "catalog"} /\ Init /\ CatalogInit

StoreNext ==
    \/ part = "station" /\ Next /\ UNCHANGED <<part, catalogVars>>
    \/ part = "catalog" /\ CatalogNext /\ UNCHANGED <<part, vars>>

StoreSpec == StoreInit /\ [][StoreNext]_storeVars
=============================================================================
