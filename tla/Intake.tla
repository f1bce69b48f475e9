------------------------------- MODULE Intake -------------------------------
(***************************************************************************)
(* Order intake with idempotency keys: OrdersService.create around its     *)
(* transaction (apps/backend/src/orders/orders.service.ts), for any number *)
(* of clients that send, repeat and abandon requests.                      *)
(*                                                                         *)
(* A sale is one cart.  Its key, when it is sent with one, belongs to it   *)
(* alone, so sales stand for keys.  A call is one HTTP request inside the  *)
(* backend; the transaction that creates the order is one step here (its   *)
(* statements are in module Orders).                                       *)
(***************************************************************************)
EXTENDS Integers, FiniteSets

CONSTANTS
    Calls,          \* HTTP requests that can be in progress at once
    Sales, NoSale,  \* carts, each with its idempotency key
    Faults          \* which faults of the environment may happen

FaultKinds == {"auth",          \* a token that has expired
               "closed",        \* the store refuses external orders
               "database",      \* a single statement that fails
               "lostAck",       \* a COMMIT whose acknowledgement is lost
               "crash"}         \* the backend restarts

ASSUME SaleAssumption == NoSale \notin Sales
ASSUME FaultsAssumption == Faults \subseteq FaultKinds

VARIABLES
    claim,      \* the IdempotencyKey row of each sale
    made,       \* orders created per sale: made[s][TRUE] under its key,
                \* made[s][FALSE] by requests without one
    call        \* the requests in progress

intakeVars == <<claim, made, call>>

Claims  == {"free", "claimed", "done"}      \* no row, statusCode 0, 201
Answers == {"none", "ok", "busy", "refused", "error", "auth"}
CallPcs == {"idle", "sent", "lookup", "check", "tx", "stamp", "release",
            "answered"}

Call == [pc : CallPcs, sale : Sales \cup {NoSale}, keyed : BOOLEAN,
         external : BOOLEAN, res : Answers]

NoCall == [pc |-> "idle", sale |-> NoSale, keyed |-> FALSE,
           external |-> FALSE, res |-> "none"]

IntakeTypeOK ==
    /\ claim \in [Sales -> Claims]
    /\ made \in [Sales -> [BOOLEAN -> Nat]]
    /\ call \in [Calls -> Call]
    /\ \A c \in Calls : call[c].pc # "idle" => call[c].sale \in Sales

IntakeInit ==
    /\ claim = [s \in Sales |-> "free"]
    /\ made = [s \in Sales |-> [b \in BOOLEAN |-> 0]]
    /\ call = [c \in Calls |-> NoCall]

-----------------------------------------------------------------------------
At(c, pc)  == call[c].pc = pc
SaleOf(c)  == call[c].sale
GoTo(c, pc) == call' = [call EXCEPT ![c].pc = pc]
Answer(c, res) == call' = [call EXCEPT ![c].pc = "answered", ![c].res = res]

\* A client's request leaves for the backend.
Send(c, s, keyed, external) ==
    /\ At(c, "idle")
    /\ call' = [call EXCEPT ![c] = [NoCall EXCEPT !.pc = "sent", !.sale = s,
                                       !.keyed = keyed, !.external = external]]
    /\ UNCHANGED <<claim, made>>

\* It is lost on the way, or turned away by the rate limit (429), AuthGuard, the
\* caller's rights (403) or the validation of the body (400).
Vanish(c) ==
    /\ At(c, "sent")
    /\ call' = [call EXCEPT ![c] = NoCall]
    /\ UNCHANGED <<claim, made>>

TurnAway(c) ==
    /\ At(c, "sent")
    /\ \/ Answer(c, "error") \/ Answer(c, "refused")
       \/ "auth" \in Faults /\ Answer(c, "auth")
    /\ UNCHANGED <<claim, made>>

\* Mutant: the claim is an upsert, so a claim in progress is taken again.
TakeAnyClaim(c) ==
    /\ At(c, "sent") /\ call[c].keyed
    /\ claim[SaleOf(c)] # "done"
    /\ claim' = [claim EXCEPT ![SaleOf(c)] = "claimed"]
    /\ GoTo(c, "check")
    /\ UNCHANGED made

\* claimOrReplay: the INSERT of the key either claims it ...
TakeClaim(c) ==
    /\ At(c, "sent") /\ call[c].keyed
    /\ claim[SaleOf(c)] = "free"
    /\ claim' = [claim EXCEPT ![SaleOf(c)] = "claimed"]
    /\ GoTo(c, "check")
    /\ UNCHANGED made

\* ... or fails, on the unique key or for any other reason.
MissClaim(c) ==
    /\ At(c, "sent") /\ call[c].keyed
    /\ claim[SaleOf(c)] # "free" \/ "database" \in Faults
    /\ GoTo(c, "lookup")
    /\ UNCHANGED <<claim, made>>

\* Mutant: any existing claim is replayed, completed or not.
ReplayAnyClaim(c) ==
    /\ At(c, "lookup")
    /\ claim[SaleOf(c)] # "free"
    /\ Answer(c, "ok")
    /\ UNCHANGED <<claim, made>>

\* The row is read in a statement of its own: it may be gone by now.
Replay(c) ==
    /\ At(c, "lookup")
    /\ claim[SaleOf(c)] = "done"
    /\ Answer(c, "ok")
    /\ UNCHANGED <<claim, made>>

\* Mutant: the 409 is thrown inside the chain whose catch deletes the claim.
BusyReleases(c) ==
    /\ At(c, "lookup")
    /\ claim[SaleOf(c)] # "done"
    /\ call' = [call EXCEPT ![c].pc = "release", ![c].res = "busy"]
    /\ UNCHANGED <<claim, made>>

Busy(c) ==
    /\ At(c, "lookup")
    /\ claim[SaleOf(c)] # "done"
    /\ Answer(c, "busy")
    /\ UNCHANGED <<claim, made>>

Unkeyed(c) ==
    /\ At(c, "sent") /\ ~call[c].keyed
    /\ GoTo(c, "check")
    /\ UNCHANGED <<claim, made>>

\* assertExternalOrdersAllowed throws between the claim and the chain whose
\* catch would release it.
StoreClosed(c) ==
    /\ At(c, "check") /\ call[c].external
    /\ "closed" \in Faults
    /\ Answer(c, "refused")
    /\ UNCHANGED <<claim, made>>

Proceed(c) ==
    /\ At(c, "check")
    /\ GoTo(c, "tx")
    /\ UNCHANGED <<claim, made>>

\* The transaction commits, or throws: on its content (4xx) or on anything
\* else (5xx).  A COMMIT whose acknowledgement is lost throws as well.
OneMore(c) == made' = [made EXCEPT ![SaleOf(c)][call[c].keyed] = @ + 1]

Throw(c, res) == call' = [call EXCEPT ![c].pc = "release", ![c].res = res]

CommitOrder(c) ==
    /\ At(c, "tx")
    /\ OneMore(c)
    /\ GoTo(c, "stamp")
    /\ UNCHANGED claim

Reject(c) ==
    /\ At(c, "tx")
    /\ \E res \in {"refused", "error"} : Throw(c, res)
    /\ UNCHANGED <<claim, made>>

CommitUnknown(c) ==
    /\ At(c, "tx") /\ "lostAck" \in Faults
    /\ OneMore(c)
    /\ Throw(c, "error")
    /\ UNCHANGED claim

\* The claim row is updated; a failure of the update is swallowed.
SetClaim(c, to) ==
    \/ claim' = IF call[c].keyed THEN [claim EXCEPT ![SaleOf(c)] = to] ELSE claim
    \/ "database" \in Faults /\ claim' = claim

\* .then: the claim is completed with the order's id.
Stamp(c) ==
    /\ At(c, "stamp")
    /\ SetClaim(c, "done")
    /\ Answer(c, "ok")
    /\ UNCHANGED made

\* .catch: the claim is deleted.
Release(c) ==
    /\ At(c, "release")
    /\ SetClaim(c, "free")
    /\ GoTo(c, "answered")
    /\ UNCHANGED made

\* The answer reaches its client, or nobody.
Close(c) ==
    /\ At(c, "answered")
    /\ call' = [call EXCEPT ![c] = NoCall]
    /\ UNCHANGED <<claim, made>>

\* The backend stops: open transactions roll back, clients get no answer.
Crash ==
    /\ "crash" \in Faults
    /\ call' = [c \in Calls |-> NoCall]
    /\ UNCHANGED <<claim, made>>

\* What the backend does of itself with a request it has.
Serve(c) ==
    \/ TakeClaim(c)
    \/ MissClaim(c)
    \/ Replay(c)
    \/ Busy(c)
    \/ Unkeyed(c)
    \/ StoreClosed(c)
    \/ Proceed(c)
    \/ CommitOrder(c)
    \/ Reject(c)
    \/ CommitUnknown(c)
    \/ Stamp(c)
    \/ Release(c)

IntakeNext ==
    \/ \E c \in Calls :
          \/ \E s \in Sales, k, e \in BOOLEAN : Send(c, s, k, e)
          \/ Vanish(c)
          \/ TurnAway(c)
          \/ Serve(c)
          \/ Close(c)
    \/ Crash

IntakeSpec == IntakeInit /\ [][IntakeNext]_intakeVars
-----------------------------------------------------------------------------
(* Properties.                                                             *)

\* The orders created under the key of a sale.
OrdersUnder(s) == made[s][TRUE]

\* However often a request is repeated with its key, and whatever happens to
\* the answers, at most one order is created under the key.
AtMostOnce == \A s \in Sales : OrdersUnder(s) <= 1

\* An answer is never a lie: who is told 201 for a keyed request, fresh or
\* replayed, has exactly one order under the key, and a completed claim
\* stands for one.
AnswersTrue ==
    /\ \A s \in Sales : claim[s] = "done" => OrdersUnder(s) = 1
    /\ \A c \in Calls : At(c, "answered") /\ call[c].res = "ok" /\ call[c].keyed
                           => OrdersUnder(SaleOf(c)) = 1

\* A request that owns its claim: between the INSERT and the update or delete.
Owner(c, s) == /\ call[c].pc \in {"check", "tx", "stamp", "release"}
               /\ call[c].keyed /\ SaleOf(c) = s

\* The claim is a lock: two requests never work on one key at the same time.
OneOwner ==
    \A b, c \in Calls, s \in Sales : Owner(b, s) /\ Owner(c, s) => b = c

\* A failed request releases its claim: a claim that is not complete has a
\* request at work that will complete or release it.
NoOrphanClaim ==
    \A s \in Sales : claim[s] = "claimed" => \E c \in Calls : Owner(c, s)
=============================================================================
