------------------------------ MODULE Checkout ------------------------------
(***************************************************************************)
(* A checkout station in front of the backend of module Intake:            *)
(*   - the POS page (apps/web/src/pages/POS.tsx, offline/bridge.ts), which *)
(*     posts a cart online and queues it when no answer comes back;        *)
(*   - the durable outbox of the Electron shell                            *)
(*     (apps/desktop/src/offline-store.js);                                *)
(*   - its sync worker (apps/desktop/src/sync.js, main.js).                *)
(*                                                                         *)
(* A sale is one press of the confirm button or key: what one run of       *)
(* submit() posts, and queues under a key of its own.  CartOf says which   *)
(* cart it is a press of.                                                  *)
(*                                                                         *)
(* Time is the ordering of steps: op[s].due says whether the backoff since *)
(* the row's updatedAt has elapsed.                                        *)
(***************************************************************************)
EXTENDS Intake

CONSTANTS
    CartOf,         \* CartOf[s]: the cart that sale s is a press of
    NoCallId,       \* nobody is listening
    MaxAttempts,    \* MAX_ATTEMPTS of the outbox
    Restarts        \* may the desktop application be restarted?

ASSUME StationAssumption == /\ NoCallId \notin Calls
                            /\ IsFiniteSet(Sales)
                            /\ MaxAttempts \in Nat \ {0}
                            /\ Restarts \in BOOLEAN

VARIABLES
    stage,      \* what the cashier sees of each sale
    post,       \* the call of each sale's online post, while it is under way
    busy,       \* the flag that disables the buttons
    op,         \* the outbox row of each sale
    sync,       \* the worker: its pass, and the operation it has in flight
    asked       \* a flush requested by the page has yet to reach the worker

stationVars == <<stage, post, busy, op, sync, asked>>
vars == <<intakeVars, stationVars>>

Stages == {"cart", "posting", "saved", "queued", "lost"}

\* "done" and "discarded" stand for a row that has been deleted.
Op == [status : {"none", "pending", "dead", "done", "discarded"},
       attempts : 0 .. MaxAttempts, due : BOOLEAN, at : Nat]
NoOp == [status |-> "none", attempts |-> 0, due |-> FALSE, at |-> 0]

Sync == [pc : {"off", "scan", "wait"}, sale : Sales \cup {NoSale},
         call : Calls \cup {NoCallId}]
SyncOff  == [pc |-> "off", sale |-> NoSale, call |-> NoCallId]
SyncScan == [SyncOff EXCEPT !.pc = "scan"]

TypeOK ==
    /\ IntakeTypeOK
    /\ stage \in [Sales -> Stages]
    /\ post \in [Sales -> Calls \cup {NoCallId}]
    /\ busy \in BOOLEAN
    /\ op \in [Sales -> Op]
    /\ sync \in Sync
    /\ asked \in BOOLEAN
    /\ sync.pc = "wait" => sync.sale \in Sales /\ sync.call \in Calls

Init ==
    /\ IntakeInit
    /\ stage = [s \in Sales |-> "cart"]
    /\ post = [s \in Sales |-> NoCallId]
    /\ busy = FALSE
    /\ op = [s \in Sales |-> NoOp]
    /\ sync = SyncScan              \* initOfflineOutbox flushes at once
    /\ asked = FALSE

-----------------------------------------------------------------------------
Listening(c) == c = sync.call \/ \E s \in Sales : c = post[s]
Free(c)      == At(c, "idle") /\ ~Listening(c)

\* The worker's pass is synchronous between two fetches: no other handler of
\* the main process runs while it scans.
MainIsFree == sync.pc # "scan"

Stored(s)  == op[s].status \in {"pending", "dead"}
Pending(s) == op[s].status = "pending"
SetOp(s, row) == op' = [op EXCEPT ![s] = row]

(* The POS page.                                                           *)

Posting(s) == stage[s] = "posting"

\* The presses of one cart.
Presses(s) == {t \in Sales : CartOf[t] = CartOf[s]}

\* busy keeps the buttons from a second post, and not the F9 and F12 keys: the
\* handler of onKey is the one registered when the cart last changed, before
\* the post of it that is under way.
MayPress(s) == ~busy \/ \E t \in Presses(s) : Posting(t)

\* What a post that was saved or queued does with the cart: it is gone.
OnPage(s) == \A t \in Presses(s) : stage[t] \in {"cart", "posting"}

\* submit, online: no Idempotency-Key.
Submit(s, c) ==
    /\ stage[s] = "cart" /\ OnPage(s) /\ MayPress(s)
    /\ Free(c)
    /\ Send(c, s, FALSE, FALSE)
    /\ post' = [post EXCEPT ![s] = c]
    /\ busy' = TRUE
    /\ stage' = [stage EXCEPT ![s] = "posting"]
    /\ UNCHANGED <<op, sync, asked>>

\* submit returns, whichever way: finally, the flag, though another post of the
\* page may be under way.
Returns(s, st) ==
    /\ Posting(s)
    /\ post' = [post EXCEPT ![s] = NoCallId]
    /\ busy' = FALSE
    /\ stage' = [stage EXCEPT ![s] = st]

Hears(s) == At(post[s], "answered") /\ Close(post[s])

\* 2xx: the cart is cleared and a flush requested.
PostSaved(s) ==
    /\ Returns(s, "saved")
    /\ Hears(s) /\ call[post[s]].res = "ok"
    /\ asked' = TRUE
    /\ UNCHANGED <<op, sync>>

\* An error answer: shown, and the cart stays for another attempt.
PostRefused(s) ==
    /\ Returns(s, "cart")
    /\ Hears(s) /\ call[post[s]].res # "ok"
    /\ UNCHANGED <<op, sync, asked>>

\* No answer: enqueueOrder gives the cart a key, and a pass starts.  The call
\* itself, if it got through, goes on without its client.
NextAt == 1 + Cardinality({s \in Sales : op[s].status # "none"})

Enqueue(s) ==
    /\ MainIsFree
    /\ SetOp(s, [NoOp EXCEPT !.status = "pending", !.due = TRUE, !.at = NextAt])
    /\ sync' = IF sync.pc = "off" THEN SyncScan ELSE sync
    /\ UNCHANGED <<intakeVars, asked>>

\* Mutant: the cart is queued and not cleared.
PostUnansweredKept(s) == Returns(s, "cart") /\ Enqueue(s)

PostUnanswered(s) == Returns(s, "queued") /\ Enqueue(s)

\* The page asks for a flush: on entry, on login, when the network is back,
\* and after a successful post.
AskFlush ==
    /\ ~asked
    /\ asked' = TRUE
    /\ UNCHANGED <<intakeVars, stage, post, busy, op, sync>>

-----------------------------------------------------------------------------
(* The sync worker.                                                        *)

\* flushOnce with a fresh token: refused while a pass runs; otherwise
\* updatePendingToken touches every pending row, and with it updatedAt.
FlushAsked ==
    /\ asked /\ MainIsFree
    /\ asked' = FALSE
    /\ IF sync.pc = "off"
       THEN /\ op' = [s \in Sales |-> IF Pending(s)
                                      THEN [op[s] EXCEPT !.due = (op[s].attempts = 0)]
                                      ELSE op[s]]
            /\ sync' = SyncScan
       ELSE UNCHANGED <<op, sync>>
    /\ UNCHANGED <<intakeVars, stage, post, busy>>

\* The 30 s timer.
Tick ==
    /\ sync.pc = "off"
    /\ sync' = SyncScan
    /\ UNCHANGED <<intakeVars, stage, post, busy, op, asked>>

\* Mutant: the next operation whose backoff has elapsed.
AnyDue(s) == Pending(s) /\ op[s].due

\* nextPending: the oldest pending row, whether it is due or not.
Oldest(s) == Pending(s) /\ \A t \in Sales : Pending(t) => op[s].at <= op[t].at

SendOldest(s, c) ==
    /\ sync.pc = "scan"
    /\ Oldest(s) /\ op[s].due
    /\ Free(c)
    /\ Send(c, s, TRUE, FALSE)
    /\ sync' = [pc |-> "wait", sale |-> s, call |-> c]
    /\ UNCHANGED <<stage, post, busy, op, asked>>

StopPass ==
    /\ sync.pc = "scan"
    /\ ~\E s \in Sales : Oldest(s) /\ op[s].due
    /\ sync' = SyncOff
    /\ UNCHANGED <<intakeVars, stage, post, busy, op, asked>>

Elapse(s) ==
    /\ Pending(s) /\ ~op[s].due
    /\ SetOp(s, [op[s] EXCEPT !.due = TRUE])
    /\ UNCHANGED <<intakeVars, stage, post, busy, sync, asked>>

Heard(answers) ==
    /\ sync.pc = "wait"
    /\ At(sync.call, "answered")
    /\ call[sync.call].res \in answers
    /\ Close(sync.call)
    /\ UNCHANGED <<stage, post, busy, asked>>

\* What the marks do to a row that has been deleted meanwhile: nothing.
Mark(row) ==
    IF Stored(sync.sale) THEN SetOp(sync.sale, row) ELSE op' = op

\* Mutant: MAX_ATTEMPTS is forgotten.
AttemptForever ==
    Mark([op[sync.sale] EXCEPT !.attempts = @ + 1, !.due = FALSE])

AttemptFailed ==
    LET row == op[sync.sale]
        n == row.attempts + 1 IN
    Mark([status |-> IF n >= MaxAttempts THEN "dead" ELSE row.status,
          attempts |-> n, due |-> FALSE, at |-> row.at])

HearAuth == Heard({"auth"}) /\ sync' = SyncOff /\ op' = op

\* Mutant: a 409 "in progress" counts as synced.
HearOkOrBusy == /\ Heard({"ok", "busy"}) /\ sync' = SyncScan
                /\ Mark([op[sync.sale] EXCEPT !.status = "done"])

HearOk == /\ Heard({"ok"}) /\ sync' = SyncScan
          /\ Mark([op[sync.sale] EXCEPT !.status = "done"])

\* Mutant: a refused operation is removed instead of kept for the cashier.
HearRefusedDone == /\ Heard({"refused"}) /\ sync' = SyncScan
                   /\ Mark([op[sync.sale] EXCEPT !.status = "done"])

HearRefused == /\ Heard({"refused"}) /\ sync' = SyncScan
               /\ Mark([op[sync.sale] EXCEPT !.status = "dead"])

HearFailed == Heard({"busy", "error"}) /\ sync' = SyncScan /\ AttemptFailed

\* Mutant: a fetch that throws costs no attempt.
HearNothingFree ==
    /\ sync.pc = "wait"
    /\ sync' = SyncOff
    /\ UNCHANGED <<intakeVars, stage, post, busy, op, asked>>

\* fetch throws: the pass ends.
HearNothing ==
    /\ sync.pc = "wait"
    /\ AttemptFailed
    /\ sync' = SyncOff
    /\ UNCHANGED <<intakeVars, stage, post, busy, asked>>

\* offline-discard.
Discard(s) ==
    /\ MainIsFree
    /\ Stored(s)
    /\ SetOp(s, [op[s] EXCEPT !.status = "discarded"])
    /\ UNCHANGED <<intakeVars, stage, post, busy, sync, asked>>

\* The application is closed and started again: the outbox is on disk, the
\* cart and the pass are not.
Restart ==
    /\ Restarts
    /\ stage' = [s \in Sales |-> IF Posting(s) THEN "lost" ELSE stage[s]]
    /\ post' = [s \in Sales |-> NoCallId]
    /\ busy' = FALSE
    /\ sync' = SyncScan
    /\ asked' = FALSE
    /\ UNCHANGED <<intakeVars, op>>

-----------------------------------------------------------------------------
\* The backend and the network, with the station's clients listening or not.
Backend(c) ==
    /\ \/ Serve(c)
       \/ TurnAway(c)
       \/ ~Listening(c) /\ (Vanish(c) \/ Close(c))
    /\ UNCHANGED stationVars

BackendCrash == Crash /\ UNCHANGED stationVars

Page(s) ==
    \/ \E c \in Calls : Submit(s, c)
    \/ PostSaved(s)
    \/ PostRefused(s)
    \/ PostUnanswered(s)

\* One step of a pass; an answer, or its absence.
Pass    == StopPass \/ \E s \in Sales, c \in Calls : SendOldest(s, c)
Outcome == HearAuth \/ HearOk \/ HearRefused \/ HearFailed \/ HearNothing

Next ==
    \/ \E s \in Sales : Page(s) \/ Elapse(s) \/ Discard(s)
    \/ AskFlush
    \/ FlushAsked
    \/ Tick
    \/ Pass
    \/ Outcome
    \/ Restart
    \/ \E c \in Calls : Backend(c)
    \/ BackendCrash

\* The timer keeps ticking, a pass goes on, a fetch ends one way or the other,
\* backoffs elapse, the backend serves what it has, and a flush that was
\* asked for is delivered.  What people and the environment do is not fair.
Fairness ==
    /\ WF_vars(Tick)
    /\ WF_vars(Pass)
    /\ WF_vars(Outcome)
    /\ WF_vars(FlushAsked)
    /\ \A s \in Sales : WF_vars(Elapse(s))
    /\ \A c \in Calls : WF_vars(Backend(c))

Spec == Init /\ [][Next]_vars
FairSpec == Spec /\ Fairness
-----------------------------------------------------------------------------
(* Properties.                                                             *)

\* The cashier is told the truth: a sale shown as saved has an order, and an
\* operation leaves the outbox as synced only when its order exists.
ReceiptsTrue ==
    \A s \in Sales : /\ stage[s] = "saved" => made[s][FALSE] >= 1
                     /\ op[s].status = "done" => OrdersUnder(s) = 1

\* No way of sending a sale ever sells it twice by itself: one whose post was
\* refused was not sold, so that the cart may be posted again, and a queued one
\* is sold once however often it is sent.
OncePerPath ==
    \A s \in Sales : /\ stage[s] = "cart" => made[s][FALSE] = 0
                      /\ \A b \in BOOLEAN : made[s][b] <= 1

\* A sale the cashier was told is queued is never lost without a trace: its
\* row is still there, or its order exists, or it was discarded by hand.
QueuedNotLost ==
    \A s \in Sales : stage[s] = "queued" =>
        Stored(s) \/ OrdersUnder(s) = 1 \/ op[s].status = "discarded"

\* Pending operations are sent in the order they were queued.
PendingInOrder ==
    sync.pc = "wait" =>
        \A t \in Sales : Pending(t) => op[sync.sale].at <= op[t].at

\* A failed operation blocks later ones until it succeeds or is explicitly
\* discarded: what the comment at the head of the outbox says.
FailedBlocksLater ==
    sync.pc = "wait" =>
        \A t \in Sales : Stored(t) => op[sync.sale].at <= op[t].at

\* Syncing never creates a duplicate: every sale ends in at most one order.
OneOrderPerSale == \A s \in Sales : OrdersUnder(s) + made[s][FALSE] <= 1

\* However often the confirm key is pressed, it yields one order: no two sales
\* that are presses of one cart are both sold by their posts.
PressedOnce ==
    \A s, t \in Sales :
        s # t /\ CartOf[s] = CartOf[t] => made[s][FALSE] = 0 \/ made[t][FALSE] = 0

\* A queued order is sent by itself: no operation stays pending for ever.
EveryOpSettles == \A s \in Sales : Pending(s) ~> ~Pending(s)

\* It is, as long as the page stops asking for flushes at some point, and the
\* worker's token is good from some point on: a 401 costs no attempt.
SettlesWhenQuiet ==
    <>[](~asked /\ ~(sync.pc = "wait" /\ call[sync.call].res = "auth")) => EveryOpSettles
=============================================================================
