------------------------------- MODULE Notices -------------------------------
(***************************************************************************)
(* Alerts: what raises them (the stock watch, returns and shifts, the      *)
(* daily summary), the rows, the sockets that carry them to the windows of *)
(* managers, the badge of those windows, and web push to their phones.     *)
(* All alerts but those of low stock are one kind.                         *)
(***************************************************************************)
EXTENDS Integers, FiniteSets, Functions

CONSTANTS
    Windows,    \* windows of managers
    Phones,     \* phones of managers
    Rows,       \* how many Inventory rows there are
    ScanLimit,  \* how many of them the watch reads: take, in no order
    Fetches,    \* the refreshes a window may have under way
    MaxUnread,  \* bound: unread alerts of a kind raised by events
    MaxBadge,   \* bound: a badge does not count further
    MaxFaults   \* bound: restarts and failed statements

ASSUME NoticesAssumption ==
    /\ MaxUnread \in Nat /\ MaxFaults \in Nat /\ MaxBadge \in Nat /\ MaxBadge > MaxUnread
    /\ Rows \in Nat /\ ScanLimit \in Nat \ {0}

VARIABLES
    low,        \* how many Inventory rows are at or below their minimum
    inbox,      \* inbox[k]: how many Alert rows of kind k are unread
    job,        \* job[j]: the watch, an event or the summary, raising an alert
    page,       \* page[w]: the badge, the socket and the refreshes of window w
    behind,     \* history: windows that missed an alert, or a refresh undid one
    sub,        \* sub[p]: the phone's subscription, its row, what its page shows
    faults

noticesVars == <<low, inbox, job, page, behind, sub, faults>>

Kinds == {"low", "event"}
Jobs == Kinds

\* push: the alert also goes to the phones, which the daily summary does not.
Idle == [pc |-> "idle", push |-> TRUE, phones |-> {}]
NoFetch == [pc |-> "idle", count |-> 0, late |-> FALSE]
Asked == [NoFetch EXCEPT !.pc = "asked"]

NoticesInit ==
    /\ low = 0
    /\ inbox = [k \in Kinds |-> 0]
    /\ job = [j \in Jobs |-> Idle]
    /\ page = [w \in Windows |-> [on |-> FALSE, badge |-> 0, fetch |-> [i \in Fetches |-> NoFetch]]]
    /\ behind = {}
    /\ sub = [p \in Phones |-> [alive |-> FALSE, row |-> FALSE, shown |-> FALSE]]
    /\ faults = 0

Unread == SumFunctionOnSet(inbox, Kinds)

GoOn(j, pc) == job' = [job EXCEPT ![j].pc = pc]

-----------------------------------------------------------------------------
(* What raises an alert *)

\* Sales and receipts.
StockMoves ==
    /\ low' \in {low - 1, low + 1} \cap 0..Rows
    /\ UNCHANGED <<inbox, job, page, behind, sub, faults>>

\* Whatever rows a scan reads, a low one is among them.
SurelyLow == low > 0 /\ low > Rows - ScanLimit

\* StockWatchCron.scan: rows are read, and then the inbox; when there are more rows
\* than it takes, it may see no low one, and then does nothing.
Scan ==
    /\ job["low"].pc = "idle" /\ low > 0
    /\ GoOn("low", "look")
    /\ UNCHANGED <<low, inbox, page, behind, sub, faults>>

\* Mutant: nobody looks for an alert that is still unread.
ScanAlways ==
    /\ job["low"].pc = "look"
    /\ GoOn("low", "create")
    /\ UNCHANGED <<low, inbox, page, behind, sub, faults>>

\* Mutant: an unread alert of any kind will do.
ScanForAny ==
    /\ job["low"].pc = "look"
    /\ GoOn("low", IF Unread > 0 THEN "idle" ELSE "create")
    /\ UNCHANGED <<low, inbox, page, behind, sub, faults>>

ScanInbox ==
    /\ job["low"].pc = "look"
    /\ GoOn("low", IF inbox["low"] > 0 THEN "idle" ELSE "create")
    /\ UNCHANGED <<low, inbox, page, behind, sub, faults>>

\* A drawer that was off, or a return above the threshold.
RaiseEvent ==
    /\ job["event"].pc = "idle" /\ inbox["event"] < MaxUnread
    /\ GoOn("event", "create")
    /\ UNCHANGED <<low, inbox, page, behind, sub, faults>>

\* SummaryCron.run and runNow; the figures are not part of the model.
Summarise ==
    /\ job["event"].pc = "idle" /\ inbox["event"] < MaxUnread
    /\ job' = [job EXCEPT !["event"] = [Idle EXCEPT !.pc = "build", !.push = FALSE]]
    /\ UNCHANGED <<low, inbox, page, behind, sub, faults>>

BuildSummary ==
    /\ job["event"].pc = "build"
    /\ GoOn("event", "deliver")
    /\ UNCHANGED <<low, inbox, page, behind, sub, faults>>

\* By WhatsApp, else by mail, else to the log: it never fails, but may never end,
\* and the alert is only stored after it.
Deliver ==
    /\ job["event"].pc = "deliver"
    /\ GoOn("event", "create")
    /\ UNCHANGED <<low, inbox, page, behind, sub, faults>>

-----------------------------------------------------------------------------
(* AlertsService.createAndBroadcast *)

CreateAlert(j) ==
    /\ job[j].pc = "create"
    /\ inbox' = [inbox EXCEPT ![j] = @ + 1]
    /\ GoOn(j, "emit")
    /\ UNCHANGED <<low, page, behind, sub, faults>>

\* A refresh whose figures are already read will undo an alert of now.
Outdated(w) ==
    [i \in Fetches |-> LET f == page[w].fetch[i] IN [f EXCEPT !.late = @ \/ f.pc = "read"]]

\* The store's handler of an alert.
Rung(w) == [page[w] EXCEPT !.badge = IF @ = MaxBadge THEN @ ELSE @ + 1, !.fetch = Outdated(w)]

Missed(w) == [page[w] EXCEPT !.fetch = Outdated(w)]

Subscribed == {p \in Phones : sub[p].row}

\* Mutant: the summary is not sent over the sockets either.
EmitActionable(j) ==
    /\ job[j].pc = "emit"
    /\ page' = [w \in Windows |-> IF page[w].on /\ job[j].push THEN Rung(w) ELSE Missed(w)]
    /\ behind' = behind \cup {w \in Windows : ~page[w].on}
    /\ job' = [job EXCEPT ![j] = IF ~@.push \/ Subscribed = {} THEN Idle
                                 ELSE [@ EXCEPT !.pc = "push", !.phones = Subscribed]]
    /\ UNCHANGED <<low, inbox, sub, faults>>

\* Then the subscriptions are read, except for the summary.
Emit(j) ==
    /\ job[j].pc = "emit"
    /\ page' = [w \in Windows |-> IF page[w].on THEN Rung(w) ELSE Missed(w)]
    /\ behind' = behind \cup {w \in Windows : ~page[w].on}
    /\ job' = [job EXCEPT ![j] = IF ~@.push \/ Subscribed = {} THEN Idle
                                 ELSE [@ EXCEPT !.pc = "push", !.phones = Subscribed]]
    /\ UNCHANGED <<low, inbox, sub, faults>>

\* sendToManagers: a push service that does not know the subscription any more
\* has its row deleted, other errors are ignored.
Push(j, p) ==
    /\ job[j].pc = "push" /\ p \in job[j].phones
    /\ job' = [job EXCEPT ![j] = IF @.phones = {p} THEN Idle ELSE [@ EXCEPT !.phones = job[j].phones \ {p}]]
    /\ sub' = [sub EXCEPT ![p].row = @ /\ sub[p].alive]
    /\ UNCHANGED <<low, inbox, page, behind, faults>>

-----------------------------------------------------------------------------
(* The windows: store/alerts.ts.  Nothing keeps two refreshes apart: their answers *)
(* come in any order, and each is shown as it comes.                               *)

\* A page loaded anew opens the socket and refreshes; a socket that comes back
\* does not.
Connect(w, fresh) ==
    /\ ~page[w].on
    /\ \/ fresh /\ \E i \in Fetches :
                page' = [page EXCEPT ![w] = [on |-> TRUE, badge |-> 0,
                                             fetch |-> [k \in Fetches |-> IF k = i THEN Asked ELSE NoFetch]]]
       \/ ~fresh /\ page' = [page EXCEPT ![w].on = TRUE]
    /\ behind' = behind \cup {w}
    /\ UNCHANGED <<low, inbox, job, sub, faults>>

Disconnect(w) ==
    /\ page[w].on
    /\ page' = [page EXCEPT ![w].on = FALSE]
    /\ UNCHANGED <<low, inbox, job, behind, sub, faults>>

\* The bell is pressed, to open the list or to close it.
Refresh(w, i) ==
    /\ page[w].fetch[i].pc = "idle"
    /\ page' = [page EXCEPT ![w].fetch[i] = Asked]
    /\ UNCHANGED <<low, inbox, job, behind, sub, faults>>

CountUnread(w, i) ==
    /\ page[w].fetch[i].pc = "asked"
    /\ page' = [page EXCEPT ![w].fetch[i] = [pc |-> "read", count |-> Unread, late |-> FALSE]]
    /\ UNCHANGED <<low, inbox, job, behind, sub, faults>>

ShowInbox(w, i) ==
    LET f == page[w].fetch[i] IN
    /\ f.pc = "read"
    /\ page' = [page EXCEPT ![w] = [@ EXCEPT !.badge = f.count, !.fetch[i] = NoFetch]]
    /\ behind' = IF page[w].on /\ ~f.late THEN behind \ {w} ELSE behind \cup {w}
    /\ UNCHANGED <<low, inbox, job, sub, faults>>

\* The list or the count was refused, or the shop is offline.
RefreshFails(w, i) ==
    /\ page[w].fetch[i].pc # "idle"
    /\ page' = [page EXCEPT ![w].fetch[i] = NoFetch]
    /\ UNCHANGED <<low, inbox, job, behind, sub, faults>>

\* markRead and markAll, in a window that refreshes then or on a phone.
MarkRead(K) ==
    /\ \E k \in K : inbox[k] > 0
    /\ inbox' = [k \in Kinds |-> IF K = Kinds THEN 0
                                 ELSE IF k \in K THEN inbox[k] - 1 ELSE inbox[k]]
    /\ \/ page' = page
       \/ \E w \in Windows, i \in Fetches :
             /\ page[w].fetch[i].pc = "idle"
             /\ page' = [page EXCEPT ![w].fetch[i] = Asked]
    /\ UNCHANGED <<low, job, behind, sub, faults>>

-----------------------------------------------------------------------------
(* The phones: PushToggle and PushService *)

\* The browser subscribes, and the backend is told; that may fail.
EnablePush(p) ==
    /\ ~sub[p].shown
    /\ \E told \in BOOLEAN :
          sub' = [sub EXCEPT ![p] = [alive |-> TRUE, row |-> @.row \/ told, shown |-> told]]
    /\ UNCHANGED <<low, inbox, job, page, behind, faults>>

\* The page asks the browser, not the backend, whether push is on.
OpenPhone(p) ==
    /\ sub' = [sub EXCEPT ![p].shown = sub[p].alive]
    /\ UNCHANGED <<low, inbox, job, page, behind, faults>>

SubscriptionEnds(p) ==
    /\ sub[p].alive
    /\ sub' = [sub EXCEPT ![p].alive = FALSE]
    /\ UNCHANGED <<low, inbox, job, page, behind, faults>>

-----------------------------------------------------------------------------
\* A statement fails, and what raised the alert goes on without it.
RaiseFails(j) ==
    /\ job[j].pc \notin {"idle", "deliver"} /\ faults < MaxFaults
    /\ job' = [job EXCEPT ![j] = Idle]
    /\ \/ /\ job[j].pc = "emit"
          /\ behind' = Windows
          /\ page' = [w \in Windows |-> Missed(w)]
       \/ /\ job[j].pc # "emit"
          /\ UNCHANGED <<behind, page>>
    /\ faults' = faults + 1
    /\ UNCHANGED <<low, inbox, sub>>

\* The sockets break; an alert that was created is not sent again.
RestartServer ==
    /\ faults < MaxFaults
    /\ job' = [j \in Jobs |-> Idle]
    /\ page' = [w \in Windows |-> [Missed(w) EXCEPT !.on = FALSE]]
    /\ behind' = Windows
    /\ faults' = faults + 1
    /\ UNCHANGED <<low, inbox, sub>>

-----------------------------------------------------------------------------
Raise(j) ==
    \/ CreateAlert(j) \/ Emit(j) \/ \E p \in Phones : Push(j, p)
    \/ j = "low" /\ (Scan \/ ScanInbox)
    \/ j = "event" /\ (BuildSummary \/ Deliver)

NoticesNext ==
    \/ StockMoves \/ RaiseEvent \/ Summarise \/ RestartServer
    \/ \E j \in Jobs : Raise(j) \/ RaiseFails(j)
    \/ MarkRead(Kinds) \/ \E k \in Kinds : MarkRead({k})
    \/ \E w \in Windows :
        \/ Disconnect(w) \/ \E fresh \in BOOLEAN : Connect(w, fresh)
        \/ \E i \in Fetches :
              Refresh(w, i) \/ CountUnread(w, i) \/ ShowInbox(w, i) \/ RefreshFails(w, i)
    \/ \E p \in Phones : EnablePush(p) \/ OpenPhone(p) \/ SubscriptionEnds(p)

\* The scheduler goes on calling the watch, and a statement comes to an end.  That
\* a scan sees a low row is asked only where it cannot miss them all.
Watch == Raise("low") /\ (Scan => SurelyLow)

NoticesFairness == WF_noticesVars(Watch)

NoticesSpec == NoticesInit /\ [][NoticesNext]_noticesVars /\ NoticesFairness

-----------------------------------------------------------------------------
(* Properties *)

\* Stock that stays low, in more rows than a scan may leave out, is alerted again
\* and again until somebody leaves the alert unread: reading it does not silence
\* the watch for good.
LowIsAlerted == []<>(SurelyLow => inbox["low"] > 0)

\* The watch does not pile up alerts nobody has read.
OneUnreadLow == inbox["low"] <= 1

\* Alerts that are stored and not yet sent to the windows.
Emitting == {j \in Jobs : job[j].pc = "emit"}

\* However many of its refreshes are under way and in whatever order they are
\* answered, the badge of a connected window never shows fewer alerts than are
\* unread, if it missed none since the refresh it shows and that one undid none;
\* marks made elsewhere leave it too high.
BadgeNotUnder ==
    \A w \in Windows :
        page[w].on /\ w \notin behind => page[w].badge >= Unread - Cardinality(Emitting)
=============================================================================
