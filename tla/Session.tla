------------------------------ MODULE Session ------------------------------
(***************************************************************************)
(* One window of the web application and the session it holds: the store   *)
(* auth.ts with its copy in localStorage, the axios interceptors of        *)
(* api.ts, and the screens of App.tsx and Login.tsx.  The accounts it logs *)
(* into are changed meanwhile by the administration (module Accounts).     *)
(* Every request is sent, served and heard in three steps.                 *)
(***************************************************************************)
EXTENDS Naturals

CONSTANTS
    Staff,      \* the accounts that log in here
    StaffLevel, \* StaffLevel[u]: the permission level of u
    Nobody

ASSUME SessionAssumption ==
    /\ Nobody \notin Staff
    /\ StaffLevel \in [Staff -> {10, 50, 100}]

VARIABLES
    account,    \* account[u]: the row of u
    stored,     \* whose token localStorage holds
    me,         \* the user of the store
    view,       \* the flags of the page
    call,       \* call[k]: the request of kind k under way
    hasty       \* history: a login was sent while a logout was unanswered

sessionVars == <<account, stored, me, view, call, hasty>>

Kinds == {"init", "login", "password", "refresh", "logout", "work"}
Nothing == [who |-> Nobody, force |-> FALSE]
NoCall == [st |-> "none", who |-> Nobody, force |-> FALSE]

\* ready: the session was revalidated; slash: the path is / and not /login.
FreshView(slash) == [ready |-> FALSE, locked |-> FALSE, pwChanged |-> FALSE,
                     slash |-> slash, leaving |-> FALSE]

SessionInit ==
    /\ account \in [Staff -> [active : {TRUE}, force : BOOLEAN]]
    /\ stored \in Staff \cup {Nobody}
    /\ me = Nothing
    /\ view = FreshView(TRUE)
    /\ call = [k \in Kinds |-> NoCall]
    /\ hasty = FALSE

\* Shell: the first of its returns that applies.
Screen ==
    IF ~view.ready THEN "loading"
    ELSE IF me.who = Nobody \/ view.locked THEN "login"
    ELSE IF me.force /\ ~view.pwChanged THEN "gate"
    ELSE "shell"

\* The pages a level opens: the till for all, the tabs and routes by level.
Opens(u, level) == StaffLevel[u] >= level

-----------------------------------------------------------------------------
(* Requests: the first interceptor sends what localStorage holds *)

Send(k, u) ==
    /\ call[k].st = "none"
    /\ call' = [call EXCEPT ![k] = [NoCall EXCEPT !.st = "sent", !.who = u]]

\* A 401 has moreover taken the page to /login, unless that is its path already.
Left(k) == view.leaving \/ (call[k].st = "refused" /\ view.slash)

\* The session is gone from the store and from localStorage.
Forgotten(k) ==
    /\ stored' = Nobody /\ me' = Nothing
    /\ view' = [view EXCEPT !.ready = TRUE, !.leaving = Left(k)]

Start ==
    /\ ~view.ready
    /\ IF stored = Nobody
       THEN view' = [view EXCEPT !.ready = TRUE] /\ UNCHANGED call
       ELSE Send("init", stored) /\ UNCHANGED view
    /\ UNCHANGED <<account, stored, me, hasty>>

SubmitLogin(u) ==
    /\ Screen = "login"
    /\ Send("login", u)
    /\ hasty' = (hasty \/ call["logout"].st # "none")
    /\ UNCHANGED <<account, stored, me, view>>

\* ForceChangeGate, not busy with an earlier submit.
SubmitPassword ==
    /\ Screen = "gate"
    /\ call["refresh"].st = "none"
    /\ Send("password", stored)
    /\ UNCHANGED <<account, stored, me, view, hasty>>

\* Lock leaves the session as it is.
Lock ==
    /\ Screen = "shell"
    /\ view' = [view EXCEPT !.locked = TRUE]
    /\ UNCHANGED <<account, stored, me, call, hasty>>

Logout ==
    /\ Screen = "shell"
    /\ Send("logout", stored)
    /\ UNCHANGED <<account, stored, me, view, hasty>>

\* Any other request of a page the user's copy opens.
Work(level) ==
    /\ Screen = "shell"
    /\ Opens(me.who, level)
    /\ Send("work", stored)
    /\ UNCHANGED <<account, stored, me, view, hasty>>

\* The page is loaded anew; what was under way is not heard any more.
Reload ==
    /\ view' = FreshView(view.slash /\ ~view.leaving)
    /\ me' = Nothing
    /\ call' = [k \in Kinds |-> NoCall]
    /\ UNCHANGED <<account, stored, hasty>>

-----------------------------------------------------------------------------
(* The backend: AuthGuard, login, me and changePassword *)

Answer(k) ==
    LET u == call[k].who IN
    IF k = "login" THEN IF account[u].active THEN "ok" ELSE "failed"
    ELSE IF u = Nobody THEN "refused"
    ELSE IF ~account[u].active THEN "refused"
    ELSE IF account[u].force /\ k # "password" THEN "failed"
    ELSE "ok"

\* An answered call keeps its user where the answer names one.
Answered(k, a) ==
    call' = [call EXCEPT ![k] =
        IF a = "ok" /\ k \in {"init", "login", "refresh"}
        THEN [st |-> a, who |-> @.who, force |-> account[@.who].force]
        ELSE [NoCall EXCEPT !.st = a]]

Serve(k) ==
    /\ call[k].st = "sent"
    /\ Answered(k, Answer(k))
    /\ account' = IF k = "password" /\ Answer(k) = "ok"
                  THEN [account EXCEPT ![call[k].who].force = FALSE] ELSE account
    /\ UNCHANGED <<stored, me, view, hasty>>

\* A wrong password, a missing permission, or no answer: the same to the page.
Fail(k) ==
    /\ call[k].st \notin {"none", "failed"}
    /\ Answered(k, "failed")
    /\ UNCHANGED <<account, stored, me, view, hasty>>

\* The administration disables, enables or resets an account.
Administer(u) ==
    /\ \/ account' = [account EXCEPT ![u].active = ~@]
       \/ ~account[u].force /\ account' = [account EXCEPT ![u].force = TRUE]
    /\ UNCHANGED <<stored, me, view, call, hasty>>

-----------------------------------------------------------------------------
(* Answers *)

Heard(k) == call' = [call EXCEPT ![k] = NoCall]

\* Mutant: unlocking keeps the user who locked.
HearLoginUnlock ==
    /\ call["login"].st = "ok"
    /\ stored' = call["login"].who
    /\ me' = IF me.who # Nobody THEN me ELSE [who |-> call["login"].who, force |-> call["login"].force]
    /\ view' = [view EXCEPT !.ready = TRUE, !.locked = FALSE, !.pwChanged = FALSE]
    /\ Heard("login")
    /\ UNCHANGED <<account, hasty>>

HearLogin ==
    /\ call["login"].st = "ok"
    /\ stored' = call["login"].who
    /\ me' = [who |-> call["login"].who, force |-> call["login"].force]
    /\ view' = [view EXCEPT !.ready = TRUE, !.locked = FALSE, !.pwChanged = FALSE]
    /\ Heard("login")
    /\ UNCHANGED <<account, hasty>>

HearInit ==
    /\ call["init"].st \in {"ok", "failed", "refused"}
    /\ IF call["init"].st = "ok"
       THEN /\ me' = [who |-> call["init"].who, force |-> call["init"].force]
            /\ view' = [view EXCEPT !.ready = TRUE]
            /\ UNCHANGED stored
       ELSE Forgotten("init")
    /\ Heard("init")
    /\ UNCHANGED <<account, hasty>>

\* Mutant: the gate opens without refreshing the user.
HearPasswordUnread ==
    /\ call["password"].st = "ok"
    /\ Heard("password")
    /\ view' = [view EXCEPT !.pwChanged = TRUE]
    /\ UNCHANGED <<account, stored, me, hasty>>

\* The gate refreshes the user before it opens.
HearPassword ==
    /\ call["password"].st = "ok"
    /\ call' = [call EXCEPT !["password"] = NoCall,
                            !["refresh"] = [NoCall EXCEPT !.st = "sent", !.who = stored]]
    /\ UNCHANGED <<account, stored, me, view, hasty>>

HearRefresh ==
    /\ call["refresh"].st = "ok"
    /\ me' = [who |-> call["refresh"].who, force |-> call["refresh"].force]
    /\ view' = [view EXCEPT !.pwChanged = TRUE]
    /\ Heard("refresh")
    /\ UNCHANGED <<account, stored, hasty>>

\* Mutant: only the token is removed.
HearLogoutToken ==
    /\ call["logout"].st \in {"ok", "failed", "refused"}
    /\ stored' = Nobody
    /\ Heard("logout")
    /\ UNCHANGED <<account, me, view, hasty>>

\* However it was answered, 401 included.
HearLogout ==
    /\ call["logout"].st \in {"ok", "failed", "refused"}
    /\ Forgotten("logout")
    /\ Heard("logout")
    /\ UNCHANGED <<account, hasty>>

\* The second interceptor: a 401 ends the session.
HearRefused(k) ==
    /\ k \in {"password", "refresh", "work"}
    /\ call[k].st = "refused"
    /\ stored' = Nobody
    /\ view' = [view EXCEPT !.leaving = Left(k)]
    /\ Heard(k)
    /\ UNCHANGED <<account, me, hasty>>

\* An error is shown.
HearNothing(k) ==
    /\ k \in {"login", "password", "refresh", "work"}
    /\ call[k].st = "failed" \/ (k = "work" /\ call[k].st = "ok")
    /\ Heard(k)
    /\ UNCHANGED <<account, stored, me, view, hasty>>

-----------------------------------------------------------------------------
\* Once it is being left, a page does nothing but load.
SessionNext ==
    \/ Reload
    \/ \E u \in Staff : Administer(u)
    \/ \E k \in Kinds : Serve(k) \/ Fail(k)
    \/ /\ ~view.leaving
       /\ \/ Start \/ SubmitPassword \/ Lock \/ Logout
          \/ \E u \in Staff : SubmitLogin(u)
          \/ \E level \in {10, 50, 100} : Work(level)
          \/ HearLogin \/ HearInit \/ HearPassword \/ HearRefresh \/ HearLogout
          \/ \E k \in Kinds : HearRefused(k) \/ HearNothing(k)

SessionSpec == SessionInit /\ [][SessionNext]_sessionVars

-----------------------------------------------------------------------------
(* Properties *)

\* Nobody works in the shell whose copy still asks for a new password.
GateHolds == Screen = "shell" => ~me.force

\* The name on the screen is the one requests are made in, however answers
\* and logins overlap; a login sent over an unanswered logout voids it, since
\* the late refresh of one user may then replace the next one.
OneIdentity ==
    ~hasty /\ me.who # Nobody /\ stored # Nobody => stored = me.who

\* A shell whose session is gone is being left, except where the interceptor
\* takes the path /login for the login form: after a first 401 the window
\* stays on that path, and the next dead session keeps its shell.
DeadShellLeaves ==
    ~hasty /\ Screen = "shell" /\ stored = Nobody => view.leaving \/ ~view.slash
=============================================================================
