------------------------------ MODULE MCOffice ------------------------------
(***************************************************************************)
(* The back office for TLC in one run: the stock, the accounts, the        *)
(* sessions of those who log in, and the settings they flip.  The modules  *)
(* share no state, so a behaviour follows one of them and leaves the       *)
(* others alone.                                                           *)
(***************************************************************************)
EXTENDS Stock, Accounts, Session, Settings, TLC

CONSTANTS flour, kit, boss, plain, hamza, ann, bob, a1, a2, g1

VARIABLE part

\* A kit of one flour.
Bundle == [i \in Items |-> IF i = kit THEN {flour} ELSE {}]

Spelling == [u \in Users |-> IF u = hamza THEN plain ELSE u]
Levels == [u \in Staff |-> IF u = ann THEN 50 ELSE 10]

\* Requests, of the stock and of the accounts, and windows.
Alike == Permutations({a1, a2})

officeVars == <<part, stockVars, accountVars, sessionVars, settingsVars>>

OfficeInit ==
    /\ part \in {"stock", "accounts", "session", "settings"}
    /\ StockInit /\ AccountsInit /\ SessionInit /\ SettingsInit

OfficeNext ==
    \/ part = "stock" /\ StockNext /\ UNCHANGED <<part, accountVars, sessionVars, settingsVars>>
    \/ part = "accounts" /\ AccountsNext /\ UNCHANGED <<part, stockVars, sessionVars, settingsVars>>
    \/ part = "session" /\ SessionNext /\ UNCHANGED <<part, stockVars, accountVars, settingsVars>>
    \/ part = "settings" /\ SettingsNext /\ UNCHANGED <<part, stockVars, accountVars, sessionVars>>

OfficeSpec == OfficeInit /\ [][OfficeNext]_officeVars

\* One initial state of the sessions is enough while another part is followed.
OneSession == part # "session" => stored = Nobody /\ \A u \in Staff : ~account[u].force

\* Logins read nothing of an account but whether it is active: failures are
\* counted while no other request is under way.
LoginsApart ==
    (\E n \in Typed : fails[n] > 0) =>
        \A r \in Reqs : req[r].pc \in {"idle", "compare"}

\* The seed is run while one request is under way, or none.
SeedOverOne == seed # "done" => \A r, o \in Reqs : r # o => "idle" \in {req[r].pc, req[o].pc}

\* What follows a password the seed replaced is not followed.
NotReplaced == row[Owner].secret = "given" => row[Owner].force

\* Windows where a login overtook a logout are followed no further.
NotHasty == ~hasty
=============================================================================
