------------------------------ MODULE Accounts ------------------------------
(***************************************************************************)
(* Users, roles and logins of the backend: UsersService, EmployeesService  *)
(* and AuthService behind AuthGuard, and what the page Users.tsx offers.   *)
(*                                                                         *)
(* A request is served in three steps with other requests in between: the  *)
(* guard reads the actor's row (Accept), the handler reads the target's    *)
(* row and checks (Decide), and after a password hash it writes (Perform). *)
(* What is typed into a request is chosen where it is first looked at.     *)
(***************************************************************************)
EXTENDS Naturals, FiniteSets

CONSTANTS
    Users,      \* user names, stored or not
    Owner,      \* the account seeded with isOwner
    Fold,       \* Fold[u]: u with its alef variants folded
    Typed,      \* the names logins are tried with
    Reqs,       \* requests that may be served at a time
    NoUser,
    MaxFails    \* MAX_FAILS

ASSUME AccountsAssumption ==
    /\ Owner \in Users
    /\ NoUser \notin Users
    /\ Fold \in [Users -> Users]
    /\ Fold[Owner] = Owner
    /\ Typed \subseteq Users
    /\ IsFiniteSet(Reqs)
    /\ MaxFails \in Nat \ {0}

VARIABLES
    row,        \* row[u]: the User row of name u
    fails,      \* fails[n]: failed attempts with name n in the last 10 minutes
    req,        \* req[r]: the request served in slot r
    seed        \* what the seed, run at a deployment, has still to do

accountVars == <<row, fails, req, seed>>

Roles == {"owner", "manager", "employee"}
Level == [x \in Roles |-> CASE x = "owner" -> 100 [] x = "manager" -> 50 [] OTHER -> 10]

\* secret: who made the password: the user, somebody else, or tempPassword().
Row == [exists: BOOLEAN, role: Roles, level: {10, 50, 100}, active: BOOLEAN,
        force: BOOLEAN, secret: {"own", "given", "temp"}]
NoRow == [exists |-> FALSE, role |-> "employee", level |-> 10, active |-> FALSE,
          force |-> FALSE, secret |-> "given"]

Giving == {"create", "update", "role", "hire", "assign"}     \* requests that name a role
Unmodelled == {"contact", "perms"}                           \* that write what is left out
AdminOps == Giving \cup Unmodelled \cup {"reset", "activate", "remove"}

Req == [pc: {"idle", "accepted", "decided", "compare"}, op: AdminOps \cup {"admin", "password", "login"},
        actor: Users \cup {NoUser}, arole: Roles, target: Users \cup {NoUser}, role: Roles]
Idle == [pc |-> "idle", op |-> "admin", actor |-> NoUser, arole |-> "employee",
         target |-> NoUser, role |-> "employee"]

AccountsInit ==
    /\ row = [u \in Users |-> IF u = Owner
                              THEN [exists |-> TRUE, role |-> "owner", level |-> 100, active |-> TRUE,
                                    force |-> TRUE, secret |-> "given"]
                              ELSE NoRow]
    /\ fails = [n \in Users |-> 0]
    /\ req = [r \in Reqs |-> Idle]
    /\ seed = "done"

-----------------------------------------------------------------------------
(* AuthGuard *)

\* An active account passes; with a temporary password only to change it;
\* the user administration takes level 50.
Passes(a, op) ==
    /\ row[a].exists /\ row[a].active
    /\ row[a].force => op = "password"
    /\ op = "admin" => row[a].level >= 50

Accept(r, a, op) ==
    /\ req[r].pc = "idle"
    /\ Passes(a, op)
    /\ req' = [req EXCEPT ![r] = [Idle EXCEPT !.pc = "accepted", !.op = op, !.actor = a,
                                              !.arole = IF op = "admin" THEN row[a].role ELSE @]]
    /\ UNCHANGED <<row, fails, seed>>

-----------------------------------------------------------------------------
(* The checks, on the actor the guard read and the target's row *)

CanMutate(a, arole, t) ==
    \/ a = Owner
    \/ a = t
    \/ arole = "manager" /\ row[t].role = "employee"

\* Neither the name nor its folded spelling is taken.
NameFree(n) == ~row[n].exists /\ (Fold[n] # n => ~row[Fold[n]].exists)

\* A role may be given by whoever has its level.
MayGive(arole, x) == x # "owner" /\ Level[x] <= Level[arole]

\* EmployeesService: a name is compared as typed; an employee's role is changed
\* by anyone of the level of the new one, who need not have that of the old one.
AllowedHire(arole, t, x) == ~row[t].exists /\ MayGive(arole, x)
AllowedAssign(arole, t, x) == row[t].exists /\ t # Owner /\ Level[x] <= Level[arole]

\* Contact data: one's own, the owner's included, or as canMutate has it.
AllowedContact(a, arole, t) ==
    row[t].exists /\ (a = t \/ (t # Owner /\ CanMutate(a, arole, t)))

Allowed(op, a, arole, t, x) ==
    \/ op = "create" /\ NameFree(t) /\ MayGive(arole, x)
    \/ op = "hire" /\ AllowedHire(arole, t, x)
    \/ op = "assign" /\ AllowedAssign(arole, t, x)
    \/ op = "contact" /\ AllowedContact(a, arole, t)
    \/ /\ row[t].exists
       /\ t # Owner
       /\ CanMutate(a, arole, t)
       /\ \/ op \in {"update", "role"} /\ a # t /\ MayGive(arole, x)
          \/ op \in {"reset", "remove"} /\ a # t
          \/ op = "perms" /\ a # t /\ a = Owner
          \/ op = "activate" /\ ~row[t].active

\* What is still to be written.  Contact data and the list of permissions are
\* not part of the model, and a role is written the same way by both services.
ToWrite(op, t, x) ==
    IF op \in Unmodelled THEN Idle
    ELSE [Idle EXCEPT !.pc = "decided", !.op = IF op = "assign" THEN "role" ELSE op,
                      !.target = t, !.role = x]

Decide(r, op, t, x) ==
    /\ req[r].pc = "accepted" /\ req[r].op = "admin"
    /\ op \notin Giving => x = Idle.role
    /\ Allowed(op, req[r].actor, req[r].arole, t, x)
    /\ req' = [req EXCEPT ![r] = ToWrite(op, t, x)]
    /\ UNCHANGED <<row, fails, seed>>

\* AuthService.changePassword: the current password is asked for unless the
\* change is forced; a wrong one is a Refuse.
DecidePassword(r) ==
    /\ req[r].pc = "accepted" /\ req[r].op = "password"
    /\ req' = [req EXCEPT ![r] = [Idle EXCEPT !.pc = "decided", !.op = "password",
                                              !.target = req[r].actor]]
    /\ UNCHANGED <<row, fails, seed>>

\* Any check that fails, and any failing statement.
Refuse(r) ==
    /\ req[r].pc \in {"accepted", "decided"}
    /\ req' = [req EXCEPT ![r] = Idle]
    /\ UNCHANGED <<row, fails, seed>>

-----------------------------------------------------------------------------
(* The writes *)

Decided(r, op) == req[r].pc = "decided" /\ req[r].op = op

Store(r, u) ==
    /\ row' = [row EXCEPT ![req[r].target] = u]
    /\ req' = [req EXCEPT ![r] = Idle]
    /\ UNCHANGED <<fails, seed>>

Target(r) == row[req[r].target]
WithRole(u, x) == [u EXCEPT !.role = x, !.level = Level[x]]

\* A password typed by the administrator, or generated and to be changed.
Secrets == {<<"given", FALSE>>, <<"temp", TRUE>>}
WithSecret(u, s) == [u EXCEPT !.secret = s[1], !.force = s[2]]

\* The unique index on username refuses a name taken since it was checked.
Create(r) ==
    /\ Decided(r, "create")
    /\ ~Target(r).exists
    /\ \E s \in Secrets :
          Store(r, WithSecret(WithRole([Target(r) EXCEPT !.exists = TRUE, !.active = TRUE], req[r].role), s))

\* EmployeesService.create; the Employee row follows, for this or an older user.
Hire(r) ==
    /\ Decided(r, "hire")
    /\ ~Target(r).exists
    /\ Store(r, WithRole([NoRow EXCEPT !.exists = TRUE, !.active = TRUE], req[r].role))

\* Role and isActive are optional.
Update(r) ==
    /\ Decided(r, "update")
    /\ \E active \in BOOLEAN, u \in {Target(r), WithRole(Target(r), req[r].role)} :
          Store(r, [u EXCEPT !.active = active])

ResetPassword(r) ==
    /\ Decided(r, "reset")
    /\ \E s \in Secrets : Store(r, WithSecret(Target(r), s))

\* Mutant: the role is changed without its level.
ChangeRoleOnly(r) == Decided(r, "role") /\ Store(r, [Target(r) EXCEPT !.role = req[r].role])

ChangeRole(r) == Decided(r, "role") /\ Store(r, WithRole(Target(r), req[r].role))

Activate(r) == Decided(r, "activate") /\ Store(r, [Target(r) EXCEPT !.active = TRUE])

Remove(r) == Decided(r, "remove") /\ Store(r, [Target(r) EXCEPT !.active = FALSE])

ChangePassword(r) ==
    /\ Decided(r, "password")
    /\ Store(r, [Target(r) EXCEPT !.secret = "own", !.force = FALSE])

Perform(r) ==
    \/ Create(r) \/ Hire(r) \/ Update(r) \/ ResetPassword(r) \/ ChangeRole(r)
    \/ Activate(r) \/ Remove(r) \/ ChangePassword(r)

-----------------------------------------------------------------------------
(* The seed, run at every deployment *)

\* Mutant: the flag is not looked at.
SeedReadsNoFlag ==
    /\ seed = "done"
    /\ row' = [row EXCEPT ![Owner] = [WithRole(row[Owner], "owner") EXCEPT !.active = TRUE]]
    /\ seed' = "hashing"
    /\ UNCHANGED <<fails, req>>

\* It repairs the owner's row, reads whether its password is still to be changed,
\* and if so hashes the one of the environment.
SeedReads ==
    /\ seed = "done"
    /\ row' = [row EXCEPT ![Owner] = [WithRole(row[Owner], "owner") EXCEPT !.active = TRUE]]
    /\ seed' = IF row[Owner].force THEN "hashing" ELSE "done"
    /\ UNCHANGED <<fails, req>>

\* The hash is stored without another look at the flag.
SeedStores ==
    /\ seed = "hashing"
    /\ row' = [row EXCEPT ![Owner].secret = "given"]
    /\ seed' = "lockout"
    /\ UNCHANGED <<fails, req>>

SeedForgives ==
    /\ seed = "lockout"
    /\ fails' = [fails EXCEPT ![Owner] = 0]
    /\ seed' = "done"
    /\ UNCHANGED <<row, req>>

\* A failing statement ends it.
SeedFails == seed # "done" /\ seed' = "done" /\ UNCHANGED <<row, fails, req>>

Reseed == SeedReads \/ SeedStores \/ SeedForgives \/ SeedFails

-----------------------------------------------------------------------------
(* AuthService.login *)

\* The row of the name as typed, or else of its folded spelling.
Found(n) == IF row[n].exists THEN row[n] ELSE row[Fold[n]]

\* Mutant: the limit is exceeded before it locks.
CountFailsLate(r, n) ==
    /\ req[r].pc = "idle"
    /\ fails[n] <= MaxFails
    /\ req' = [req EXCEPT ![r] = [Idle EXCEPT !.pc = "compare", !.op = "login", !.target = n]]
    /\ UNCHANGED <<row, fails, seed>>

CountFails(r, n) ==
    /\ req[r].pc = "idle"
    /\ fails[n] < MaxFails
    /\ req' = [req EXCEPT ![r] = [Idle EXCEPT !.pc = "compare", !.op = "login", !.target = n]]
    /\ UNCHANGED <<row, fails, seed>>

\* A missing or inactive account, or a wrong password.
LoginFails(r) ==
    /\ req[r].pc = "compare"
    /\ fails' = [fails EXCEPT ![req[r].target] = @ + 1]
    /\ req' = [req EXCEPT ![r] = Idle]
    /\ UNCHANGED <<row, seed>>

\* Success stores no failure, and does not clear earlier ones.
LoginSucceeds(r) ==
    /\ req[r].pc = "compare"
    /\ Found(req[r].target).active
    /\ req' = [req EXCEPT ![r] = Idle]
    /\ UNCHANGED <<row, fails, seed>>

\* A failure leaves the window.
Forget(n) ==
    /\ fails[n] > 0
    /\ fails' = [fails EXCEPT ![n] = @ - 1]
    /\ UNCHANGED <<row, req, seed>>

-----------------------------------------------------------------------------
Handle(r) ==
    \/ \E a \in Users, op \in {"admin", "password"} : Accept(r, a, op)
    \/ \E op \in AdminOps, t \in Users, x \in Roles : Decide(r, op, t, x)
    \/ DecidePassword(r)
    \/ Refuse(r)
    \/ Perform(r)
    \/ \E n \in Typed : CountFails(r, n)
    \/ LoginFails(r)
    \/ LoginSucceeds(r)

AccountsNext ==
    \/ \E r \in Reqs : Handle(r)
    \/ Reseed
    \/ \E n \in Typed : Forget(n)

AccountsSpec == AccountsInit /\ [][AccountsNext]_accountVars

-----------------------------------------------------------------------------
(* The page Users.tsx: which buttons it shows me for the row of t *)

CanEdit(me, t) ==
    IF t = Owner THEN me = t
    ELSE me = t \/ me = Owner \/ (row[me].role = "manager" /\ row[t].role = "employee")

\* Mutant: managers are shown the button for each other.
CanDisablePeers(me, t) == t # Owner /\ me # t

CanDisable(me, t) ==
    /\ t # Owner /\ me # t
    /\ me = Owner \/ (row[me].role = "manager" /\ row[t].role = "employee")

OwnerMay(me, t) == t # Owner /\ me # t /\ me = Owner

\* checkUsernameAvailable, which the page asks while a name is typed.
Available(n) == ~row[n].exists /\ (Fold[n] # n => ~row[Fold[n]].exists)

\* What its radio buttons let one choose.
RoleChoices == {"manager", "employee"}

NewAccount(n, x) == Available(n) /\ x \in RoleChoices

\* The buttons in the row of t.
Button(op, me, t) ==
    \/ op = "contact" /\ CanEdit(me, t)
    \/ op = "activate" /\ ~row[t].active /\ CanEdit(me, t)
    \/ op \in {"reset", "remove"} /\ CanDisable(me, t)
    \/ op \in {"role", "perms"} /\ OwnerMay(me, t)

Offers(op, me, t, x) ==
    \/ op = "create" /\ NewAccount(t, x)
    \/ /\ row[t].exists /\ Button(op, me, t)
       /\ op = "role" => x \in RoleChoices

-----------------------------------------------------------------------------
(* Properties *)

\* Role and level go together, and a generated password must be changed.
AccountsTypeOK ==
    /\ row \in [Users -> Row]
    /\ fails \in [Users -> Nat]
    /\ req \in [Reqs -> Req]
    /\ seed \in {"done", "hashing", "lockout"}
    /\ \A u \in Users :
          /\ row[u].level = Level[row[u].role]
          /\ row[u].secret = "temp" => row[u].force

\* Whatever requests and seeds overlap, nobody takes the owner's account away: it
\* stays active and of its role.  Once the owner has chosen a password, its change
\* is never forced, no seed sets out to replace it, and nothing replaces it but a
\* seed that had read the flag before the choice.
OwnerUntouched ==
    [][/\ row'[Owner].exists /\ row'[Owner].active /\ row'[Owner].role = "owner"
       /\ row[Owner].secret = "own" =>
             /\ ~row'[Owner].force
             /\ seed' = "hashing" => seed = "hashing"
             /\ row'[Owner].secret = "own" \/ seed = "hashing"]_accountVars

\* The count and the attempt it guards are two statements: the limit is
\* overrun by those who counted together, and by no more.
GuessesBounded == \A n \in Users : fails[n] <= MaxFails - 1 + Cardinality(Reqs)

\* What the page offers on rows that are up to date, the server accepts: the
\* rules are written twice.
OfferedIsAccepted ==
    \A me \in {u \in Users : Passes(u, "admin")}, op \in AdminOps :
        \A t \in Users, x \in Roles :
            Offers(op, me, t, x) => Allowed(op, me, row[me].role, t, x)
=============================================================================
