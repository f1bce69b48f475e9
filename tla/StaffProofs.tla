---------------------------- MODULE StaffProofs ----------------------------
(***************************************************************************)
(* What the staff sees and may do: accounts for any number of users and of *)
(* requests that overlap; one window and its session, for any number of    *)
(* accounts; the store switch for any number of windows, orders from       *)
(* outside and writes.                                                     *)
(***************************************************************************)
EXTENDS Accounts, Session, Settings, FiniteSetTheorems, TLAPS

-----------------------------------------------------------------------------
(***************************************************************************)
(* Accounts: roles and levels go together, guesses are bounded             *)
(***************************************************************************)
-----------------------------------------------------------------------------
(* Types *)

\* A request about to write or to compare knows its target.
Aimed == \A r \in Reqs : req[r].pc \in {"decided", "compare"} => req[r].target \in Users

\* The same of a request that was accepted, and its actor.
Acting == \A r \in Reqs : req[r].pc = "accepted" => req[r].actor \in Users

AccountsIInv == AccountsTypeOK /\ Aimed /\ Acting

LEMMA RolesHaveLevels ==
  /\ Level["owner"] = 100 /\ Level["manager"] = 50 /\ Level["employee"] = 10
  /\ \A x \in Roles : Level[x] \in {10, 50, 100}
  BY DEF Level, Roles

LEMMA IdleTyped == Idle \in Req /\ Idle.pc = "idle" /\ Idle.actor = NoUser
  BY DEF Idle, Req, Roles, AdminOps, Giving

LEMMA NoRowTyped == NoRow \in Row /\ NoRow.level = Level[NoRow.role] /\ NoRow.secret = "given"
  BY RolesHaveLevels DEF NoRow, Row, Roles

\* A row with its level, and with a generated password only if that must change.
Sound(u) == u \in Row /\ u.level = Level[u.role] /\ (u.secret = "temp" => u.force)

LEMMA WithRoleSound ==
  ASSUME NEW u, Sound(u), NEW x \in Roles
  PROVE  /\ Sound(WithRole(u, x)) /\ WithRole(u, x).role = x
         /\ WithRole(u, x).active = u.active /\ WithRole(u, x).exists = u.exists
         /\ WithRole(u, x).secret = u.secret /\ WithRole(u, x).force = u.force
  BY RolesHaveLevels DEF WithRole, Sound, Row

LEMMA WithSecretSound ==
  ASSUME NEW u, Sound(u), NEW s \in Secrets
  PROVE  Sound(WithSecret(u, s))
<1>1. CASE s = <<"given", FALSE>>
  <2>1. WithSecret(u, s) = [u EXCEPT !.secret = "given", !.force = FALSE]
    BY <1>1 DEF WithSecret
  <2> QED
    BY <2>1 DEF Sound, Row
<1>2. CASE s = <<"temp", TRUE>>
  <2>1. WithSecret(u, s) = [u EXCEPT !.secret = "temp", !.force = TRUE]
    BY <1>2 DEF WithSecret
  <2> QED
    BY <2>1 DEF Sound, Row
<1> QED
  BY <1>1, <1>2 DEF Secrets

LEMMA RowsSound ==
  ASSUME AccountsTypeOK
  PROVE  \A u \in Users : Sound(row[u])
  BY DEF AccountsTypeOK, Sound

LEMMA StoreKeeps ==
  ASSUME AccountsIInv, NEW r \in Reqs, req[r].pc = "decided", NEW u, Sound(u), Store(r, u)
  PROVE  AccountsIInv'
<1>1. req[r].target \in Users
  BY DEF AccountsIInv, Aimed
<1>2. row' \in [Users -> Row] /\ fails' \in [Users -> Nat] /\ req' \in [Reqs -> Req]
  BY <1>1, IdleTyped DEF Store, AccountsIInv, AccountsTypeOK, Sound
<1>3. \A v \in Users : row'[v].level = Level[row'[v].role] /\ (row'[v].secret = "temp" => row'[v].force)
  BY <1>1 DEF Store, AccountsIInv, AccountsTypeOK, Sound
<1>4. Aimed' /\ Acting'
  BY IdleTyped DEF Store, AccountsIInv, AccountsTypeOK, Aimed, Acting
<1>5. seed' = seed
  BY DEF Store
<1> QED
  BY <1>2, <1>3, <1>4, <1>5 DEF AccountsIInv, AccountsTypeOK

LEMMA AccountsStart == AccountsInit => AccountsIInv
  BY AccountsAssumption, RolesHaveLevels, IdleTyped, NoRowTyped
     DEF AccountsInit, AccountsIInv, AccountsTypeOK, Aimed, Acting, Row, Roles

LEMMA PerformKeeps ==
  ASSUME AccountsIInv, NEW r \in Reqs, Perform(r)
  PROVE  AccountsIInv'
<1> DEFINE t == req[r].target
<1>1. req[r].pc = "decided"
  BY DEF Perform, Create, Hire, Update, ResetPassword, ChangeRole, Activate, Remove,
         ChangePassword, Decided
<1>2. t \in Users /\ req[r].role \in Roles /\ Sound(row[t])
  BY <1>1, RowsSound DEF AccountsIInv, AccountsTypeOK, Aimed, Req
<1>3. SUFFICES \E u : Sound(u) /\ Store(r, u)
  BY <1>1, StoreKeeps
<1>4. CASE Create(r)
  <2> DEFINE made == [row[t] EXCEPT !.exists = TRUE, !.active = TRUE]
  <2>1. Sound(made)
    BY <1>2 DEF Sound, Row
  <2>2. PICK s \in Secrets : Store(r, WithSecret(WithRole(made, req[r].role), s))
    BY <1>4 DEF Create, Target
  <2> HIDE DEF made
  <2> QED
    BY <1>2, <2>1, <2>2, WithRoleSound, WithSecretSound
<1>5. CASE Hire(r)
  <2> DEFINE made == [NoRow EXCEPT !.exists = TRUE, !.active = TRUE]
  <2>1. Sound(made)
    BY NoRowTyped DEF Sound, Row
  <2>2. Store(r, WithRole(made, req[r].role))
    BY <1>5 DEF Hire
  <2> HIDE DEF made
  <2> QED
    BY <1>2, <2>1, <2>2, WithRoleSound
<1>6. CASE Update(r)
  <2>1. PICK active \in BOOLEAN, u \in {row[t], WithRole(row[t], req[r].role)} :
           Store(r, [u EXCEPT !.active = active])
    BY <1>6 DEF Update, Target
  <2>2. Sound(u)
    BY <1>2, WithRoleSound
  <2>3. Sound([u EXCEPT !.active = active])
    BY <2>2 DEF Sound, Row
  <2> QED
    BY <2>1, <2>3
<1>7. CASE ResetPassword(r)
  BY <1>2, <1>7, WithSecretSound DEF ResetPassword, Target
<1>8. CASE ChangeRole(r)
  BY <1>2, <1>8, WithRoleSound DEF ChangeRole, Target
<1>9. CASE Activate(r)
  <2>1. Sound([row[t] EXCEPT !.active = TRUE])
    BY <1>2 DEF Sound, Row
  <2> QED
    BY <2>1, <1>9 DEF Activate, Target
<1>10. CASE Remove(r)
  <2>1. Sound([row[t] EXCEPT !.active = FALSE])
    BY <1>2 DEF Sound, Row
  <2> QED
    BY <2>1, <1>10 DEF Remove, Target
<1>11. CASE ChangePassword(r)
  <2>1. Sound([row[t] EXCEPT !.secret = "own", !.force = FALSE])
    BY <1>2 DEF Sound, Row
  <2> QED
    BY <2>1, <1>11 DEF ChangePassword, Target
<1> QED
  BY <1>4, <1>5, <1>6, <1>7, <1>8, <1>9, <1>10, <1>11 DEF Perform

LEMMA ReseedKeeps ==
  ASSUME AccountsIInv, Reseed
  PROVE  AccountsIInv'
<1> DEFINE old == WithRole(row[Owner], "owner")
<1>1. Sound(row[Owner]) /\ Owner \in Users
  BY RowsSound, AccountsAssumption DEF AccountsIInv
<1>2. Sound(old)
  BY <1>1, WithRoleSound DEF Roles
<1>3. SUFFICES ASSUME NEW new, Sound(new), row' = [row EXCEPT ![Owner] = new], req' = req,
                      fails' \in [Users -> Nat], seed' \in {"done", "hashing", "lockout"}
               PROVE  AccountsIInv'
  <2>1. CASE SeedReads
    <3> DEFINE new == [old EXCEPT !.active = TRUE]
    <3> HIDE DEF old
    <3>1. Sound(new)
      BY <1>2 DEF Sound, Row
    <3>2. row' = [row EXCEPT ![Owner] = new] /\ req' = req /\ fails' = fails
          /\ seed' \in {"done", "hashing", "lockout"}
      BY <2>1 DEF SeedReads, old
    <3> HIDE DEF new
    <3> QED
      BY <3>1, <3>2, <1>3 DEF AccountsIInv, AccountsTypeOK
  <2>2. CASE SeedStores
    <3> DEFINE new == [row[Owner] EXCEPT !.secret = "given"]
    <3>1. Sound(new)
      BY <1>1 DEF Sound, Row
    <3>2. row' = [row EXCEPT ![Owner] = new] /\ req' = req /\ fails' = fails /\ seed' = "lockout"
      BY <2>2 DEF SeedStores
    <3> HIDE DEF new
    <3> QED
      BY <3>1, <3>2, <1>3 DEF AccountsIInv, AccountsTypeOK
  <2>3. CASE SeedForgives \/ SeedFails
    <3>1. row' = row /\ req' = req /\ fails' \in [Users -> Nat] /\ seed' = "done"
      BY <2>3 DEF SeedForgives, SeedFails, AccountsIInv, AccountsTypeOK
    <3>2. row' = [row EXCEPT ![Owner] = row[Owner]]
      BY <3>1, <1>1 DEF AccountsIInv, AccountsTypeOK
    <3> QED
      BY <3>1, <3>2, <1>1, <1>3
  <2> QED
    BY <2>1, <2>2, <2>3 DEF Reseed
<1> QED
  BY <1>1, <1>3 DEF AccountsIInv, AccountsTypeOK, Aimed, Acting, Sound

\* What requests do before they write.
LEMMA RequestsKeep ==
  ASSUME AccountsIInv, NEW r \in Reqs,
         \/ \E a \in Users, op \in {"admin", "password"} : Accept(r, a, op)
         \/ \E op \in AdminOps, t \in Users, x \in Roles : Decide(r, op, t, x)
         \/ DecidePassword(r) \/ Refuse(r)
         \/ \E n \in Typed : CountFails(r, n)
         \/ LoginFails(r) \/ LoginSucceeds(r)
  PROVE  AccountsIInv'
<1>1. CASE \E a \in Users, op \in {"admin", "password"} : Accept(r, a, op)
  <2>1. PICK a \in Users, op \in {"admin", "password"} : Accept(r, a, op)
    BY <1>1
  <2> DEFINE arole == IF op = "admin" THEN row[a].role ELSE Idle.arole
             new == [Idle EXCEPT !.pc = "accepted", !.op = op, !.actor = a, !.arole = arole]
  <2>2. arole \in Roles
    BY IdleTyped DEF AccountsIInv, AccountsTypeOK, Row, Req
  <2>3. req' = [req EXCEPT ![r] = new] /\ UNCHANGED <<row, fails, seed>>
    BY <2>1 DEF Accept
  <2> HIDE DEF arole
  <2>4. new \in Req /\ new.pc = "accepted" /\ new.actor = a
    BY <2>2 DEF Idle, Req, Roles
  <2> HIDE DEF new
  <2> QED
    BY <2>3, <2>4 DEF AccountsIInv, AccountsTypeOK, Aimed, Acting
<1>2. CASE \E op \in AdminOps, t \in Users, x \in Roles : Decide(r, op, t, x)
  <2>1. PICK op \in AdminOps, t \in Users, x \in Roles : Decide(r, op, t, x)
    BY <1>2
  <2>2. ToWrite(op, t, x) \in Req /\ ToWrite(op, t, x).pc \in {"idle", "decided"}
        /\ (ToWrite(op, t, x).pc = "decided" => ToWrite(op, t, x).target \in Users)
    BY IdleTyped DEF ToWrite, Idle, Req, Roles, AdminOps, Giving
  <2> QED
    BY <2>1, <2>2 DEF Decide, AccountsIInv, AccountsTypeOK, Aimed, Acting
<1>3. CASE DecidePassword(r)
  <2> DEFINE new == [Idle EXCEPT !.pc = "decided", !.op = "password", !.target = req[r].actor]
  <2>1. req[r].actor \in Users
    BY <1>3 DEF DecidePassword, AccountsIInv, Acting
  <2>2. req' = [req EXCEPT ![r] = new] /\ UNCHANGED <<row, fails, seed>>
    BY <1>3 DEF DecidePassword
  <2>3. new \in Req /\ new.pc = "decided" /\ new.target = req[r].actor
    BY <2>1 DEF Idle, Req, Roles
  <2> HIDE DEF new
  <2> QED
    BY <2>1, <2>2, <2>3 DEF AccountsIInv, AccountsTypeOK, Aimed, Acting
<1>4. CASE Refuse(r)
  BY <1>4, IdleTyped DEF Refuse, AccountsIInv, AccountsTypeOK, Aimed, Acting
<1>5. CASE \E n \in Typed : CountFails(r, n)
  <2>1. PICK n \in Typed : CountFails(r, n)
    BY <1>5
  <2> DEFINE new == [Idle EXCEPT !.pc = "compare", !.op = "login", !.target = n]
  <2>2. req' = [req EXCEPT ![r] = new] /\ UNCHANGED <<row, fails, seed>>
    BY <2>1 DEF CountFails
  <2>3. new \in Req /\ new.pc = "compare" /\ new.target \in Users
    BY AccountsAssumption DEF Idle, Req, Roles
  <2> HIDE DEF new
  <2> QED
    BY <2>2, <2>3 DEF AccountsIInv, AccountsTypeOK, Aimed, Acting
<1>6. CASE LoginFails(r)
  BY <1>6, IdleTyped DEF LoginFails, AccountsIInv, AccountsTypeOK, Aimed, Acting
<1>7. CASE LoginSucceeds(r)
  BY <1>7, IdleTyped DEF LoginSucceeds, AccountsIInv, AccountsTypeOK, Aimed, Acting
<1> QED
  BY <1>1, <1>2, <1>3, <1>4, <1>5, <1>6, <1>7

LEMMA AccountsKeep == AccountsIInv /\ [AccountsNext]_accountVars => AccountsIInv'
<1> SUFFICES ASSUME AccountsIInv, [AccountsNext]_accountVars
             PROVE  AccountsIInv'
  OBVIOUS
<1>1. ASSUME NEW r \in Reqs, Handle(r)
      PROVE  AccountsIInv'
  BY <1>1, PerformKeeps, RequestsKeep DEF Handle
<1>2. CASE \E n \in Typed : Forget(n)
  BY <1>2, AccountsAssumption DEF Forget, AccountsIInv, AccountsTypeOK, Aimed, Acting
<1>3. CASE UNCHANGED accountVars
  BY <1>3 DEF accountVars, AccountsIInv, AccountsTypeOK, Aimed, Acting
<1> QED
  BY <1>1, <1>2, <1>3, ReseedKeeps DEF AccountsNext

(***************************************************************************)
(* Role and level of an account go together in every reachable state, and  *)
(* a generated password must be changed, however requests overlap.         *)
(***************************************************************************)
THEOREM AccountsTyped == AccountsSpec => []AccountsTypeOK
<1>1. AccountsIInv => AccountsTypeOK
  BY DEF AccountsIInv
<1> QED
  BY AccountsStart, AccountsKeep, <1>1, PTL DEF AccountsSpec
-----------------------------------------------------------------------------
(* The owner *)

\* What is about to be written is not about the owner, but for a password the
\* owner chose; and that one is not to be changed again.
OwnerKept ==
    /\ row[Owner].exists /\ row[Owner].active /\ row[Owner].role = "owner"
    /\ row[Owner].secret = "own" => ~row[Owner].force
    /\ \A r \in Reqs : req[r].pc = "decided" /\ req[r].target = Owner => req[r].op = "password"

OwnerIInv == AccountsIInv /\ OwnerKept

OwnerStep ==
    /\ row'[Owner].exists /\ row'[Owner].active /\ row'[Owner].role = "owner"
    /\ row[Owner].secret = "own" =>
          /\ ~row'[Owner].force
          /\ seed' = "hashing" => seed = "hashing"
          /\ row'[Owner].secret = "own" \/ seed = "hashing"

LEMMA OwnerStart == AccountsInit => OwnerIInv
  BY AccountsStart, AccountsAssumption, IdleTyped DEF AccountsInit, OwnerIInv, OwnerKept

\* No check lets a request through that would write to the owner's row.
LEMMA OwnerIsNotAllowed ==
  ASSUME OwnerKept, NEW op \in AdminOps, NEW a, NEW arole, NEW x, Allowed(op, a, arole, Owner, x)
  PROVE  op \in Unmodelled
  BY AccountsAssumption
     DEF OwnerKept, Allowed, AllowedHire, AllowedAssign, AllowedContact, NameFree, Unmodelled

LEMMA OwnerPerform ==
  ASSUME OwnerIInv, NEW r \in Reqs, Perform(r)
  PROVE  OwnerStep /\ OwnerKept'
<1>1. req[r].pc = "decided" /\ req[r].target \in Users /\ Owner \in Users
  BY AccountsAssumption
     DEF Perform, Create, Hire, Update, ResetPassword, ChangeRole, Activate, Remove,
         ChangePassword, Decided, OwnerIInv, AccountsIInv, Aimed
<1>2. PICK u : Store(r, u)
  BY DEF Perform, Create, Hire, Update, ResetPassword, ChangeRole, Activate, Remove, ChangePassword
<1>3. \A o \in Reqs : req'[o] = IF o = r THEN Idle ELSE req[o]
  BY <1>2 DEF Store, OwnerIInv, AccountsIInv, AccountsTypeOK
<1> seed' = seed
  BY <1>2 DEF Store
<1>4. CASE req[r].target # Owner
  <2>1. row'[Owner] = row[Owner]
    BY <1>1, <1>2, <1>4 DEF Store, OwnerIInv, AccountsIInv, AccountsTypeOK
  <2> QED
    BY <2>1, <1>3, IdleTyped DEF OwnerIInv, OwnerKept, OwnerStep
<1>5. CASE req[r].target = Owner
  <2>1. req[r].op = "password"
    BY <1>1, <1>5 DEF OwnerIInv, OwnerKept
  <2>2. Store(r, [row[Owner] EXCEPT !.secret = "own", !.force = FALSE])
    BY <2>1, <1>5
       DEF Perform, Create, Hire, Update, ResetPassword, ChangeRole, Activate, Remove,
           ChangePassword, Decided, Target
  <2>3. row'[Owner] = [row[Owner] EXCEPT !.secret = "own", !.force = FALSE]
    BY <1>1, <1>5, <2>2 DEF Store, OwnerIInv, AccountsIInv, AccountsTypeOK
  <2>4. row[Owner] \in Row
    BY <1>1 DEF OwnerIInv, AccountsIInv, AccountsTypeOK
  <2>5. /\ row'[Owner].secret = "own" /\ ~row'[Owner].force
        /\ row'[Owner].exists = row[Owner].exists /\ row'[Owner].active = row[Owner].active
        /\ row'[Owner].role = row[Owner].role
    BY <2>3, <2>4 DEF Row
  <2> QED
    BY <2>5, <1>3, IdleTyped DEF OwnerIInv, OwnerKept, OwnerStep
<1> QED
  BY <1>4, <1>5

LEMMA OwnerReseed ==
  ASSUME OwnerIInv, Reseed
  PROVE  OwnerStep /\ OwnerKept'
<1>1. Sound(row[Owner]) /\ Owner \in Users
  BY RowsSound, AccountsAssumption DEF OwnerIInv, AccountsIInv
<1>2. CASE SeedReads
  <2> DEFINE old == WithRole(row[Owner], "owner")
             new == [old EXCEPT !.active = TRUE]
  <2>1. /\ Sound(old) /\ old.role = "owner" /\ old.exists = row[Owner].exists
        /\ old.force = row[Owner].force /\ old.secret = row[Owner].secret
    BY <1>1, WithRoleSound DEF Roles
  <2> HIDE DEF old
  <2>2. /\ new.exists = row[Owner].exists /\ new.active /\ new.role = "owner"
        /\ new.force = row[Owner].force /\ new.secret = row[Owner].secret
    BY <2>1 DEF Sound, Row
  <2>3. row'[Owner] = new /\ req' = req
    BY <1>1, <1>2 DEF SeedReads, old, OwnerIInv, AccountsIInv, AccountsTypeOK
  <2>4. seed' = "hashing" => row[Owner].force
    BY <1>2 DEF SeedReads
  <2> HIDE DEF new
  <2> QED
    BY <2>2, <2>3, <2>4 DEF OwnerIInv, OwnerKept, OwnerStep
<1>3. CASE SeedStores
  <2> DEFINE new == [row[Owner] EXCEPT !.secret = "given"]
  <2>1. /\ new.exists = row[Owner].exists /\ new.active = row[Owner].active
        /\ new.role = row[Owner].role /\ new.force = row[Owner].force /\ new.secret = "given"
    BY <1>1 DEF Sound, Row
  <2>2. row'[Owner] = new /\ req' = req /\ seed = "hashing" /\ seed' = "lockout"
    BY <1>1, <1>3 DEF SeedStores, OwnerIInv, AccountsIInv, AccountsTypeOK
  <2> HIDE DEF new
  <2> QED
    BY <2>1, <2>2 DEF OwnerIInv, OwnerKept, OwnerStep
<1>4. CASE SeedForgives \/ SeedFails
  <2>1. row' = row /\ req' = req /\ seed' = "done"
    BY <1>4 DEF SeedForgives, SeedFails
  <2> QED
    BY <2>1 DEF OwnerIInv, OwnerKept, OwnerStep
<1> QED
  BY <1>2, <1>3, <1>4 DEF Reseed

\* What requests do before they write.
LEMMA OwnerRequests ==
  ASSUME OwnerIInv, NEW r \in Reqs,
         \/ \E a \in Users, op \in {"admin", "password"} : Accept(r, a, op)
         \/ \E op \in AdminOps, t \in Users, x \in Roles : Decide(r, op, t, x)
         \/ DecidePassword(r) \/ Refuse(r)
         \/ \E n \in Typed : CountFails(r, n)
         \/ LoginFails(r) \/ LoginSucceeds(r)
  PROVE  row' = row /\ seed' = seed /\ OwnerKept'
<1>1. SUFFICES ASSUME row' = row, seed' = seed, NEW q, req' = [req EXCEPT ![r] = q],
                      q.pc = "decided" /\ q.target = Owner => q.op = "password"
               PROVE  OwnerKept'
  <2>1. CASE \E a \in Users, op \in {"admin", "password"} : Accept(r, a, op)
    <3>1. PICK a \in Users, op \in {"admin", "password"} : Accept(r, a, op)
      BY <2>1
    <3> DEFINE arole == IF op = "admin" THEN row[a].role ELSE Idle.arole
               new == [Idle EXCEPT !.pc = "accepted", !.op = op, !.actor = a, !.arole = arole]
    <3>2. row' = row /\ seed' = seed /\ req' = [req EXCEPT ![r] = new]
      BY <3>1 DEF Accept
    <3>3. new.pc = "accepted"
      BY DEF Idle
    <3> HIDE DEF new
    <3> QED
      BY <3>2, <3>3, <1>1
  <2>2. CASE \E op \in AdminOps, t \in Users, x \in Roles : Decide(r, op, t, x)
    <3>1. PICK op \in AdminOps, t \in Users, x \in Roles : Decide(r, op, t, x)
      BY <2>2
    <3>2. t = Owner => op \in Unmodelled
      BY <3>1, OwnerIsNotAllowed DEF Decide, OwnerIInv
    <3>3. CASE op \in Unmodelled
      BY <3>1, <3>3, <1>1, IdleTyped DEF Decide, ToWrite
    <3>4. CASE op \notin Unmodelled
      <4> DEFINE new == [Idle EXCEPT !.pc = "decided", !.op = IF op = "assign" THEN "role" ELSE op,
                                     !.target = t, !.role = x]
      <4>1. row' = row /\ seed' = seed /\ req' = [req EXCEPT ![r] = new]
        BY <3>1, <3>4 DEF Decide, ToWrite
      <4>2. new.target = t
        BY DEF Idle
      <4> HIDE DEF new
      <4> QED
        BY <4>1, <4>2, <3>2, <3>4, <1>1
    <3> QED
      BY <3>3, <3>4
  <2>3. CASE DecidePassword(r)
    <3> DEFINE new == [Idle EXCEPT !.pc = "decided", !.op = "password", !.target = req[r].actor]
    <3>1. row' = row /\ seed' = seed /\ req' = [req EXCEPT ![r] = new]
      BY <2>3 DEF DecidePassword
    <3>2. new.op = "password"
      BY DEF Idle
    <3> HIDE DEF new
    <3> QED
      BY <3>1, <3>2, <1>1
  <2>4. CASE Refuse(r) \/ LoginFails(r) \/ LoginSucceeds(r)
    BY <2>4, <1>1, IdleTyped DEF Refuse, LoginFails, LoginSucceeds
  <2>5. CASE \E n \in Typed : CountFails(r, n)
    <3>1. PICK n \in Typed : CountFails(r, n)
      BY <2>5
    <3> DEFINE new == [Idle EXCEPT !.pc = "compare", !.op = "login", !.target = n]
    <3>2. row' = row /\ seed' = seed /\ req' = [req EXCEPT ![r] = new]
      BY <3>1 DEF CountFails
    <3>3. new.pc = "compare"
      BY DEF Idle
    <3> HIDE DEF new
    <3> QED
      BY <3>2, <3>3, <1>1
  <2> QED
    BY <2>1, <2>2, <2>3, <2>4, <2>5
<1>2. \A o \in Reqs : req'[o] = IF o = r THEN q ELSE req[o]
  BY <1>1 DEF OwnerIInv, AccountsIInv, AccountsTypeOK
<1> QED
  BY <1>1, <1>2 DEF OwnerIInv, OwnerKept

LEMMA OwnerNext == OwnerIInv /\ [AccountsNext]_accountVars => OwnerIInv' /\ [OwnerStep]_accountVars
<1> SUFFICES ASSUME OwnerIInv, [AccountsNext]_accountVars
             PROVE  OwnerKept' /\ [OwnerStep]_accountVars
  BY AccountsKeep DEF OwnerIInv
<1>1. ASSUME row' = row, seed' = seed
      PROVE  OwnerStep
  BY <1>1 DEF OwnerIInv, OwnerKept, OwnerStep
<1>2. ASSUME NEW r \in Reqs, Handle(r)
      PROVE  OwnerKept' /\ OwnerStep
  BY <1>1, <1>2, OwnerPerform, OwnerRequests DEF Handle
<1>3. CASE \E n \in Typed : Forget(n)
  BY <1>1, <1>3 DEF Forget, OwnerIInv, OwnerKept
<1>4. CASE UNCHANGED accountVars
  BY <1>4 DEF accountVars, OwnerIInv, OwnerKept
<1> QED
  BY <1>2, <1>3, <1>4, OwnerReseed DEF AccountsNext

(***************************************************************************)
(* Whatever requests overlap and however often the seed is run, nobody     *)
(* takes the owner's account away or forces a change of a password the     *)
(* owner chose, and none but a seed that had looked before replaces it.    *)
(***************************************************************************)
THEOREM OwnerIsUntouched == AccountsSpec => OwnerUntouched
  BY OwnerStart, OwnerNext, PTL DEF AccountsSpec, OwnerUntouched, OwnerStep
-----------------------------------------------------------------------------
(* Guesses *)

\* The attempts with name n that counted the failures and are not decided.
Comparing(n) == {r \in Reqs : req[r].pc = "compare" /\ req[r].target = n}

\* Those are failures to come.  One that starts finds fewer than MaxFails, and
\* there are never more of them than requests.
GuessInv == \A n \in Users : fails[n] + Cardinality(Comparing(n)) <= MaxFails - 1 + Cardinality(Reqs)

GuessIInv == AccountsIInv /\ GuessInv

LEMMA ComparingCounted ==
  \A n : /\ Comparing(n) \subseteq Reqs /\ IsFiniteSet(Comparing(n))
         /\ Cardinality(Comparing(n)) \in Nat /\ Cardinality(Comparing(n)) <= Cardinality(Reqs)
         /\ Cardinality(Reqs) \in Nat
  BY AccountsAssumption, FS_Subset, FS_CardinalityType DEF Comparing

LEMMA ComparingCountedAfter ==
  \A n : /\ Comparing(n)' \subseteq Reqs /\ IsFiniteSet(Comparing(n)')
         /\ Cardinality(Comparing(n)') \in Nat /\ Cardinality(Comparing(n)') <= Cardinality(Reqs)
  BY AccountsAssumption, FS_Subset, FS_CardinalityType DEF Comparing

LEMMA GuessStart == AccountsInit => GuessIInv
<1> SUFFICES ASSUME AccountsInit, NEW n \in Users
             PROVE  fails[n] + Cardinality(Comparing(n)) <= MaxFails - 1 + Cardinality(Reqs)
  BY AccountsStart DEF GuessIInv, GuessInv
<1>1. Comparing(n) = {}
  BY IdleTyped DEF AccountsInit, Comparing
<1>2. Cardinality(Comparing(n)) = 0
  BY <1>1, FS_EmptySet
<1> QED
  BY <1>2, ComparingCounted, AccountsAssumption DEF AccountsInit

\* A step that adds no failure and starts no comparison.
LEMMA NoMoreGuesses ==
  ASSUME GuessIInv, AccountsIInv',
         \A n \in Users : fails'[n] <= fails[n] /\ Comparing(n)' \subseteq Comparing(n)
  PROVE  GuessInv'
<1>1. SUFFICES ASSUME NEW n \in Users
               PROVE  fails'[n] + Cardinality(Comparing(n)') <= MaxFails - 1 + Cardinality(Reqs)
  BY DEF GuessInv
<1>2. Cardinality(Comparing(n)') <= Cardinality(Comparing(n))
  BY ComparingCounted, FS_Subset
<1>3. fails[n] \in Nat /\ fails'[n] \in Nat /\ MaxFails \in Nat
  BY AccountsAssumption DEF GuessIInv, AccountsIInv, AccountsTypeOK
<1> QED
  BY <1>2, <1>3, ComparingCounted, ComparingCountedAfter DEF GuessIInv, GuessInv

\* Request r becomes q, which compares nothing.
LEMMA StopsComparing ==
  ASSUME GuessIInv, NEW r \in Reqs, NEW q, q.pc # "compare", req' = [req EXCEPT ![r] = q]
  PROVE  \A n : Comparing(n)' = Comparing(n) \ {r}
  BY DEF GuessIInv, AccountsIInv, AccountsTypeOK, Comparing

LEMMA GuessCount ==
  ASSUME GuessIInv, AccountsIInv', NEW r \in Reqs, NEW n \in Typed, CountFails(r, n)
  PROVE  GuessInv'
<1> DEFINE new == [Idle EXCEPT !.pc = "compare", !.op = "login", !.target = n]
<1>1. SUFFICES ASSUME NEW m \in Users
               PROVE  fails'[m] + Cardinality(Comparing(m)') <= MaxFails - 1 + Cardinality(Reqs)
  BY DEF GuessInv
<1>2. req' = [req EXCEPT ![r] = new] /\ fails' = fails /\ fails[n] < MaxFails /\ req[r].pc = "idle"
  BY DEF CountFails
<1>3. new.target = n
  BY DEF Idle
<1> HIDE DEF new
<1>4. fails[m] \in Nat /\ MaxFails \in Nat
  BY AccountsAssumption DEF GuessIInv, AccountsIInv, AccountsTypeOK
<1>5. CASE m = n
  <2> DEFINE c == Cardinality(Comparing(m)')
             k == Cardinality(Reqs)
  <2>1. c \in Nat /\ k \in Nat /\ c <= k
    BY ComparingCountedAfter, ComparingCounted
  <2>2. fails'[m] = fails[m] /\ fails[m] < MaxFails
    BY <1>2, <1>5
  <2> HIDE DEF c, k
  <2>3. fails'[m] + c <= MaxFails - 1 + k
    BY <1>4, <2>1, <2>2
  <2> QED
    BY <2>3 DEF c, k
<1>6. CASE m # n
  <2>1. Comparing(m)' = Comparing(m)
    BY <1>2, <1>3, <1>6 DEF GuessIInv, AccountsIInv, AccountsTypeOK, Comparing
  <2> QED
    BY <1>2, <2>1 DEF GuessIInv, GuessInv
<1> QED
  BY <1>5, <1>6

LEMMA GuessFails ==
  ASSUME GuessIInv, AccountsIInv', NEW r \in Reqs, LoginFails(r)
  PROVE  GuessInv'
<1> DEFINE t == req[r].target
<1>1. SUFFICES ASSUME NEW m \in Users
               PROVE  fails'[m] + Cardinality(Comparing(m)') <= MaxFails - 1 + Cardinality(Reqs)
  BY DEF GuessInv
<1>2. Comparing(m)' = Comparing(m) \ {r} /\ req[r].pc = "compare" /\ t \in Users
  BY StopsComparing, IdleTyped DEF LoginFails, GuessIInv, AccountsIInv, Aimed
<1>3. fails[m] \in Nat /\ MaxFails \in Nat
  BY AccountsAssumption DEF GuessIInv, AccountsIInv, AccountsTypeOK
<1>4. CASE m = t
  <2>1. fails'[m] = fails[m] + 1
    BY <1>2, <1>4 DEF LoginFails, GuessIInv, AccountsIInv, AccountsTypeOK
  <2>2. r \in Comparing(m)
    BY <1>2, <1>4 DEF Comparing
  <2>3. Cardinality(Comparing(m)') = Cardinality(Comparing(m)) - 1
    BY <1>2, <2>2, ComparingCounted, FS_RemoveElement
  <2> QED
    BY <1>3, <2>1, <2>3, ComparingCounted DEF GuessIInv, GuessInv
<1>5. CASE m # t
  <2>1. fails'[m] = fails[m]
    BY <1>2, <1>5 DEF LoginFails, GuessIInv, AccountsIInv, AccountsTypeOK
  <2>2. Comparing(m)' = Comparing(m)
    BY <1>2, <1>5 DEF Comparing
  <2> QED
    BY <2>1, <2>2 DEF GuessIInv, GuessInv
<1> QED
  BY <1>4, <1>5

\* The other steps of a request.
LEMMA GuessOther ==
  ASSUME GuessIInv, AccountsIInv', NEW r \in Reqs,
         \/ \E a \in Users, op \in {"admin", "password"} : Accept(r, a, op)
         \/ \E op \in AdminOps, t \in Users, x \in Roles : Decide(r, op, t, x)
         \/ DecidePassword(r) \/ Refuse(r) \/ Perform(r) \/ LoginSucceeds(r)
  PROVE  GuessInv'
<1>1. SUFFICES ASSUME fails' = fails, NEW q, q.pc # "compare", req' = [req EXCEPT ![r] = q]
               PROVE  GuessInv'
  <2>1. CASE \E a \in Users, op \in {"admin", "password"} : Accept(r, a, op)
    <3>1. PICK a \in Users, op \in {"admin", "password"} : Accept(r, a, op)
      BY <2>1
    <3> DEFINE arole == IF op = "admin" THEN row[a].role ELSE Idle.arole
               new == [Idle EXCEPT !.pc = "accepted", !.op = op, !.actor = a, !.arole = arole]
    <3>2. fails' = fails /\ req' = [req EXCEPT ![r] = new]
      BY <3>1 DEF Accept
    <3>3. new.pc = "accepted"
      BY DEF Idle
    <3> HIDE DEF new
    <3> QED
      BY <3>2, <3>3, <1>1
  <2>2. CASE \E op \in AdminOps, t \in Users, x \in Roles : Decide(r, op, t, x)
    <3>1. PICK op \in AdminOps, t \in Users, x \in Roles : Decide(r, op, t, x)
      BY <2>2
    <3>2. ToWrite(op, t, x).pc \in {"idle", "decided"}
      BY IdleTyped DEF ToWrite, Idle
    <3> QED
      BY <3>1, <3>2, <1>1 DEF Decide
  <2>3. CASE DecidePassword(r)
    <3> DEFINE new == [Idle EXCEPT !.pc = "decided", !.op = "password", !.target = req[r].actor]
    <3>1. fails' = fails /\ req' = [req EXCEPT ![r] = new]
      BY <2>3 DEF DecidePassword
    <3>2. new.pc = "decided"
      BY DEF Idle
    <3> HIDE DEF new
    <3> QED
      BY <3>1, <3>2, <1>1
  <2>4. CASE Refuse(r) \/ LoginSucceeds(r)
    BY <2>4, <1>1, IdleTyped DEF Refuse, LoginSucceeds
  <2>5. CASE Perform(r)
    <3>1. PICK u : Store(r, u)
      BY <2>5
         DEF Perform, Create, Hire, Update, ResetPassword, ChangeRole, Activate, Remove, ChangePassword
    <3> QED
      BY <3>1, <1>1, IdleTyped DEF Store
  <2> QED
    BY <2>1, <2>2, <2>3, <2>4, <2>5
<1>2. \A n \in Users : fails'[n] <= fails[n]
  BY <1>1 DEF GuessIInv, AccountsIInv, AccountsTypeOK
<1> QED
  BY <1>1, <1>2, StopsComparing, NoMoreGuesses

LEMMA GuessNext == GuessIInv /\ [AccountsNext]_accountVars => GuessIInv'
<1> SUFFICES ASSUME GuessIInv, [AccountsNext]_accountVars, AccountsIInv'
             PROVE  GuessInv'
  BY AccountsKeep DEF GuessIInv
<1>1. ASSUME NEW r \in Reqs, Handle(r)
      PROVE  GuessInv'
  BY <1>1, GuessCount, GuessFails, GuessOther DEF Handle
<1>2. CASE Reseed
  <2>1. \A n \in Users : fails'[n] <= fails[n] /\ Comparing(n)' = Comparing(n)
    BY <1>2 DEF Reseed, SeedReads, SeedStores, SeedForgives, SeedFails, Comparing, GuessIInv,
                AccountsIInv, AccountsTypeOK
  <2> QED
    BY <2>1, NoMoreGuesses
<1>3. CASE \E n \in Typed : Forget(n)
  <2>1. \A n \in Users : fails'[n] <= fails[n] /\ Comparing(n)' = Comparing(n)
    BY <1>3 DEF Forget, Comparing, GuessIInv, AccountsIInv, AccountsTypeOK
  <2> QED
    BY <2>1, NoMoreGuesses
<1>4. CASE UNCHANGED accountVars
  <2>1. \A n \in Users : fails'[n] <= fails[n] /\ Comparing(n)' = Comparing(n)
    BY <1>4 DEF accountVars, Comparing, GuessIInv, AccountsIInv, AccountsTypeOK
  <2> QED
    BY <2>1, NoMoreGuesses
<1> QED
  BY <1>1, <1>2, <1>3, <1>4 DEF AccountsNext

(***************************************************************************)
(* The failures counted against a name exceed the limit at most by the     *)
(* requests that counted together.                                         *)
(***************************************************************************)
THEOREM GuessesAreBounded == AccountsSpec => []GuessesBounded
<1>1. GuessIInv => GuessesBounded
  <2> SUFFICES ASSUME GuessIInv, NEW n \in Users
               PROVE  fails[n] <= MaxFails - 1 + Cardinality(Reqs)
    BY DEF GuessesBounded
  <2>1. fails[n] \in Nat /\ MaxFails \in Nat
    BY AccountsAssumption DEF GuessIInv, AccountsIInv, AccountsTypeOK
  <2> QED
    BY <2>1, ComparingCounted DEF GuessIInv, GuessInv
<1> QED
  BY GuessStart, GuessNext, <1>1, PTL DEF AccountsSpec

-----------------------------------------------------------------------------
(***************************************************************************)
(* Session: no shell behind a forced change, one identity                  *)
(***************************************************************************)
-----------------------------------------------------------------------------
(* Types *)

Who == Staff \cup {Nobody}
AccountRow == [active : BOOLEAN, force : BOOLEAN]
User == [who : Who, force : BOOLEAN]
View == [ready : BOOLEAN, locked : BOOLEAN, pwChanged : BOOLEAN, slash : BOOLEAN, leaving : BOOLEAN]
Call == [st : {"none", "sent", "ok", "failed", "refused"}, who : Who, force : BOOLEAN]

SessionTyped ==
    /\ account \in [Staff -> AccountRow]
    /\ stored \in Who
    /\ me \in User
    /\ view \in View
    /\ call \in [Kinds -> Call]
    /\ hasty \in BOOLEAN

Pending(k) == call[k].st # "none"

-----------------------------------------------------------------------------
(* What holds whatever overlaps *)

\* An answer that names a user was given to one, and but for a login only to one
\* whose password need not be changed.
AnswersNamed ==
    /\ Pending("login") /\ call["login"].st \in {"sent", "ok"} => call["login"].who \in Staff
    /\ \A k \in {"init", "refresh"} :
          call[k].st = "ok" => call[k].who \in Staff /\ ~call[k].force

\* A gate that was opened is that of a user who need not change it any more.
GateOpened == me.force => ~view.pwChanged

\* Before the session is revalidated nothing else happens.
Loading ==
    /\ ~view.ready => me = Nothing /\ \A k \in Kinds \ {"init"} : ~Pending(k)
    /\ Pending("init") => ~view.ready /\ stored # Nobody
    /\ call["init"].st \in {"sent", "ok"} => call["init"].who = stored

-----------------------------------------------------------------------------
(* What holds until a login is sent over an unanswered logout *)

\* A login is sent from the form, a new password from the gate, one at a time and
\* not beside a logout.
OneByOne ==
    /\ Pending("login") => Screen = "login" /\ ~Pending("logout")
    /\ Pending("logout") => Screen # "gate"
    /\ Pending("password") \/ Pending("refresh") => Screen = "gate"
    /\ ~(Pending("password") /\ Pending("refresh"))

SameUser ==
    /\ me.who # Nobody => stored \in {me.who, Nobody}
    /\ Pending("refresh") => call["refresh"].who \in {me.who, Nobody}

\* A page whose session is gone is being left, or its path is /login.
Leaves == me.who # Nobody /\ stored = Nobody => view.leaving \/ ~view.slash

Calm == ~hasty => OneByOne /\ SameUser /\ Leaves

SessionIInv == SessionTyped /\ AnswersNamed /\ GateOpened /\ Loading /\ Calm

LEMMA NoCallTyped ==
  /\ NoCall \in Call /\ NoCall.st = "none" /\ NoCall.who = Nobody
  /\ Nothing \in User /\ Nothing.who = Nobody /\ ~Nothing.force
  /\ \A b \in BOOLEAN : /\ FreshView(b) \in View /\ ~FreshView(b).ready /\ ~FreshView(b).pwChanged
                        /\ FreshView(b).slash = b
  BY DEF NoCall, Call, Who, Nothing, User, FreshView, View

LEMMA KindsAre ==
  /\ \A k \in {"init", "login", "password", "refresh", "logout", "work"} : k \in Kinds
  /\ \A k \in Kinds : k \in {"init", "login", "password", "refresh", "logout", "work"}
  BY DEF Kinds

LEMMA SessionStart == SessionInit => SessionIInv
<1> SUFFICES ASSUME SessionInit
             PROVE  SessionIInv
  OBVIOUS
<1>1. SessionTyped
  BY NoCallTyped DEF SessionInit, SessionTyped, AccountRow, Who
<1>2. AnswersNamed /\ GateOpened /\ Loading
  BY NoCallTyped, KindsAre DEF SessionInit, AnswersNamed, GateOpened, Loading, Pending
<1>3. Calm
  BY NoCallTyped, KindsAre DEF SessionInit, Calm, OneByOne, SameUser, Leaves, Pending
<1> QED
  BY <1>1, <1>2, <1>3 DEF SessionIInv

-----------------------------------------------------------------------------
(* One request changes *)

LEMMA CallChanges ==
  ASSUME SessionTyped, NEW k \in Kinds, NEW q, call' = [call EXCEPT ![k] = q]
  PROVE  \A j \in Kinds : call'[j] = IF j = k THEN q ELSE call[j]
  BY DEF SessionTyped

\* A request is sent.
LEMMA SendIs ==
  ASSUME SessionTyped, NEW k \in Kinds, NEW u \in Who, Send(k, u)
  PROVE  /\ ~Pending(k) /\ call' \in [Kinds -> Call]
         /\ call'[k].st = "sent" /\ call'[k].who = u
         /\ \A j \in Kinds : j # k => call'[j] = call[j]
<1> DEFINE q == [NoCall EXCEPT !.st = "sent", !.who = u]
<1>1. q \in Call /\ q.st = "sent" /\ q.who = u
  BY DEF NoCall, Call
<1>2. call' = [call EXCEPT ![k] = q] /\ ~Pending(k)
  BY DEF Send, Pending
<1> HIDE DEF q
<1> QED
  BY <1>1, <1>2 DEF SessionTyped

\* A request is answered, and the answer not heard yet.
LEMMA AnsweredIs ==
  ASSUME SessionTyped, NEW k \in Kinds, NEW a \in {"ok", "failed", "refused"}, Answered(k, a),
         a = "ok" => call[k].who \in Staff
  PROVE  /\ call' \in [Kinds -> Call]
         /\ call'[k].st = a
         /\ call'[k].who \in {call[k].who, Nobody}
         /\ a = "ok" /\ k \in {"init", "login", "refresh"} =>
               call'[k].who = call[k].who /\ call'[k].force = account[call[k].who].force
         /\ \A j \in Kinds : j # k => call'[j] = call[j]
<1> DEFINE named == a = "ok" /\ k \in {"init", "login", "refresh"}
           yes == [st |-> a, who |-> call[k].who, force |-> account[call[k].who].force]
           no == [NoCall EXCEPT !.st = a]
           q == IF named THEN yes ELSE no
<1>1. no \in Call /\ no.st = a /\ no.who = Nobody
  BY DEF NoCall, Call, Who
<1>2. named => yes \in Call
  BY DEF Call, SessionTyped, AccountRow
<1>3. q \in Call /\ q.st = a /\ q.who \in {call[k].who, Nobody}
  BY <1>1, <1>2
<1>4. call' = [call EXCEPT ![k] = q]
  BY DEF Answered
<1>5. named => q.who = call[k].who /\ q.force = account[call[k].who].force
  OBVIOUS
<1> HIDE DEF q
<1> QED
  BY <1>3, <1>4, <1>5 DEF SessionTyped

\* An answer is heard, and nothing else asked.
LEMMA HeardIs ==
  ASSUME SessionTyped, NEW k \in Kinds, Heard(k)
  PROVE  call' \in [Kinds -> Call] /\ call'[k] = NoCall /\ \A j \in Kinds : j # k => call'[j] = call[j]
  BY NoCallTyped DEF Heard, SessionTyped
-----------------------------------------------------------------------------
(* Steps *)

\* The window asks for something.
LEMMA AskKeeps ==
  ASSUME SessionIInv,
         \/ Start \/ SubmitPassword \/ Lock \/ Logout
         \/ \E u \in Staff : SubmitLogin(u)
         \/ \E level \in {10, 50, 100} : Work(level)
  PROVE  SessionIInv'
<1> USE KindsAre, NoCallTyped
<1>1. stored \in Who /\ SessionTyped
  BY DEF SessionIInv, SessionTyped
<1>2. CASE Start
  <2>1. CASE stored = Nobody
    <3>1. view' = [view EXCEPT !.ready = TRUE] /\ UNCHANGED <<call, account, stored, me, hasty>> /\ ~view.ready
      BY <1>2, <2>1 DEF Start
    <3>2. me = Nothing /\ \A k \in Kinds \ {"init"} : ~Pending(k)
      BY <3>1 DEF SessionIInv, Loading
    <3>3. ~Pending("init")
      BY <2>1, <3>1 DEF SessionIInv, Loading
    <3> QED
      BY <3>1, <3>2, <3>3
         DEF SessionIInv, SessionTyped, View, AnswersNamed, GateOpened, Loading, Calm, OneByOne,
             SameUser, Leaves, Pending
  <2>2. CASE stored # Nobody
    <3>1. Send("init", stored) /\ UNCHANGED <<view, account, stored, me, hasty>> /\ ~view.ready
      BY <1>2, <2>2 DEF Start
    <3>2. /\ call' \in [Kinds -> Call] /\ call'["init"].st = "sent" /\ call'["init"].who = stored
          /\ \A j \in Kinds : j # "init" => call'[j] = call[j]
      BY <1>1, <3>1, SendIs
    <3>3. me = Nothing /\ \A k \in Kinds \ {"init"} : ~Pending(k)'
      BY <3>1, <3>2 DEF SessionIInv, Loading, Pending
    <3>4. SessionTyped' /\ GateOpened' /\ Calm'
      BY <1>1, <3>1, <3>2, <3>3
         DEF SessionIInv, SessionTyped, GateOpened, Calm, OneByOne, SameUser, Leaves, Pending
    <3>5. AnswersNamed' /\ Loading'
      BY <2>2, <3>1, <3>2, <3>3 DEF AnswersNamed, Loading, Pending
    <3> QED
      BY <3>4, <3>5 DEF SessionIInv
  <2> QED
    BY <2>1, <2>2
<1>3. CASE SubmitPassword
  <2>1. /\ Send("password", stored) /\ Screen = "gate" /\ ~Pending("refresh")
        /\ UNCHANGED <<account, stored, me, view, hasty>>
    BY <1>3 DEF SubmitPassword, Pending
  <2> QED
    BY <1>1, <2>1, SendIs
       DEF SessionIInv, SessionTyped, AnswersNamed, GateOpened, Loading, Calm, OneByOne,
           SameUser, Leaves, Pending, Screen
<1>4. CASE Lock
  <2>1. view' = [view EXCEPT !.locked = TRUE] /\ UNCHANGED <<account, stored, me, call, hasty>>
        /\ Screen = "shell"
    BY <1>4 DEF Lock
  <2> QED
    BY <2>1
       DEF SessionIInv, SessionTyped, View, AnswersNamed, GateOpened, Loading, Calm, OneByOne,
           SameUser, Leaves, Pending, Screen
<1>5. CASE Logout
  <2>1. Send("logout", stored) /\ Screen = "shell" /\ UNCHANGED <<account, stored, me, view, hasty>>
    BY <1>5 DEF Logout
  <2> QED
    BY <1>1, <2>1, SendIs
       DEF SessionIInv, SessionTyped, AnswersNamed, GateOpened, Loading, Calm, OneByOne,
           SameUser, Leaves, Pending, Screen
<1>6. ASSUME NEW u \in Staff, SubmitLogin(u)
      PROVE  SessionIInv'
  <2>1. /\ Send("login", u) /\ Screen = "login" /\ UNCHANGED <<account, stored, me, view>>
        /\ hasty' = (hasty \/ Pending("logout"))
    BY <1>6 DEF SubmitLogin, Pending
  <2>2. u \in Who
    BY DEF Who
  <2>3. /\ call' \in [Kinds -> Call] /\ call'["login"].st = "sent" /\ call'["login"].who = u
        /\ \A j \in Kinds : j # "login" => call'[j] = call[j]
    BY <1>1, <2>1, <2>2, SendIs
  <2>4. view.ready /\ Screen' = Screen
    BY <2>1 DEF Screen
  <2>5. SessionTyped' /\ AnswersNamed' /\ GateOpened' /\ Loading'
    BY <1>1, <2>1, <2>3, <2>4
       DEF SessionIInv, SessionTyped, AnswersNamed, GateOpened, Loading, Pending
  <2>6. Calm'
    BY <1>1, <2>1, <2>3, <2>4
       DEF SessionIInv, SessionTyped, Calm, OneByOne, SameUser, Leaves, Pending
  <2> QED
    BY <2>5, <2>6 DEF SessionIInv
<1>7. ASSUME NEW level, Work(level)
      PROVE  SessionIInv'
  <2>1. Send("work", stored) /\ Screen = "shell" /\ UNCHANGED <<account, stored, me, view, hasty>>
    BY <1>7 DEF Work
  <2> QED
    BY <1>1, <2>1, SendIs
       DEF SessionIInv, SessionTyped, AnswersNamed, GateOpened, Loading, Calm, OneByOne,
           SameUser, Leaves, Pending, Screen
<1> QED
  BY <1>2, <1>3, <1>4, <1>5, <1>6, <1>7

\* The backend answers, or does not.
LEMMA AnswerKeeps ==
  ASSUME SessionIInv, NEW k \in Kinds, Serve(k) \/ Fail(k)
  PROVE  SessionIInv'
<1> USE KindsAre
<1>1. SessionTyped
  BY DEF SessionIInv
<1>2. PICK a \in {"ok", "failed", "refused"} :
         /\ Answered(k, a)
         /\ a = "ok" => /\ call[k].st = "sent" /\ call[k].who \in Staff
                        /\ account[call[k].who].force => k \in {"login", "password"}
  BY <1>1 DEF Serve, Fail, Answer, SessionIInv, AnswersNamed, Pending, SessionTyped, Call, Who
<1>3. UNCHANGED <<stored, me, view, hasty>> /\ Pending(k)
  BY DEF Serve, Fail, Pending
<1>4. /\ call' \in [Kinds -> Call] /\ call'[k].st = a
      /\ call'[k].who \in {call[k].who, Nobody}
      /\ a = "ok" /\ k \in {"init", "login", "refresh"} =>
            call'[k].who = call[k].who /\ call'[k].force = account[call[k].who].force
      /\ \A j \in Kinds : j # k => call'[j] = call[j]
  BY <1>1, <1>2, AnsweredIs
<1>5. account' \in [Staff -> AccountRow]
  <2>1. CASE account' = account
    BY <1>1, <2>1 DEF SessionTyped
  <2>2. CASE account' = [account EXCEPT ![call[k].who].force = FALSE]
    <3> DEFINE u == call[k].who
               opened == [account[u] EXCEPT !.force = FALSE]
    <3>1. account' = [account EXCEPT ![u] = opened]
      BY <2>2
    <3>2. u \in Staff => opened \in AccountRow
      BY <1>1 DEF SessionTyped, AccountRow
    <3> HIDE DEF opened, u
    <3> QED
      BY <1>1, <3>1, <3>2 DEF SessionTyped
  <2> QED
    BY <2>1, <2>2 DEF Serve, Fail
<1>6. SessionTyped'
  BY <1>1, <1>3, <1>4, <1>5 DEF SessionTyped
<1>7. AnswersNamed'
  BY <1>1, <1>2, <1>3, <1>4 DEF SessionIInv, AnswersNamed, Pending, SessionTyped, AccountRow
<1>8. GateOpened' /\ Loading'
  BY <1>2, <1>3, <1>4 DEF SessionIInv, GateOpened, Loading, Pending
<1>9. Calm'
  BY <1>2, <1>3, <1>4 DEF SessionIInv, Calm, OneByOne, SameUser, Leaves, Pending, Screen
<1> QED
  BY <1>6, <1>7, <1>8, <1>9 DEF SessionIInv

\* The window hears an answer.
LEMMA HearKeeps ==
  ASSUME SessionIInv,
         \/ HearLogin \/ HearInit \/ HearPassword \/ HearRefresh \/ HearLogout
         \/ \E k \in Kinds : HearRefused(k) \/ HearNothing(k)
  PROVE  SessionIInv'
<1> USE KindsAre, NoCallTyped
<1>1. SessionTyped
  BY DEF SessionIInv
<1>2. CASE HearLogin
  <2> DEFINE u == call["login"].who
             now == [who |-> u, force |-> call["login"].force]
             open == [view EXCEPT !.ready = TRUE, !.locked = FALSE, !.pwChanged = FALSE]
  <2>1. /\ call["login"].st = "ok" /\ stored' = u /\ me' = now /\ view' = open
        /\ Heard("login") /\ UNCHANGED <<account, hasty>>
    BY <1>2 DEF HearLogin
  <2>2. u \in Staff /\ u # Nobody /\ Pending("login")
    BY <2>1, SessionAssumption DEF SessionIInv, AnswersNamed, Pending
  <2>3. now \in User /\ now.who = u
    BY <1>1, <2>2 DEF SessionTyped, Call, User, Who
  <2>4. open \in View /\ open.ready /\ ~open.pwChanged
    BY <1>1 DEF SessionTyped, View
  <2> HIDE DEF u, now, open
  <2>5. call' \in [Kinds -> Call] /\ ~Pending("login")' /\ \A j \in Kinds : j # "login" => call'[j] = call[j]
    BY <1>1, <2>1, HeardIs DEF Pending
  <2>6. SessionTyped'
    BY <1>1, <2>1, <2>2, <2>3, <2>4, <2>5 DEF SessionTyped, Who
  <2>7. view.ready
    BY <2>2 DEF SessionIInv, Loading
  <2>8. AnswersNamed' /\ GateOpened' /\ Loading'
    BY <2>1, <2>4, <2>5, <2>7 DEF SessionIInv, AnswersNamed, GateOpened, Loading, Pending
  <2>9. Calm'
    <3>1. SUFFICES ASSUME ~hasty
                   PROVE  OneByOne' /\ SameUser' /\ Leaves'
      BY <2>1 DEF Calm
    <3>2. Screen = "login" /\ ~Pending("logout") /\ ~Pending("password") /\ ~Pending("refresh")
      BY <2>2, <3>1 DEF SessionIInv, Calm, OneByOne
    <3> QED
      BY <2>1, <2>2, <2>3, <2>5, <3>2 DEF OneByOne, SameUser, Leaves, Pending
  <2> QED
    BY <2>6, <2>8, <2>9 DEF SessionIInv
<1>3. CASE HearInit
  <2>1. Pending("init") /\ ~view.ready /\ me = Nothing /\ \A k \in Kinds \ {"init"} : ~Pending(k)
    BY <1>3 DEF HearInit, Pending, SessionIInv, Loading
  <2>2. /\ Heard("init") /\ UNCHANGED <<account, hasty>>
        /\ \/ view' = [view EXCEPT !.ready = TRUE]
           \/ view' = [view EXCEPT !.ready = TRUE, !.leaving = Left("init")]
    BY <1>3 DEF HearInit, Forgotten
  <2>3. call' \in [Kinds -> Call] /\ call'["init"] = NoCall /\ \A j \in Kinds : j # "init" => call'[j] = call[j]
    BY <1>1, <2>2, HeardIs
  <2>4. \A k \in Kinds : ~Pending(k)'
    BY <2>1, <2>3 DEF Pending
  <2>5. view' \in View /\ view'.ready
    BY <1>1, <2>2 DEF SessionTyped, View, Left
  <2>6. \/ me' = Nothing /\ stored' = Nobody
        \/ stored' = stored /\ me' \in User /\ ~me'.force /\ me'.who = stored /\ stored # Nobody
    BY <1>1, <1>3 DEF HearInit, Forgotten, SessionTyped, Call, User, SessionIInv, AnswersNamed, Loading
  <2>7. SessionTyped'
    BY <1>1, <2>2, <2>3, <2>5, <2>6 DEF SessionTyped, Who
  <2> QED
    BY <2>4, <2>5, <2>6, <2>7
       DEF SessionIInv, AnswersNamed, GateOpened, Loading, Calm, OneByOne, SameUser, Leaves, Pending
<1>4. CASE HearPassword
  <2> DEFINE asks == [NoCall EXCEPT !.st = "sent", !.who = stored]
  <2>1. /\ call' = [call EXCEPT !["password"] = NoCall, !["refresh"] = asks]
        /\ Pending("password") /\ UNCHANGED <<account, stored, me, view, hasty>>
    BY <1>4 DEF HearPassword, Pending
  <2>2. asks \in Call /\ asks.st = "sent" /\ asks.who = stored
    BY <1>1 DEF NoCall, Call, SessionTyped
  <2> HIDE DEF asks
  <2>3. /\ call' \in [Kinds -> Call] /\ call'["password"] = NoCall /\ call'["refresh"] = asks
        /\ \A j \in Kinds \ {"password", "refresh"} : call'[j] = call[j]
    BY <1>1, <2>1, <2>2 DEF SessionTyped
  <2>4. SessionTyped'
    BY <1>1, <2>1, <2>3 DEF SessionTyped
  <2> QED
    BY <2>1, <2>2, <2>3, <2>4
       DEF SessionIInv, AnswersNamed, GateOpened, Loading, Calm, OneByOne, SameUser, Leaves, Pending, Screen
<1>5. CASE HearRefresh
  <2> DEFINE now == [who |-> call["refresh"].who, force |-> call["refresh"].force]
             open == [view EXCEPT !.pwChanged = TRUE]
  <2>1. /\ call["refresh"].st = "ok" /\ me' = now /\ view' = open
        /\ Heard("refresh") /\ UNCHANGED <<account, stored, hasty>>
    BY <1>5 DEF HearRefresh
  <2>2. call["refresh"].who \in Staff /\ call["refresh"].who # Nobody /\ Pending("refresh") /\ ~call["refresh"].force
    BY <2>1, SessionAssumption DEF SessionIInv, AnswersNamed, Pending
  <2>3. now \in User /\ now.who = call["refresh"].who /\ ~now.force
    BY <1>1, <2>2 DEF SessionTyped, Call, User
  <2>4. /\ open \in View /\ open.ready = view.ready /\ open.leaving = view.leaving
        /\ open.slash = view.slash /\ open.locked = view.locked
    BY <1>1 DEF SessionTyped, View
  <2> HIDE DEF now, open
  <2>5. call' \in [Kinds -> Call] /\ ~Pending("refresh")' /\ \A j \in Kinds : j # "refresh" => call'[j] = call[j]
    BY <1>1, <2>1, HeardIs DEF Pending
  <2>6. SessionTyped'
    BY <1>1, <2>1, <2>3, <2>4, <2>5 DEF SessionTyped
  <2>7. view.ready
    BY <2>2 DEF SessionIInv, Loading
  <2>8. AnswersNamed' /\ GateOpened' /\ Loading'
    BY <2>1, <2>3, <2>4, <2>5, <2>7 DEF SessionIInv, AnswersNamed, GateOpened, Loading, Pending
  <2>9. Calm'
    <3>1. SUFFICES ASSUME ~hasty
                   PROVE  OneByOne' /\ SameUser' /\ Leaves'
      BY <2>1 DEF Calm
    <3>2. Screen = "gate" /\ ~Pending("password") /\ ~Pending("logout") /\ ~Pending("login")
      BY <2>2, <3>1 DEF SessionIInv, Calm, OneByOne
    <3>3. me.who # Nobody /\ now.who = me.who
      BY <2>2, <2>3, <3>1, <3>2 DEF SessionIInv, Calm, SameUser, Screen
    <3> QED
      BY <2>1, <2>3, <2>4, <2>5, <3>1, <3>2, <3>3
         DEF SessionIInv, Calm, OneByOne, SameUser, Leaves, Pending
  <2> QED
    BY <2>6, <2>8, <2>9 DEF SessionIInv
<1>6. CASE HearLogout
  <2>1. /\ Pending("logout") /\ stored' = Nobody /\ me' = Nothing
        /\ view' = [view EXCEPT !.ready = TRUE, !.leaving = Left("logout")]
        /\ Heard("logout") /\ UNCHANGED <<account, hasty>>
    BY <1>6 DEF HearLogout, Forgotten, Pending
  <2>2. call' \in [Kinds -> Call] /\ ~Pending("logout")' /\ \A j \in Kinds : j # "logout" => call'[j] = call[j]
    BY <1>1, <2>1, HeardIs DEF Pending
  <2>3. view.ready /\ ~Pending("init")
    BY <2>1 DEF SessionIInv, Loading
  <2>4. view' \in View /\ view'.ready /\ view'.locked = view.locked /\ view'.pwChanged = view.pwChanged
    BY <1>1, <2>1 DEF SessionTyped, View, Left
  <2>5. SessionTyped'
    BY <1>1, <2>1, <2>2, <2>4 DEF SessionTyped, Who
  <2>6. AnswersNamed' /\ GateOpened' /\ Loading'
    BY <2>1, <2>2, <2>3, <2>4 DEF SessionIInv, AnswersNamed, GateOpened, Loading, Pending
  <2>7. ~hasty => ~Pending("login") /\ ~Pending("password") /\ ~Pending("refresh")
    BY <2>1 DEF SessionIInv, Calm, OneByOne
  <2>8. Calm'
    BY <2>1, <2>2, <2>7 DEF Calm, OneByOne, SameUser, Leaves, Pending
  <2> QED
    BY <2>5, <2>6, <2>8 DEF SessionIInv
<1>7. ASSUME NEW k \in Kinds, HearRefused(k)
      PROVE  SessionIInv'
  <2>1. /\ k \in {"password", "refresh", "work"} /\ stored' = Nobody /\ Pending(k)
        /\ view' = [view EXCEPT !.leaving = view.leaving \/ view.slash]
        /\ Heard(k) /\ UNCHANGED <<account, me, hasty>>
    BY <1>7 DEF HearRefused, Pending, Left
  <2>2. call' \in [Kinds -> Call] /\ call'[k] = NoCall /\ \A j \in Kinds : j # k => call'[j] = call[j]
    BY <1>1, <2>1, HeardIs
  <2>3. /\ view' \in View /\ view'.ready = view.ready /\ view'.locked = view.locked
        /\ view'.pwChanged = view.pwChanged /\ (view'.leaving \/ ~view'.slash)
    BY <1>1, <2>1 DEF SessionTyped, View
  <2>4. SessionTyped'
    BY <1>1, <2>1, <2>2, <2>3 DEF SessionTyped, Who
  <2>5. view.ready /\ ~Pending("init")
    BY <2>1 DEF SessionIInv, Loading
  <2>6. AnswersNamed' /\ GateOpened' /\ Loading'
    BY <2>1, <2>2, <2>3, <2>5 DEF SessionIInv, AnswersNamed, GateOpened, Loading, Pending
  <2>7. Screen' = Screen
    BY <2>1, <2>3 DEF Screen
  <2>8. Calm'
    BY <2>1, <2>2, <2>3, <2>7 DEF SessionIInv, Calm, OneByOne, SameUser, Leaves, Pending
  <2> QED
    BY <2>4, <2>6, <2>8 DEF SessionIInv
<1>8. ASSUME NEW k \in Kinds, HearNothing(k)
      PROVE  SessionIInv'
  <2>1. Heard(k) /\ UNCHANGED <<account, stored, me, view, hasty>>
    BY <1>8 DEF HearNothing
  <2>2. call' \in [Kinds -> Call] /\ call'[k] = NoCall /\ \A j \in Kinds : j # k => call'[j] = call[j]
    BY <1>1, <2>1, HeardIs
  <2>3. Screen' = Screen
    BY <2>1 DEF Screen
  <2> QED
    BY <2>1, <2>2, <2>3
       DEF SessionIInv, SessionTyped, AnswersNamed, GateOpened, Loading, Calm, OneByOne, SameUser,
           Leaves, Pending
<1> QED
  BY <1>2, <1>3, <1>4, <1>5, <1>6, <1>7, <1>8

LEMMA SessionKeep == SessionIInv /\ [SessionNext]_sessionVars => SessionIInv'
<1> SUFFICES ASSUME SessionIInv, [SessionNext]_sessionVars
             PROVE  SessionIInv'
  OBVIOUS
<1>1. CASE Reload
  <2> DEFINE b == view.slash /\ ~view.leaving
  <2>1. /\ view' = FreshView(b) /\ me' = Nothing /\ call' = [k \in Kinds |-> NoCall]
        /\ UNCHANGED <<account, stored, hasty>>
    BY <1>1 DEF Reload
  <2>2. b \in BOOLEAN
    OBVIOUS
  <2> HIDE DEF b
  <2>3. view' \in View /\ ~view'.ready /\ ~view'.pwChanged
    BY <2>1, <2>2, NoCallTyped
  <2>4. \A k \in Kinds : ~Pending(k)'
    BY <2>1, NoCallTyped DEF Pending
  <2>5. SessionTyped'
    BY <2>1, <2>3, NoCallTyped DEF SessionIInv, SessionTyped
  <2> QED
    BY <2>1, <2>3, <2>4, <2>5, NoCallTyped, KindsAre
       DEF SessionIInv, AnswersNamed, GateOpened, Loading, Calm, OneByOne, SameUser, Leaves, Pending
<1>2. ASSUME NEW u \in Staff, Administer(u)
      PROVE  SessionIInv'
  <2>1. account' \in [Staff -> AccountRow] /\ UNCHANGED <<stored, me, view, call, hasty>>
    BY <1>2 DEF Administer, SessionIInv, SessionTyped, AccountRow
  <2>2. Screen' = Screen
    BY <2>1 DEF Screen
  <2> QED
    BY <2>1, <2>2
       DEF SessionIInv, SessionTyped, AnswersNamed, GateOpened, Loading, Calm, OneByOne, SameUser,
           Leaves, Pending
<1>3. CASE UNCHANGED sessionVars
  BY <1>3
     DEF sessionVars, SessionIInv, SessionTyped, AnswersNamed, GateOpened, Loading, Calm, OneByOne,
         SameUser, Leaves, Pending, Screen
<1> QED
  BY <1>1, <1>2, <1>3, AskKeeps, AnswerKeeps, HearKeeps DEF SessionNext

(***************************************************************************)
(* The shell is never shown over a copy that still asks for a new          *)
(* password.                                                               *)
(***************************************************************************)
THEOREM GateAlwaysHolds == SessionSpec => []GateHolds
<1>1. SessionIInv => GateHolds
  BY DEF SessionIInv, GateOpened, GateHolds, Screen
<1> QED
  BY SessionStart, SessionKeep, <1>1, PTL DEF SessionSpec

(***************************************************************************)
(* The name on the screen is the one requests are made in, however their   *)
(* answers overlap, until a login is sent over an unanswered logout.       *)
(***************************************************************************)
THEOREM OneIdentityHolds == SessionSpec => []OneIdentity
<1>1. SessionIInv => OneIdentity
  BY DEF SessionIInv, Calm, SameUser, OneIdentity
<1> QED
  BY SessionStart, SessionKeep, <1>1, PTL DEF SessionSpec

(***************************************************************************)
(* Until then a shell whose session is gone is being left, or its path is  *)
(* /login.                                                                 *)
(***************************************************************************)
THEOREM DeadShellsLeave == SessionSpec => []DeadShellLeaves
<1>1. SessionIInv => DeadShellLeaves
  BY DEF SessionIInv, Calm, Leaves, DeadShellLeaves, Screen
<1> QED
  BY SessionStart, SessionKeep, <1>1, PTL DEF SessionSpec

-----------------------------------------------------------------------------
(***************************************************************************)
(* Settings: what a window shows is what an order meets                    *)
(***************************************************************************)
-----------------------------------------------------------------------------
(* Versions *)

Version == [v : BOOLEAN, ver : Nat]
Local == [pc : {"idle", "fill", "upsert", "copy", "answered", "asked", "read"}, got : Version]

SettingsTyped ==
    /\ setting \in Version
    /\ copy \in Version \cup {NoCopy}
    /\ gate \in [Gates -> Local]
    /\ page \in [Windows -> Version]
    /\ flip \in [Windows -> Local]
    /\ load \in [Windows -> [Loads -> Local]]
    /\ raced \in BOOLEAN

\* A version is that of the row s, or older.
Past(x, s) == x.ver <= s.ver /\ (x.ver = s.ver => x = s)

\* Whatever was read of the row, or written to it, is a version of it.
AllPast ==
    /\ copy # NoCopy => Past(copy, setting)
    /\ \A g \in Gates : gate[g].pc = "fill" => Past(gate[g].got, setting)
    /\ \A u \in Windows :
          /\ Past(page[u], setting)
          /\ flip[u].pc \in {"copy", "answered"} => Past(flip[u].got, setting)
          /\ \A k \in Loads : load[u][k].pc = "read" => Past(load[u][k].got, setting)

\* The copy is the row, or about to be written, or was overtaken.
CopyFollows ==
    copy = NoCopy \/ copy = setting \/ raced \/ \E w \in Windows : flip[w].pc = "copy"

SettingsIInv == SettingsTyped /\ AllPast /\ CopyFollows

LEMMA StillTyped == Still \in Local /\ Still.pc = "idle" /\ Default \in Version /\ NoCopy \notin Version
  BY DEF Still, Default, Local, Version, NoCopy

LEMMA SettingsStart == SettingsInit => SettingsIInv
<1> SUFFICES ASSUME SettingsInit
             PROVE  SettingsIInv
  OBVIOUS
<1>1. SettingsTyped
  BY StillTyped DEF SettingsInit, SettingsTyped
<1>2. Default.ver <= Default.ver
  BY DEF Default
<1>3. AllPast /\ CopyFollows
  BY <1>2, StillTyped DEF SettingsInit, AllPast, Past, CopyFollows
<1> QED
  BY <1>1, <1>3 DEF SettingsIInv

\* The row is written: every version is now older.
LEMMA UpsertKeeps ==
  ASSUME SettingsIInv, NEW u \in Windows, Upsert(u)
  PROVE  SettingsIInv'
<1> DEFINE new == [v |-> flip[u].got.v, ver |-> setting.ver + 1]
           mine == [pc |-> "copy", got |-> new]
<1>1. /\ setting' = new /\ flip' = [flip EXCEPT ![u] = mine]
      /\ UNCHANGED <<copy, gate, page, load, raced>>
  BY DEF Upsert
<1>2. new \in Version /\ new.ver = setting.ver + 1 /\ setting.ver \in Nat
  BY DEF SettingsIInv, SettingsTyped, Version, Local
<1>3. mine \in Local /\ mine.pc = "copy" /\ mine.got = new
  BY <1>2 DEF Local
<1> HIDE DEF new, mine
<1>4. SettingsTyped'
  BY <1>1, <1>2, <1>3 DEF SettingsIInv, SettingsTyped
<1>5. ASSUME NEW x \in Version, Past(x, setting)
      PROVE  x.ver <= new.ver /\ x.ver # new.ver
  BY <1>2, <1>5 DEF Past, Version
<1>6. ASSUME NEW x \in Version, Past(x, setting)
      PROVE  Past(x, setting')
  BY <1>1, <1>5, <1>6 DEF Past
<1>7. new.ver <= setting'.ver /\ new = setting'
  BY <1>1, <1>2
<1>8. AllPast'
  <2>1. copy' # NoCopy => Past(copy', setting')
    BY <1>1, <1>6 DEF AllPast, SettingsIInv, SettingsTyped
  <2>2. ASSUME NEW g \in Gates, gate'[g].pc = "fill"
        PROVE  Past(gate'[g].got, setting')
    BY <1>1, <1>6, <2>2 DEF AllPast, SettingsIInv, SettingsTyped, Local
  <2>3. ASSUME NEW w \in Windows
        PROVE  Past(page'[w], setting')
    BY <1>1, <1>6 DEF AllPast, SettingsIInv, SettingsTyped
  <2>4. ASSUME NEW w \in Windows, flip'[w].pc \in {"copy", "answered"}
        PROVE  Past(flip'[w].got, setting')
    <3>1. CASE w = u
      BY <1>1, <1>3, <1>7, <3>1 DEF Past, SettingsIInv, SettingsTyped
    <3>2. CASE w # u
      BY <1>1, <1>6, <2>4, <3>2 DEF AllPast, SettingsIInv, SettingsTyped, Local
    <3> QED
      BY <3>1, <3>2
  <2>5. ASSUME NEW w \in Windows, NEW k \in Loads, load'[w][k].pc = "read"
        PROVE  Past(load'[w][k].got, setting')
    BY <1>1, <1>6, <2>5 DEF AllPast, SettingsIInv, SettingsTyped, Local
  <2> QED
    BY <2>1, <2>2, <2>3, <2>4, <2>5 DEF AllPast
<1>9. CopyFollows'
  BY <1>1, <1>3 DEF CopyFollows, SettingsIInv, SettingsTyped
<1> QED
  BY <1>4, <1>8, <1>9 DEF SettingsIInv

\* Something is put over the copy.
LEMMA CopiedFollows ==
  ASSUME SettingsIInv, NEW x \in Version, Past(x, setting), Copied(x), UNCHANGED setting
  PROVE  copy' = x /\ Past(x, setting') /\ CopyFollows' /\ raced' \in BOOLEAN
  BY DEF Copied, Past, CopyFollows

LEMMA CopyKeeps ==
  ASSUME SettingsIInv,
         \/ \E g \in Gates : GetFill(g)
         \/ \E u \in Windows : SetCopy(u)
  PROVE  SettingsIInv'
<1>1. CASE \E g \in Gates : GetFill(g)
  <2>1. PICK g \in Gates : GetFill(g)
    BY <1>1
  <2>2. gate[g].got \in Version /\ Past(gate[g].got, setting)
    BY <2>1 DEF GetFill, SettingsIInv, SettingsTyped, AllPast, Local
  <2>3. copy' = gate[g].got /\ CopyFollows' /\ raced' \in BOOLEAN /\ Past(gate[g].got, setting')
    BY <2>1, <2>2, CopiedFollows DEF GetFill
  <2>4. SettingsTyped'
    BY <2>1, <2>2, <2>3, StillTyped DEF GetFill, SettingsIInv, SettingsTyped
  <2>5. AllPast'
    BY <2>1, <2>3, StillTyped DEF GetFill, AllPast, Past, SettingsIInv, SettingsTyped
  <2> QED
    BY <2>3, <2>4, <2>5 DEF SettingsIInv
<1>2. CASE \E u \in Windows : SetCopy(u)
  <2>1. PICK u \in Windows : SetCopy(u)
    BY <1>2
  <2>2. flip[u].got \in Version /\ Past(flip[u].got, setting)
    BY <2>1 DEF SetCopy, SettingsIInv, SettingsTyped, AllPast, Local
  <2>3. copy' = flip[u].got /\ CopyFollows' /\ raced' \in BOOLEAN /\ Past(flip[u].got, setting')
    BY <2>1, <2>2, CopiedFollows DEF SetCopy
  <2> DEFINE mine == [flip[u] EXCEPT !.pc = "answered"]
  <2>4. mine \in Local /\ mine.pc = "answered" /\ mine.got = flip[u].got
    BY DEF SettingsIInv, SettingsTyped, Local
  <2>5. flip' = [flip EXCEPT ![u] = mine] /\ UNCHANGED <<setting, gate, page, load>>
    BY <2>1 DEF SetCopy
  <2> HIDE DEF mine
  <2>6. SettingsTyped'
    BY <2>2, <2>3, <2>4, <2>5 DEF SettingsIInv, SettingsTyped
  <2>7. AllPast'
    BY <2>2, <2>3, <2>4, <2>5 DEF AllPast, Past, SettingsIInv, SettingsTyped
  <2> QED
    BY <2>3, <2>6, <2>7 DEF SettingsIInv
<1> QED
  BY <1>1, <1>2

\* Requests of the windows but for the two writes.
LEMMA FlipKeeps ==
  ASSUME SettingsIInv, NEW u \in Windows,
         Flip(u) \/ HearBanner(u) \/ HearPage(u) \/ FlipFails(u)
  PROVE  SettingsIInv'
<1>1. CASE Flip(u)
  <2> DEFINE asked == [v |-> ~page[u].v, ver |-> 0]
             mine == [pc |-> "upsert", got |-> asked]
  <2>1. flip' = [flip EXCEPT ![u] = mine] /\ flip[u].pc = "idle"
        /\ UNCHANGED <<setting, copy, gate, page, load, raced>>
    BY <1>1 DEF Flip
  <2>2. asked \in Version
    BY DEF SettingsIInv, SettingsTyped, Version
  <2>3. mine \in Local /\ mine.pc = "upsert"
    BY <2>2 DEF Local
  <2> HIDE DEF mine
  <2> QED
    BY <2>1, <2>3 DEF SettingsIInv, SettingsTyped, AllPast, Past, CopyFollows
<1>2. CASE HearBanner(u) \/ HearPage(u)
  <2> DEFINE ask == [pc |-> "asked", got |-> Default]
  <2>1. /\ load' = [load EXCEPT ![u]["flipped"] = ask] /\ flip' = [flip EXCEPT ![u] = Still]
        /\ flip[u].pc = "answered" /\ UNCHANGED <<setting, copy, gate, raced>>
    BY <1>2 DEF HearBanner, HearPage, FlipAnswered
  <2>2. ask \in Local /\ ask.pc = "asked" /\ "flipped" \in Loads
    BY StillTyped DEF Local, Loads
  <2>3. page' \in [Windows -> Version] /\ \A w \in Windows : Past(page'[w], setting')
    BY <1>2, <2>1 DEF HearBanner, HearPage, SettingsIInv, SettingsTyped, AllPast, Local
  <2> HIDE DEF ask
  <2>4. SettingsTyped'
    BY <2>1, <2>2, <2>3, StillTyped DEF SettingsIInv, SettingsTyped
  <2>5. AllPast'
    BY <2>1, <2>2, <2>3, StillTyped DEF SettingsIInv, SettingsTyped, AllPast, Past
  <2> QED
    BY <2>1, <2>4, <2>5, StillTyped DEF SettingsIInv, SettingsTyped, CopyFollows
<1>3. CASE FlipFails(u)
  <2> DEFINE same == [v |-> flip[u].got.v, ver |-> 0]
             retry == [pc |-> "upsert", got |-> same]
  <2>1. PICK again \in {Still, retry} : flip' = [flip EXCEPT ![u] = again]
    BY <1>3 DEF FlipFails
  <2>2. raced' = (raced \/ flip[u].pc = "copy") /\ UNCHANGED <<setting, copy, gate, page, load>>
    BY <1>3 DEF FlipFails
  <2>3. same \in Version
    BY DEF SettingsIInv, SettingsTyped, Version, Local
  <2>4. again \in Local /\ again.pc \in {"idle", "upsert"}
    BY <2>3, StillTyped DEF Local
  <2> HIDE DEF retry
  <2>5. SettingsTyped' /\ AllPast'
    BY <2>1, <2>2, <2>4 DEF SettingsIInv, SettingsTyped, AllPast, Past
  <2> QED
    BY <2>1, <2>2, <2>4, <2>5 DEF SettingsIInv, SettingsTyped, CopyFollows
<1> QED
  BY <1>1, <1>2, <1>3

LEMMA LoadKeeps ==
  ASSUME SettingsIInv, NEW u \in Windows,
         OpenPage(u) \/ \E k \in Loads : ReadRow(u, k) \/ HearLoad(u, k)
  PROVE  SettingsIInv'
<1>1. CASE OpenPage(u)
  <2> DEFINE mine == [load[u]["opened"] EXCEPT !.pc = "asked"]
  <2>1. load' = [load EXCEPT ![u]["opened"] = mine] /\ UNCHANGED <<setting, copy, gate, page, flip, raced>>
    BY <1>1 DEF OpenPage
  <2>2. mine \in Local /\ mine.pc = "asked"
    BY DEF SettingsIInv, SettingsTyped, Local, Loads
  <2> HIDE DEF mine
  <2> QED
    BY <2>1, <2>2 DEF SettingsIInv, SettingsTyped, AllPast, Past, CopyFollows
<1>2. ASSUME NEW k \in Loads, ReadRow(u, k)
      PROVE  SettingsIInv'
  <2> DEFINE mine == [pc |-> "read", got |-> setting]
  <2>1. load' = [load EXCEPT ![u][k] = mine] /\ UNCHANGED <<setting, copy, gate, page, flip, raced>>
    BY <1>2 DEF ReadRow
  <2>2. mine \in Local /\ mine.got = setting /\ Past(setting, setting)
    BY DEF SettingsIInv, SettingsTyped, Local, Past, Version
  <2> HIDE DEF mine
  <2> QED
    BY <2>1, <2>2 DEF SettingsIInv, SettingsTyped, AllPast, Past, CopyFollows
<1>3. ASSUME NEW k \in Loads, HearLoad(u, k)
      PROVE  SettingsIInv'
  <2>1. page' \in [Windows -> Version] /\ \A w \in Windows : Past(page'[w], setting')
    <3>1. load[u][k] \in Local /\ page \in [Windows -> Version] /\ setting' = setting
      BY <1>3 DEF HearLoad, SettingsIInv, SettingsTyped
    <3>2. load[u][k].got \in Version
      BY <3>1 DEF Local
    <3>3. CASE page' = page
      BY <3>1, <3>3 DEF SettingsIInv, AllPast
    <3>4. CASE load[u][k].pc = "read" /\ page' = [page EXCEPT ![u] = load[u][k].got]
      <4>1. Past(load[u][k].got, setting)
        BY <3>4 DEF SettingsIInv, AllPast
      <4> QED
        BY <3>1, <3>2, <3>4, <4>1 DEF SettingsIInv, AllPast
    <3> QED
      BY <1>3, <3>3, <3>4 DEF HearLoad
  <2> DEFINE mine == [load[u] EXCEPT ![k] = Still]
  <2>2. load' = [load EXCEPT ![u] = mine] /\ UNCHANGED <<setting, copy, gate, flip, raced>>
    BY <1>3 DEF HearLoad
  <2>3. mine \in [Loads -> Local] /\ \A j \in Loads : mine[j] = IF j = k THEN Still ELSE load[u][j]
    BY StillTyped DEF SettingsIInv, SettingsTyped
  <2> HIDE DEF mine
  <2>4. SettingsTyped'
    BY <2>1, <2>2, <2>3 DEF SettingsIInv, SettingsTyped
  <2>5. \A w \in Windows, j \in Loads :
           load'[w][j] = IF w = u /\ j = k THEN Still ELSE load[w][j]
    BY <2>2, <2>3 DEF SettingsIInv, SettingsTyped
  <2>6. AllPast'
    BY <2>1, <2>2, <2>5, StillTyped DEF SettingsIInv, AllPast
  <2> QED
    BY <2>2, <2>4, <2>6 DEF SettingsIInv, CopyFollows
<1> QED
  BY <1>1, <1>2, <1>3

LEMMA SettingsKeep == SettingsIInv /\ [SettingsNext]_settingsVars => SettingsIInv'
<1> SUFFICES ASSUME SettingsIInv, [SettingsNext]_settingsVars
             PROVE  SettingsIInv'
  OBVIOUS
<1>1. ASSUME NEW g \in Gates, GetMiss(g)
      PROVE  SettingsIInv'
  <2> DEFINE mine == [pc |-> "fill", got |-> setting]
  <2>1. gate' = [gate EXCEPT ![g] = mine] /\ UNCHANGED <<setting, copy, page, flip, load, raced>>
    BY <1>1 DEF GetMiss
  <2>2. mine \in Local /\ mine.got = setting /\ Past(setting, setting)
    BY DEF SettingsIInv, SettingsTyped, Local, Past, Version
  <2> HIDE DEF mine
  <2> QED
    BY <2>1, <2>2 DEF SettingsIInv, SettingsTyped, AllPast, Past, CopyFollows
<1>2. CASE RestartBackend
  BY <1>2, StillTyped
     DEF RestartBackend, SettingsIInv, SettingsTyped, AllPast, Past, CopyFollows
<1>3. CASE UNCHANGED settingsVars
  BY <1>3 DEF settingsVars, SettingsIInv, SettingsTyped, AllPast, Past, CopyFollows
<1> QED
  BY <1>1, <1>2, <1>3, UpsertKeeps, CopyKeeps, FlipKeeps, LoadKeeps DEF SettingsNext

(***************************************************************************)
(* The intake of orders and an up to date window agree about the switch,   *)
(* for any number of windows and orders: what the intake asks is the row,  *)
(* unless a write or an older reader is about to be, or was, put over it.  *)
(***************************************************************************)
THEOREM GateAgreement == SettingsSpec => []GateAgrees
<1>1. SettingsIInv => GateAgrees
  BY DEF SettingsIInv, SettingsTyped, AllPast, Past, CopyFollows, GateAgrees, Accepts
<1> QED
  BY SettingsStart, SettingsKeep, <1>1, PTL DEF SettingsSpec

-----------------------------------------------------------------------------
(* The page and the server decide alike *)

\* An account that passes into the administration may give the roles the page
\* lets one choose.
LEMMA AdminMayGive ==
  ASSUME AccountsTypeOK, NEW a \in Users, Passes(a, "admin"), NEW x \in RoleChoices
  PROVE  MayGive(row[a].role, x)
<1>1. row[a] \in Row /\ row[a].level = Level[row[a].role]
  BY DEF AccountsTypeOK
<1>2. row[a].role \in {"owner", "manager"}
  BY <1>1 DEF Passes, Row, Level, Roles
<1> QED
  BY <1>2 DEF MayGive, RoleChoices, Level, Roles

\* Whatever the page offers to whom the guard lets in, the service accepts,
\* whoever has been created, promoted, disabled or removed meanwhile.
THEOREM OffersAreAccepted == AccountsSpec => []OfferedIsAccepted
<1>1. AccountsTypeOK => OfferedIsAccepted
  <2> SUFFICES ASSUME AccountsTypeOK, NEW a \in Users, Passes(a, "admin"),
                      NEW op \in AdminOps, NEW t \in Users, NEW x \in Roles, Offers(op, a, t, x)
               PROVE  Allowed(op, a, row[a].role, t, x)
    BY DEF OfferedIsAccepted
  <2>1. CASE op = "create"
    BY <2>1, AdminMayGive DEF Offers, NewAccount, Available, NameFree, Allowed, Button
  <2>2. CASE op = "contact"
    BY <2>2 DEF Offers, Button, CanEdit, Allowed, AllowedContact, CanMutate
  <2>3. CASE op = "activate"
    BY <2>3 DEF Offers, Button, CanEdit, Allowed, CanMutate, Passes
  <2>4. CASE op \in {"reset", "remove"}
    BY <2>4 DEF Offers, Button, CanDisable, Allowed, CanMutate
  <2>5. CASE op = "role"
    BY <2>5, AdminMayGive DEF Offers, Button, OwnerMay, Allowed, CanMutate
  <2>6. CASE op = "perms"
    BY <2>6 DEF Offers, Button, OwnerMay, Allowed, CanMutate
  <2> QED
    BY <2>1, <2>2, <2>3, <2>4, <2>5, <2>6 DEF Offers, Button
<1> QED
  BY <1>1, AccountsTyped, PTL
=============================================================================
