---------------------------- MODULE IntakeProofs ----------------------------
(* Theorems about Intake, for any number of requests and of sales. *)
EXTENDS Intake, TLAPS

\* The steps of one request.
CallStep(c) ==
    \/ \E s \in Sales, k, e \in BOOLEAN : Send(c, s, k, e)
    \/ Vanish(c)
    \/ TurnAway(c)
    \/ Serve(c)
    \/ Close(c)

LEMMA NoCallType == NoCall \in Call
  BY DEF NoCall, Call, CallPcs, Answers

\* Two fields of a request change at once.
LEMMA AnswerType ==
    ASSUME IntakeTypeOK, NEW c \in Calls, NEW pc \in CallPcs, NEW res \in Answers,
           ~At(c, "idle"),
           call' = [call EXCEPT ![c].pc = pc, ![c].res = res]
    PROVE  /\ call' = [call EXCEPT ![c] = [call[c] EXCEPT !.pc = pc, !.res = res]]
           /\ call' \in [Calls -> Call]
           /\ \A b \in Calls : call'[b].pc # "idle" => call'[b].sale \in Sales
  <1>1. /\ call \in [Calls -> Call]
        /\ call[c] \in Call
        /\ call[c].sale \in Sales
    BY DEF IntakeTypeOK, At
  <1> DEFINE q == [call[c] EXCEPT !.pc = pc, !.res = res]
  <1>2. q \in Call /\ q.sale \in Sales
    BY <1>1 DEF Call
  <1>3. call' = [call EXCEPT ![c] = q]
    BY <1>1 DEF Call
  <1>4. QED
    BY <1>1, <1>2, <1>3 DEF IntakeTypeOK

LEMMA CallStepType ==
    ASSUME IntakeTypeOK, NEW c \in Calls, CallStep(c)
    PROVE  IntakeTypeOK'
  <1>1. /\ call \in [Calls -> Call]
        /\ call[c] \in Call
        /\ call[c].pc # "idle" => call[c].sale \in Sales
    BY DEF IntakeTypeOK
  <1>2. ASSUME NEW s \in Sales, NEW k \in BOOLEAN, NEW e \in BOOLEAN,
               Send(c, s, k, e)
        PROVE  IntakeTypeOK'
    <2>1. [NoCall EXCEPT !.pc = "sent", !.sale = s,
                         !.keyed = k, !.external = e] \in Call
      BY DEF NoCall, Call, CallPcs, Answers
    <2>2. QED
      BY <1>2, <2>1 DEF Send, IntakeTypeOK, NoCall
  <1>3. CASE Vanish(c)
    BY <1>3, NoCallType DEF Vanish, IntakeTypeOK, NoCall
  <1>4. CASE TurnAway(c)
    <2>1. PICK res \in Answers : Answer(c, res)
      BY <1>4 DEF TurnAway, Answers
    <2>2. "answered" \in CallPcs /\ ~At(c, "idle")
      BY <1>4 DEF TurnAway, CallPcs, At
    <2>3. QED
      BY <1>4, <2>1, <2>2, AnswerType DEF TurnAway, Answer, IntakeTypeOK
  <1>5. CASE Serve(c)
    <2>1. CASE TakeClaim(c)
      BY <1>1, <2>1 DEF TakeClaim, GoTo, At, SaleOf, IntakeTypeOK, Call, CallPcs, Claims
    <2>2. CASE MissClaim(c)
      BY <1>1, <2>2 DEF MissClaim, GoTo, At, IntakeTypeOK, Call, CallPcs
    <2>3. CASE Replay(c)
      BY <2>3, AnswerType DEF Replay, Answer, At, IntakeTypeOK, CallPcs, Answers
    <2>4. CASE Busy(c)
      BY <2>4, AnswerType DEF Busy, Answer, At, IntakeTypeOK, CallPcs, Answers
    <2>5. CASE Unkeyed(c)
      BY <1>1, <2>5 DEF Unkeyed, GoTo, At, IntakeTypeOK, Call, CallPcs
    <2>6. CASE StoreClosed(c)
      BY <2>6, AnswerType DEF StoreClosed, Answer, At, IntakeTypeOK, CallPcs, Answers
    <2>7. CASE Proceed(c)
      BY <1>1, <2>7 DEF Proceed, GoTo, At, IntakeTypeOK, Call, CallPcs
    <2>8. ASSUME OneMore(c), At(c, "tx")
          PROVE  made' \in [Sales -> [BOOLEAN -> Nat]]
      <3>1. call[c].sale \in Sales /\ call[c].keyed \in BOOLEAN
        BY <1>1, <2>8 DEF At, Call
      <3>2. made[call[c].sale][call[c].keyed] + 1 \in Nat
        BY <3>1 DEF IntakeTypeOK
      <3>3. QED
        BY <2>8, <3>1, <3>2 DEF OneMore, SaleOf, IntakeTypeOK
    <2>9. CASE CommitOrder(c)
      BY <1>1, <2>8, <2>9 DEF CommitOrder, GoTo, At, IntakeTypeOK, Call, CallPcs
    <2>10. CASE Reject(c)
      <3>1. PICK res \in Answers : Throw(c, res)
        BY <2>10 DEF Reject, Answers
      <3>2. "release" \in CallPcs /\ ~At(c, "idle")
        BY <2>10 DEF Reject, CallPcs, At
      <3>3. QED
        BY <2>10, <3>1, <3>2, AnswerType DEF Reject, Throw, IntakeTypeOK
    <2>11. CASE CommitUnknown(c)
      BY <2>8, <2>11, AnswerType DEF CommitUnknown, Throw, At, IntakeTypeOK, CallPcs, Answers
    <2>12. ASSUME NEW to \in Claims, SetClaim(c, to)
           PROVE  claim' \in [Sales -> Claims]
      BY <2>12 DEF SetClaim, IntakeTypeOK
    <2>13. CASE Stamp(c)
      BY <2>12, <2>13, AnswerType DEF Stamp, Answer, At, IntakeTypeOK, CallPcs, Answers, Claims
    <2>14. CASE Release(c)
      BY <1>1, <2>12, <2>14 DEF Release, GoTo, At, IntakeTypeOK, Call, CallPcs, Claims
    <2>15. QED
      BY <1>5, <2>1, <2>2, <2>3, <2>4, <2>5, <2>6, <2>7, <2>9, <2>10, <2>11,
         <2>13, <2>14 DEF Serve
  <1>6. CASE Close(c)
    BY <1>6, NoCallType DEF Close, IntakeTypeOK, NoCall
  <1>7. QED
    BY <1>2, <1>3, <1>4, <1>5, <1>6 DEF CallStep

LEMMA IntakeStepType ==
    ASSUME IntakeTypeOK, [IntakeNext]_intakeVars
    PROVE  IntakeTypeOK'
  <1>1. CASE IntakeNext
    <2>1. CASE Crash
      BY <2>1, NoCallType DEF Crash, IntakeTypeOK, NoCall
    <2>2. QED
      BY <1>1, <2>1, CallStepType DEF IntakeNext, CallStep
  <1>2. CASE UNCHANGED intakeVars
    BY <1>2 DEF intakeVars, IntakeTypeOK
  <1>3. QED
    BY <1>1, <1>2

LEMMA IntakeInitType == IntakeInit => IntakeTypeOK
  BY NoCallType DEF IntakeInit, IntakeTypeOK, NoCall, Claims

\* The claims, the counts and the requests always have their types.
THEOREM IntakeTyped == IntakeSpec => []IntakeTypeOK
  BY IntakeInitType, IntakeStepType, PTL DEF IntakeSpec
-----------------------------------------------------------------------------
(* The claim is a lock, whatever fails.                                    *)

\* Who works on a key has claimed it.
ClaimHeld ==
    \A c \in Calls, s \in Sales : Owner(c, s) => claim[s] = "claimed"

Lock == IntakeTypeOK /\ ClaimHeld /\ OneOwner

LEMMA LockStep ==
    ASSUME Lock, NEW c \in Calls, CallStep(c)
    PROVE  (ClaimHeld /\ OneOwner)'
  <1>1. /\ call \in [Calls -> Call]
        /\ call[c] \in Call
        /\ claim \in [Sales -> Claims]
        /\ ~At(c, "idle") => SaleOf(c) \in Sales
    BY DEF Lock, IntakeTypeOK, At, SaleOf
  <1>2. ASSUME UNCHANGED claim,
               \A b \in Calls, s \in Sales : Owner(b, s)' => Owner(b, s)
        PROVE  (ClaimHeld /\ OneOwner)'
    BY <1>2 DEF Lock, ClaimHeld, OneOwner
  <1>3. ASSUME NEW s \in Sales, NEW k \in BOOLEAN, NEW e \in BOOLEAN,
               Send(c, s, k, e)
        PROVE  (ClaimHeld /\ OneOwner)'
    <2>1. \A b \in Calls, t \in Sales : Owner(b, t)' => Owner(b, t)
      BY <1>1, <1>3 DEF Send, NoCall, Owner, SaleOf
    <2>2. QED
      BY <1>2, <1>3, <2>1 DEF Send
  <1>4. CASE Vanish(c) \/ Close(c)
    <2>1. \A b \in Calls, t \in Sales : Owner(b, t)' => Owner(b, t)
      BY <1>1, <1>4 DEF Vanish, Close, NoCall, Owner, SaleOf
    <2>2. QED
      BY <1>2, <1>4, <2>1 DEF Vanish, Close
  <1>5. ASSUME NEW res \in Answers, Answer(c, res)
        PROVE  \A b \in Calls, t \in Sales : Owner(b, t)' => b # c /\ Owner(b, t)
    BY <1>1, <1>5 DEF Answer, Owner, SaleOf, Call
  <1>6. CASE TurnAway(c)
    <2>1. \A b \in Calls, t \in Sales : Owner(b, t)' => Owner(b, t)
      BY <1>5, <1>6 DEF TurnAway, Answers
    <2>2. QED
      BY <1>2, <1>6, <2>1 DEF TurnAway
  <1>7. CASE TakeClaim(c)
    <2>1. \A b \in Calls, t \in Sales :
             Owner(b, t)' => IF b = c THEN t = SaleOf(c) ELSE Owner(b, t)
      BY <1>1, <1>7 DEF TakeClaim, GoTo, Owner, SaleOf, Call
    <2>2. \A b \in Calls : ~Owner(b, SaleOf(c))
      BY <1>1, <1>7 DEF TakeClaim, Lock, ClaimHeld, At
    <2>3. claim' = [claim EXCEPT ![SaleOf(c)] = "claimed"]
      BY <1>7 DEF TakeClaim
    <2>4. QED
      BY <1>1, <2>1, <2>2, <2>3 DEF Lock, ClaimHeld, OneOwner
  <1>8. CASE MissClaim(c)
    <2>1. \A b \in Calls, t \in Sales : Owner(b, t)' => Owner(b, t)
      BY <1>1, <1>8 DEF MissClaim, GoTo, Owner, SaleOf, Call
    <2>2. QED
      BY <1>2, <1>8, <2>1 DEF MissClaim
  <1>9. CASE Replay(c) \/ Busy(c) \/ StoreClosed(c)
    <2>1. \A b \in Calls, t \in Sales : Owner(b, t)' => Owner(b, t)
      BY <1>5, <1>9 DEF Replay, Busy, StoreClosed, Answers
    <2>2. QED
      BY <1>2, <1>9, <2>1 DEF Replay, Busy, StoreClosed
  <1>10. CASE Unkeyed(c)
    <2>1. \A b \in Calls, t \in Sales : Owner(b, t)' => Owner(b, t)
      BY <1>1, <1>10 DEF Unkeyed, GoTo, Owner, SaleOf, Call
    <2>2. QED
      BY <1>2, <1>10, <2>1 DEF Unkeyed
  <1>11. CASE Proceed(c) \/ CommitOrder(c)
    <2>1. \A b \in Calls, t \in Sales : Owner(b, t)' => Owner(b, t)
      BY <1>1, <1>11 DEF Proceed, CommitOrder, GoTo, At, Owner, SaleOf, Call
    <2>2. QED
      BY <1>2, <1>11, <2>1 DEF Proceed, CommitOrder
  <1>12. CASE Reject(c) \/ CommitUnknown(c)
    <2>1. \A b \in Calls, t \in Sales : Owner(b, t)' => Owner(b, t)
      BY <1>1, <1>12 DEF Reject, CommitUnknown, Throw, At, Owner, SaleOf, Call
    <2>2. QED
      BY <1>2, <1>12, <2>1 DEF Reject, CommitUnknown
  <1>13. ASSUME NEW to, SetClaim(c, to),
                call[c].pc \in {"stamp", "release"},
                \A b \in Calls, t \in Sales : Owner(b, t)' => b # c /\ Owner(b, t)
         PROVE  (ClaimHeld /\ OneOwner)'
    <2>1. \A t \in Sales : claim'[t] = claim[t] \/ Owner(c, t)
      BY <1>1, <1>13 DEF SetClaim, Owner, SaleOf, At
    <2>2. \A b \in Calls, t \in Sales : Owner(b, t)' => ~Owner(c, t)
      BY <1>13 DEF Lock, OneOwner
    <2>3. QED
      BY <1>13, <2>1, <2>2 DEF Lock, ClaimHeld, OneOwner
  <1>14. CASE Stamp(c)
    BY <1>5, <1>13, <1>14 DEF Stamp, At, Answers
  <1>15. CASE Release(c)
    <2>1. \A b \in Calls, t \in Sales : Owner(b, t)' => b # c /\ Owner(b, t)
      BY <1>1, <1>15 DEF Release, GoTo, Owner, SaleOf, Call
    <2>2. QED
      BY <1>13, <1>15, <2>1 DEF Release, At
  <1>16. QED
    BY <1>3, <1>4, <1>6, <1>7, <1>8, <1>9, <1>10, <1>11, <1>12, <1>14, <1>15
    DEF CallStep, Serve

LEMMA CrashFrees ==
    ASSUME Crash, NEW b \in Calls, NEW s \in Sales
    PROVE  ~Owner(b, s)'
  BY DEF Crash, NoCall, Owner

LEMMA LockNext ==
    ASSUME Lock, [IntakeNext]_intakeVars
    PROVE  Lock'
  <1>1. IntakeTypeOK'
    BY IntakeStepType DEF Lock
  <1>2. CASE Crash
    BY <1>1, <1>2, CrashFrees DEF Lock, ClaimHeld, OneOwner
  <1>3. ASSUME NEW c \in Calls, CallStep(c)
        PROVE  Lock'
    BY <1>1, <1>3, LockStep DEF Lock
  <1>4. CASE UNCHANGED intakeVars
    BY <1>1, <1>4 DEF intakeVars, Lock, ClaimHeld, OneOwner, Owner, SaleOf
  <1>5. QED
    BY <1>2, <1>3, <1>4 DEF IntakeNext, CallStep

LEMMA LockInit == IntakeInit => Lock
  BY IntakeInitType DEF IntakeInit, NoCall, Lock, ClaimHeld, OneOwner, Owner

\* Two requests never work on one key at the same time, whatever fails and
\* however many requests there are.
THEOREM ClaimIsALock == IntakeSpec => []OneOwner
  <1>1. Lock => OneOwner
    BY DEF Lock
  <1>2. QED
    BY LockInit, LockNext, <1>1, PTL DEF IntakeSpec
-----------------------------------------------------------------------------
(* At most one order per key, unless a COMMIT's acknowledgement is lost.   *)

\* A key without a row has no order and a completed one has its order; who
\* works on a key has made its order exactly when only the stamp is left.
Counted ==
    /\ \A s \in Sales : claim[s] = "free" => OrdersUnder(s) = 0
    /\ \A s \in Sales : claim[s] = "done" => OrdersUnder(s) = 1
    /\ \A c \in Calls, s \in Sales :
          Owner(c, s) => OrdersUnder(s) = IF At(c, "stamp") THEN 1 ELSE 0

\* Who is about to release its claim has failed.
Thrown == \A c \in Calls : At(c, "release") => call[c].res # "ok"

Once == Lock /\ Thrown /\ AtMostOnce /\ AnswersTrue /\ Counted

\* The orders under a key change in one place only.
LEMMA OnlyCommitMakes ==
    ASSUME Once, "lostAck" \notin Faults, NEW c \in Calls, CallStep(c),
           ~CommitOrder(c)
    PROVE  UNCHANGED made
  BY DEF CallStep, Send, Vanish, TurnAway, Serve, TakeClaim, MissClaim, Replay,
     Busy, Unkeyed, StoreClosed, Proceed, Reject, CommitUnknown, Stamp, Release,
     Close

LEMMA ThrownStep ==
    ASSUME Lock, Thrown, NEW c \in Calls, CallStep(c)
    PROVE  Thrown'
  <1>1. call \in [Calls -> Call] /\ call[c] \in Call
    BY DEF Lock, IntakeTypeOK
  <1>2. \A b \in Calls \ {c} : call'[b] = call[b]
    BY <1>1 DEF CallStep, Serve, Send, Vanish, TurnAway, TakeClaim, MissClaim,
       Replay, Busy, Unkeyed, StoreClosed, Proceed, CommitOrder, Reject,
       CommitUnknown, Stamp, Release, Close, GoTo, Answer, Throw
  <1>3. At(c, "release")' => Reject(c) \/ CommitUnknown(c)
    <2>1. CASE \E s \in Sales, k, e \in BOOLEAN : Send(c, s, k, e)
      BY <1>1, <2>1 DEF Send, At, NoCall
    <2>2. CASE Vanish(c) \/ Close(c)
      BY <1>1, <2>2 DEF Vanish, Close, At, NoCall
    <2>3. CASE TurnAway(c) \/ Replay(c) \/ Busy(c) \/ StoreClosed(c) \/ Stamp(c)
      BY <1>1, <2>3 DEF TurnAway, Replay, Busy, StoreClosed, Stamp, Answer, At, Call
    <2>4. CASE \/ TakeClaim(c) \/ MissClaim(c) \/ Unkeyed(c) \/ Proceed(c)
               \/ CommitOrder(c) \/ Release(c)
      BY <1>1, <2>4 DEF TakeClaim, MissClaim, Unkeyed, Proceed, CommitOrder,
         Release, GoTo, At, Call
    <2>5. QED
      BY <2>1, <2>2, <2>3, <2>4 DEF CallStep, Serve
  <1>4. Reject(c) \/ CommitUnknown(c) => call'[c].res # "ok"
    BY <1>1 DEF Reject, CommitUnknown, Throw, Call
  <1>5. QED
    BY <1>2, <1>3, <1>4 DEF Thrown, At

LEMMA OnceStep ==
    ASSUME Once, "lostAck" \notin Faults, NEW c \in Calls, CallStep(c)
    PROVE  (AtMostOnce /\ AnswersTrue /\ Counted)'
  <1>1. /\ call \in [Calls -> Call]
        /\ call[c] \in Call
        /\ claim \in [Sales -> Claims]
        /\ made \in [Sales -> [BOOLEAN -> Nat]]
        /\ ~At(c, "idle") => SaleOf(c) \in Sales
    BY DEF Once, Lock, IntakeTypeOK, At, SaleOf
  <1> DEFINE
       Told(b) == At(b, "answered") /\ call[b].res = "ok" /\ call[b].keyed
       KeepsOwners == \A b \in Calls, s \in Sales :
          Owner(b, s)' => Owner(b, s) /\ (At(b, "stamp")' <=> At(b, "stamp"))
       KeepsTold == \A b \in Calls :
          Told(b)' => Told(b) /\ SaleOf(b)' = SaleOf(b)
  <1> UNCHANGED made => \A s \in Sales : OrdersUnder(s)' = OrdersUnder(s)
    BY DEF OrdersUnder
  <1>2. ASSUME UNCHANGED <<claim, made>>, KeepsOwners, KeepsTold
        PROVE  (AtMostOnce /\ AnswersTrue /\ Counted)'
    <2>1. AtMostOnce'
      BY <1>2 DEF Once, AtMostOnce
    <2>2. AnswersTrue'
      <3>1. \A b \in Calls : Told(b)' => SaleOf(b) \in Sales
        BY <1>2 DEF Once, Lock, IntakeTypeOK, At, SaleOf
      <3>2. QED
        BY <1>2, <3>1 DEF Once, AnswersTrue
    <2>3. Counted'
      BY <1>2 DEF Once, Counted
    <2>4. QED
      BY <2>1, <2>2, <2>3
  <1>3. ASSUME NEW s \in Sales, NEW k \in BOOLEAN, NEW e \in BOOLEAN,
               Send(c, s, k, e)
        PROVE  (AtMostOnce /\ AnswersTrue /\ Counted)'
    <2>1. KeepsOwners
      BY <1>1, <1>3 DEF Send, NoCall, Owner, SaleOf, At
    <2>2. KeepsTold
      BY <1>1, <1>3 DEF Send, NoCall, SaleOf, At
    <2>3. QED
      BY <1>2, <1>3, <2>1, <2>2 DEF Send
  <1>4. CASE Vanish(c) \/ Close(c)
    <2>1. KeepsOwners
      BY <1>1, <1>4 DEF Vanish, Close, NoCall, Owner, SaleOf, At
    <2>2. KeepsTold
      BY <1>1, <1>4 DEF Vanish, Close, NoCall, SaleOf, At
    <2>3. QED
      BY <1>2, <1>4, <2>1, <2>2 DEF Vanish, Close
  <1>5. ASSUME NEW res \in Answers \ {"ok"}, Answer(c, res)
        PROVE  KeepsOwners /\ KeepsTold
    <2>1. KeepsOwners
      BY <1>1, <1>5 DEF Answer, Owner, SaleOf, At, Call
    <2>2. KeepsTold
      BY <1>1, <1>5 DEF Answer, SaleOf, At, Call
    <2>3. QED
      BY <2>1, <2>2
  <1>6. CASE TurnAway(c) \/ Busy(c) \/ StoreClosed(c)
    <2>1. KeepsOwners /\ KeepsTold
      BY <1>5, <1>6 DEF TurnAway, Busy, StoreClosed, Answers
    <2>2. QED
      BY <1>2, <1>6, <2>1 DEF TurnAway, Busy, StoreClosed
  <1>7. CASE MissClaim(c) \/ Unkeyed(c) \/ Proceed(c) \/ Reject(c)
    <2>1. KeepsOwners
      <3>1. CASE MissClaim(c)
        BY <1>1, <3>1 DEF MissClaim, GoTo, Owner, SaleOf, At, Call
      <3>2. CASE Unkeyed(c)
        BY <1>1, <3>2 DEF Unkeyed, GoTo, Owner, SaleOf, At, Call
      <3>3. CASE Proceed(c)
        BY <1>1, <3>3 DEF Proceed, GoTo, Owner, SaleOf, At, Call
      <3>4. CASE Reject(c)
        BY <1>1, <3>4 DEF Reject, Throw, Owner, SaleOf, At, Call
      <3>5. QED
        BY <1>7, <3>1, <3>2, <3>3, <3>4
    <2>2. KeepsTold
      BY <1>1, <1>7 DEF MissClaim, Unkeyed, Proceed, Reject, GoTo, Throw, SaleOf,
         At, Call
    <2>3. QED
      BY <1>2, <1>7, <2>1, <2>2 DEF MissClaim, Unkeyed, Proceed, Reject
  <1>8. CASE TakeClaim(c)
    <2>1. KeepsTold
      BY <1>1, <1>8 DEF TakeClaim, GoTo, SaleOf, At, Call
    <2>2. \A b \in Calls, s \in Sales : Owner(b, s)' =>
             IF b = c THEN s = SaleOf(c) /\ ~At(b, "stamp")'
                      ELSE Owner(b, s) /\ (At(b, "stamp")' <=> At(b, "stamp"))
      BY <1>1, <1>8 DEF TakeClaim, GoTo, Owner, SaleOf, At, Call
    <2>3. /\ claim' = [claim EXCEPT ![SaleOf(c)] = "claimed"]
          /\ UNCHANGED made
          /\ SaleOf(c) \in Sales
          /\ OrdersUnder(SaleOf(c)) = 0
      <3>1. SaleOf(c) \in Sales /\ claim[SaleOf(c)] = "free"
        BY <1>1, <1>8 DEF TakeClaim, At
      <3>2. QED
        BY <1>8, <3>1 DEF TakeClaim, Once, Counted
    <2>4. AtMostOnce'
      BY <2>3 DEF Once, AtMostOnce
    <2>5. AnswersTrue'
      <3>1. \A b \in Calls : Told(b)' => SaleOf(b) \in Sales
        BY <2>1 DEF Once, Lock, IntakeTypeOK, At, SaleOf
      <3>2. QED
        BY <1>1, <2>1, <2>3, <3>1 DEF Once, AnswersTrue
    <2>6. Counted'
      BY <1>1, <2>2, <2>3 DEF Once, Counted
    <2>7. QED
      BY <2>4, <2>5, <2>6
  <1>9. CASE Replay(c)
    <2>1. KeepsOwners
      BY <1>1, <1>9 DEF Replay, Answer, Owner, SaleOf, At, Call
    <2>2. \A b \in Calls : Told(b)' =>
             /\ SaleOf(b)' = SaleOf(b)
             /\ b # c => Told(b)
      BY <1>1, <1>9 DEF Replay, Answer, SaleOf, At, Call
    <2>3. OrdersUnder(SaleOf(c)) = 1
      <3>1. SaleOf(c) \in Sales /\ claim[SaleOf(c)] = "done"
        BY <1>1, <1>9 DEF Replay, At
      <3>2. QED
        BY <3>1 DEF Once, Counted
    <2>4. UNCHANGED <<claim, made>>
      BY <1>9 DEF Replay
    <2>5. AtMostOnce' /\ Counted'
      BY <2>1, <2>4 DEF Once, AtMostOnce, Counted
    <2>6. AnswersTrue'
      <3>1. \A b \in Calls : Told(b)' => SaleOf(b) \in Sales
        BY <1>1, <1>9, <2>2 DEF Replay, Once, Lock, IntakeTypeOK, At, SaleOf
      <3>2. QED
        BY <2>2, <2>3, <2>4, <3>1 DEF Once, AnswersTrue
    <2>7. QED
      BY <2>5, <2>6
  <1>10. CASE CommitOrder(c)
    <2>1. SaleOf(c) \in Sales /\ UNCHANGED claim
      BY <1>1, <1>10 DEF CommitOrder, At
    <2>2. KeepsTold
      BY <1>1, <1>10 DEF CommitOrder, GoTo, SaleOf, At, Call
    <2>3. \A b \in Calls, s \in Sales : Owner(b, s)' =>
             Owner(b, s) /\ IF b = c THEN At(b, "stamp")'
                            ELSE At(b, "stamp")' <=> At(b, "stamp")
      BY <1>1, <1>10 DEF CommitOrder, GoTo, Owner, SaleOf, At, Call
    <2>4. CASE call[c].keyed
      <3>1. Owner(c, SaleOf(c))
        BY <1>10, <2>4 DEF CommitOrder, Owner, At
      <3>2. OrdersUnder(SaleOf(c)) = 0
        BY <1>10, <2>1, <3>1 DEF CommitOrder, At, Once, Counted
      <3>3. call[c].keyed = TRUE
        BY <1>1, <2>4 DEF Call
      <3>4. \A s \in Sales :
               OrdersUnder(s)' = IF s = SaleOf(c) THEN 1 ELSE OrdersUnder(s)
        <4>1. made' = [made EXCEPT ![SaleOf(c)] =
                                [made[SaleOf(c)] EXCEPT ![TRUE] = 1]]
          <5>1. made[SaleOf(c)][TRUE] + 1 = 1
            BY <3>2 DEF OrdersUnder
          <5>2. made' = [made EXCEPT ![SaleOf(c)] =
                   [made[SaleOf(c)] EXCEPT ![TRUE] = made[SaleOf(c)][TRUE] + 1]]
            BY <1>1, <1>10, <2>1, <3>3 DEF CommitOrder, OneMore
          <5>3. QED
            BY <5>1, <5>2
        <4>2. QED
          BY <1>1, <2>1, <4>1 DEF OrdersUnder
      <3>5. claim[SaleOf(c)] = "claimed"
        BY <2>1, <3>1 DEF Once, Lock, ClaimHeld
      <3>6. \A b \in Calls : Owner(b, SaleOf(c)) => b = c
        BY <2>1, <3>1 DEF Once, Lock, OneOwner
      <3>7. \A b \in Calls : Told(b) => OrdersUnder(SaleOf(b)) = 1
        BY DEF Once, AnswersTrue
      <3>8. AtMostOnce'
        BY <3>4 DEF Once, AtMostOnce
      <3>9. \A b \in Calls : Told(b) => SaleOf(b) # SaleOf(c)
        BY <3>2, <3>7
      <3>10. AnswersTrue'
        <4>1. \A b \in Calls : Told(b)' => SaleOf(b) \in Sales
          BY <2>2 DEF Once, Lock, IntakeTypeOK, At, SaleOf
        <4>2. QED
          BY <2>1, <2>2, <3>4, <3>5, <3>9, <4>1 DEF Once, AnswersTrue
      <3>11. Counted'
        <4>1. \A s \in Sales : claim'[s] = "free" => OrdersUnder(s)' = 0
          BY <2>1, <3>4, <3>5 DEF Once, Counted
        <4>2. \A s \in Sales : claim'[s] = "done" => OrdersUnder(s)' = 1
          BY <2>1, <3>4, <3>5 DEF Once, Counted
        <4>3. ASSUME NEW b \in Calls, NEW s \in Sales, Owner(b, s)'
              PROVE  OrdersUnder(s)' = IF At(b, "stamp")' THEN 1 ELSE 0
          <5>1. CASE b = c
            BY <2>3, <3>4, <4>3, <5>1 DEF Owner
          <5>2. CASE b # c
            <6>1. Owner(b, s) /\ s # SaleOf(c)
              BY <2>3, <3>6, <4>3, <5>2
            <6>2. QED
              BY <2>3, <3>4, <4>3, <5>2, <6>1 DEF Once, Counted
          <5>3. QED
            BY <5>1, <5>2
        <4>4. QED
          BY <4>1, <4>2, <4>3 DEF Counted
      <3>12. QED
        BY <3>8, <3>10, <3>11
    <2>5. CASE ~call[c].keyed
      <3>1. call[c].keyed = FALSE
        BY <1>1, <2>5 DEF Call
      <3>2. \A s \in Sales : OrdersUnder(s)' = OrdersUnder(s)
        <4>1. made' = [made EXCEPT ![SaleOf(c)] =
                 [made[SaleOf(c)] EXCEPT ![FALSE] = made[SaleOf(c)][FALSE] + 1]]
          BY <1>1, <1>10, <2>1, <3>1 DEF CommitOrder, OneMore
        <4>2. QED
          BY <1>1, <2>1, <4>1 DEF OrdersUnder
      <3>3. \A b \in Calls, s \in Sales : Owner(b, s)' => b # c
        BY <1>1, <1>10, <2>5 DEF CommitOrder, GoTo, Owner, Call
      <3>4. AtMostOnce'
        BY <3>2 DEF Once, AtMostOnce
      <3>5. AnswersTrue'
        <4>1. \A b \in Calls : Told(b)' => SaleOf(b) \in Sales
          BY <2>2 DEF Once, Lock, IntakeTypeOK, At, SaleOf
        <4>2. QED
          BY <2>1, <2>2, <3>2, <4>1 DEF Once, AnswersTrue
      <3>6. Counted'
        BY <2>1, <2>3, <3>2, <3>3 DEF Once, Counted
      <3>7. QED
        BY <3>4, <3>5, <3>6
    <2>6. QED
      BY <2>4, <2>5
  <1>11. ASSUME NEW to, SetClaim(c, to), UNCHANGED made,
                call[c].pc \in {"stamp", "release"},
                call[c].pc = "stamp" => to = "done",
                call[c].pc = "release" => to = "free",
                \A b \in Calls, s \in Sales : Owner(b, s)' =>
                   b # c /\ Owner(b, s) /\ (At(b, "stamp")' <=> At(b, "stamp"))
         PROVE  AtMostOnce' /\ Counted' /\ (\A s \in Sales :
                   claim'[s] = "done" => OrdersUnder(s)' = 1)
    <2>1. \A s \in Sales :
             claim'[s] = claim[s] \/ (Owner(c, s) /\ claim'[s] = to)
      BY <1>1, <1>11 DEF SetClaim, Owner, SaleOf, At
    <2>2. \A s \in Sales : Owner(c, s) =>
             OrdersUnder(s) = IF At(c, "stamp") THEN 1 ELSE 0
      BY DEF Once, Counted
    <2>3. AtMostOnce'
      BY <1>11 DEF Once, AtMostOnce
    <2>4. Counted'
      BY <1>11, <2>1, <2>2 DEF Once, Counted, At
    <2>5. \A s \in Sales : claim'[s] = "done" => OrdersUnder(s)' = 1
      BY <2>4 DEF Counted
    <2>6. QED
      BY <2>3, <2>4, <2>5
  <1>12. CASE Stamp(c)
    <2>1. \A b \in Calls, s \in Sales : Owner(b, s)' =>
             b # c /\ Owner(b, s) /\ (At(b, "stamp")' <=> At(b, "stamp"))
      BY <1>1, <1>12 DEF Stamp, Answer, Owner, SaleOf, At, Call
    <2>2. \A b \in Calls : Told(b)' =>
             /\ SaleOf(b)' = SaleOf(b)
             /\ IF b = c THEN call[b].keyed ELSE Told(b)
      BY <1>1, <1>12 DEF Stamp, Answer, SaleOf, At, Call
    <2>3. call[c].keyed => OrdersUnder(SaleOf(c)) = 1
      BY <1>1, <1>12 DEF Stamp, At, Owner, Once, Counted
    <2>4. UNCHANGED made
      BY <1>12 DEF Stamp
    <2>5. AtMostOnce' /\ Counted' /\ (\A s \in Sales :
             claim'[s] = "done" => OrdersUnder(s)' = 1)
      BY <1>11, <1>12, <2>1 DEF Stamp, At
    <2>6. AnswersTrue'
      <3>1. \A b \in Calls : Told(b)' => SaleOf(b) \in Sales
        BY <1>1, <1>12, <2>2 DEF Stamp, Once, Lock, IntakeTypeOK, At, SaleOf
      <3>2. QED
        BY <2>2, <2>3, <2>4, <2>5, <3>1 DEF Once, AnswersTrue
    <2>7. QED
      BY <2>5, <2>6
  <1>13. CASE Release(c)
    <2>1. \A b \in Calls, s \in Sales : Owner(b, s)' =>
             b # c /\ Owner(b, s) /\ (At(b, "stamp")' <=> At(b, "stamp"))
      BY <1>1, <1>13 DEF Release, GoTo, Owner, SaleOf, At, Call
    <2>2. UNCHANGED made /\ At(c, "release")
      BY <1>13 DEF Release
    <2>3. AtMostOnce' /\ Counted' /\ (\A s \in Sales :
             claim'[s] = "done" => OrdersUnder(s)' = 1)
      BY <1>11, <1>13, <2>1, <2>2 DEF Release, At
    <2>4. KeepsTold
      <3>1. call[c].res # "ok"
        BY <2>2 DEF Once, Thrown
      <3>2. QED
        BY <1>1, <1>13, <3>1 DEF Release, GoTo, SaleOf, At, Call
    <2>5. AnswersTrue'
      <3>1. \A b \in Calls : Told(b)' => SaleOf(b) \in Sales
        BY <2>4 DEF Once, Lock, IntakeTypeOK, At, SaleOf
      <3>2. QED
        BY <2>2, <2>3, <2>4, <3>1 DEF Once, AnswersTrue
    <2>6. QED
      BY <2>3, <2>5
  <1>14. QED
    BY <1>3, <1>4, <1>6, <1>7, <1>8, <1>9, <1>10, <1>12, <1>13
    DEF CallStep, Serve, CommitUnknown
LEMMA OnceNext ==
    ASSUME Once, "lostAck" \notin Faults, [IntakeNext]_intakeVars
    PROVE  Once'
  <1>1. Lock'
    BY LockNext DEF Once
  <1>2. CASE Crash
    <2>1. \A b \in Calls : At(b, "idle")'
      BY <1>2 DEF Crash, At, NoCall
    <2>2. \A s \in Sales : OrdersUnder(s)' = OrdersUnder(s)
      BY <1>2 DEF Crash, OrdersUnder
    <2>3. Thrown'
      BY <2>1 DEF Thrown, At
    <2>4. AtMostOnce' /\ AnswersTrue'
      BY <1>2, <2>1, <2>2 DEF Crash, Once, AtMostOnce, AnswersTrue, At
    <2>5. Counted'
      BY <1>2, <2>2, CrashFrees DEF Crash, Once, Counted
    <2>6. QED
      BY <1>1, <2>3, <2>4, <2>5 DEF Once
  <1>3. ASSUME NEW c \in Calls, CallStep(c)
        PROVE  Once'
    BY <1>1, <1>3, OnceStep, ThrownStep DEF Once
  <1>4. CASE UNCHANGED intakeVars
    BY <1>1, <1>4 DEF intakeVars, Once, Thrown, AtMostOnce, AnswersTrue, Counted,
       Owner, SaleOf, At, OrdersUnder
  <1>5. QED
    BY <1>2, <1>3, <1>4 DEF IntakeNext, CallStep

LEMMA OnceInit == IntakeInit => Once
  <1> SUFFICES ASSUME IntakeInit
               PROVE  Once
    OBVIOUS
  <1>1. \A s \in Sales : OrdersUnder(s) = 0
    BY DEF IntakeInit, OrdersUnder
  <1>2. \A c \in Calls : At(c, "idle")
    BY DEF IntakeInit, NoCall, At
  <1>3. \A s \in Sales : claim[s] = "free"
    BY DEF IntakeInit
  <1>4. QED
    BY LockInit, <1>1, <1>2, <1>3
    DEF Once, Thrown, AtMostOnce, AnswersTrue, Counted, Owner, At

\* As long as no COMMIT is reported lost, a key never gets two orders, however
\* many requests carry it, fail or die.
THEOREM OneOrderPerKey ==
    ASSUME "lostAck" \notin Faults
    PROVE  IntakeSpec => []AtMostOnce
  <1>1. Once => AtMostOnce
    BY DEF Once
  <1>2. Once /\ [IntakeNext]_intakeVars => Once'
    BY OnceNext
  <1>3. QED
    BY OnceInit, <1>1, <1>2, PTL DEF IntakeSpec

\* Under the same condition nobody is told 201 for a key that has no order.
THEOREM AnswersAreTrue ==
    ASSUME "lostAck" \notin Faults
    PROVE  IntakeSpec => []AnswersTrue
  <1>1. Once => AnswersTrue
    BY DEF Once
  <1>2. Once /\ [IntakeNext]_intakeVars => Once'
    BY OnceNext
  <1>3. QED
    BY OnceInit, <1>1, <1>2, PTL DEF IntakeSpec

-----------------------------------------------------------------------------
(* What a claim without a request takes.                                   *)

LEMMA OrphanStep ==
    ASSUME IntakeTypeOK, NoOrphanClaim, NEW c \in Calls, CallStep(c),
           "closed" \notin Faults, "database" \notin Faults
    PROVE  NoOrphanClaim'
  <1>1. /\ call \in [Calls -> Call] /\ call[c] \in Call
        /\ claim \in [Sales -> Claims]
        /\ ~At(c, "idle") => SaleOf(c) \in Sales
    BY DEF IntakeTypeOK, At, SaleOf
  <1>2. \A b \in Calls \ {c} : call'[b] = call[b]
    BY <1>1 DEF CallStep, Send, Vanish, TurnAway, Serve, Close, TakeClaim, MissClaim,
       Replay, Busy, Unkeyed, StoreClosed, Proceed, CommitOrder, Reject, CommitUnknown,
       Stamp, Release, GoTo, Answer, Throw
  <1>3. ASSUME NEW s \in Sales, claim'[s] = "claimed", claim[s] = "claimed", Owner(c, s)
        PROVE  Owner(c, s)'
    <2>1. /\ call[c].pc \in {"check", "tx", "stamp", "release"}
          /\ call[c].keyed /\ SaleOf(c) = s
      BY <1>3 DEF Owner
    <2>2. ~Stamp(c) /\ ~Release(c)
      BY <1>1, <1>3, <2>1 DEF Stamp, Release, SetClaim
    <2>3. Proceed(c) \/ CommitOrder(c) \/ Reject(c) \/ CommitUnknown(c)
      BY <2>1, <2>2 DEF CallStep, Send, Vanish, TurnAway, Serve, Close, TakeClaim,
         MissClaim, Replay, Busy, Unkeyed, StoreClosed, At
    <2>4. CASE Proceed(c) \/ CommitOrder(c)
      BY <1>1, <2>1, <2>4 DEF Proceed, CommitOrder, GoTo, Owner, SaleOf, Call
    <2>5. CASE Reject(c) \/ CommitUnknown(c)
      BY <1>1, <2>1, <2>5 DEF Reject, CommitUnknown, Throw, Owner, SaleOf, Call
    <2>6. QED
      BY <2>3, <2>4, <2>5
  <1>4. ASSUME NEW s \in Sales, claim'[s] = "claimed", claim[s] # "claimed"
        PROVE  Owner(c, s)'
    <2>1. TakeClaim(c) /\ s = SaleOf(c)
      BY <1>1, <1>4 DEF CallStep, Send, Vanish, TurnAway, Serve, Close, TakeClaim,
         MissClaim, Replay, Busy, Unkeyed, StoreClosed, Proceed, CommitOrder, Reject,
         CommitUnknown, Stamp, Release, SetClaim, At
    <2>2. QED
      BY <1>1, <2>1 DEF TakeClaim, GoTo, Owner, SaleOf, Call, At
  <1>5. ASSUME NEW s \in Sales, claim'[s] = "claimed"
        PROVE  \E b \in Calls : Owner(b, s)'
    <2>1. CASE claim[s] # "claimed"
      BY <1>4, <1>5, <2>1
    <2>2. CASE claim[s] = "claimed"
      <3>1. PICK b \in Calls : Owner(b, s)
        BY <2>2 DEF NoOrphanClaim
      <3>2. CASE b = c
        BY <1>3, <1>5, <2>2, <3>1, <3>2
      <3>3. CASE b # c
        <4>1. call'[b] = call[b]
          BY <1>2, <3>3
        <4>2. Owner(b, s)'
          BY <3>1, <4>1 DEF Owner, SaleOf
        <4>3. QED
          BY <4>2
      <3>4. QED
        BY <3>2, <3>3
    <2>3. QED
      BY <2>1, <2>2
  <1>6. QED
    BY <1>5 DEF NoOrphanClaim

\* The claim of a request that failed is released, unless the store was closed
\* for it, the statement that releases it fails, or the backend restarts: a lost
\* acknowledgement leaves no claim behind.
THEOREM ClaimsAreReleased ==
    ASSUME "closed" \notin Faults, "database" \notin Faults, "crash" \notin Faults
    PROVE  IntakeSpec => []NoOrphanClaim
  <1>1. IntakeInit => NoOrphanClaim
    BY DEF IntakeInit, NoOrphanClaim
  <1>2. ASSUME IntakeTypeOK, NoOrphanClaim, [IntakeNext]_intakeVars
        PROVE  NoOrphanClaim'
    <2>1. ASSUME NEW c \in Calls, CallStep(c)
          PROVE  NoOrphanClaim'
      BY <1>2, <2>1, OrphanStep
    <2>2. CASE UNCHANGED intakeVars
      BY <1>2, <2>2 DEF intakeVars, NoOrphanClaim, Owner, SaleOf
    <2>3. QED
      BY <1>2, <2>1, <2>2 DEF IntakeNext, CallStep, Crash
  <1>3. QED
    BY IntakeTyped, <1>1, <1>2, PTL DEF IntakeSpec
=============================================================================
