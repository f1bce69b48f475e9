--------------------------- MODULE CheckoutProofs ---------------------------
(* Theorems about Checkout, for any number of sales, requests and attempts. *)
EXTENDS Checkout, IntakeProofs, FiniteSetTheorems

\* A sale has an online post under way just while it is being posted: the
\* request carries that sale without a key, or is dead.
PostLinked ==
    \A s \in Sales :
       /\ Posting(s) =>
             /\ post[s] \in Calls
             /\ At(post[s], "idle") \/ (SaleOf(post[s]) = s /\ ~call[post[s]].keyed)
       /\ ~Posting(s) => post[s] = NoCallId

\* The request the worker waits for carries its operation with the key.  The
\* row may be discarded meanwhile, but nothing else happens to it.
SyncLinked ==
    /\ sync.pc = "wait" =>
          /\ At(sync.call, "idle")
                \/ (SaleOf(sync.call) = sync.sale /\ call[sync.call].keyed)
          /\ op[sync.sale].status \in {"pending", "discarded"}
    /\ sync.pc # "wait" => sync.call = NoCallId
    /\ \A s \in Sales : post[s] \in Calls => post[s] # sync.call

\* A pending row has an attempt left.
RowsLive == \A s \in Sales : Pending(s) => op[s].attempts < MaxAttempts

Station == TypeOK /\ PostLinked /\ SyncLinked /\ RowsLive

\* The orders created for a sale without its key.
PlainOrders(s) == made[s][FALSE]

\* A post without a key is answered 201 only when its order exists.
PlainTrue ==
    \A c \in Calls :
       /\ ~call[c].keyed
       /\ At(c, "stamp") \/ (At(c, "answered") /\ call[c].res = "ok")
       => PlainOrders(SaleOf(c)) >= 1

\* Only a request with a key looks its claim up.
LookupKeyed == \A c \in Calls : At(c, "lookup") => call[c].keyed

\* What was queued has had a row ever since.
QueuedHasRow ==
    \A s \in Sales : stage[s] = "queued" => op[s].status # "none"
-----------------------------------------------------------------------------
(* The station is a client of Intake, and its links to its requests hold.  *)

LEMMA StationSteps ==
    ASSUME Station, [Next]_vars
    PROVE  [IntakeNext]_intakeVars
  <1>1. CASE UNCHANGED vars
    BY <1>1 DEF vars
  <1>2. ASSUME NEW s \in Sales, Page(s)
        PROVE  [IntakeNext]_intakeVars
    <2>1. ASSUME NEW c \in Calls, Submit(s, c)
          PROVE  IntakeNext
      BY <2>1 DEF Submit, IntakeNext
    <2>2. CASE PostSaved(s) \/ PostRefused(s)
      <3>1. post[s] \in Calls /\ Close(post[s])
        BY <2>2 DEF PostSaved, PostRefused, Returns, Hears, Station, PostLinked
      <3>2. QED
        BY <3>1 DEF IntakeNext
    <2>3. CASE PostUnanswered(s)
      BY <2>3 DEF PostUnanswered, Enqueue
    <2>4. QED
      BY <1>2, <2>1, <2>2, <2>3 DEF Page
  <1>3. CASE Pass
    BY <1>3 DEF Pass, StopPass, SendOldest, IntakeNext
  <1>4. CASE Outcome
    <2>1. sync.pc = "wait" => sync.call \in Calls
      BY DEF Station, TypeOK
    <2>2. QED
      BY <1>4, <2>1 DEF Outcome, HearAuth, HearOk, HearRefused, HearFailed,
         HearNothing, Heard, IntakeNext
  <1>5. ASSUME NEW c \in Calls, Backend(c)
        PROVE  IntakeNext
    BY <1>5 DEF Backend, IntakeNext
  <1>6. CASE BackendCrash
    BY <1>6 DEF BackendCrash, IntakeNext
  <1>7. ASSUME NEW s \in Sales, Elapse(s) \/ Discard(s)
        PROVE  UNCHANGED intakeVars
    BY <1>7 DEF Elapse, Discard
  <1>8. CASE AskFlush \/ FlushAsked \/ Tick \/ Restart
    BY <1>8 DEF AskFlush, FlushAsked, Tick, Restart
  <1>9. QED
    BY <1>1, <1>2, <1>3, <1>4, <1>5, <1>6, <1>7, <1>8 DEF Next

LEMMA RowTypes ==
    ASSUME TypeOK, NEW s \in Sales
    PROVE  /\ op[s] \in Op
           /\ NextAt \in Nat
           /\ [NoOp EXCEPT !.status = "pending", !.due = TRUE, !.at = NextAt] \in Op
  <1>1. NextAt \in Nat
    <2>1. IsFiniteSet({t \in Sales : op[t].status # "none"})
      BY StationAssumption, FS_Subset
    <2>2. QED
      BY <2>1, FS_CardinalityType DEF NextAt
  <1>2. 0 \in 0 .. MaxAttempts
    BY StationAssumption
  <1>3. ASSUME NEW n \in Nat
        PROVE  [NoOp EXCEPT !.status = "pending", !.due = TRUE, !.at = n] \in Op
    BY <1>2 DEF Op, NoOp
  <1>4. QED
    BY <1>1, <1>3 DEF TypeOK

LEMMA SyncTypes == SyncOff \in Sync /\ SyncScan \in Sync
  BY DEF SyncOff, SyncScan, Sync

\* What happens to a request that is in progress keeps its sale and its key.
KeepsLinks ==
    \A c \in Calls :
       \/ At(c, "idle")'
       \/ ~At(c, "idle") /\ SaleOf(c)' = SaleOf(c) /\ call'[c].keyed = call[c].keyed

LEMMA ServiceKeepsLinks ==
    ASSUME IntakeTypeOK, NEW c \in Calls,
           Vanish(c) \/ TurnAway(c) \/ Serve(c) \/ Close(c)
    PROVE  KeepsLinks
  <1>1. call \in [Calls -> Call] /\ call[c] \in Call
    BY DEF IntakeTypeOK
  <1>2. CASE Vanish(c) \/ Close(c)
    BY <1>1, <1>2 DEF Vanish, Close, NoCall, KeepsLinks, At, SaleOf
  <1>3. CASE \E res \in Answers : Answer(c, res) /\ ~At(c, "idle")
    BY <1>1, <1>3 DEF Answer, KeepsLinks, At, SaleOf, Call
  <1>4. CASE \E pc \in CallPcs : GoTo(c, pc) /\ ~At(c, "idle")
    BY <1>1, <1>4 DEF GoTo, KeepsLinks, At, SaleOf, Call
  <1>5. CASE \E res \in Answers : Throw(c, res) /\ ~At(c, "idle")
    BY <1>1, <1>5 DEF Throw, KeepsLinks, At, SaleOf, Call
  <1>6. CASE TurnAway(c) \/ Replay(c) \/ Busy(c) \/ StoreClosed(c) \/ Stamp(c)
    <2>1. ~At(c, "idle")
      BY <1>6 DEF TurnAway, Replay, Busy, StoreClosed, Stamp, At
    <2>2. \E res \in Answers : Answer(c, res)
      BY <1>6 DEF TurnAway, Replay, Busy, StoreClosed, Stamp, Answers
    <2>3. QED
      BY <1>3, <2>1, <2>2
  <1>7. CASE \/ TakeClaim(c) \/ MissClaim(c) \/ Unkeyed(c) \/ Proceed(c)
             \/ CommitOrder(c) \/ Release(c)
    <2>1. ~At(c, "idle")
      BY <1>7 DEF TakeClaim, MissClaim, Unkeyed, Proceed, CommitOrder, Release, At
    <2>2. \E pc \in CallPcs : GoTo(c, pc)
      BY <1>7 DEF TakeClaim, MissClaim, Unkeyed, Proceed, CommitOrder, Release, CallPcs
    <2>3. QED
      BY <1>4, <2>1, <2>2
  <1>8. CASE Reject(c) \/ CommitUnknown(c)
    <2>1. ~At(c, "idle")
      BY <1>8 DEF Reject, CommitUnknown, At
    <2>2. \E res \in Answers : Throw(c, res)
      BY <1>8 DEF Reject, CommitUnknown, Answers
    <2>3. QED
      BY <1>5, <2>1, <2>2
  <1>9. QED
    BY <1>2, <1>6, <1>7, <1>8 DEF Serve

LEMMA SendKeepsOthers ==
    ASSUME IntakeTypeOK, NEW c \in Calls, NEW s \in Sales, NEW k \in BOOLEAN,
           Send(c, s, k, FALSE)
    PROVE  /\ \A b \in Calls \ {c} : call'[b] = call[b]
           /\ SaleOf(c)' = s
           /\ call'[c].keyed = k
           /\ ~At(c, "idle")'
  BY DEF IntakeTypeOK, Send, NoCall, SaleOf, At
LEMMA PostKept ==
    ASSUME Station, KeepsLinks, UNCHANGED <<stage, post>>
    PROVE  PostLinked'
  BY DEF Station, PostLinked, KeepsLinks, Posting, At, SaleOf

LEMMA SyncKept ==
    ASSUME Station, KeepsLinks, UNCHANGED <<post, sync>>,
           sync.pc = "wait" => op'[sync.sale].status \in {"pending", "discarded"}
    PROVE  SyncLinked'
  BY DEF Station, TypeOK, SyncLinked, KeepsLinks, At, SaleOf

\* A pass that goes on or ends waits for nothing.
LEMMA SyncIdle ==
    ASSUME Station, sync' = SyncOff \/ sync' = SyncScan,
           \A s \in Sales : post'[s] = post[s] \/ post'[s] = NoCallId
    PROVE  /\ sync' \in Sync
           /\ SyncLinked'
           /\ (sync.pc = "wait" => sync.sale \in Sales /\ sync.call \in Calls)'
  BY SyncTypes, StationAssumption DEF SyncOff, SyncScan, SyncLinked

\* A row is written.
LEMMA RowWritten ==
    ASSUME Station, NEW s \in Sales, NEW row \in Op, SetOp(s, row),
           row.status = "pending" => row.attempts < MaxAttempts
    PROVE  op' \in [Sales -> Op] /\ RowsLive'
  BY DEF Station, TypeOK, SetOp, RowsLive, Pending

\* A failed attempt is counted, and the last one kills the row.
LEMMA AttemptCounts ==
    ASSUME Station, sync.pc = "wait", AttemptFailed
    PROVE  op' \in [Sales -> Op] /\ RowsLive'
  <1>1. /\ sync.sale \in Sales
        /\ op[sync.sale] \in Op
        /\ op[sync.sale].status \in {"pending", "discarded"}
    BY DEF Station, TypeOK, SyncLinked
  <1> DEFINE row == op[sync.sale]
             n   == row.attempts + 1
             new == [status |-> IF n >= MaxAttempts THEN "dead" ELSE row.status,
                     attempts |-> n, due |-> FALSE, at |-> row.at]
  <1>2. CASE Stored(sync.sale)
    <2>1. row.status = "pending" /\ row.attempts < MaxAttempts
      BY <1>1, <1>2 DEF Stored, Station, RowsLive, Pending
    <2>2. n \in 0 .. MaxAttempts /\ n \in Nat
      BY <1>1, <2>1, StationAssumption DEF Op
    <2>3. new \in Op
      BY <1>1, <2>2 DEF Op
    <2>4. new.status = "pending" => new.attempts < MaxAttempts
      BY <2>2, StationAssumption
    <2>5. SetOp(sync.sale, new)
      BY <1>2 DEF AttemptFailed, Mark
    <2>6. QED
      BY <1>1, <2>3, <2>4, <2>5, RowWritten
  <1>3. CASE ~Stored(sync.sale)
    <2>1. op' = op
      BY <1>3 DEF AttemptFailed, Mark
    <2>2. QED
      BY <2>1 DEF Station, TypeOK, RowsLive, Pending
  <1>4. QED
    BY <1>2, <1>3

\* The other outcomes only change the status, and leave no row pending anew.
LEMMA MarkStatus ==
    ASSUME Station, sync.pc = "wait", NEW st \in {"done", "dead"},
           Mark([op[sync.sale] EXCEPT !.status = st])
    PROVE  op' \in [Sales -> Op] /\ RowsLive'
  <1>1. sync.sale \in Sales /\ op[sync.sale] \in Op
    BY DEF Station, TypeOK
  <1>2. CASE Stored(sync.sale)
    <2>1. /\ [op[sync.sale] EXCEPT !.status = st] \in Op
          /\ [op[sync.sale] EXCEPT !.status = st].status = st
      BY <1>1 DEF Op
    <2>2. SetOp(sync.sale, [op[sync.sale] EXCEPT !.status = st])
      BY <1>2 DEF Mark
    <2>3. QED
      BY <1>1, <2>1, <2>2, RowWritten
  <1>3. CASE ~Stored(sync.sale)
    BY <1>3 DEF Mark, Station, TypeOK, RowsLive, Pending
  <1>4. QED
    BY <1>2, <1>3
LEMMA StationPage ==
    ASSUME Station, NEW s \in Sales, Page(s), IntakeTypeOK'
    PROVE  Station'
  <1>1. TypeOK
    BY DEF Station
  <1>2. ASSUME NEW c \in Calls, Submit(s, c)
        PROVE  Station'
    <2>1. /\ post' = [post EXCEPT ![s] = c] /\ stage' = [stage EXCEPT ![s] = "posting"]
          /\ UNCHANGED <<op, sync, asked>> /\ c # sync.call /\ busy' = TRUE
          /\ Send(c, s, FALSE, FALSE)
          /\ \A t \in Sales : c # post[t]
      BY <1>2 DEF Submit, Free, Listening
    <2>2. TypeOK'
      BY <1>1, <2>1 DEF TypeOK, Stages
    <2>3. /\ \A b \in Calls \ {c} : call'[b] = call[b]
          /\ SaleOf(c)' = s
          /\ call'[c].keyed = FALSE
      BY <1>1, <2>1, SendKeepsOthers DEF TypeOK
    <2>4. PostLinked'
      <3>1. /\ post'[s] = c /\ stage'[s] = "posting"
            /\ \A t \in Sales \ {s} : post'[t] = post[t] /\ stage'[t] = stage[t]
        BY <1>1, <2>1 DEF TypeOK
      <3>2. \A t \in Sales \ {s} : Posting(t) => call'[post[t]] = call[post[t]]
        BY <2>1, <2>3 DEF Station, PostLinked
      <3>3. QED
        BY <2>3, <3>1, <3>2 DEF Station, PostLinked, Posting, At, SaleOf
    <2>5. SyncLinked'
      BY <1>1, <2>1, <2>3 DEF Station, SyncLinked, TypeOK, At, SaleOf
    <2>6. RowsLive'
      BY <2>1 DEF Station, RowsLive, Pending
    <2>7. QED
      BY <2>2, <2>4, <2>5, <2>6 DEF Station
  <1>3. ASSUME NEW st \in Stages \ {"posting"}, Returns(s, st), KeepsLinks
        PROVE  PostLinked'
    <2>1. /\ post'[s] = NoCallId /\ stage'[s] = st /\ st # "posting"
          /\ \A t \in Sales \ {s} : post'[t] = post[t] /\ stage'[t] = stage[t]
      BY <1>1, <1>3 DEF Returns, TypeOK
    <2>2. QED
      BY <1>3, <2>1 DEF Station, PostLinked, KeepsLinks, Posting, At, SaleOf
  <1>4. CASE PostSaved(s) \/ PostRefused(s)
    <2>1. /\ UNCHANGED <<op, sync>> /\ Posting(s) /\ Close(post[s])
          /\ asked' \in BOOLEAN
          /\ \E st \in Stages \ {"posting"} : Returns(s, st)
      BY <1>1, <1>4 DEF PostSaved, PostRefused, Returns, Hears, Stages, TypeOK
    <2>2. TypeOK'
      BY <1>1, <2>1 DEF TypeOK, Returns
    <2>3. KeepsLinks
      <3>1. post[s] \in Calls
        BY <2>1 DEF Station, PostLinked
      <3>2. QED
        BY <1>1, <2>1, <3>1, ServiceKeepsLinks DEF TypeOK
    <2>4. PostLinked'
      BY <1>3, <2>1, <2>3
    <2>5. SyncLinked'
      <3>1. \A t \in Sales : post'[t] = post[t] \/ post'[t] = NoCallId
        BY <1>1, <2>1 DEF Returns, TypeOK
      <3>2. QED
        BY <1>1, <2>1, <2>3, <3>1, StationAssumption
        DEF Station, TypeOK, SyncLinked, KeepsLinks, At, SaleOf
    <2>6. RowsLive'
      BY <2>1 DEF Station, RowsLive, Pending
    <2>7. QED
      BY <2>2, <2>4, <2>5, <2>6 DEF Station
  <1>5. CASE PostUnanswered(s)
    <2> DEFINE row == [NoOp EXCEPT !.status = "pending", !.due = TRUE, !.at = NextAt]
    <2>1. /\ Posting(s) /\ Returns(s, "queued")
          /\ post' = [post EXCEPT ![s] = NoCallId]
          /\ stage' = [stage EXCEPT ![s] = "queued"]
          /\ busy' = FALSE
          /\ SetOp(s, row)
          /\ sync.pc # "scan"
          /\ sync' = IF sync.pc = "off" THEN SyncScan ELSE sync
          /\ UNCHANGED <<intakeVars, asked>>
      BY <1>5 DEF PostUnanswered, Returns, Enqueue, MainIsFree
    <2>2. row \in Op /\ row.attempts < MaxAttempts /\ row.status = "pending"
      BY <1>1, RowTypes, StationAssumption DEF NoOp
    <2>3. op' \in [Sales -> Op] /\ RowsLive'
      BY <2>1, <2>2, RowWritten
    <2>4. KeepsLinks
      BY <2>1 DEF intakeVars, KeepsLinks, At, SaleOf
    <2>5. PostLinked'
      BY <1>3, <2>1, <2>4 DEF Stages
    <2>6. \A t \in Sales : post'[t] = post[t] \/ post'[t] = NoCallId
      BY <1>1, <2>1 DEF TypeOK
    <2> HIDE DEF row
    <2>7. CASE sync.pc = "off"
      <3>1. /\ sync' \in Sync
            /\ SyncLinked'
            /\ (sync.pc = "wait" => sync.sale \in Sales /\ sync.call \in Calls)'
        BY <2>1, <2>6, <2>7, SyncIdle
      <3>2. QED
        BY <1>1, <2>1, <2>3, <2>5, <3>1 DEF Station, TypeOK, Stages
    <2>8. CASE sync.pc = "wait"
      <3>1. op'[sync.sale].status \in {"pending", "discarded"}
        BY <1>1, <2>1, <2>2, <2>8 DEF Station, SyncLinked, SetOp, TypeOK
      <3>2. SyncLinked'
        BY <1>1, <2>1, <2>4, <2>6, <2>8, <3>1, StationAssumption
        DEF Station, TypeOK, SyncLinked, KeepsLinks, At, SaleOf
      <3>3. QED
        BY <1>1, <2>1, <2>3, <2>5, <2>8, <3>2 DEF Station, TypeOK, Stages
    <2>9. QED
      BY <1>1, <2>1, <2>7, <2>8 DEF TypeOK, Sync
  <1>6. QED
    BY <1>2, <1>4, <1>5 DEF Page
LEMMA StationWorker ==
    ASSUME Station, FlushAsked \/ Tick \/ Pass \/ Outcome, IntakeTypeOK'
    PROVE  Station'
  <1>1. TypeOK
    BY DEF Station
  <1>2. ASSUME UNCHANGED intakeVars
        PROVE  KeepsLinks
    BY <1>2 DEF intakeVars, KeepsLinks, At, SaleOf
  <1>3. CASE FlushAsked
    <2>1. /\ asked' = FALSE /\ UNCHANGED <<intakeVars, stage, post, busy>> /\ sync.pc # "scan"
          /\ KeepsLinks
      BY <1>2, <1>3 DEF FlushAsked, MainIsFree
    <2>2. PostLinked'
      BY <2>1, PostKept
    <2>3. CASE sync.pc = "off"
      <3>1. /\ sync' = SyncScan
            /\ op' = [s \in Sales |-> IF Pending(s)
                                      THEN [op[s] EXCEPT !.due = (op[s].attempts = 0)]
                                      ELSE op[s]]
        BY <1>3, <2>3 DEF FlushAsked
      <3>2. \A s \in Sales :
               op'[s] \in Op /\ op'[s].status = op[s].status /\ op'[s].attempts = op[s].attempts
        BY <1>1, <3>1, RowTypes DEF Op
      <3>3. op' \in [Sales -> Op] /\ RowsLive'
        BY <3>1, <3>2 DEF Station, RowsLive, Pending
      <3>4. QED
        BY <1>1, <2>1, <2>2, <3>1, <3>3, SyncIdle DEF Station, TypeOK
    <2>4. CASE sync.pc = "wait"
      <3>1. UNCHANGED <<op, sync>>
        BY <1>3, <2>4 DEF FlushAsked
      <3>2. SyncLinked'
        BY <2>1, <3>1, SyncKept DEF Station, SyncLinked
      <3>3. QED
        BY <1>1, <2>1, <2>2, <3>1, <3>2 DEF Station, TypeOK, RowsLive, Pending
    <2>5. QED
      BY <1>1, <2>1, <2>3, <2>4 DEF TypeOK, Sync
  <1>4. CASE Tick \/ StopPass
    <2>1. /\ UNCHANGED <<intakeVars, stage, post, busy, op, asked>> /\ KeepsLinks
          /\ sync' \in {SyncOff, SyncScan}
      BY <1>2, <1>4 DEF Tick, StopPass
    <2>2. PostLinked'
      BY <2>1, PostKept
    <2>3. QED
      BY <1>1, <2>1, <2>2, SyncIdle DEF Station, TypeOK, RowsLive, Pending
  <1>5. ASSUME NEW s \in Sales, NEW c \in Calls, SendOldest(s, c)
        PROVE  Station'
    <2>1. /\ sync.pc = "scan" /\ op[s].status = "pending" /\ \A t \in Sales : c # post[t]
          /\ sync' = [pc |-> "wait", sale |-> s, call |-> c]
          /\ UNCHANGED <<stage, post, busy, op, asked>>
          /\ Send(c, s, TRUE, FALSE)
      BY <1>5 DEF SendOldest, Free, Listening, Oldest, Pending
    <2>2. /\ \A b \in Calls \ {c} : call'[b] = call[b]
          /\ SaleOf(c)' = s
          /\ call'[c].keyed = TRUE
      BY <1>1, <2>1, SendKeepsOthers DEF TypeOK
    <2>3. PostLinked'
      BY <2>1, <2>2 DEF Station, PostLinked, Posting, At, SaleOf
    <2>4. SyncLinked'
      BY <2>1, <2>2 DEF SyncLinked, SaleOf
    <2>5. TypeOK' /\ RowsLive'
      BY <1>1, <2>1 DEF Station, TypeOK, RowsLive, Pending, Sync
    <2>6. QED
      BY <2>3, <2>4, <2>5 DEF Station
  <1>6. CASE Outcome
    <2>1. sync.pc = "wait" /\ sync.call \in Calls /\ UNCHANGED <<stage, post, busy, asked>>
      BY <1>1, <1>6 DEF Outcome, HearAuth, HearOk, HearRefused, HearFailed,
         HearNothing, Heard, TypeOK
    <2>2. KeepsLinks
      <3>1. CASE HearNothing
        BY <1>2, <3>1 DEF HearNothing
      <3>2. CASE Close(sync.call)
        BY <1>1, <2>1, <3>2, ServiceKeepsLinks DEF TypeOK
      <3>3. QED
        BY <1>6, <3>1, <3>2 DEF Outcome, HearAuth, HearOk, HearRefused,
           HearFailed, Heard
    <2>3. PostLinked'
      BY <2>1, <2>2, PostKept
    <2>4. sync' \in {SyncOff, SyncScan}
      BY <1>6 DEF Outcome, HearAuth, HearOk, HearRefused, HearFailed, HearNothing
    <2>5. op' \in [Sales -> Op] /\ RowsLive'
      <3>1. CASE HearAuth
        BY <1>1, <3>1 DEF HearAuth, Station, TypeOK, RowsLive, Pending
      <3>2. CASE HearOk \/ HearRefused
        BY <2>1, <3>2, MarkStatus DEF HearOk, HearRefused
      <3>3. CASE HearFailed \/ HearNothing
        BY <2>1, <3>3, AttemptCounts DEF HearFailed, HearNothing
      <3>4. QED
        BY <1>6, <3>1, <3>2, <3>3 DEF Outcome
    <2>6. QED
      BY <1>1, <2>1, <2>3, <2>4, <2>5, SyncIdle DEF Station, TypeOK
  <1>7. QED
    BY <1>3, <1>4, <1>5, <1>6 DEF Pass

LEMMA StationStep ==
    ASSUME Station, [Next]_vars
    PROVE  Station'
  <1>1. IntakeTypeOK' /\ TypeOK
    BY StationSteps, IntakeStepType DEF Station, TypeOK
  <1>2. ASSUME UNCHANGED intakeVars
        PROVE  KeepsLinks
    BY <1>2 DEF intakeVars, KeepsLinks, At, SaleOf
  <1>3. ASSUME KeepsLinks, UNCHANGED <<stage, post, busy, op, sync>>, asked' \in BOOLEAN
        PROVE  Station'
    <2>1. PostLinked' /\ SyncLinked'
      BY <1>3, PostKept, SyncKept DEF Station, SyncLinked
    <2>2. QED
      BY <1>1, <1>3, <2>1 DEF Station, TypeOK, RowsLive, Pending
  <1>4. CASE UNCHANGED vars \/ AskFlush
    BY <1>1, <1>2, <1>3, <1>4 DEF vars, stationVars, AskFlush, TypeOK
  <1>5. ASSUME NEW s \in Sales, Elapse(s) \/ Discard(s)
        PROVE  Station'
    <2>1. UNCHANGED <<intakeVars, stage, post, busy, sync, asked>> /\ KeepsLinks
      BY <1>2, <1>5 DEF Elapse, Discard
    <2>2. PICK row \in Op :
             /\ SetOp(s, row)
             /\ row.status \in {op[s].status, "discarded"}
             /\ row.attempts = op[s].attempts
      <3>1. op[s] \in Op
        BY <1>1, RowTypes
      <3>2. CASE Elapse(s)
        <4>1. /\ [op[s] EXCEPT !.due = TRUE] \in Op
              /\ [op[s] EXCEPT !.due = TRUE].status = op[s].status
              /\ [op[s] EXCEPT !.due = TRUE].attempts = op[s].attempts
          BY <3>1 DEF Op
        <4>2. QED
          BY <3>2, <4>1 DEF Elapse
      <3>3. CASE Discard(s)
        BY <3>1, <3>3 DEF Discard, Op
      <3>4. QED
        BY <1>5, <3>2, <3>3
    <2>3. op' \in [Sales -> Op] /\ RowsLive'
      BY <2>2, RowWritten DEF Station, RowsLive, Pending
    <2>4. sync.pc = "wait" => op'[sync.sale].status \in {"pending", "discarded"}
      BY <1>1, <2>2 DEF Station, SyncLinked, TypeOK, SetOp
    <2>5. PostLinked' /\ SyncLinked'
      BY <2>1, <2>4, PostKept, SyncKept
    <2>6. QED
      BY <1>1, <2>1, <2>3, <2>5 DEF Station, TypeOK
  <1>6. CASE Restart
    <2>1. /\ stage' = [s \in Sales |-> IF Posting(s) THEN "lost" ELSE stage[s]]
          /\ post' = [s \in Sales |-> NoCallId] /\ busy' = FALSE
          /\ sync' = SyncScan /\ asked' = FALSE
          /\ UNCHANGED <<intakeVars, op>>
      BY <1>6 DEF Restart
    <2>2. \A s \in Sales : ~Posting(s)'
      BY <2>1 DEF Posting
    <2>3. PostLinked' /\ SyncLinked'
      BY <2>1, <2>2, SyncIdle DEF PostLinked
    <2>4. QED
      BY <1>1, <2>1, <2>3, SyncIdle DEF Station, TypeOK, Stages, RowsLive, Pending
  <1>7. ASSUME NEW c \in Calls, Backend(c)
        PROVE  Station'
    <2>1. KeepsLinks
      BY <1>1, <1>7, ServiceKeepsLinks DEF Backend, TypeOK
    <2>2. QED
      BY <1>1, <1>3, <1>7, <2>1 DEF Backend, stationVars, TypeOK
  <1>8. CASE BackendCrash
    <2>1. KeepsLinks
      BY <1>8 DEF BackendCrash, Crash, NoCall, KeepsLinks, At
    <2>2. QED
      BY <1>1, <1>3, <1>8, <2>1 DEF BackendCrash, stationVars, TypeOK
  <1>9. QED
    BY <1>1, <1>4, <1>5, <1>6, <1>7, <1>8, StationPage, StationWorker DEF Next

LEMMA StationInit == Init => Station
  <1> SUFFICES ASSUME Init
               PROVE  Station
    OBVIOUS
  <1>1. NoOp \in Op
    BY StationAssumption DEF NoOp, Op
  <1>2. QED
    BY <1>1, IntakeInitType, SyncTypes, StationAssumption
    DEF Init, Station, TypeOK, PostLinked, SyncLinked, RowsLive, Pending, Posting,
        NoOp, Stages, SyncScan, SyncOff

\* The station's state always has its type, whatever fails.
THEOREM StationTyped == Spec => []TypeOK
  <1>1. Station => TypeOK
    BY DEF Station
  <1>2. QED
    BY StationInit, StationStep, <1>1, PTL DEF Spec
-----------------------------------------------------------------------------
(* What the cashier is told is true, and a queued sale is never lost.      *)

Truth == Station /\ Once /\ LookupKeyed /\ PlainTrue /\ ReceiptsTrue /\ QueuedHasRow

\* Orders only get more.
LEMMA OrdersGrow ==
    ASSUME IntakeTypeOK, [IntakeNext]_intakeVars, NEW s \in Sales
    PROVE  /\ PlainOrders(s) \in Nat /\ PlainOrders(s)' >= PlainOrders(s)
           /\ OrdersUnder(s) \in Nat /\ OrdersUnder(s)' >= OrdersUnder(s)
  <1>1. made \in [Sales -> [BOOLEAN -> Nat]]
    BY DEF IntakeTypeOK
  <1>2. PlainOrders(s) \in Nat /\ OrdersUnder(s) \in Nat
    BY <1>1 DEF PlainOrders, OrdersUnder
  <1>3. CASE UNCHANGED made
    <2>1. PlainOrders(s)' = PlainOrders(s) /\ OrdersUnder(s)' = OrdersUnder(s)
      BY <1>3 DEF PlainOrders, OrdersUnder
    <2>2. QED
      BY <1>2, <2>1
  <1>4. ASSUME NEW c \in Calls, OneMore(c), ~At(c, "idle")
        PROVE  PlainOrders(s)' >= PlainOrders(s) /\ OrdersUnder(s)' >= OrdersUnder(s)
    <2>1. SaleOf(c) \in Sales /\ call[c].keyed \in BOOLEAN
      BY <1>4 DEF IntakeTypeOK, At, SaleOf, Call
    <2>2. CASE call[c].keyed = TRUE
      <3>1. made' = [made EXCEPT ![SaleOf(c)] =
                [made[SaleOf(c)] EXCEPT ![TRUE] = made[SaleOf(c)][TRUE] + 1]]
        BY <1>1, <1>4, <2>1, <2>2 DEF OneMore
      <3>2. /\ made'[s][FALSE] = made[s][FALSE]
            /\ made'[s][TRUE] = made[s][TRUE] \/ made'[s][TRUE] = made[s][TRUE] + 1
        BY <1>1, <2>1, <3>1
      <3>3. /\ PlainOrders(s) = made[s][FALSE] /\ PlainOrders(s)' = made'[s][FALSE]
            /\ OrdersUnder(s) = made[s][TRUE] /\ OrdersUnder(s)' = made'[s][TRUE]
        BY Zenon DEF PlainOrders, OrdersUnder
      <3>4. /\ PlainOrders(s)' = PlainOrders(s)
            /\ OrdersUnder(s)' = OrdersUnder(s) \/ OrdersUnder(s)' = OrdersUnder(s) + 1
        BY <3>2, <3>3, Zenon
      <3>5. QED
        BY <1>2, <3>4
    <2>3. CASE call[c].keyed = FALSE
      <3>1. made' = [made EXCEPT ![SaleOf(c)] =
                [made[SaleOf(c)] EXCEPT ![FALSE] = made[SaleOf(c)][FALSE] + 1]]
        BY <1>1, <1>4, <2>1, <2>3 DEF OneMore
      <3>2. /\ made'[s][TRUE] = made[s][TRUE]
            /\ made'[s][FALSE] = made[s][FALSE] \/ made'[s][FALSE] = made[s][FALSE] + 1
        BY <1>1, <2>1, <3>1
      <3>3. /\ PlainOrders(s) = made[s][FALSE] /\ PlainOrders(s)' = made'[s][FALSE]
            /\ OrdersUnder(s) = made[s][TRUE] /\ OrdersUnder(s)' = made'[s][TRUE]
        BY Zenon DEF PlainOrders, OrdersUnder
      <3>4. /\ OrdersUnder(s)' = OrdersUnder(s)
            /\ PlainOrders(s)' = PlainOrders(s) \/ PlainOrders(s)' = PlainOrders(s) + 1
        BY <3>2, <3>3, Zenon
      <3>5. QED
        BY <1>2, <3>4
    <2>4. QED
      BY <2>1, <2>2, <2>3
  <1>5. ASSUME NEW c \in Calls, CallStep(c), ~UNCHANGED made
        PROVE  OneMore(c) /\ ~At(c, "idle")
    BY <1>5 DEF CallStep, Send, Vanish, TurnAway, Serve, TakeClaim, MissClaim,
       Replay, Busy, Unkeyed, StoreClosed, Proceed, CommitOrder, Reject,
       CommitUnknown, Stamp, Release, Close, At
  <1>6. QED
    BY <1>2, <1>3, <1>4, <1>5 DEF IntakeNext, CallStep, Crash, intakeVars

LEMMA PlainStep ==
    ASSUME Once, PlainTrue, LookupKeyed, NEW c \in Calls, CallStep(c), "lostAck" \notin Faults
    PROVE  PlainTrue'
  <1>1. /\ call \in [Calls -> Call] /\ call[c] \in Call
        /\ \A b \in Calls : ~At(b, "idle") => SaleOf(b) \in Sales
        /\ IntakeTypeOK /\ [IntakeNext]_intakeVars
        /\ made \in [Sales -> [BOOLEAN -> Nat]]
    BY DEF Once, Lock, IntakeTypeOK, At, SaleOf, CallStep, IntakeNext
  <1> DEFINE Sold(b) == /\ ~call[b].keyed
                        /\ At(b, "stamp") \/ (At(b, "answered") /\ call[b].res = "ok")
  <1>2. ASSUME \A b \in Calls : Sold(b)' => Sold(b) /\ SaleOf(b)' = SaleOf(b)
        PROVE  PlainTrue'
    <2>1. \A b \in Calls : Sold(b) =>
             SaleOf(b) \in Sales /\ PlainOrders(SaleOf(b)) >= 1
      BY <1>1 DEF PlainTrue, At
    <2>2. \A s \in Sales : PlainOrders(s) >= 1 => PlainOrders(s)' >= 1
      <3>1. ASSUME NEW s \in Sales, PlainOrders(s) >= 1
            PROVE  PlainOrders(s)' >= 1
        <4>1. PlainOrders(s) \in Nat /\ PlainOrders(s)' >= PlainOrders(s)
          BY <1>1, OrdersGrow
        <4>2. PlainOrders(s)' \in Nat
          BY IntakeStepType, <1>1 DEF IntakeTypeOK, PlainOrders
        <4>3. QED
          BY <3>1, <4>1, <4>2
      <3>2. QED
        BY <3>1
    <2>3. QED
      BY <1>2, <2>1, <2>2 DEF PlainTrue
  <1>3. CASE \E s \in Sales, k, e \in BOOLEAN : Send(c, s, k, e)
    BY <1>1, <1>2, <1>3 DEF Send, NoCall, At, SaleOf
  <1>4. CASE Vanish(c) \/ Close(c)
    BY <1>1, <1>2, <1>4 DEF Vanish, Close, NoCall, At, SaleOf
  <1>5. CASE TurnAway(c) \/ Busy(c) \/ StoreClosed(c)
    <2>1. PICK res \in Answers \ {"ok"} : Answer(c, res)
      BY <1>5 DEF TurnAway, Busy, StoreClosed, Answers
    <2>2. QED
      BY <1>1, <1>2, <2>1 DEF Answer, At, SaleOf, Call
  <1>6. CASE TakeClaim(c) \/ MissClaim(c) \/ Unkeyed(c) \/ Proceed(c)
    BY <1>1, <1>2, <1>6 DEF TakeClaim, MissClaim, Unkeyed, Proceed, GoTo, At,
       SaleOf, Call
  <1>7. CASE Reject(c)
    BY <1>1, <1>2, <1>7 DEF Reject, Throw, At, SaleOf, Call
  <1>8. CASE Release(c)
    <2>1. call[c].res # "ok"
      BY <1>8 DEF Release, Once, Thrown
    <2>2. QED
      BY <1>1, <1>2, <1>8, <2>1 DEF Release, GoTo, At, SaleOf, Call
  <1>9. CASE Stamp(c)
    BY <1>1, <1>2, <1>9 DEF Stamp, Answer, At, SaleOf, Call
  <1>10. CASE Replay(c)
    <2>1. call[c].keyed
      BY <1>10 DEF Replay, LookupKeyed
    <2>2. QED
      BY <1>1, <1>2, <1>10, <2>1 DEF Replay, Answer, At, SaleOf, Call
  <1>11. CASE CommitOrder(c)
    <2>1. \A b \in Calls : Sold(b)' =>
             /\ SaleOf(b)' = SaleOf(b) /\ SaleOf(b) \in Sales
             /\ b # c => Sold(b)
             /\ b = c => call[c].keyed = FALSE
      BY <1>1, <1>11 DEF CommitOrder, GoTo, At, SaleOf, Call
    <2>2. SaleOf(c) \in Sales
      BY <1>1, <1>11 DEF CommitOrder, At
    <2>3. ASSUME NEW s \in Sales
          PROVE  /\ PlainOrders(s) \in Nat /\ PlainOrders(s)' \in Nat
                 /\ PlainOrders(s)' >= PlainOrders(s)
      BY <1>1, OrdersGrow, IntakeStepType DEF IntakeTypeOK, PlainOrders
    <2>4. ASSUME call[c].keyed = FALSE, NEW s \in Sales, s = SaleOf(c)
          PROVE  PlainOrders(s)' >= 1
      <3>1. made' = [made EXCEPT ![s] = [made[s] EXCEPT ![FALSE] = made[s][FALSE] + 1]]
        BY <1>1, <1>11, <2>4 DEF CommitOrder, OneMore
      <3>2. made'[s][FALSE] = made[s][FALSE] + 1 /\ made[s][FALSE] \in Nat
        BY <1>1, <3>1
      <3>3. PlainOrders(s)' = made'[s][FALSE]
        BY Zenon DEF PlainOrders
      <3>4. \E n \in Nat : PlainOrders(s)' = n + 1
        BY <3>2, <3>3, Zenon
      <3>5. QED
        BY <3>4
    <2>5. ASSUME NEW b \in Calls, Sold(b)'
          PROVE  PlainOrders(SaleOf(b))' >= 1
      <3>1. SaleOf(b)' = SaleOf(b) /\ SaleOf(b) \in Sales
        BY <2>1, <2>5
      <3>2. CASE b = c
        BY <2>1, <2>4, <2>5, <3>1, <3>2
      <3>3. CASE b # c
        <4>1. PlainOrders(SaleOf(b)) >= 1
          BY <2>1, <2>5, <3>3 DEF PlainTrue
        <4>2. QED
          BY <2>3, <3>1, <4>1
      <3>4. QED
        BY <3>2, <3>3
    <2>6. QED
      BY <2>5 DEF PlainTrue
  <1>12. QED
    BY <1>3, <1>4, <1>5, <1>6, <1>7, <1>8, <1>9, <1>10, <1>11
    DEF CallStep, Serve, CommitUnknown
LEMMA LookupStep ==
    ASSUME IntakeTypeOK, LookupKeyed, NEW c \in Calls, CallStep(c)
    PROVE  LookupKeyed'
  <1>1. call \in [Calls -> Call] /\ call[c] \in Call
    BY DEF IntakeTypeOK
  <1>2. CASE MissClaim(c)
    BY <1>1, <1>2 DEF MissClaim, GoTo, LookupKeyed, At, Call
  <1>3. CASE \E s \in Sales, k, e \in BOOLEAN : Send(c, s, k, e)
    BY <1>1, <1>3 DEF Send, NoCall, LookupKeyed, At
  <1>4. CASE Vanish(c) \/ Close(c)
    BY <1>1, <1>4 DEF Vanish, Close, NoCall, LookupKeyed, At
  <1>5. CASE TurnAway(c) \/ Replay(c) \/ Busy(c) \/ StoreClosed(c) \/ Stamp(c)
    BY <1>1, <1>5 DEF TurnAway, Replay, Busy, StoreClosed, Stamp, Answer,
       LookupKeyed, At, Call
  <1>6. CASE \/ TakeClaim(c) \/ Unkeyed(c) \/ Proceed(c)
             \/ CommitOrder(c) \/ Release(c)
    BY <1>1, <1>6 DEF TakeClaim, Unkeyed, Proceed, CommitOrder, Release, GoTo,
       LookupKeyed, At, Call
  <1>7. CASE Reject(c) \/ CommitUnknown(c)
    BY <1>1, <1>7 DEF Reject, CommitUnknown, Throw, LookupKeyed, At, Call
  <1>8. QED
    BY <1>2, <1>3, <1>4, <1>5, <1>6, <1>7 DEF CallStep, Serve

\* Both facts about requests survive every step of Intake.
LEMMA RequestFacts ==
    ASSUME Once, PlainTrue, LookupKeyed, "lostAck" \notin Faults,
           [IntakeNext]_intakeVars
    PROVE  PlainTrue' /\ LookupKeyed'
  <1>1. CASE Crash
    BY <1>1 DEF Crash, NoCall, PlainTrue, LookupKeyed, At
  <1>2. ASSUME NEW c \in Calls, CallStep(c)
        PROVE  PlainTrue' /\ LookupKeyed'
    BY <1>2, PlainStep, LookupStep DEF Once, Lock
  <1>3. CASE UNCHANGED intakeVars
    BY <1>3 DEF intakeVars, PlainTrue, LookupKeyed, At, SaleOf, PlainOrders
  <1>4. QED
    BY <1>1, <1>2, <1>3 DEF IntakeNext, CallStep
\* A sale shown as saved is no less sold later, and who has a row keeps one.
LEMMA TruthNext ==
    ASSUME Truth, "lostAck" \notin Faults, [Next]_vars
    PROVE  Truth'
  <1>1. /\ [IntakeNext]_intakeVars /\ Station' /\ Once'
        /\ PlainTrue' /\ LookupKeyed'
    BY StationSteps, StationStep, OnceNext, RequestFacts DEF Truth
  <1>2. TypeOK /\ IntakeTypeOK
    BY DEF Truth, Station, TypeOK
  <1>3. ASSUME NEW s \in Sales
        PROVE  /\ PlainOrders(s) >= 1 => PlainOrders(s)' >= 1
               /\ OrdersUnder(s) = 1 => OrdersUnder(s)' = 1
    <2>1. /\ PlainOrders(s) \in Nat /\ PlainOrders(s)' >= PlainOrders(s)
          /\ OrdersUnder(s) \in Nat /\ OrdersUnder(s)' >= OrdersUnder(s)
      BY <1>1, <1>2, OrdersGrow
    <2>2. IntakeTypeOK'
      BY <1>1, <1>2, IntakeStepType
    <2>3. ASSUME IntakeTypeOK
          PROVE  PlainOrders(s) \in Nat /\ OrdersUnder(s) \in Nat
      BY <2>3 DEF IntakeTypeOK, PlainOrders, OrdersUnder
    <2>4. PlainOrders(s)' \in Nat /\ OrdersUnder(s)' \in Nat
      BY <2>2 DEF IntakeTypeOK, PlainOrders, OrdersUnder
    <2>5. OrdersUnder(s)' <= 1
      BY <1>1 DEF Once, AtMostOnce
    <2>6. QED
      BY <2>1, <2>4, <2>5
  <1>4. ASSUME \A s \in Sales :
                  /\ stage'[s] = "saved" => stage[s] = "saved" \/ PlainOrders(s) >= 1
                  /\ stage'[s] = "queued" =>
                        (stage[s] = "queued" /\ op'[s].status = op[s].status)
                        \/ op'[s].status # "none"
                  /\ op'[s].status = "done" =>
                        op[s].status = "done" \/ OrdersUnder(s) = 1
        PROVE  Truth'
    <2>1. \A s \in Sales : /\ stage[s] = "saved" => PlainOrders(s) >= 1
                           /\ op[s].status = "done" => OrdersUnder(s) = 1
      BY DEF Truth, ReceiptsTrue, PlainOrders
    <2>2. \A s \in Sales : /\ stage'[s] = "saved" => PlainOrders(s)' >= 1
                           /\ op'[s].status = "done" => OrdersUnder(s)' = 1
      BY <1>3, <1>4, <2>1
    <2>3. ReceiptsTrue'
      BY <2>2 DEF ReceiptsTrue, PlainOrders
    <2>4. QueuedHasRow'
      BY <1>4 DEF Truth, QueuedHasRow
    <2>5. QED
      BY <1>1, <2>3, <2>4 DEF Truth
  <1>5. ASSUME UNCHANGED <<stage, op>>
        PROVE  Truth'
    BY <1>4, <1>5
  <1>6. ASSUME NEW s \in Sales, Page(s)
        PROVE  Truth'
    <2>1. CASE \E c \in Calls : Submit(s, c)
      BY <1>2, <1>4, <2>1 DEF Submit, TypeOK
    <2>2. CASE PostSaved(s)
      <3>1. post[s] \in Calls /\ SaleOf(post[s]) = s /\ ~call[post[s]].keyed
        BY <2>2 DEF PostSaved, Returns, Hears, Truth, Station, PostLinked, At
      <3>2. PlainOrders(s) >= 1
        BY <2>2, <3>1 DEF PostSaved, Hears, Truth, PlainTrue
      <3>3. QED
        BY <1>2, <1>4, <2>2, <3>2 DEF PostSaved, Returns, TypeOK
    <2>3. CASE PostRefused(s)
      BY <1>2, <1>4, <2>3 DEF PostRefused, Returns, TypeOK
    <2>4. CASE PostUnanswered(s)
      <3> DEFINE row == [NoOp EXCEPT !.status = "pending", !.due = TRUE, !.at = NextAt]
      <3>1. row.status = "pending"
        BY DEF NoOp
      <3>2. \A t \in Sales : op'[t] = IF t = s THEN row ELSE op[t]
        BY <1>2, <2>4 DEF PostUnanswered, Enqueue, SetOp, TypeOK
      <3>3. stage' = [stage EXCEPT ![s] = "queued"]
        BY <2>4 DEF PostUnanswered, Returns
      <3>4. QED
        BY <1>2, <1>4, <3>1, <3>2, <3>3 DEF TypeOK
    <2>5. QED
      BY <1>6, <2>1, <2>2, <2>3, <2>4 DEF Page
  <1>7. ASSUME NEW s \in Sales, Elapse(s) \/ Discard(s)
        PROVE  Truth'
    BY <1>2, <1>4, <1>7, RowTypes DEF Elapse, Discard, SetOp, TypeOK, Op
  <1>8. CASE FlushAsked
    <2>1. \A t \in Sales : op'[t].status = op[t].status
      BY <1>2, <1>8, RowTypes DEF FlushAsked, Op
    <2>2. UNCHANGED stage
      BY <1>8 DEF FlushAsked
    <2>3. QED
      BY <1>4, <2>1, <2>2
  <1>9. CASE AskFlush \/ Tick \/ Pass \/ UNCHANGED vars \/ BackendCrash
             \/ \E c \in Calls : Backend(c)
    BY <1>5, <1>9 DEF AskFlush, Tick, Pass, StopPass, SendOldest, vars,
       stationVars, BackendCrash, Backend
  <1>10. CASE Restart
    BY <1>2, <1>4, <1>10 DEF Restart, Posting, TypeOK
  <1>11. CASE Outcome
    <2>1. /\ UNCHANGED stage /\ sync.pc = "wait" /\ sync.sale \in Sales
          /\ op[sync.sale] \in Op
      BY <1>2, <1>11, RowTypes DEF Outcome, HearAuth, HearOk, HearRefused,
         HearFailed, HearNothing, Heard, TypeOK
    <2>2. ASSUME NEW row, Mark(row), row.status \in {"pending", "dead", "discarded"}
          PROVE  Truth'
      <3>1. \A t \in Sales : op'[t] = op[t] \/ (t = sync.sale /\ op'[t] = row)
        BY <1>2, <2>1, <2>2 DEF Mark, SetOp, TypeOK
      <3>2. QED
        BY <1>4, <2>1, <2>2, <3>1
    <2>3. CASE HearAuth
      BY <1>5, <2>1, <2>3 DEF HearAuth
    <2>4. CASE HearRefused
      <3>1. [op[sync.sale] EXCEPT !.status = "dead"].status = "dead"
        BY <2>1 DEF Op
      <3>2. QED
        BY <2>2, <2>4, <3>1 DEF HearRefused
    <2>5. CASE HearFailed \/ HearNothing
      <3>1. op[sync.sale].status \in {"pending", "discarded"}
        BY <2>1 DEF Truth, Station, SyncLinked
      <3>2. AttemptFailed
        BY <2>5 DEF HearFailed, HearNothing
      <3>3. QED
        BY <2>2, <3>1, <3>2 DEF AttemptFailed
    <2>6. CASE HearOk
      <3>1. OrdersUnder(sync.sale) = 1
        <4>1. /\ sync.call \in Calls /\ At(sync.call, "answered")
              /\ call[sync.call].res = "ok"
          BY <1>2, <2>1, <2>6 DEF HearOk, Heard, TypeOK
        <4>2. SaleOf(sync.call) = sync.sale /\ call[sync.call].keyed
          BY <2>1, <4>1 DEF Truth, Station, SyncLinked, At
        <4>3. QED
          BY <4>1, <4>2 DEF Truth, Once, AnswersTrue
      <3>2. [op[sync.sale] EXCEPT !.status = "done"].status = "done"
        BY <2>1 DEF Op
      <3>3. \A t \in Sales :
               op'[t] = op[t]
               \/ (t = sync.sale /\ op'[t] = [op[sync.sale] EXCEPT !.status = "done"])
        BY <1>2, <2>1, <2>6 DEF HearOk, Mark, SetOp, TypeOK
      <3>4. QED
        BY <1>4, <2>1, <3>1, <3>2, <3>3
    <2>7. QED
      BY <1>11, <2>3, <2>4, <2>5, <2>6 DEF Outcome
  <1>12. QED
    BY <1>6, <1>7, <1>8, <1>9, <1>10, <1>11 DEF Next

LEMMA TruthInit == Init => Truth
  <1> SUFFICES ASSUME Init
               PROVE  Truth
    OBVIOUS
  <1>1. IntakeInit
    BY DEF Init
  <1>2. \A c \in Calls : At(c, "idle")
    BY <1>1 DEF IntakeInit, NoCall, At
  <1>3. \A s \in Sales : stage[s] = "cart" /\ op[s].status = "none"
    BY DEF Init, NoOp
  <1>4. QED
    BY StationInit, OnceInit, <1>1, <1>2, <1>3
    DEF Truth, PlainTrue, LookupKeyed, ReceiptsTrue, QueuedHasRow, At

\* As long as no COMMIT is reported lost, a sale shown as saved has its order,
\* and an operation leaves the outbox as synced only with its order made.
THEOREM ReceiptsAreTrue ==
    ASSUME "lostAck" \notin Faults
    PROVE  Spec => []ReceiptsTrue
  <1>1. Truth => ReceiptsTrue
    BY DEF Truth
  <1>2. Truth /\ [Next]_vars => Truth'
    BY TruthNext
  <1>3. QED
    BY TruthInit, <1>1, <1>2, PTL DEF Spec

\* Under the same condition a sale that was queued is still in the outbox, or
\* sold, or was discarded by hand.
THEOREM QueuedIsNotLost ==
    ASSUME "lostAck" \notin Faults
    PROVE  Spec => []QueuedNotLost
  <1>1. Truth => QueuedNotLost
    BY DEF Truth, Station, TypeOK, Op, QueuedHasRow, ReceiptsTrue, QueuedNotLost,
       Stored
  <1>2. Truth /\ [Next]_vars => Truth'
    BY TruthNext
  <1>3. QED
    BY TruthInit, <1>1, <1>2, PTL DEF Spec
-----------------------------------------------------------------------------
(* Queued operations are sent in order.                                    *)

\* A cart that was not queued has no row, and every row is older than the next.
Queue ==
    /\ \A s \in Sales : stage[s] \in {"cart", "posting"} => op[s].status = "none"
    /\ \A s \in Sales : op[s].at < NextAt

InLine == Station /\ Queue /\ PendingInOrder

Rows == {s \in Sales : op[s].status # "none"}

LEMMA NextAtIs ==
    ASSUME TypeOK, TypeOK'
    PROVE  /\ NextAt = 1 + Cardinality(Rows) /\ NextAt' = 1 + Cardinality(Rows')
           /\ NextAt \in Nat /\ NextAt' \in Nat /\ IsFiniteSet(Rows)
           /\ \A s \in Sales : op[s].at \in Nat /\ op'[s].at \in Nat
  <1>1. Rows \subseteq Sales /\ Rows' \subseteq Sales
    BY DEF Rows
  <1>2. /\ IsFiniteSet(Rows) /\ Cardinality(Rows) \in Nat
        /\ IsFiniteSet(Rows') /\ Cardinality(Rows') \in Nat
    BY <1>1, StationAssumption, FS_Subset, FS_CardinalityType
  <1>3. NextAt = 1 + Cardinality(Rows) /\ NextAt' = 1 + Cardinality(Rows')
    BY DEF NextAt, Rows
  <1>4. \A s \in Sales : op[s].at \in Nat /\ op'[s].at \in Nat
    BY DEF TypeOK, Op
  <1> QED BY <1>2, <1>3, <1>4

\* A step that queues nothing, and after which the worker waits for nothing or
\* for what it waited for before.
LEMMA InLineKept ==
    ASSUME InLine, Station',
           \A s \in Sales : /\ op'[s].at = op[s].at
                            /\ op'[s].status = "none" <=> op[s].status = "none"
                            /\ op'[s].status = "pending" => op[s].status = "pending"
                            /\ stage'[s] \in {"cart", "posting"} => stage[s] \in {"cart", "posting"},
           sync'.pc = "wait" => sync' = sync \/ PendingInOrder'
    PROVE  InLine'
  <1>1. NextAt' = NextAt
    <2>1. Rows' = Rows
      BY DEF Rows
    <2> QED BY <2>1, NextAtIs DEF InLine, Station
  <1>2. Queue'
    BY <1>1 DEF InLine, Queue
  <1>3. PendingInOrder'
    <2> SUFFICES ASSUME sync' = sync, sync.pc = "wait", NEW t \in Sales, op'[t].status = "pending"
                 PROVE  op'[sync.sale].at <= op'[t].at
      BY DEF PendingInOrder, Pending
    <2>1. sync.sale \in Sales
      BY DEF InLine, Station, TypeOK
    <2> QED BY <2>1 DEF InLine, PendingInOrder, Pending
  <1> QED BY <1>2, <1>3 DEF InLine

LEMMA InLinePage ==
    ASSUME InLine, Station', NEW s \in Sales, Page(s)
    PROVE  InLine'
  <1>1. TypeOK /\ TypeOK'
    BY DEF InLine, Station
  <1>2. CASE PostSaved(s) \/ PostRefused(s) \/ \E c \in Calls : Submit(s, c)
    BY <1>1, <1>2, InLineKept DEF PostSaved, PostRefused, Returns, Submit, Posting, TypeOK
  <1>3. CASE PostUnanswered(s)
    <2> DEFINE row == [NoOp EXCEPT !.status = "pending", !.due = TRUE, !.at = NextAt]
    <2>1. row.status = "pending" /\ row.at = NextAt
      BY DEF NoOp
    <2> HIDE DEF row
    <2>2. /\ stage[s] = "posting" /\ stage' = [stage EXCEPT ![s] = "queued"]
          /\ op' = [op EXCEPT ![s] = row]
          /\ sync' = sync \/ sync'.pc = "scan"
      BY <1>3 DEF PostUnanswered, Returns, Enqueue, Posting, SetOp, row, SyncScan, SyncOff
    <2>3. op'[s] = row /\ \A t \in Sales \ {s} : op'[t] = op[t] /\ stage'[t] = stage[t]
      BY <1>1, <2>2 DEF TypeOK
    <2>4. op[s].status = "none"
      BY <2>2 DEF InLine, Queue
    <2>5. NextAt' = NextAt + 1 /\ NextAt \in Nat
      <3>1. Rows' = Rows \cup {s} /\ s \notin Rows
        BY <2>1, <2>3, <2>4 DEF Rows
      <3>2. Cardinality(Rows \cup {s}) = Cardinality(Rows) + 1
        BY <1>1, <3>1, NextAtIs, FS_AddElement
      <3>3. NextAt = 1 + Cardinality(Rows) /\ NextAt' = 1 + Cardinality(Rows') /\ NextAt \in Nat
        BY <1>1, NextAtIs
      <3> QED BY <3>1, <3>2, <3>3, FS_CardinalityType, NextAtIs, <1>1
    <2>6. \A t \in Sales : op[t].at \in Nat /\ op[t].at < NextAt
      BY <1>1, NextAtIs DEF InLine, Queue
    <2>7. Queue'
      <3>1. \A t \in Sales : op'[t].at < NextAt'
        BY <2>1, <2>3, <2>5, <2>6
      <3>2. \A t \in Sales : stage'[t] \in {"cart", "posting"} => op'[t].status = "none"
        BY <1>1, <2>2, <2>3 DEF InLine, Queue, TypeOK
      <3> QED BY <3>1, <3>2 DEF Queue
    <2>8. PendingInOrder'
      <3> SUFFICES ASSUME sync' = sync, sync.pc = "wait", NEW t \in Sales, op'[t].status = "pending"
                   PROVE  op'[sync.sale].at <= op'[t].at
        BY <2>2 DEF PendingInOrder, Pending
      <3>1. sync.sale \in Sales /\ sync.sale # s
        BY <1>1, <2>4 DEF InLine, Station, SyncLinked, TypeOK
      <3>2. op'[sync.sale].at = op[sync.sale].at
        BY <2>3, <3>1
      <3>3. CASE t = s
        BY <2>1, <2>3, <2>5, <2>6, <3>1, <3>2, <3>3
      <3>4. CASE t # s
        BY <2>3, <3>1, <3>2, <3>4 DEF InLine, PendingInOrder, Pending
      <3> QED BY <3>3, <3>4
    <2> QED BY <2>7, <2>8 DEF InLine
  <1> QED BY <1>2, <1>3 DEF Page

LEMMA InLineOutcome ==
    ASSUME InLine, Station', Outcome
    PROVE  InLine'
  <1>1. TypeOK
    BY DEF InLine, Station
  <1>2. /\ sync.pc = "wait" /\ sync.sale \in Sales /\ op[sync.sale] \in Op
        /\ UNCHANGED stage /\ sync'.pc # "wait"
        /\ op[sync.sale].status \in {"pending", "discarded"}
    BY <1>1 DEF InLine, Station, SyncLinked, TypeOK, Outcome, HearAuth, HearOk, HearRefused, HearFailed,
                HearNothing, Heard, SyncOff, SyncScan
  <1>3. ASSUME NEW row, Mark(row), row.at = op[sync.sale].at, row.status \in {"pending", "dead", "done"},
               row.status = "pending" => op[sync.sale].status = "pending"
        PROVE  InLine'
    <2>1. \A t \in Sales : op'[t] = op[t] \/ (t = sync.sale /\ op'[t] = row /\ Stored(t))
      BY <1>1, <1>2, <1>3 DEF Mark, SetOp, TypeOK
    <2> QED BY <1>2, <1>3, <2>1, InLineKept
  <1>4. CASE HearAuth
    BY <1>2, <1>4, InLineKept DEF HearAuth
  <1>5. ASSUME NEW st \in {"dead", "done"}, Mark([op[sync.sale] EXCEPT !.status = st])
        PROVE  InLine'
    <2>1. /\ [op[sync.sale] EXCEPT !.status = st].status = st
          /\ [op[sync.sale] EXCEPT !.status = st].at = op[sync.sale].at
      BY <1>2 DEF Op
    <2> QED BY <1>3, <1>5, <2>1
  <1>6. CASE HearOk \/ HearRefused
    BY <1>5, <1>6 DEF HearOk, HearRefused
  <1>7. CASE HearFailed \/ HearNothing
    <2>1. AttemptFailed
      BY <1>7 DEF HearFailed, HearNothing
    <2>2. CASE Stored(sync.sale)
      <3>1. op[sync.sale].status = "pending"
        BY <1>2, <2>2 DEF Stored
      <3> QED BY <1>3, <2>1, <3>1 DEF AttemptFailed
    <2>3. CASE ~Stored(sync.sale)
      <3>1. op' = op
        BY <2>1, <2>3 DEF AttemptFailed, Mark
      <3> QED BY <1>2, <3>1, InLineKept
    <2> QED BY <2>2, <2>3
  <1> QED BY <1>4, <1>6, <1>7 DEF Outcome

LEMMA InLineNext ==
    ASSUME InLine, [Next]_vars
    PROVE  InLine'
  <1>1. Station' /\ TypeOK /\ TypeOK'
    BY StationStep DEF InLine, Station
  <1>2. ASSUME NEW s \in Sales, Elapse(s) \/ Discard(s)
        PROVE  InLine'
    <2>1. op[s] \in Op /\ op[s].status \in {"pending", "dead"} /\ UNCHANGED <<stage, sync>>
      BY <1>1, <1>2 DEF TypeOK, Elapse, Discard, Stored, Pending
    <2>2. PICK row : SetOp(s, row) /\ row.at = op[s].at /\ row.status \in {op[s].status, "discarded"}
      <3>1. CASE Elapse(s)
        <4>1. /\ [op[s] EXCEPT !.due = TRUE].at = op[s].at
              /\ [op[s] EXCEPT !.due = TRUE].status = op[s].status
          BY <2>1 DEF Op
        <4> QED BY <3>1, <4>1 DEF Elapse
      <3>2. CASE Discard(s)
        <4>1. /\ [op[s] EXCEPT !.status = "discarded"].at = op[s].at
              /\ [op[s] EXCEPT !.status = "discarded"].status = "discarded"
          BY <2>1 DEF Op
        <4> QED BY <3>2, <4>1 DEF Discard
      <3> QED BY <1>2, <3>1, <3>2
    <2>3. \A t \in Sales : op'[t] = op[t] \/ (t = s /\ op'[t] = row)
      BY <1>1, <2>2 DEF SetOp, TypeOK
    <2> QED BY <1>1, <2>1, <2>2, <2>3, InLineKept
  <1>3. CASE FlushAsked
    <2>1. \A t \in Sales : op'[t].at = op[t].at /\ op'[t].status = op[t].status
      BY <1>1, <1>3, RowTypes DEF FlushAsked, Op
    <2>2. UNCHANGED stage /\ (sync' = sync \/ sync'.pc = "scan")
      BY <1>3 DEF FlushAsked, SyncScan, SyncOff
    <2> QED BY <1>1, <2>1, <2>2, InLineKept
  <1>4. ASSUME NEW s \in Sales, NEW c \in Calls, SendOldest(s, c)
        PROVE  InLine'
    <2>1. UNCHANGED <<stage, op>> /\ sync'.sale = s
      BY <1>4 DEF SendOldest
    <2>2. PendingInOrder'
      BY <1>4, <2>1 DEF SendOldest, Oldest, PendingInOrder, Pending
    <2> QED BY <1>1, <2>1, <2>2, InLineKept
  <1>5. CASE \/ AskFlush \/ Tick \/ StopPass \/ UNCHANGED vars \/ BackendCrash
             \/ \E c \in Calls : Backend(c)
    <2>1. UNCHANGED <<stage, op>> /\ (sync' = sync \/ sync'.pc # "wait")
      BY <1>5 DEF AskFlush, Tick, StopPass, vars, stationVars, BackendCrash, Backend, SyncScan, SyncOff
    <2> QED BY <1>1, <2>1, InLineKept
  <1>6. CASE Restart
    BY <1>1, <1>6, InLineKept DEF Restart, Posting, SyncScan, SyncOff
  <1> QED BY <1>1, <1>2, <1>3, <1>4, <1>5, <1>6, InLinePage, InLineOutcome DEF Next, Pass

LEMMA InLineInit == Init => InLine
  <1> SUFFICES ASSUME Init
               PROVE  InLine
    OBVIOUS
  <1>1. Station
    BY StationInit
  <1>2. NextAt = 1
    <2>1. Rows = {}
      BY DEF Init, NoOp, Rows
    <2>2. Cardinality(Rows) = 0
      BY <2>1, FS_EmptySet
    <2> QED BY <2>2 DEF NextAt, Rows
  <1>3. Queue
    BY <1>2 DEF Init, Queue, NoOp
  <1>4. PendingInOrder
    BY DEF Init, PendingInOrder, SyncScan, SyncOff
  <1> QED BY <1>1, <1>3, <1>4 DEF InLine

\* The worker never sends an operation while an older one is still pending,
\* whatever is discarded, queued or restarted meanwhile (nextPending).
THEOREM PendingAreInOrder == Spec => []PendingInOrder
  <1>1. InLine => PendingInOrder
    BY DEF InLine
  <1>2. InLine /\ [Next]_vars => InLine'
    BY InLineNext
  <1> QED BY InLineInit, <1>1, <1>2, PTL DEF Spec
-----------------------------------------------------------------------------
(* A sale is posted online, and queued, at most once with effect.          *)

\* An online post inside the backend, listened to or not.
Plain(c) == ~At(c, "idle") /\ ~call[c].keyed

\* A request whose transaction has committed.
Delivered(c) == At(c, "stamp") \/ (At(c, "answered") /\ call[c].res = "ok")

\* A sale has one post in progress at a time, and has no order while that post
\* has not delivered one.
PostsOnce ==
    /\ \A b, c \in Calls : Plain(b) /\ Plain(c) /\ SaleOf(b) = SaleOf(c) => b = c
    /\ \A c \in Calls : Plain(c) /\ ~Delivered(c) => PlainOrders(SaleOf(c)) = 0
    /\ \A s \in Sales : PlainOrders(s) <= 1

\* A cart that can be submitted has neither a post in progress nor an order,
\* and while the page waits for a sale, its post is the one it waits for.
CartsFresh ==
    /\ \A c \in Calls : Plain(c) => /\ stage[SaleOf(c)] # "cart"
                                    /\ Posting(SaleOf(c)) => c = post[SaleOf(c)]
    /\ \A s \in Sales : stage[s] = "cart" => PlainOrders(s) = 0

PostedOnce == Truth /\ PostsOnce /\ CartsFresh

\* A request that is served or closed keeps its sale, its key, and the order it
\* has delivered.
PostsMove ==
    \A b \in Calls :
       Plain(b)' => /\ Plain(b) /\ SaleOf(b)' = SaleOf(b)
                    /\ Delivered(b) => Delivered(b)'

LEMMA ServicePostsMove ==
    ASSUME IntakeTypeOK, NEW c \in Calls,
           Vanish(c) \/ TurnAway(c) \/ Serve(c) \/ Close(c)
    PROVE  PostsMove
  <1>1. call \in [Calls -> Call] /\ call[c] \in Call
    BY DEF IntakeTypeOK
  <1>2. \A b \in Calls : Plain(b)' => Plain(b) /\ SaleOf(b)' = SaleOf(b)
    BY ServiceKeepsLinks DEF KeepsLinks, Plain, At, SaleOf
  <1>3. \A b \in Calls \ {c} : Delivered(b) => Delivered(b)'
    <2>1. \A b \in Calls \ {c} : call'[b] = call[b]
      BY <1>1 DEF Vanish, TurnAway, Serve, Close, TakeClaim, MissClaim, Replay,
         Busy, Unkeyed, StoreClosed, Proceed, CommitOrder, Reject, CommitUnknown,
         Stamp, Release, GoTo, Answer, Throw
    <2>2. QED
      BY <2>1 DEF Delivered, At
  <1>4. ASSUME Delivered(c), ~At(c, "idle")'
        PROVE  Delivered(c)'
    <2>1. Stamp(c) \/ Close(c)
      BY <1>4 DEF Delivered, At, Vanish, TurnAway, Serve, TakeClaim, MissClaim,
         Replay, Busy, Unkeyed, StoreClosed, Proceed, CommitOrder, Reject,
         CommitUnknown, Stamp, Release
    <2>2. Stamp(c)
      BY <1>1, <1>4, <2>1 DEF Close, NoCall, At
    <2>3. QED
      BY <1>1, <2>2 DEF Stamp, Answer, Delivered, At
  <1>5. QED
    BY <1>2, <1>3, <1>4 DEF PostsMove, Plain

\* Without a lost acknowledgement, the only step that makes an order is the
\* commit of a request that has not delivered one.
LEMMA ServiceMakes ==
    ASSUME IntakeTypeOK, NEW c \in Calls, "lostAck" \notin Faults,
           Vanish(c) \/ TurnAway(c) \/ Serve(c) \/ Close(c), made' # made
    PROVE  /\ At(c, "tx") /\ SaleOf(c) \in Sales /\ OneMore(c)
           /\ At(c, "stamp")'
  <1>1. CommitOrder(c)
    BY DEF Vanish, TurnAway, Serve, Close, TakeClaim, MissClaim, Replay,
       Busy, Unkeyed, StoreClosed, Proceed, CommitUnknown, Reject, Stamp, Release
  <1>2. call \in [Calls -> Call] /\ call[c] \in Call
    BY DEF IntakeTypeOK
  <1>3. QED
    BY <1>1, <1>2 DEF CommitOrder, GoTo, At, SaleOf, IntakeTypeOK

\* How the commit counts.
LEMMA PlainCount ==
    ASSUME IntakeTypeOK, NEW c \in Calls, SaleOf(c) \in Sales, OneMore(c),
           NEW s \in Sales
    PROVE  /\ PlainOrders(s) \in Nat
           /\ s = SaleOf(c) /\ call[c].keyed = FALSE =>
                 PlainOrders(s)' = PlainOrders(s) + 1
           /\ s # SaleOf(c) \/ call[c].keyed = TRUE =>
                 PlainOrders(s)' = PlainOrders(s)
  <1>1. made \in [Sales -> [BOOLEAN -> Nat]]
    BY DEF IntakeTypeOK
  <1>2. PlainOrders(s) = made[s][FALSE] /\ PlainOrders(s)' = made'[s][FALSE]
    BY Zenon DEF PlainOrders
  <1>3. made[s] \in [BOOLEAN -> Nat] /\ made[s][FALSE] \in Nat
    BY <1>1
  <1>4. CASE s = SaleOf(c) /\ call[c].keyed = FALSE
    <2>1. made' = [made EXCEPT ![s] = [made[s] EXCEPT ![FALSE] = made[s][FALSE] + 1]]
      BY <1>1, <1>4 DEF OneMore
    <2>2. made'[s][FALSE] = made[s][FALSE] + 1
      BY <1>1, <1>3, <2>1
    <2>3. QED
      BY <1>2, <1>3, <1>4, <2>2, Zenon
  <1>5. CASE s = SaleOf(c) /\ call[c].keyed = TRUE
    <2>1. made' = [made EXCEPT ![s] = [made[s] EXCEPT ![TRUE] = made[s][TRUE] + 1]]
      BY <1>1, <1>5 DEF OneMore
    <2>2. made'[s][FALSE] = made[s][FALSE]
      BY <1>1, <1>3, <2>1
    <2>3. QED
      BY <1>2, <1>3, <1>5, <2>2, Zenon
  <1>6. CASE s # SaleOf(c)
    <2>1. made'[s] = made[s]
      BY <1>1, <1>6 DEF OneMore
    <2>2. QED
      BY <1>2, <1>3, <1>6, <2>1, Zenon
  <1>7. CASE call[c].keyed \notin BOOLEAN
    <2>1. call[c].keyed \in BOOLEAN
      BY DEF IntakeTypeOK, Call
    <2>2. QED
      BY <1>7, <2>1
  <1>8. QED
    BY <1>4, <1>5, <1>6, <1>7

\* A step that makes no order, and moves the requests that are left.
LEMMA PostsOnceQuiet ==
    ASSUME PostsOnce, PostsMove, UNCHANGED made
    PROVE  PostsOnce'
  <1>1. \A s \in Sales : PlainOrders(s)' = PlainOrders(s)
    BY DEF PlainOrders
  <1>2. \A c \in Calls : PlainOrders(SaleOf(c)) = made[SaleOf(c)][FALSE]
    BY DEF PlainOrders
  <1>3. \A c \in Calls : SaleOf(c)' = SaleOf(c) =>
                            PlainOrders(SaleOf(c))' = PlainOrders(SaleOf(c))
    BY DEF PlainOrders
  <1>4. QED
    BY <1>1, <1>3 DEF PostsOnce, PostsMove

LEMMA ServicePostsOnce ==
    ASSUME IntakeTypeOK, PostsOnce, NEW c \in Calls, "lostAck" \notin Faults,
           Vanish(c) \/ TurnAway(c) \/ Serve(c) \/ Close(c)
    PROVE  PostsOnce'
  <1>1. PostsMove
    BY ServicePostsMove
  <1>2. CASE made' = made
    BY <1>1, <1>2, PostsOnceQuiet
  <1>3. CASE made' # made
    <2>1. At(c, "tx") /\ SaleOf(c) \in Sales /\ OneMore(c) /\ At(c, "stamp")'
      BY <1>3, ServiceMakes
    <2>2. ~At(c, "idle") /\ ~Delivered(c) /\ Delivered(c)' /\ call[c].keyed \in BOOLEAN
      BY <2>1 DEF At, Delivered, IntakeTypeOK, Call
    <2>3. \A b \in Calls : Plain(b)' => SaleOf(b) \in Sales /\ SaleOf(b)' = SaleOf(b)
      BY <1>1 DEF PostsMove, Plain, At, SaleOf, IntakeTypeOK
    <2>4. ASSUME NEW b \in Calls, Plain(b)', ~Delivered(b)'
          PROVE  PlainOrders(SaleOf(b))' = 0
      <3>1. Plain(b) /\ ~Delivered(b) /\ b # c
        BY <1>1, <2>2, <2>4 DEF PostsMove
      <3>2. PlainOrders(SaleOf(b)) = 0
        BY <3>1 DEF PostsOnce
      <3>3. SaleOf(b) # SaleOf(c) \/ call[c].keyed = TRUE
        BY <2>2, <3>1 DEF PostsOnce, Plain
      <3>4. ASSUME NEW s \in Sales, s # SaleOf(c) \/ call[c].keyed = TRUE
            PROVE  PlainOrders(s)' = PlainOrders(s)
        BY <2>1, <3>4, PlainCount
      <3>5. SaleOf(b) \in Sales /\ SaleOf(b)' = SaleOf(b)
        BY <2>3, <2>4
      <3>6. PICK s \in Sales : s = SaleOf(b)
        BY <3>5
      <3>7. PlainOrders(s)' = PlainOrders(s)
        BY <3>3, <3>4, <3>6
      <3>8. PlainOrders(SaleOf(b))' = PlainOrders(s)'
        BY <3>5, <3>6 DEF PlainOrders
      <3>9. QED
        BY <3>2, <3>6, <3>7, <3>8
    <2>5. ASSUME NEW s \in Sales
          PROVE  PlainOrders(s)' <= 1
      <3>1. PlainOrders(s) \in Nat /\ PlainOrders(s) <= 1
        BY <2>1, PlainCount DEF PostsOnce
      <3>2. CASE s = SaleOf(c) /\ call[c].keyed = FALSE
        <4>1. PlainOrders(s) = 0
          BY <2>2, <3>2 DEF PostsOnce, Plain
        <4>2. PlainOrders(s)' = PlainOrders(s) + 1
          BY <2>1, <3>2, PlainCount
        <4>3. QED
          BY <4>1, <4>2
      <3>3. CASE s # SaleOf(c) \/ call[c].keyed = TRUE
        <4>1. PlainOrders(s)' = PlainOrders(s)
          BY <2>1, <3>3, PlainCount
        <4>2. QED
          BY <3>1, <4>1
      <3>4. QED
        BY <2>2, <3>2, <3>3
    <2>6. \A a, b \in Calls : Plain(a)' /\ Plain(b)' /\ SaleOf(a)' = SaleOf(b)' => a = b
      BY <1>1 DEF PostsMove, PostsOnce
    <2>7. QED
      BY <2>4, <2>5, <2>6 DEF PostsOnce
  <1>4. QED
    BY <1>2, <1>3

LEMMA ServiceCartsFresh ==
    ASSUME IntakeTypeOK, PostsOnce, CartsFresh, NEW c \in Calls, "lostAck" \notin Faults,
           Vanish(c) \/ TurnAway(c) \/ Serve(c) \/ Close(c), UNCHANGED <<stage, post>>
    PROVE  CartsFresh'
  <1>1. PostsMove
    BY ServicePostsMove
  <1>2. \A b \in Calls : Plain(b)' => /\ stage'[SaleOf(b)'] # "cart"
                                      /\ stage'[SaleOf(b)'] = "posting" => b = post'[SaleOf(b)']
    BY <1>1 DEF PostsMove, CartsFresh, Posting
  <1>3. ASSUME NEW s \in Sales, stage[s] = "cart"
        PROVE  PlainOrders(s)' = 0
    <2>1. PlainOrders(s) = 0
      BY <1>3 DEF CartsFresh
    <2>2. CASE made' = made
      BY <2>1, <2>2 DEF PlainOrders
    <2>3. CASE made' # made
      <3>1. At(c, "tx") /\ SaleOf(c) \in Sales /\ OneMore(c)
        BY <2>3, ServiceMakes
      <3>2. ~At(c, "idle") /\ call[c].keyed \in BOOLEAN
        BY <3>1 DEF At, IntakeTypeOK, Call
      <3>3. s # SaleOf(c) \/ call[c].keyed = TRUE
        BY <1>3, <3>2 DEF CartsFresh, Plain
      <3>4. PlainOrders(s)' = PlainOrders(s)
        BY <3>1, <3>3, PlainCount
      <3>5. QED
        BY <2>1, <3>4
    <2>4. QED
      BY <2>2, <2>3
  <1>4. QED
    BY <1>2, <1>3 DEF CartsFresh, Posting

LEMMA PostedOnceSteps ==
    ASSUME PostedOnce, "lostAck" \notin Faults, [Next]_vars
    PROVE  PostsOnce' /\ CartsFresh'
  <1>1. TypeOK /\ IntakeTypeOK /\ Station /\ PostsOnce /\ CartsFresh
    BY DEF PostedOnce, Truth, Station, TypeOK
  <1>2. ASSUME NEW c \in Calls, Backend(c)
        PROVE  PostsOnce' /\ CartsFresh'
    BY <1>1, <1>2, ServicePostsOnce, ServiceCartsFresh DEF Backend, stationVars
  \* Requests are left alone or killed, and no sale turns back into a cart.
  <1>3. ASSUME UNCHANGED made,
               \A b \in Calls : Plain(b)' =>
                  call'[b] = call[b] \/ (call[b].pc = "idle" /\ call'[b].keyed),
               \A s \in Sales : /\ stage'[s] = "cart" => stage[s] = "cart"
                                /\ stage'[s] = "posting" => stage[s] = "posting" /\ post'[s] = post[s]
        PROVE  PostsOnce' /\ CartsFresh'
    <2>1. \A b \in Calls : Plain(b)' => Plain(b) /\ call'[b] = call[b]
      BY <1>3 DEF Plain, At
    <2>2. PostsMove
      BY <2>1 DEF PostsMove, SaleOf, Delivered, At
    <2>3. PostsOnce'
      BY <1>1, <1>3, <2>2, PostsOnceQuiet
    <2>4. \A b \in Calls : Plain(b)' => SaleOf(b)' = SaleOf(b) /\ SaleOf(b) \in Sales
      BY <1>1, <2>1 DEF SaleOf, Plain, At, IntakeTypeOK
    <2>5. CartsFresh'
      <3>1. ASSUME NEW b \in Calls, Plain(b)'
            PROVE  /\ stage'[SaleOf(b)'] # "cart"
                   /\ stage'[SaleOf(b)'] = "posting" => b = post'[SaleOf(b)']
        <4>1. PICK s \in Sales : s = SaleOf(b) /\ s = SaleOf(b)'
          BY <2>4, <3>1
        <4>2. stage[s] # "cart" /\ (stage[s] = "posting" => b = post[s])
          BY <1>1, <2>1, <3>1, <4>1 DEF CartsFresh, Posting
        <4>3. QED
          BY <1>3, <4>1, <4>2
      <3>2. \A s \in Sales : stage'[s] = "cart" => PlainOrders(s)' = 0
        BY <1>1, <1>3 DEF CartsFresh, PlainOrders
      <3>3. QED
        BY <3>1, <3>2 DEF CartsFresh, Posting
    <2>6. QED
      BY <2>3, <2>5
  <1>4. ASSUME NEW s \in Sales, NEW c \in Calls, Submit(s, c)
        PROVE  PostsOnce' /\ CartsFresh'
    <2>1. /\ stage[s] = "cart" /\ Send(c, s, FALSE, FALSE)
          /\ post' = [post EXCEPT ![s] = c] /\ stage' = [stage EXCEPT ![s] = "posting"]
          /\ UNCHANGED made /\ At(c, "idle")
      BY <1>4 DEF Submit, Send
    <2>2. /\ \A b \in Calls \ {c} : call'[b] = call[b]
          /\ SaleOf(c)' = s /\ call'[c].keyed = FALSE
      BY <1>1, <2>1, SendKeepsOthers
    <2>3. \A b \in Calls \ {c} : Plain(b)' =>
             /\ Plain(b) /\ SaleOf(b)' = SaleOf(b) /\ SaleOf(b) # s /\ SaleOf(b) \in Sales
             /\ Delivered(b) => Delivered(b)'
      BY <1>1, <2>1, <2>2 DEF Plain, At, SaleOf, Delivered, CartsFresh, IntakeTypeOK
    <2>4. \A t \in Sales : PlainOrders(t)' = PlainOrders(t)
      BY <2>1 DEF PlainOrders
    <2>5. PlainOrders(s) = 0
      BY <1>1, <2>1 DEF CartsFresh
    <2>6. \A b \in Calls : Plain(b)' /\ ~Delivered(b)' => PlainOrders(SaleOf(b))' = 0
      <3>1. ASSUME NEW b \in Calls \ {c}, Plain(b)', ~Delivered(b)'
            PROVE  made'[SaleOf(b)'][FALSE] = 0
        BY <1>1, <2>1, <2>3, <3>1 DEF PostsOnce, PlainOrders
      <3>2. made'[SaleOf(c)'][FALSE] = 0
        BY <2>1, <2>2, <2>5 DEF PlainOrders
      <3>3. QED
        BY <3>1, <3>2 DEF PlainOrders
    <2>7. PostsOnce'
      <3>1. \A a, b \in Calls : Plain(a)' /\ Plain(b)' /\ SaleOf(a)' = SaleOf(b)' => a = b
        BY <1>1, <2>2, <2>3 DEF PostsOnce
      <3>2. \A t \in Sales : PlainOrders(t)' <= 1
        BY <1>1, <2>4 DEF PostsOnce
      <3>3. QED
        BY <2>6, <3>1, <3>2 DEF PostsOnce
    <2>8. \A t \in Sales \ {s} : stage'[t] = stage[t] /\ post'[t] = post[t]
      BY <1>1, <2>1 DEF TypeOK
    <2>9. stage'[s] = "posting" /\ post'[s] = c
      BY <1>1, <2>1 DEF TypeOK
    <2>10. CartsFresh'
      <3>1. \A b \in Calls : Plain(b)' => /\ stage'[SaleOf(b)'] # "cart"
                                          /\ stage'[SaleOf(b)'] = "posting" => b = post'[SaleOf(b)']
        BY <1>1, <2>1, <2>2, <2>3, <2>8, <2>9 DEF CartsFresh, Posting
      <3>2. \A t \in Sales : stage'[t] = "cart" => PlainOrders(t)' = 0
        BY <1>1, <2>4, <2>8, <2>9 DEF CartsFresh
      <3>3. QED
        BY <3>1, <3>2 DEF CartsFresh, Posting
    <2>11. QED
      BY <2>7, <2>10
  <1>5. ASSUME NEW s \in Sales, PostSaved(s) \/ PostRefused(s)
        PROVE  PostsOnce' /\ CartsFresh'
    <2>0. PICK c \in Calls : c = post[s]
      BY <1>1, <1>5 DEF PostSaved, PostRefused, Returns, Station, PostLinked
    <2>1. /\ Posting(s) /\ At(c, "answered") /\ Close(c)
          /\ \E st \in {"saved", "cart"} :
                /\ stage' = [stage EXCEPT ![s] = st]
                /\ st = "cart" => call[c].res # "ok"
          /\ post' = [post EXCEPT ![s] = NoCallId]
      BY <1>5, <2>0 DEF PostSaved, PostRefused, Returns, Hears
    <2>2. /\ SaleOf(c) = s /\ Plain(c) /\ UNCHANGED made
          /\ call[c].pc = "answered"
      BY <1>1, <2>0, <2>1 DEF Station, PostLinked, At, Plain, Close
    <2>3. PostsOnce'
      BY <1>1, <2>1, <2>2, PostsOnceQuiet, ServicePostsMove
    <2>4. \A b \in Calls : Plain(b)' =>
             /\ Plain(b) /\ SaleOf(b)' = SaleOf(b) /\ SaleOf(b) \in Sales /\ SaleOf(b) # s
      <3>1. PostsMove
        BY <1>1, <2>1, <2>2, ServicePostsMove
      <3>2. \A b \in Calls : Plain(b)' => b # c
        BY <1>1, <2>1, <2>2 DEF Close, NoCall, Plain, At, IntakeTypeOK
      <3>3. QED
        BY <1>1, <2>2, <3>1, <3>2 DEF PostsMove, PostsOnce, Plain, At, SaleOf, IntakeTypeOK
    <2>5. \A t \in Sales \ {s} : stage'[t] = stage[t] /\ post'[t] = post[t]
      BY <1>1, <2>1 DEF TypeOK
    <2>6. stage'[s] = "cart" => PlainOrders(s)' = 0
      <3>1. ASSUME stage'[s] = "cart"
            PROVE  ~Delivered(c)
        BY <1>1, <2>1, <2>2, <3>1 DEF TypeOK, Delivered, At
      <3>2. ~Delivered(c) => PlainOrders(s) = 0
        BY <1>1, <2>2 DEF PostsOnce
      <3>3. PlainOrders(s)' = PlainOrders(s)
        BY <2>2 DEF PlainOrders
      <3>4. QED
        BY <3>1, <3>2, <3>3
    <2>7. CartsFresh'
      <3>1. \A b \in Calls : Plain(b)' => /\ stage'[SaleOf(b)'] # "cart"
                                          /\ stage'[SaleOf(b)'] = "posting" => b = post'[SaleOf(b)']
        BY <1>1, <2>4, <2>5 DEF CartsFresh, Posting
      <3>2. \A t \in Sales \ {s} : stage'[t] = "cart" => PlainOrders(t)' = 0
        BY <1>1, <2>2, <2>5 DEF CartsFresh, PlainOrders
      <3>3. QED
        BY <2>6, <3>1, <3>2 DEF CartsFresh, Posting
    <2>8. QED
      BY <2>3, <2>7
  <1>6. ASSUME NEW s \in Sales, PostUnanswered(s)
        PROVE  PostsOnce' /\ CartsFresh'
    <2>1. /\ Posting(s) /\ stage' = [stage EXCEPT ![s] = "queued"]
          /\ post' = [post EXCEPT ![s] = NoCallId]
          /\ UNCHANGED <<call, made>>
      BY <1>6 DEF PostUnanswered, Returns, Enqueue, intakeVars
    <2>2. \A t \in Sales :
             /\ stage'[t] = "cart" => stage[t] = "cart"
             /\ stage'[t] = "posting" => stage[t] = "posting" /\ post'[t] = post[t]
      BY <1>1, <2>1 DEF TypeOK
    <2>3. QED
      BY <1>3, <2>1, <2>2
  <1>7. CASE Outcome
    <2>1. /\ UNCHANGED <<stage, post>> /\ sync.call \in Calls
          /\ UNCHANGED intakeVars \/ Close(sync.call)
      BY <1>1, <1>7 DEF Outcome, HearAuth, HearOk, HearRefused, HearFailed,
         HearNothing, Heard, TypeOK
    <2>2. CASE UNCHANGED intakeVars
      BY <1>3, <2>1, <2>2 DEF intakeVars
    <2>3. CASE Close(sync.call)
      BY <1>1, <2>1, <2>3, ServicePostsOnce, ServiceCartsFresh
    <2>4. QED
      BY <2>1, <2>2, <2>3
  <1>8. ASSUME NEW s \in Sales, NEW c \in Calls, SendOldest(s, c)
        PROVE  PostsOnce' /\ CartsFresh'
    <2>1. /\ Send(c, s, TRUE, FALSE) /\ At(c, "idle") /\ UNCHANGED <<made, stage, post>>
      BY <1>8 DEF SendOldest, Send
    <2>2. /\ \A b \in Calls \ {c} : call'[b] = call[b]
          /\ call'[c].keyed = TRUE
      BY <1>1, <2>1, SendKeepsOthers
    <2>3. QED
      BY <1>3, <2>1, <2>2 DEF At
  <1>9. CASE BackendCrash
    <2>1. UNCHANGED <<made, stage, post>> /\ \A b \in Calls : ~Plain(b)'
      BY <1>9 DEF BackendCrash, Crash, stationVars, NoCall, Plain, At
    <2>2. QED
      BY <1>3, <2>1
  <1>10. CASE Restart
    BY <1>1, <1>3, <1>10 DEF Restart, intakeVars, Posting, TypeOK
  <1>11. CASE \/ AskFlush \/ FlushAsked \/ Tick \/ StopPass \/ UNCHANGED vars
              \/ \E s \in Sales : Elapse(s) \/ Discard(s)
    <2>1. UNCHANGED <<call, made, stage, post>>
      BY <1>11 DEF AskFlush, FlushAsked, Tick, StopPass, vars, intakeVars,
         stationVars, Elapse, Discard
    <2>2. QED
      BY <1>3, <2>1
  <1>12. QED
    BY <1>2, <1>4, <1>5, <1>6, <1>7, <1>8, <1>9, <1>10, <1>11 DEF Next, Page, Pass

LEMMA PostedOnceInit == Init => PostedOnce
  <1> SUFFICES ASSUME Init
               PROVE  PostedOnce
    OBVIOUS
  <1>1. Truth
    BY TruthInit
  <1>2. \A c \in Calls : ~Plain(c)
    BY DEF Init, IntakeInit, NoCall, Plain, At
  <1>3. \A s \in Sales : PlainOrders(s) = 0
    BY DEF Init, IntakeInit, PlainOrders
  <1>4. QED
    BY <1>1, <1>2, <1>3 DEF PostedOnce, PostsOnce, CartsFresh

\* As long as no COMMIT is reported lost, a sale whose post was refused has not
\* been sold by it, and its post, repeated after refusals, and its queued
\* operation, repeated with its key, create at most one order each.  What can
\* sell a cart twice is the two together, or a second press of the key.
THEOREM EachPathSellsOnce ==
    ASSUME "lostAck" \notin Faults
    PROVE  Spec => []OncePerPath
  <1>1. PostedOnce => OncePerPath
    <2>1. ASSUME PostedOnce, NEW s \in Sales, NEW b \in BOOLEAN
          PROVE  made[s][b] <= 1
      <3>1. made[s][TRUE] <= 1 /\ made[s][FALSE] <= 1
        BY <2>1 DEF PostedOnce, PostsOnce, PlainOrders, Truth, Once, AtMostOnce,
           OrdersUnder
      <3>2. QED
        BY <3>1
    <2>2. QED
      BY <2>1 DEF OncePerPath, PostedOnce, CartsFresh, PlainOrders
  <1>2. PostedOnce /\ [Next]_vars => PostedOnce'
    <2>1. ASSUME PostedOnce, [Next]_vars
          PROVE  PostedOnce'
      BY <2>1, TruthNext, PostedOnceSteps DEF PostedOnce
    <2>2. QED
      BY <2>1
  <1>3. QED
    BY PostedOnceInit, <1>1, <1>2, PTL DEF Spec
=============================================================================
