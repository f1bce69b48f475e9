----------------------------- MODULE StockProofs -----------------------------
(***************************************************************************)
(* The stock ledger for any number of items, jobs and requests: movements  *)
(* account for quantities, and stock stays at or above zero, wherever no   *)
(* request wrote from an outdated read.                                    *)
(***************************************************************************)
EXTENDS Stock, TLAPS

-----------------------------------------------------------------------------
(* Types *)

Phases == {"idle", "put", "check", "draw", "make", "cost", "price", "add", "line", "apply", "fix",
           "cancel", "end"}
Operations == {"none", "adjust", "set", "compose", "sell", "receive", "count", "commit", "cancel"}

Locals == [pc : Phases, op : Operations, item : Items \cup {Done.item}, n : Nat, price : Int, read : Int,
           todo : SUBSET Items, lines : [Items -> Int], moved : SUBSET Items]
Writes == [to : Int, move : Int, late : BOOLEAN, by : {"none", "put", "draw", "add"}]

StockTyped ==
    /\ qty \in [Items -> Int] /\ cost \in [Items -> Int] /\ gap \in [Items -> Int]
    /\ take.counted \in [Items -> Int]
    /\ take \in [st : {"none", "open", "cancelled", "committed"}, counted : [Items -> Int], applied : BOOLEAN]
    /\ job \in [Jobs -> Locals]
    /\ pend \in [Jobs -> [Items -> Writes]]

-----------------------------------------------------------------------------
(* The inductive invariant of the ledger *)

\* Requests in these phases have written nothing.
Clean == {"idle", "put", "check", "cost", "price", "add", "line", "cancel"}

\* Where request j is, and what it has written.
Phase(j) ==
    LET r == job[j] IN
    /\ r.pc \in Clean => \A i \in Items : ~Wrote(j, i)
    /\ r.pc \in {"put", "check", "draw", "make", "cost", "price", "add", "line", "fix"} => r.item \in Items
    /\ r.pc \in {"put", "fix"} => r.item \in r.moved \/ r.read = qty[r.item]
    /\ r.pc \in {"draw", "make"} => \A i \in Items : pend[j][i].by \in {"none", "draw"}
    /\ r.pc \in {"apply", "fix"} =>
          \A i \in Items : Wrote(j, i) => pend[j][i].by = "put" /\ i \notin r.todo
    /\ r.pc = "fix" => ~Wrote(j, r.item) /\ r.item \notin r.todo

\* A written row is locked, and its movement is what it changes by, unless a
\* correction or a take overwrote what another request had changed.
Rows ==
    \A j \in Jobs, i \in Items :
        IF Wrote(j, i)
        THEN /\ Free(j, i)
             /\ (pend[j][i].by = "put" /\ pend[j][i].late) \/ pend[j][i].to = qty[i] + pend[j][i].move
        ELSE pend[j][i] = NoWrite

LedgerIInv == StockTyped /\ (\A j \in Jobs : Phase(j)) /\ Rows /\ LedgerExact

LEMMA DoneTyped ==
  /\ Done \in Locals /\ Done.pc = "idle" /\ Done.moved = {} /\ Done.todo = {}
  /\ NoWrite \in Writes /\ NoWrite.by = "none" /\ NoWrite.move = 0 /\ ~NoWrite.late
  BY DEF Done, Locals, Phases, Operations, Uncounted, NoWrite, Writes

LEMMA LedgerStart == StockInit => LedgerIInv
<1> SUFFICES ASSUME StockInit
             PROVE  LedgerIInv
  OBVIOUS
<1>1. StockTyped
  BY DoneTyped, StockAssumption DEF StockInit, StockTyped, Uncounted
<1>2. \A j \in Jobs : Phase(j)
  BY DoneTyped DEF StockInit, Phase, Wrote, Clean
<1>3. Rows /\ LedgerExact
  BY DoneTyped DEF StockInit, Rows, Wrote, LedgerExact
<1> QED
  BY <1>1, <1>2, <1>3 DEF LedgerIInv

\* A step of request j that writes nothing.
LEMMA LocalStep ==
  ASSUME LedgerIInv, NEW j \in Jobs, NEW q \in Locals, job' = [job EXCEPT ![j] = q],
         StockTyped', UNCHANGED <<qty, gap, overwritten, pend>>, Phase(j)'
  PROVE  LedgerIInv'
<1>1. \A k \in Jobs : k # j => job'[k] = job[k]
  BY DEF LedgerIInv, StockTyped
<1>2. \A k \in Jobs : Phase(k)'
  BY <1>1 DEF LedgerIInv, Phase, Wrote
<1> QED
  BY <1>2 DEF LedgerIInv, Rows, LedgerExact, Wrote, Free

\* Request j writes row i.
LEMMA WriteStep ==
  ASSUME LedgerIInv, NEW j \in Jobs, NEW i \in Items, NEW to \in Int, NEW move \in Int,
         NEW by \in {"put", "draw", "add"}, NEW next \in Locals, Write(j, i, to, move, by, next),
         (by = "put" /\ i \in job[j].moved) \/ to = qty[i] + pend[j][i].move + move,
         Phase(j)'
  PROVE  LedgerIInv'
<1> DEFINE w == [to |-> to, move |-> pend[j][i].move + move,
                 late |-> (pend[j][i].late \/ i \in job[j].moved), by |-> by]
           mine == [pend[j] EXCEPT ![i] = w]
<1>1. /\ Free(j, i) /\ pend' = [pend EXCEPT ![j] = mine] /\ job' = [job EXCEPT ![j] = next]
      /\ UNCHANGED <<ledgerVars, requests, take, crossed>>
  BY DEF Write
<1>2. w \in Writes /\ w.to = to /\ w.move = pend[j][i].move + move /\ w.by = by
      /\ (i \in job[j].moved => w.late)
  <2>1. pend[j][i] \in Writes
    BY DEF LedgerIInv, StockTyped
  <2>2. pend[j][i].move + move \in Int
    BY <2>1 DEF Writes
  <2>3. (pend[j][i].late \/ i \in job[j].moved) \in BOOLEAN
    OBVIOUS
  <2> QED
    BY <2>2, <2>3 DEF Writes
<1> HIDE DEF w
<1>3. mine \in [Items -> Writes] /\ mine[i] = w /\ \A l \in Items : l # i => mine[l] = pend[j][l]
  BY <1>2 DEF LedgerIInv, StockTyped
<1> HIDE DEF mine
<1>4. /\ \A k \in Jobs : k # j => pend'[k] = pend[k] /\ job'[k] = job[k]
      /\ pend'[j] = mine
  BY <1>1 DEF LedgerIInv, StockTyped
<1>5. StockTyped'
  BY <1>1, <1>3 DEF LedgerIInv, StockTyped, ledgerVars
<1>6. \A k \in Jobs : Phase(k)'
  BY <1>1, <1>4 DEF LedgerIInv, Phase, Wrote, ledgerVars
<1>7. Rows'
  <2>1. SUFFICES ASSUME NEW k \in Jobs, NEW l \in Items
                 PROVE  IF Wrote(k, l)'
                        THEN /\ Free(k, l)'
                             /\ \/ pend'[k][l].by = "put" /\ pend'[k][l].late
                                \/ pend'[k][l].to = qty'[l] + pend'[k][l].move
                        ELSE pend'[k][l] = NoWrite
    BY DEF Rows
  <2>2. \A x \in Jobs, y \in Items : ~(x = j /\ y = i) => pend'[x][y] = pend[x][y]
    BY <1>3, <1>4
  <2>3. CASE k = j /\ l = i
    <3>1. pend'[k][l] = w /\ Wrote(k, l)'
      BY <1>2, <1>3, <1>4, <2>3 DEF Wrote
    <3>2. Free(k, l)'
      BY <1>1, <2>2, <2>3 DEF Free, Wrote
    <3> QED
      BY <1>1, <1>2, <2>3, <3>1, <3>2 DEF ledgerVars, LedgerIInv, StockTyped, Writes
  <2>4. CASE ~(k = j /\ l = i)
    <3>1. pend'[k][l] = pend[k][l]
      BY <2>2, <2>4
    <3>2. Wrote(k, l)' => Free(k, l)'
      BY <1>1, <2>2, <2>4, <3>1 DEF LedgerIInv, Rows, Free, Wrote
    <3> QED
      BY <1>1, <3>1, <3>2 DEF LedgerIInv, Rows, Wrote, ledgerVars
  <2> QED
    BY <2>3, <2>4
<1>8. LedgerExact'
  BY <1>1 DEF ledgerVars, LedgerIInv, LedgerExact
<1> QED
  BY <1>5, <1>6, <1>7, <1>8 DEF LedgerIInv

\* A request j begins, having read what it goes on.
LEMMA BeginStep ==
  ASSUME LedgerIInv, NEW j \in Jobs, NEW q \in Locals, Begin(j, q),
         q.pc \in Clean \cup {"apply"}, q.pc = "put" => q.read = qty[q.item],
         q.pc \in {"put", "check", "cost", "price", "add", "line"} => q.item \in Items,
         UNCHANGED <<ledgerVars, pend, take>>
  PROVE  LedgerIInv'
<1>1. job[j].pc = "idle" /\ job' = [job EXCEPT ![j] = q] /\ job'[j] = q
  BY DEF Begin, LedgerIInv, StockTyped
<1>2. \A i \in Items : ~Wrote(j, i)
  BY <1>1 DEF LedgerIInv, Phase, Clean
<1>3. StockTyped'
  BY <1>1 DEF LedgerIInv, StockTyped, ledgerVars
<1>4. UNCHANGED <<qty, gap, overwritten, pend>>
  BY DEF ledgerVars
<1>5. Phase(j)'
  <2>1. \A i \in Items : ~Wrote(j, i)'
    BY <1>2, <1>4 DEF Wrote
  <2>2. q.pc \notin {"draw", "make", "fix"}
    BY DEF Clean
  <2> QED
    BY <1>1, <1>4, <2>1, <2>2 DEF Phase, Wrote
<1> QED
  BY <1>1, <1>3, <1>4, <1>5, LocalStep

-----------------------------------------------------------------------------
(* One lemma per action *)

LEMMA CorrectStep ==
  ASSUME LedgerIInv, StockAssumption, NEW j \in Jobs, NEW op \in {"adjust", "set"},
         NEW i \in Items, NEW n \in Amounts, Correct(j, op, i, n)
  PROVE  LedgerIInv'
<1> DEFINE q == [Done EXCEPT !.pc = "put", !.op = op, !.item = i, !.n = n, !.read = qty[i]]
<1>1. q \in Locals /\ q.pc = "put" /\ q.read = qty[i] /\ q.item = i
  BY DoneTyped DEF Locals, Phases, Operations, StockAssumption, LedgerIInv, StockTyped
<1>2. Begin(j, q) /\ UNCHANGED <<ledgerVars, pend, take>>
  BY DEF Correct
<1> HIDE DEF q
<1> QED
  BY <1>1, <1>2, BeginStep DEF Clean

LEMMA GatherStep ==
  ASSUME LedgerIInv, StockAssumption, NEW j \in Jobs, NEW op \in {"compose", "sell"},
         NEW i \in Items, Gather(j, op, i)
  PROVE  LedgerIInv'
<1> DEFINE q == [Done EXCEPT !.pc = "check", !.op = op, !.item = i, !.todo = Needs(i)]
<1>1. Needs(i) \subseteq Items
  BY DEF Needs, StockAssumption
<1>2. q \in Locals /\ q.pc = "check" /\ q.item = i
  BY <1>1, DoneTyped DEF Locals, Phases, Operations
<1>3. Begin(j, q) /\ UNCHANGED <<ledgerVars, pend, take>>
  BY DEF Gather
<1> HIDE DEF q
<1> QED
  BY <1>2, <1>3, BeginStep DEF Clean

LEMMA ReceiveStep ==
  ASSUME LedgerIInv, StockAssumption, NEW j \in Jobs, NEW i \in Items, NEW n \in Amounts,
         NEW p \in Prices, Receive(j, i, n, p)
  PROVE  LedgerIInv'
<1> DEFINE q == [Done EXCEPT !.pc = "cost", !.op = "receive", !.item = i, !.n = n, !.price = p]
<1> n \in Nat /\ p \in Int
  BY DEF StockAssumption
<1>1. q \in Locals /\ q.pc = "cost" /\ q.item = i
  BY DoneTyped DEF Locals, Phases, Operations, StockAssumption
<1>2. Begin(j, q) /\ UNCHANGED <<ledgerVars, pend, take>>
  BY DEF Receive
<1> HIDE DEF q
<1> QED
  BY <1>1, <1>2, BeginStep DEF Clean

LEMMA CountStep ==
  ASSUME LedgerIInv, StockAssumption, NEW j \in Jobs, NEW i \in Items, NEW n \in Amounts,
         Count(j, i, n)
  PROVE  LedgerIInv'
<1> DEFINE q == [Done EXCEPT !.pc = "line", !.op = "count", !.item = i, !.n = n]
<1>1. q \in Locals /\ q.pc = "line" /\ q.item = i
  BY DoneTyped DEF Locals, Phases, Operations, StockAssumption
<1>2. Begin(j, q) /\ UNCHANGED <<ledgerVars, pend, take>>
  BY DEF Count
<1> HIDE DEF q
<1> QED
  BY <1>1, <1>2, BeginStep DEF Clean

LEMMA CommitTakeStep ==
  ASSUME LedgerIInv, NEW j \in Jobs, CommitTake(j)
  PROVE  LedgerIInv'
<1> DEFINE q == [Done EXCEPT !.pc = "apply", !.op = "commit", !.lines = take.counted,
                             !.todo = Counted(take.counted)]
<1>1. q \in Locals /\ q.pc = "apply"
  BY DoneTyped DEF Locals, Phases, Operations, Counted, LedgerIInv, StockTyped
<1>2. Begin(j, q) /\ UNCHANGED <<ledgerVars, pend, take>>
  BY DEF CommitTake
<1> HIDE DEF q
<1> QED
  BY <1>1, <1>2, BeginStep

LEMMA CancelTakeStep ==
  ASSUME LedgerIInv, NEW j \in Jobs, CancelTake(j)
  PROVE  LedgerIInv'
<1> DEFINE q == [Done EXCEPT !.pc = "cancel", !.op = "cancel"]
<1>1. q \in Locals /\ q.pc = "cancel"
  BY DoneTyped DEF Locals, Phases, Operations
<1>2. Begin(j, q) /\ UNCHANGED <<ledgerVars, pend, take>>
  BY DEF CancelTake
<1> HIDE DEF q
<1> QED
  BY <1>1, <1>2, BeginStep DEF Clean

LEMMA OpenTakeStep ==
  ASSUME LedgerIInv, OpenTake
  PROVE  LedgerIInv'
<1>1. UNCHANGED <<qty, cost, gap, job, pend, overwritten>> /\ take' = [take EXCEPT !.st = "open"]
  BY DEF OpenTake, ledgerVars
<1>2. take' \in [st : {"none", "open", "cancelled", "committed"}, counted : [Items -> Int],
                applied : BOOLEAN]
  BY <1>1 DEF LedgerIInv, StockTyped
<1>3. StockTyped'
  BY <1>1, <1>2 DEF LedgerIInv, StockTyped
<1>4. \A j \in Jobs : Phase(j)'
  BY <1>1 DEF LedgerIInv, Phase, Wrote
<1> QED
  BY <1>1, <1>3, <1>4 DEF LedgerIInv, Rows, LedgerExact, Wrote, Free

\* A count or a cancellation is written in one statement.
LEMMA PutTakeStep ==
  ASSUME LedgerIInv, NEW j \in Jobs, PutCount(j) \/ PutCancel(j)
  PROVE  LedgerIInv'
<1>1. job[j].pc \in {"line", "cancel"} /\ job' = [job EXCEPT ![j] = Done] /\ job'[j] = Done
      /\ UNCHANGED <<ledgerVars, pend>>
  BY DEF PutCount, PutCancel, LedgerIInv, StockTyped
<1>2. \A i \in Items : ~Wrote(j, i)
  BY <1>1 DEF LedgerIInv, Phase, Clean
<1>3. Phase(j)'
  BY <1>1, <1>2, DoneTyped DEF Phase, Wrote, Clean
<1>4. job[j] \in Locals /\ (job[j].pc = "line" => job[j].item \in Items)
  BY <1>1 DEF LedgerIInv, StockTyped, Phase
<1>5. StockTyped'
  <2>1. take' \in [st : {"none", "open", "cancelled", "committed"}, counted : [Items -> Int],
                   applied : BOOLEAN]
    <3>1. CASE PutCancel(j)
      BY <3>1 DEF PutCancel, LedgerIInv, StockTyped
    <3>2. CASE PutCount(j)
      <4> DEFINE c == [take.counted EXCEPT ![job[j].item] = job[j].n]
      <4>1. job[j].item \in Items /\ job[j].n \in Int
        BY <1>4, <3>2 DEF PutCount, Locals
      <4>2. c \in [Items -> Int]
        BY <4>1 DEF LedgerIInv, StockTyped
      <4>3. take' = [take EXCEPT !.counted = c]
        BY <3>2 DEF PutCount
      <4> HIDE DEF c
      <4> QED
        BY <4>2, <4>3 DEF LedgerIInv, StockTyped
    <3> QED
      BY <3>1, <3>2
  <2> QED
    BY <1>1, <2>1, DoneTyped DEF LedgerIInv, StockTyped, ledgerVars
<1> QED
  BY <1>1, <1>3, <1>5, DoneTyped, LocalStep DEF ledgerVars

LEMMA PutStep ==
  ASSUME LedgerIInv, NEW j \in Jobs, Put(j)
  PROVE  LedgerIInv'
<1> DEFINE r == job[j]
           to == IF r.op = "adjust" THEN r.read + r.n ELSE r.n
           q == [r EXCEPT !.pc = "end"]
<1>1. r \in Locals /\ r.pc = "put" /\ Write(j, r.item, to, to - r.read, "put", q)
  BY DEF Put, LedgerIInv, StockTyped
<1>2. /\ r.item \in Items /\ (r.item \in r.moved \/ r.read = qty[r.item])
      /\ ~Wrote(j, r.item)
  BY <1>1 DEF LedgerIInv, Phase, Clean
<1>3. pend[j][r.item] = NoWrite
  BY <1>2 DEF LedgerIInv, Rows
<1>4. to \in Int /\ r.read \in Int /\ q \in Locals /\ q.pc = "end"
  BY <1>1 DEF Locals, Phases
<1>5. r.item \in r.moved \/ to = qty[r.item] + pend[j][r.item].move + (to - r.read)
  BY <1>2, <1>3, <1>4, DoneTyped DEF LedgerIInv, StockTyped
<1> HIDE DEF q, to
<1>6. job'[j] = q
  BY <1>1 DEF Write, LedgerIInv, StockTyped
<1>7. Phase(j)'
  BY <1>4, <1>6 DEF Phase, Clean
<1> QED
  BY <1>1, <1>2, <1>4, <1>5, <1>7, WriteStep

LEMMA AddStep ==
  ASSUME LedgerIInv, NEW j \in Jobs, Add(j)
  PROVE  LedgerIInv'
<1> DEFINE r == job[j]
           q == [r EXCEPT !.pc = "end"]
<1>1. r \in Locals /\ r.pc = "add" /\ Write(j, r.item, Seen(j, r.item) + r.n, r.n, "add", q)
  BY DEF Add, LedgerIInv, StockTyped
<1>2. r.item \in Items /\ ~Wrote(j, r.item)
  BY <1>1 DEF LedgerIInv, Phase, Clean
<1>3. pend[j][r.item] = NoWrite /\ Seen(j, r.item) = qty[r.item] /\ qty[r.item] \in Int
  BY <1>2 DEF LedgerIInv, Rows, Seen, StockTyped
<1>4. r.n \in Int /\ q \in Locals /\ q.pc = "end"
  BY <1>1 DEF Locals, Phases
<1>5. Seen(j, r.item) + r.n = qty[r.item] + pend[j][r.item].move + r.n
      /\ Seen(j, r.item) + r.n \in Int
  BY <1>3, <1>4, DoneTyped
<1> HIDE DEF q
<1>6. job'[j] = q
  BY <1>1 DEF Write, LedgerIInv, StockTyped
<1>7. Phase(j)'
  BY <1>4, <1>6 DEF Phase, Clean
<1> QED
  BY <1>1, <1>2, <1>4, <1>5, <1>7, WriteStep

\* What a request that only drew from a row sees there is its own movement.
LEMMA SeenExact ==
  ASSUME LedgerIInv, NEW j \in Jobs, NEW i \in Items, pend[j][i].by # "put"
  PROVE  /\ Seen(j, i) = qty[i] + pend[j][i].move /\ Seen(j, i) \in Int
         /\ qty[i] \in Int /\ pend[j][i].move \in Int
<1>1. pend[j][i] \in Writes /\ qty[i] \in Int
  BY DEF LedgerIInv, StockTyped
<1>2. CASE Wrote(j, i)
  BY <1>1, <1>2 DEF LedgerIInv, Rows, Seen, Writes
<1>3. CASE ~Wrote(j, i)
  BY <1>1, <1>3, DoneTyped DEF LedgerIInv, Rows, Seen, Writes
<1> QED
  BY <1>2, <1>3

LEMMA DrawStep ==
  ASSUME LedgerIInv, StockAssumption, NEW j \in Jobs, NEW i \in Items, Draw(j, i)
  PROVE  LedgerIInv'
<1> DEFINE r == job[j]
           pc == IF r.op = "compose" THEN "make" ELSE "end"
           q == Next1(r, i, pc)
<1>1. r \in Locals /\ r.pc = "draw" /\ Write(j, i, Seen(j, i) - 1, -1, "draw", q)
  BY DEF Draw, LedgerIInv, StockTyped
<1>2. r.item \in Items /\ \A l \in Items : pend[j][l].by \in {"none", "draw"}
  BY <1>1 DEF LedgerIInv, Phase
<1>3. Seen(j, i) - 1 = qty[i] + pend[j][i].move + (-1) /\ Seen(j, i) - 1 \in Int
  BY <1>2, SeenExact
<1>4. Needs(r.item) \subseteq Items
  BY <1>2 DEF Needs, StockAssumption
<1>5. q \in Locals /\ q.pc \in {"draw", "make", "end"} /\ q.item = r.item
  BY <1>1, <1>4 DEF Next1, Locals, Phases
<1> HIDE DEF q
<1>6. /\ job'[j] = q /\ \A l \in Items : l # i => pend'[j][l] = pend[j][l]
      /\ pend'[j][i].by = "draw"
  BY <1>1 DEF Write, LedgerIInv, StockTyped
<1>7. Phase(j)'
  BY <1>2, <1>5, <1>6 DEF Phase, Clean
<1> QED
  BY <1>1, <1>3, <1>5, <1>7, WriteStep

LEMMA MakeStep ==
  ASSUME LedgerIInv, NEW j \in Jobs, Make(j)
  PROVE  LedgerIInv'
<1> DEFINE r == job[j]
           q == [r EXCEPT !.pc = "end"]
<1>1. r \in Locals /\ r.pc = "make" /\ Write(j, r.item, Seen(j, r.item) + 1, 1, "add", q)
  BY DEF Make, LedgerIInv, StockTyped
<1>2. r.item \in Items /\ pend[j][r.item].by # "put"
  BY <1>1 DEF LedgerIInv, Phase
<1>3. Seen(j, r.item) + 1 = qty[r.item] + pend[j][r.item].move + 1 /\ Seen(j, r.item) + 1 \in Int
  BY <1>2, SeenExact
<1>4. q \in Locals /\ q.pc = "end"
  BY <1>1 DEF Locals, Phases
<1> HIDE DEF q
<1>5. job'[j] = q
  BY <1>1 DEF Write, LedgerIInv, StockTyped
<1>6. Phase(j)'
  BY <1>4, <1>5 DEF Phase, Clean
<1> QED
  BY <1>1, <1>2, <1>3, <1>4, <1>6, WriteStep

LEMMA FixLineStep ==
  ASSUME LedgerIInv, NEW j \in Jobs, FixLine(j)
  PROVE  LedgerIInv'
<1> DEFINE r == job[j]
           to == r.lines[r.item]
           q == [r EXCEPT !.pc = "apply"]
<1>1. r \in Locals /\ r.pc = "fix" /\ Write(j, r.item, to, to - r.read, "put", q)
  BY DEF FixLine, LedgerIInv, StockTyped
<1>2. /\ r.item \in Items /\ (r.item \in r.moved \/ r.read = qty[r.item])
      /\ ~Wrote(j, r.item) /\ r.item \notin r.todo
      /\ \A l \in Items : Wrote(j, l) => pend[j][l].by = "put" /\ l \notin r.todo
  BY <1>1 DEF LedgerIInv, Phase
<1>3. pend[j][r.item] = NoWrite
  BY <1>2 DEF LedgerIInv, Rows
<1>4. /\ to \in Int /\ r.read \in Int
      /\ q \in Locals /\ q.pc = "apply" /\ q.item = r.item /\ q.todo = r.todo
  BY <1>1, <1>2 DEF Locals, Phases
<1>5. r.item \in r.moved \/ to = qty[r.item] + pend[j][r.item].move + (to - r.read)
  BY <1>2, <1>3, <1>4, DoneTyped DEF LedgerIInv, StockTyped
<1> HIDE DEF q, to
<1>6. /\ job'[j] = q /\ \A l \in Items : l # r.item => pend'[j][l] = pend[j][l]
      /\ pend'[j][r.item].by = "put"
  BY <1>1, <1>2 DEF Write, LedgerIInv, StockTyped
<1>7. Phase(j)'
  BY <1>2, <1>4, <1>6 DEF Phase, Clean, Wrote
<1> QED
  BY <1>1, <1>2, <1>4, <1>5, <1>7, WriteStep

\* A read before the first write: what others moved meanwhile no longer counts
\* for that row.
LEMMA CheckStep ==
  ASSUME LedgerIInv, StockAssumption, NEW j \in Jobs, NEW i \in Items, Check(j, i)
  PROVE  LedgerIInv'
<1> DEFINE r == job[j]
           nx == Next1(r, i, "draw")
           q == [nx EXCEPT !.moved = @ \ {i}]
<1>1. r \in Locals /\ r.pc = "check" /\ job' = [job EXCEPT ![j] = q]
      /\ UNCHANGED <<ledgerVars, pend, take>>
  BY DEF Check, LedgerIInv, StockTyped
<1>2. r.item \in Items /\ \A l \in Items : ~Wrote(j, l)
  BY <1>1 DEF LedgerIInv, Phase, Clean
<1>3. Needs(r.item) \subseteq Items
  BY <1>2 DEF Needs, StockAssumption
<1>4. nx \in Locals /\ nx.pc \in {"check", "draw"} /\ nx.item = r.item
  BY <1>1, <1>3 DEF Next1, Locals, Phases
<1> HIDE DEF nx
<1>5. q \in Locals /\ q.pc \in {"check", "draw"} /\ q.item = r.item
  BY <1>4 DEF Locals
<1> HIDE DEF q
<1>6. job'[j] = q /\ UNCHANGED <<qty, cost, gap, overwritten, pend, take>>
  BY <1>1 DEF LedgerIInv, StockTyped, ledgerVars
<1>7. StockTyped'
  BY <1>1, <1>5, <1>6 DEF LedgerIInv, StockTyped
<1>8. Phase(j)'
  BY <1>2, <1>5, <1>6 DEF Phase, Clean, Wrote
<1> QED
  BY <1>1, <1>5, <1>6, <1>7, <1>8, LocalStep

LEMMA ReadStockStep ==
  ASSUME LedgerIInv, NEW j \in Jobs, ReadStock(j)
  PROVE  LedgerIInv'
<1> DEFINE r == job[j]
           n == Seen(j, r.item)
           q == [r EXCEPT !.pc = "price", !.read = n]
<1>1. /\ r \in Locals /\ r.pc = "cost" /\ UNCHANGED <<ledgerVars, pend, take>>
      /\ job' = [job EXCEPT ![j] = q]
  BY DEF ReadStock, LedgerIInv, StockTyped
<1>2. r.item \in Items /\ \A l \in Items : ~Wrote(j, l)
  BY <1>1 DEF LedgerIInv, Phase, Clean
<1>3. n \in Int
  BY <1>2 DEF Seen, LedgerIInv, StockTyped
<1> HIDE DEF n
<1>4. q \in Locals /\ q.pc = "price" /\ q.item = r.item
  BY <1>1, <1>3 DEF Locals, Phases
<1> HIDE DEF q
<1>5. job'[j] = q /\ UNCHANGED <<qty, cost, gap, overwritten, pend, take>>
  BY <1>1 DEF LedgerIInv, StockTyped, ledgerVars
<1>6. StockTyped'
  BY <1>1, <1>4, <1>5 DEF LedgerIInv, StockTyped
<1>7. Phase(j)'
  BY <1>2, <1>4, <1>5 DEF Phase, Clean, Wrote
<1> QED
  BY <1>1, <1>4, <1>5, <1>6, <1>7, LocalStep

LEMMA ReadCostStep ==
  ASSUME LedgerIInv, NEW j \in Jobs, ReadCost(j),
         NEW p, job' = [job EXCEPT ![j].pc = "add", ![j].price = p], p \in Int
  PROVE  LedgerIInv'
<1> DEFINE r == job[j]
           q == [r EXCEPT !.pc = "add", !.price = p]
<1>1. r \in Locals /\ r.pc = "price" /\ UNCHANGED <<ledgerVars, pend, take>>
  BY DEF ReadCost, LedgerIInv, StockTyped
<1>2. job' = [job EXCEPT ![j] = q]
  BY DEF LedgerIInv, StockTyped
<1>3. r.item \in Items /\ \A l \in Items : ~Wrote(j, l)
  BY <1>1 DEF LedgerIInv, Phase, Clean
<1>4. q \in Locals /\ q.pc = "add" /\ q.item = r.item
  BY <1>1 DEF Locals, Phases
<1> HIDE DEF q
<1>5. job'[j] = q /\ UNCHANGED <<qty, cost, gap, overwritten, pend, take>>
  BY <1>1, <1>2 DEF LedgerIInv, StockTyped, ledgerVars
<1>6. StockTyped'
  BY <1>2, <1>4, <1>5 DEF LedgerIInv, StockTyped
<1>7. Phase(j)'
  BY <1>3, <1>4, <1>5 DEF Phase, Clean, Wrote
<1> QED
  BY <1>2, <1>4, <1>5, <1>6, <1>7, LocalStep

LEMMA AverageTyped ==
  ASSUME NEW old \in Int, NEW avg \in Int, NEW n \in Nat, NEW p \in Int
  PROVE  Average(old, avg, n, p) \in Int
  BY DEF Average

LEMMA ReadLiveStep ==
  ASSUME LedgerIInv, NEW j \in Jobs, NEW i \in Items, ReadLive(j, i)
  PROVE  LedgerIInv'
<1> DEFINE r == job[j]
           pc == IF Seen(j, i) # r.lines[i] THEN "fix" ELSE "apply"
           q == [r EXCEPT !.item = i, !.read = Seen(j, i), !.moved = @ \ {i}, !.pc = pc,
                          !.todo = @ \ {i}]
<1>1. r \in Locals /\ r.pc = "apply" /\ i \in r.todo /\ job' = [job EXCEPT ![j] = q]
      /\ UNCHANGED <<ledgerVars, pend, take>>
  BY DEF ReadLive, LedgerIInv, StockTyped
<1>2. \A l \in Items : Wrote(j, l) => pend[j][l].by = "put" /\ l \notin r.todo
  BY <1>1 DEF LedgerIInv, Phase
<1>3. ~Wrote(j, i) /\ Seen(j, i) = qty[i] /\ qty[i] \in Int
  BY <1>1, <1>2 DEF Seen, LedgerIInv, StockTyped
<1>4. /\ q \in Locals /\ q.pc \in {"apply", "fix"} /\ q.item = i /\ q.read = qty[i]
      /\ i \notin q.moved /\ q.todo = r.todo \ {i}
  BY <1>1, <1>3 DEF Locals, Phases
<1> HIDE DEF q
<1>5. job'[j] = q /\ UNCHANGED <<qty, cost, gap, overwritten, pend, take>>
  BY <1>1 DEF LedgerIInv, StockTyped, ledgerVars
<1>6. StockTyped'
  BY <1>1, <1>4, <1>5 DEF LedgerIInv, StockTyped
<1>7. Phase(j)'
  BY <1>2, <1>3, <1>4, <1>5 DEF Phase, Clean, Wrote
<1> QED
  BY <1>1, <1>4, <1>5, <1>6, <1>7, LocalStep

LEMMA AbortStep ==
  ASSUME LedgerIInv, NEW j \in Jobs, Abort(j)
  PROVE  LedgerIInv'
<1> DEFINE none == [i \in Items |-> NoWrite]
<1>1. /\ job' = [job EXCEPT ![j] = Done] /\ pend' = [pend EXCEPT ![j] = none]
      /\ UNCHANGED <<qty, cost, gap, overwritten, take>>
  BY DEF Abort, ledgerVars
<1>2. none \in [Items -> Writes] /\ \A i \in Items : none[i] = NoWrite
  BY DoneTyped
<1> HIDE DEF none
<1>3. /\ pend'[j] = none /\ job'[j] = Done
      /\ \A k \in Jobs : k # j => pend'[k] = pend[k] /\ job'[k] = job[k]
  BY <1>1 DEF LedgerIInv, StockTyped
<1>4. StockTyped'
  BY <1>1, <1>2, DoneTyped DEF LedgerIInv, StockTyped
<1>5. \A k \in Jobs : Phase(k)'
  BY <1>1, <1>2, <1>3, DoneTyped DEF LedgerIInv, Phase, Wrote, Clean
<1>6. Rows'
  BY <1>1, <1>2, <1>3, DoneTyped DEF LedgerIInv, Rows, Wrote, Free
<1> QED
  BY <1>1, <1>4, <1>5, <1>6 DEF LedgerIInv, LedgerExact

\* What a request wrote becomes the row, and the others have something moved.
LEMMA CommitStep ==
  ASSUME LedgerIInv, NEW j \in Jobs, Commit(j)
  PROVE  LedgerIInv'
<1> DEFINE r == job[j]
           W == {i \in Items : Wrote(j, i)}
           none == [i \in Items |-> NoWrite]
<1>1. /\ Ready(r)
      /\ qty' = [i \in Items |-> Seen(j, i)]
      /\ overwritten' = overwritten \cup {i \in W : pend[j][i].by = "put" /\ pend[j][i].late}
      /\ gap' = [i \in Items |->
                   IF i \in overwritten' THEN 0
                   ELSE IF i \in W THEN gap[i] + pend[j][i].to - qty[i] - pend[j][i].move
                   ELSE gap[i]]
      /\ cost' = IF r.op = "receive" THEN [cost EXCEPT ![r.item] = r.price] ELSE cost
      /\ take' = IF r.op = "commit" THEN [take EXCEPT !.st = "committed", !.applied = @ \/ W # {}]
                 ELSE take
      /\ pend' = [pend EXCEPT ![j] = none]
      /\ job' = [k \in Jobs |-> IF k = j THEN Done
                                ELSE IF job[k].pc = "idle" THEN job[k]
                                ELSE [job[k] EXCEPT !.moved = @ \cup W]]
  BY DEF Commit
<1>2. none \in [Items -> Writes] /\ \A i \in Items : none[i] = NoWrite
  BY DoneTyped
<1>3. W \subseteq Items /\ \A i \in Items : i \in W <=> Wrote(j, i)
  OBVIOUS
<1> HIDE DEF none, W
<1>4. pend'[j] = none /\ \A k \in Jobs : k # j => pend'[k] = pend[k]
  BY <1>1 DEF LedgerIInv, StockTyped
<1>5. \A i \in Items : /\ pend[j][i] \in Writes /\ Seen(j, i) \in Int
                       /\ qty'[i] = IF i \in W THEN pend[j][i].to ELSE qty[i]
  BY <1>1, <1>3 DEF LedgerIInv, StockTyped, Seen, Writes
<1>6. \A k \in Jobs : k # j =>
        /\ job'[k] \in Locals /\ job'[k].pc = job[k].pc /\ job'[k].item = job[k].item
        /\ job'[k].read = job[k].read /\ job'[k].todo = job[k].todo
        /\ job[k].pc # "idle" => job'[k].moved = job[k].moved \cup W
  <2>1. SUFFICES ASSUME NEW k \in Jobs, k # j
                 PROVE  /\ job'[k] \in Locals /\ job'[k].pc = job[k].pc
                        /\ job'[k].item = job[k].item
                        /\ job'[k].read = job[k].read /\ job'[k].todo = job[k].todo
                        /\ job[k].pc # "idle" => job'[k].moved = job[k].moved \cup W
    OBVIOUS
  <2>2. job[k] \in Locals
    BY DEF LedgerIInv, StockTyped
  <2>3. job'[k] = IF job[k].pc = "idle" THEN job[k] ELSE [job[k] EXCEPT !.moved = @ \cup W]
    BY <1>1, <2>1
  <2> QED
    BY <1>3, <2>2, <2>3 DEF Locals
<1>7. job'[j] = Done
  BY <1>1
<1>8. StockTyped'
  <2>1. job' \in [Jobs -> Locals]
    <3>1. \A k \in Jobs : job'[k] \in Locals
      BY <1>6, <1>7, DoneTyped
    <3> QED
      BY <1>1, <3>1
  <2>2. pend' \in [Jobs -> [Items -> Writes]]
    BY <1>1, <1>2 DEF LedgerIInv, StockTyped
  <2>3. qty' \in [Items -> Int] /\ gap' \in [Items -> Int]
    BY <1>1, <1>5 DEF LedgerIInv, StockTyped, Writes
  <2>4. cost' \in [Items -> Int]
    <3>1. r.price \in Int
      BY DEF LedgerIInv, StockTyped, Locals
    <3> QED
      BY <1>1, <3>1 DEF LedgerIInv, StockTyped
  <2>5. take' \in [st : {"none", "open", "cancelled", "committed"}, counted : [Items -> Int],
                   applied : BOOLEAN]
    <3>1. (take.applied \/ W # {}) \in BOOLEAN
      OBVIOUS
    <3> QED
      BY <1>1, <3>1 DEF LedgerIInv, StockTyped
  <2> QED
    BY <2>1, <2>2, <2>3, <2>4, <2>5 DEF StockTyped
<1>9. \A k \in Jobs : Phase(k)'
  <2>1. Phase(j)'
    BY <1>2, <1>4, <1>7, DoneTyped DEF Phase, Wrote, Clean
  <2>2. ASSUME NEW k \in Jobs, k # j
        PROVE  Phase(k)'
    <3>1. pend'[k] = pend[k] /\ Phase(k)
      BY <1>4, <2>2 DEF LedgerIInv
    <3>2. job[k].pc \in {"put", "fix"} => job'[k].item \in job'[k].moved \/ job'[k].read = qty'[job'[k].item]
      BY <1>5, <1>6, <2>2, <3>1 DEF Phase
    <3> QED
      BY <1>6, <2>2, <3>1, <3>2 DEF Phase, Wrote
  <2> QED
    BY <2>1, <2>2
<1>10. Rows'
  <2>1. SUFFICES ASSUME NEW k \in Jobs, NEW l \in Items
                 PROVE  IF Wrote(k, l)'
                        THEN /\ Free(k, l)'
                             /\ \/ pend'[k][l].by = "put" /\ pend'[k][l].late
                                \/ pend'[k][l].to = qty'[l] + pend'[k][l].move
                        ELSE pend'[k][l] = NoWrite
    BY DEF Rows
  <2>2. CASE k = j
    BY <1>2, <1>4, <2>2, DoneTyped DEF Wrote
  <2>3. CASE k # j
    <3>1. pend'[k] = pend[k]
      BY <1>4, <2>3
    <3>2. Wrote(k, l) => l \notin W /\ Free(k, l)'
      BY <1>2, <1>3, <1>4, <2>3, DoneTyped DEF LedgerIInv, Rows, Free, Wrote
    <3> QED
      BY <1>5, <3>1, <3>2 DEF LedgerIInv, Rows, Wrote
  <2> QED
    BY <2>2, <2>3
<1>11. LedgerExact'
  <2>1. SUFFICES ASSUME NEW i \in Items, i \notin overwritten'
                 PROVE  gap'[i] = 0
    BY DEF LedgerExact
  <2>2. gap[i] = 0 /\ qty[i] \in Int
    BY <1>1, <2>1 DEF LedgerIInv, LedgerExact, StockTyped
  <2>3. i \in W => pend[j][i].to = qty[i] + pend[j][i].move
    BY <1>1, <1>3, <2>1 DEF LedgerIInv, Rows
  <2> QED
    BY <1>1, <1>5, <2>1, <2>2, <2>3 DEF Writes
<1> QED
  BY <1>8, <1>9, <1>10, <1>11 DEF LedgerIInv

LEMMA LedgerStep == StockAssumption /\ LedgerIInv /\ [StockNext]_stockVars => LedgerIInv'
<1> SUFFICES ASSUME StockAssumption, LedgerIInv, [StockNext]_stockVars
             PROVE  LedgerIInv'
  OBVIOUS
<1>1. CASE UNCHANGED stockVars
  BY <1>1 DEF stockVars, LedgerIInv, StockTyped, Phase, Rows, LedgerExact, Wrote, Free
<1>2. CASE OpenTake
  BY <1>2, OpenTakeStep
<1>3. ASSUME NEW j \in Jobs,
             \/ CommitTake(j) \/ CancelTake(j) \/ PutCancel(j) \/ PutCount(j) \/ FixLine(j)
             \/ Put(j) \/ Make(j) \/ ReadStock(j) \/ Add(j) \/ Commit(j) \/ Abort(j)
      PROVE  LedgerIInv'
  BY <1>3, ReadStockStep, CommitTakeStep, CancelTakeStep, PutTakeStep, FixLineStep, PutStep, MakeStep, AddStep,
     CommitStep, AbortStep
<1>4. ASSUME NEW j \in Jobs, ReadCost(j)
      PROVE  LedgerIInv'
  <2> DEFINE r == job[j]
             p == Average(r.read, cost[r.item], r.n, r.price)
  <2>1. r \in Locals /\ r.item \in Items
    BY <1>4 DEF ReadCost, LedgerIInv, StockTyped, Phase
  <2>2. p \in Int
    BY <2>1, AverageTyped DEF Locals, LedgerIInv, StockTyped
  <2>3. job' = [job EXCEPT ![j].pc = "add", ![j].price = p]
    BY <1>4 DEF ReadCost
  <2> HIDE DEF p
  <2> QED
    BY <1>4, <2>2, <2>3, ReadCostStep
<1>5. ASSUME NEW j \in Jobs, NEW i \in Items,
             \/ Check(j, i) \/ Draw(j, i) \/ ReadLive(j, i)
             \/ \E op \in {"compose", "sell"} : Gather(j, op, i)
             \/ \E n \in Amounts :
                  \/ Count(j, i, n)
                  \/ \E op \in {"adjust", "set"} : Correct(j, op, i, n)
                  \/ \E p \in Prices : Receive(j, i, n, p)
      PROVE  LedgerIInv'
  BY <1>5, CheckStep, DrawStep, ReadLiveStep, GatherStep, CountStep, CorrectStep, ReceiveStep
<1> QED
  BY <1>1, <1>2, <1>3, <1>4, <1>5 DEF StockNext

(***************************************************************************)
(* However sales, kits, purchases, corrections and stock takes interleave  *)
(* and abort, the movement rows add up to the quantity of every row that   *)
(* was never overwritten from an outdated read.                            *)
(***************************************************************************)
THEOREM LedgerIsExact == StockSpec => []LedgerExact
<1>1. LedgerIInv => LedgerExact
  BY DEF LedgerIInv
<1> QED
  BY <1>1, LedgerStart, LedgerStep, StockAssumption, PTL DEF StockSpec

-----------------------------------------------------------------------------
(* Stock stays at or above zero, except where drawn from after its check *)

\* What request j was told, and still holds unless another one moved the row.
Checked(j) ==
    LET r == job[j] IN
    /\ r.pc = "put" => r.read >= 0 \/ r.item \in overdrawn
    /\ r.pc \in {"check", "draw", "make"} =>
          /\ r.op = "compose" => r.item \notin Needs(r.item)
          /\ r.op # "compose" => r.pc # "make"
    /\ r.pc \in {"check", "draw"} => r.todo \subseteq Needs(r.item)
    /\ r.pc = "check" => \A i \in Needs(r.item) \ r.todo : i \in r.moved \/ qty[i] >= 1
    /\ r.pc = "draw" => \A i \in r.todo : ~Wrote(j, i) /\ (i \in r.moved \/ qty[i] >= 1)
    /\ r.pc \in {"draw", "make"} => \A i \in Items : Wrote(j, i) => i \in Needs(r.item)
    /\ r.pc \in {"apply", "fix"} => \A i \in r.todo : r.lines[i] >= 0
    /\ r.pc = "fix" => r.lines[r.item] >= 0

\* What is about to be committed.
Written ==
    \A j \in Jobs, i \in Items :
        Wrote(j, i) => \/ pend[j][i].to >= 0
                       \/ pend[j][i].by = "draw" /\ pend[j][i].late
                       \/ i \in overdrawn

Heads == \A i \in Items : take.counted[i] >= Uncounted

Floor == Heads /\ (\A j \in Jobs : Checked(j)) /\ Written /\ AboveZero

LEMMA FloorStart == StockInit => Floor
<1> SUFFICES ASSUME StockInit
             PROVE  Floor
  OBVIOUS
<1>1. \A j \in Jobs : job[j].pc = "idle" /\ \A i \in Items : ~Wrote(j, i)
  BY DoneTyped DEF StockInit, Wrote
<1>2. Heads /\ AboveZero
  BY StockAssumption DEF StockInit, Heads, AboveZero, Uncounted
<1>3. Written
  BY <1>1 DEF Written
<1>4. \A j \in Jobs : Checked(j)
  BY <1>1 DEF Checked
<1> QED
  BY <1>2, <1>3, <1>4 DEF Floor

LEMMA FloorLocal ==
  ASSUME LedgerIInv, Floor, NEW j \in Jobs, NEW q \in Locals, job' = [job EXCEPT ![j] = q],
         UNCHANGED <<qty, overdrawn, pend>>, Heads', Checked(j)'
  PROVE  Floor'
<1>1. \A k \in Jobs : k # j => job'[k] = job[k]
  BY DEF LedgerIInv, StockTyped
<1>2. \A k \in Jobs : Checked(k)'
  BY <1>1 DEF Floor, Checked, Wrote
<1> QED
  BY <1>2 DEF Floor, Written, AboveZero, Wrote

LEMMA FloorWrite ==
  ASSUME LedgerIInv, Floor, NEW j \in Jobs, NEW i \in Items, NEW to \in Int, NEW move \in Int,
         NEW by \in {"put", "draw", "add"}, NEW next \in Locals, Write(j, i, to, move, by, next),
         to >= 0 \/ (by = "draw" /\ i \in job[j].moved) \/ i \in overdrawn,
         Checked(j)'
  PROVE  Floor'
<1>1. /\ \A k \in Jobs : k # j => pend'[k] = pend[k] /\ job'[k] = job[k]
      /\ \A l \in Items : l # i => pend'[j][l] = pend[j][l]
      /\ UNCHANGED <<qty, overdrawn, take>>
  BY DEF Write, ledgerVars, LedgerIInv, StockTyped
<1>2. pend'[j][i].to = to /\ pend'[j][i].by = by /\ (i \in job[j].moved => pend'[j][i].late)
  BY DEF Write, LedgerIInv, StockTyped
<1>3. \A k \in Jobs : Checked(k)'
  BY <1>1 DEF Floor, Checked, Wrote
<1>4. Written'
  <2>1. SUFFICES ASSUME NEW k \in Jobs, NEW l \in Items, Wrote(k, l)'
                 PROVE  \/ pend'[k][l].to >= 0
                        \/ pend'[k][l].by = "draw" /\ pend'[k][l].late
                        \/ l \in overdrawn'
    BY DEF Written
  <2>2. CASE k = j /\ l = i
    BY <1>1, <1>2, <2>2
  <2>3. CASE ~(k = j /\ l = i)
    BY <1>1, <2>1, <2>3 DEF Floor, Written, Wrote
  <2> QED
    BY <2>2, <2>3
<1> QED
  BY <1>1, <1>3, <1>4 DEF Floor, Heads, AboveZero

LEMMA FloorBegin ==
  ASSUME LedgerIInv, Floor, NEW j \in Jobs, NEW q \in Locals, Begin(j, q),
         UNCHANGED <<ledgerVars, pend, take>>,
         \/ q.pc = "put" /\ (q.read >= 0 \/ q.item \in overdrawn)
         \/ /\ q.pc = "check" /\ q.todo = Needs(q.item)
            /\ q.op = "compose" => q.item \notin Needs(q.item)
         \/ q.pc \in {"cost", "line", "cancel"}
         \/ q.pc = "apply" /\ \A i \in q.todo : q.lines[i] >= 0
  PROVE  Floor'
<1>1. job[j].pc = "idle" /\ job' = [job EXCEPT ![j] = q] /\ job'[j] = q
  BY DEF Begin, LedgerIInv, StockTyped
<1>2. UNCHANGED <<qty, overdrawn, pend, take>>
  BY DEF ledgerVars
<1>3. Checked(j)'
  BY <1>1, <1>2 DEF Checked
<1> QED
  BY <1>1, <1>2, <1>3, FloorLocal DEF Floor, Heads

LEMMA FloorRequests ==
  ASSUME LedgerIInv, Floor, StockAssumption, NEW j \in Jobs, NEW i \in Items,
         \/ \E op \in {"compose", "sell"} : Gather(j, op, i)
         \/ \E n \in Amounts :
              \/ Count(j, i, n)
              \/ \E op \in {"adjust", "set"} : Correct(j, op, i, n)
              \/ \E p \in Prices : Receive(j, i, n, p)
  PROVE  Floor'
<1>1. ASSUME NEW op \in {"compose", "sell"}, Gather(j, op, i)
      PROVE  Floor'
  <2> DEFINE q == [Done EXCEPT !.pc = "check", !.op = op, !.item = i, !.todo = Needs(i)]
  <2>1. Needs(i) \subseteq Items /\ (op = "compose" => i \notin Needs(i))
    BY <1>1, StockAssumption DEF Needs, Gather
  <2>2. q \in Locals /\ q.pc = "check" /\ q.item = i /\ q.op = op /\ q.todo = Needs(i)
    BY <2>1, DoneTyped DEF Locals, Phases, Operations
  <2>3. Begin(j, q) /\ UNCHANGED <<ledgerVars, pend, take>>
    BY <1>1 DEF Gather
  <2> HIDE DEF q
  <2> QED
    BY <2>1, <2>2, <2>3, FloorBegin
<1>2. ASSUME NEW n \in Amounts, Count(j, i, n)
      PROVE  Floor'
  <2> DEFINE q == [Done EXCEPT !.pc = "line", !.op = "count", !.item = i, !.n = n]
  <2>1. q \in Locals /\ q.pc = "line"
    BY DoneTyped, StockAssumption DEF Locals, Phases, Operations
  <2>2. Begin(j, q) /\ UNCHANGED <<ledgerVars, pend, take>>
    BY <1>2 DEF Count
  <2> HIDE DEF q
  <2> QED
    BY <2>1, <2>2, FloorBegin
<1>3. ASSUME NEW n \in Amounts, NEW op \in {"adjust", "set"}, Correct(j, op, i, n)
      PROVE  Floor'
  <2> DEFINE q == [Done EXCEPT !.pc = "put", !.op = op, !.item = i, !.n = n, !.read = qty[i]]
  <2>1. n \in Nat /\ qty[i] \in Int /\ (qty[i] >= 0 \/ i \in overdrawn)
    BY StockAssumption DEF LedgerIInv, StockTyped, Floor, AboveZero
  <2>2. q \in Locals /\ q.pc = "put" /\ q.read = qty[i] /\ q.item = i
    BY <2>1, DoneTyped DEF Locals, Phases, Operations
  <2>3. Begin(j, q) /\ UNCHANGED <<ledgerVars, pend, take>>
    BY <1>3 DEF Correct
  <2> HIDE DEF q
  <2> QED
    BY <2>1, <2>2, <2>3, FloorBegin
<1>4. ASSUME NEW n \in Amounts, NEW p \in Prices, Receive(j, i, n, p)
      PROVE  Floor'
  <2> DEFINE q == [Done EXCEPT !.pc = "cost", !.op = "receive", !.item = i, !.n = n, !.price = p]
  <2>1. n \in Nat /\ p \in Int
    BY StockAssumption
  <2>2. q \in Locals /\ q.pc = "cost"
    BY <2>1, DoneTyped DEF Locals, Phases, Operations
  <2>3. Begin(j, q) /\ UNCHANGED <<ledgerVars, pend, take>>
    BY <1>4 DEF Receive
  <2> HIDE DEF q
  <2> QED
    BY <2>2, <2>3, FloorBegin
<1> QED
  BY <1>1, <1>2, <1>3, <1>4

LEMMA FloorTakes ==
  ASSUME LedgerIInv, Floor, NEW j \in Jobs,
         CommitTake(j) \/ CancelTake(j) \/ PutCount(j) \/ PutCancel(j)
  PROVE  Floor'
<1>1. CASE CommitTake(j)
  <2> DEFINE q == [Done EXCEPT !.pc = "apply", !.op = "commit", !.lines = take.counted,
                               !.todo = Counted(take.counted)]
  <2>1. \A i \in Counted(take.counted) : take.counted[i] >= 0
    BY DEF Counted, Uncounted, Floor, Heads, LedgerIInv, StockTyped
  <2>2. /\ q \in Locals /\ q.pc = "apply" /\ q.todo = Counted(take.counted)
        /\ q.lines = take.counted
    BY DoneTyped DEF Locals, Phases, Operations, Counted, LedgerIInv, StockTyped
  <2>3. Begin(j, q) /\ UNCHANGED <<ledgerVars, pend, take>>
    BY <1>1 DEF CommitTake
  <2> HIDE DEF q
  <2> QED
    BY <2>1, <2>2, <2>3, FloorBegin
<1>2. CASE CancelTake(j)
  <2> DEFINE q == [Done EXCEPT !.pc = "cancel", !.op = "cancel"]
  <2>1. q \in Locals /\ q.pc = "cancel"
    BY DoneTyped DEF Locals, Phases, Operations
  <2>2. Begin(j, q) /\ UNCHANGED <<ledgerVars, pend, take>>
    BY <1>2 DEF CancelTake
  <2> HIDE DEF q
  <2> QED
    BY <2>1, <2>2, FloorBegin
<1>3. CASE PutCount(j) \/ PutCancel(j)
  <2>1. job' = [job EXCEPT ![j] = Done] /\ job'[j] = Done /\ UNCHANGED <<qty, overdrawn, pend>>
    BY <1>3 DEF PutCount, PutCancel, LedgerIInv, StockTyped, ledgerVars
  <2>2. Checked(j)'
    BY <2>1, DoneTyped DEF Checked
  <2>3. job[j].n \in Nat
    BY DEF LedgerIInv, StockTyped, Locals
  <2>4. Heads'
    <3>1. CASE PutCancel(j)
      BY <3>1 DEF PutCancel, Floor, Heads, LedgerIInv, StockTyped
    <3>2. CASE PutCount(j)
      BY <2>3, <3>2 DEF PutCount, Floor, Heads, LedgerIInv, StockTyped, Uncounted
    <3> QED
      BY <1>3, <3>1, <3>2
  <2> QED
    BY <2>1, <2>2, <2>4, DoneTyped, FloorLocal
<1> QED
  BY <1>1, <1>2, <1>3

LEMMA FloorCheck ==
  ASSUME LedgerIInv, Floor, StockAssumption, NEW j \in Jobs, NEW i \in Items, Check(j, i)
  PROVE  Floor'
<1> DEFINE r == job[j]
           nx == Next1(r, i, "draw")
           q == [nx EXCEPT !.moved = @ \ {i}]
<1>1. /\ r \in Locals /\ r.pc = "check" /\ i \in r.todo /\ job' = [job EXCEPT ![j] = q]
      /\ Seen(j, i) >= 1 /\ UNCHANGED <<qty, overdrawn, pend, take>>
  BY DEF Check, LedgerIInv, StockTyped, ledgerVars
<1>2. r.item \in Items /\ \A l \in Items : ~Wrote(j, l)
  BY <1>1 DEF LedgerIInv, Phase, Clean
<1>3. Needs(r.item) \subseteq Items /\ qty[i] >= 1
  BY <1>1, <1>2 DEF Needs, StockAssumption, Seen
<1>4. /\ r.op = "compose" => r.item \notin Needs(r.item)
      /\ r.todo \subseteq Needs(r.item)
      /\ \A l \in Needs(r.item) \ r.todo : l \in r.moved \/ qty[l] >= 1
  BY <1>1 DEF Floor, Checked
<1>5. /\ nx \in Locals /\ nx.item = r.item /\ nx.op = r.op /\ nx.moved = r.moved
      /\ \/ nx.pc = "draw" /\ r.todo = {i} /\ nx.todo = Needs(r.item)
         \/ nx.pc = "check" /\ nx.todo = r.todo \ {i}
  BY <1>1, <1>3 DEF Next1, Locals, Phases
<1> HIDE DEF nx
<1>6. /\ q \in Locals /\ q.item = nx.item /\ q.op = nx.op /\ q.moved = nx.moved \ {i}
      /\ q.pc = nx.pc /\ q.todo = nx.todo
  BY <1>5 DEF Locals
<1> HIDE DEF q
<1>7. job'[j] = q
  BY <1>1 DEF LedgerIInv, StockTyped
<1>8. Checked(j)'
  <2>1. CASE q.pc = "draw"
    <3>1. \A l \in q.todo : l \in q.moved \/ qty[l] >= 1
      BY <1>3, <1>4, <1>5, <1>6, <2>1
    <3>2. \A l \in Items : ~Wrote(j, l)'
      BY <1>1, <1>2 DEF Wrote
    <3> QED
      BY <1>1, <1>3, <1>4, <1>5, <1>6, <1>7, <2>1, <3>1, <3>2 DEF Checked
  <2>2. CASE q.pc = "check"
    <3>1. \A l \in Needs(q.item) \ q.todo : l \in q.moved \/ qty[l] >= 1
      BY <1>3, <1>4, <1>5, <1>6, <2>2
    <3> QED
      BY <1>1, <1>4, <1>5, <1>6, <1>7, <2>2, <3>1 DEF Checked
  <2> QED
    BY <1>5, <1>6, <2>1, <2>2
<1> QED
  BY <1>1, <1>6, <1>8, FloorLocal DEF Floor, Heads

LEMMA FloorReads ==
  ASSUME LedgerIInv, Floor, NEW j \in Jobs, NEW i \in Items, ReadLive(j, i)
  PROVE  Floor'
<1> DEFINE r == job[j]
           pc == IF Seen(j, i) # r.lines[i] THEN "fix" ELSE "apply"
           q == [r EXCEPT !.item = i, !.read = Seen(j, i), !.moved = @ \ {i}, !.pc = pc,
                          !.todo = @ \ {i}]
<1>1. r \in Locals /\ r.pc = "apply" /\ i \in r.todo /\ job' = [job EXCEPT ![j] = q]
      /\ UNCHANGED <<qty, overdrawn, pend, take>>
  BY DEF ReadLive, LedgerIInv, StockTyped, ledgerVars
<1>2. \A l \in r.todo : r.lines[l] >= 0
  BY <1>1 DEF Floor, Checked
<1>3. ~Wrote(j, i) /\ Seen(j, i) \in Int
  BY <1>1 DEF Seen, LedgerIInv, StockTyped, Phase
<1>4. /\ q \in Locals /\ q.pc \in {"apply", "fix"} /\ q.item = i /\ q.todo = r.todo \ {i}
      /\ q.lines = r.lines
  BY <1>1, <1>3 DEF Locals, Phases
<1> HIDE DEF q
<1>5. job'[j] = q
  BY <1>1 DEF LedgerIInv, StockTyped
<1>6. Checked(j)'
  BY <1>1, <1>2, <1>4, <1>5 DEF Checked
<1> QED
  BY <1>1, <1>4, <1>6, FloorLocal DEF Floor, Heads

LEMMA FloorReadCost ==
  ASSUME LedgerIInv, Floor, NEW j \in Jobs, ReadStock(j) \/ ReadCost(j), job' \in [Jobs -> Locals]
  PROVE  Floor'
<1>1. /\ job'[j].pc \in {"price", "add"} /\ \A k \in Jobs : k # j => job'[k] = job[k]
      /\ UNCHANGED <<qty, overdrawn, pend, take>>
  BY DEF ReadStock, ReadCost, LedgerIInv, StockTyped, Locals, ledgerVars
<1>2. \A k \in Jobs : Checked(k)'
  BY <1>1 DEF Floor, Checked, Wrote
<1> QED
  BY <1>1, <1>2 DEF Floor, Written, AboveZero, Wrote, Heads

LEMMA FloorWrites ==
  ASSUME LedgerIInv, Floor, StockAssumption, NEW j \in Jobs,
         \/ Put(j) \/ Add(j) \/ Make(j) \/ FixLine(j)
         \/ \E i \in Items : Draw(j, i)
  PROVE  Floor'
<1> DEFINE r == job[j]
<1>1. r \in Locals
  BY DEF LedgerIInv, StockTyped
<1>2. CASE Put(j)
  <2> DEFINE to == IF r.op = "adjust" THEN r.read + r.n ELSE r.n
             q == [r EXCEPT !.pc = "end"]
  <2>1. r.pc = "put" /\ Write(j, r.item, to, to - r.read, "put", q)
    BY <1>2 DEF Put
  <2>2. r.item \in Items /\ (r.read >= 0 \/ r.item \in overdrawn)
    BY <2>1 DEF LedgerIInv, Phase, Floor, Checked
  <2>3. to \in Int /\ to - r.read \in Int /\ (to >= 0 \/ r.item \in overdrawn)
        /\ q \in Locals /\ q.pc = "end"
    BY <1>1, <2>2 DEF Locals, Phases
  <2> HIDE DEF to, q
  <2>4. job'[j] = q
    BY <2>1 DEF Write, LedgerIInv, StockTyped
  <2>5. Checked(j)'
    BY <2>3, <2>4 DEF Checked
  <2> QED
    BY <2>1, <2>2, <2>3, <2>5, FloorWrite
<1>3. CASE Add(j)
  <2> DEFINE q == [r EXCEPT !.pc = "end"]
  <2>1. r.pc = "add" /\ Write(j, r.item, Seen(j, r.item) + r.n, r.n, "add", q)
    BY <1>3 DEF Add
  <2>2. r.item \in Items /\ ~Wrote(j, r.item)
    BY <2>1 DEF LedgerIInv, Phase, Clean
  <2>3. Seen(j, r.item) = qty[r.item] /\ qty[r.item] \in Int
        /\ (qty[r.item] >= 0 \/ r.item \in overdrawn)
    BY <2>2 DEF Seen, LedgerIInv, StockTyped, Floor, AboveZero
  <2>4. r.n \in Nat /\ q \in Locals /\ q.pc = "end"
    BY <1>1 DEF Locals, Phases
  <2> HIDE DEF q
  <2>5. job'[j] = q
    BY <2>1 DEF Write, LedgerIInv, StockTyped
  <2>6. Checked(j)'
    BY <2>4, <2>5 DEF Checked
  <2> QED
    BY <2>1, <2>2, <2>3, <2>4, <2>6, FloorWrite
<1>4. CASE Make(j)
  <2> DEFINE q == [r EXCEPT !.pc = "end"]
  <2>1. r.pc = "make" /\ Write(j, r.item, Seen(j, r.item) + 1, 1, "add", q)
    BY <1>4 DEF Make
  <2>2. r.item \in Items /\ ~Wrote(j, r.item)
    BY <2>1 DEF LedgerIInv, Phase, Floor, Checked
  <2>3. Seen(j, r.item) = qty[r.item] /\ qty[r.item] \in Int
        /\ (qty[r.item] >= 0 \/ r.item \in overdrawn)
    BY <2>2 DEF Seen, LedgerIInv, StockTyped, Floor, AboveZero
  <2>4. q \in Locals /\ q.pc = "end"
    BY <1>1 DEF Locals, Phases
  <2> HIDE DEF q
  <2>5. job'[j] = q
    BY <2>1 DEF Write, LedgerIInv, StockTyped
  <2>6. Checked(j)'
    BY <2>4, <2>5 DEF Checked
  <2> QED
    BY <2>1, <2>2, <2>3, <2>4, <2>6, FloorWrite
<1>5. CASE FixLine(j)
  <2> DEFINE to == r.lines[r.item]
             q == [r EXCEPT !.pc = "apply"]
  <2>1. r.pc = "fix" /\ Write(j, r.item, to, to - r.read, "put", q)
    BY <1>5 DEF FixLine
  <2>2. r.item \in Items /\ to >= 0 /\ \A i \in r.todo : r.lines[i] >= 0
    BY <2>1 DEF LedgerIInv, Phase, Floor, Checked
  <2>3. /\ to \in Int /\ to - r.read \in Int
        /\ q \in Locals /\ q.pc = "apply" /\ q.todo = r.todo /\ q.lines = r.lines
    BY <1>1, <2>2 DEF Locals, Phases
  <2> HIDE DEF to, q
  <2>4. job'[j] = q
    BY <2>1 DEF Write, LedgerIInv, StockTyped
  <2>5. Checked(j)'
    BY <2>2, <2>3, <2>4 DEF Checked
  <2> QED
    BY <2>1, <2>2, <2>3, <2>5, FloorWrite
<1>6. ASSUME NEW i \in Items, Draw(j, i)
      PROVE  Floor'
  <2> DEFINE pc == IF r.op = "compose" THEN "make" ELSE "end"
             q == Next1(r, i, pc)
  <2>1. r.pc = "draw" /\ i \in r.todo /\ Write(j, i, Seen(j, i) - 1, -1, "draw", q)
    BY <1>6 DEF Draw
  <2>2. /\ r.item \in Items /\ r.todo \subseteq Needs(r.item)
        /\ r.op = "compose" => r.item \notin Needs(r.item)
        /\ \A l \in r.todo : ~Wrote(j, l) /\ (l \in r.moved \/ qty[l] >= 1)
        /\ \A l \in Items : Wrote(j, l) => l \in Needs(r.item)
    BY <2>1 DEF LedgerIInv, Phase, Floor, Checked
  <2>3. Seen(j, i) = qty[i] /\ qty[i] \in Int /\ (i \in r.moved \/ qty[i] - 1 >= 0)
    BY <2>1, <2>2 DEF Seen, LedgerIInv, StockTyped
  <2>4. Needs(r.item) \subseteq Items
    BY <2>2, StockAssumption DEF Needs
  <2>5. /\ q \in Locals /\ q.item = r.item /\ q.op = r.op /\ q.moved = r.moved
        /\ \/ q.pc \in {"make", "end"} /\ (q.pc = "make" => q.op = "compose")
           \/ q.pc = "draw" /\ q.todo = r.todo \ {i}
    BY <1>1, <2>1, <2>4 DEF Next1, Locals, Phases
  <2> HIDE DEF q
  <2>6. /\ job'[j] = q /\ \A l \in Items : l # i => pend'[j][l] = pend[j][l]
        /\ UNCHANGED <<qty, overdrawn>>
    BY <2>1 DEF Write, LedgerIInv, StockTyped, ledgerVars
  <2>7. \A l \in Items : Wrote(j, l)' => l \in Needs(q.item)
    BY <2>1, <2>2, <2>5, <2>6 DEF Wrote
  <2>8. Checked(j)'
    <3>1. CASE q.pc \in {"make", "end"}
      BY <2>2, <2>5, <2>6, <2>7, <3>1 DEF Checked
    <3>2. CASE q.pc = "draw" /\ q.todo = r.todo \ {i}
      <4>1. \A l \in q.todo : ~Wrote(j, l)' /\ (l \in q.moved \/ qty'[l] >= 1)
        BY <2>2, <2>4, <2>5, <2>6, <3>2 DEF Wrote
      <4> QED
        BY <2>2, <2>5, <2>6, <2>7, <3>2, <4>1 DEF Checked
    <3> QED
      BY <2>5, <3>1, <3>2
  <2>9. /\ Seen(j, i) - 1 \in Int
        /\ Seen(j, i) - 1 >= 0 \/ i \in r.moved
    BY <2>3
  <2> QED
    BY <2>1, <2>5, <2>8, <2>9, FloorWrite
<1> QED
  BY <1>2, <1>3, <1>4, <1>5, <1>6

LEMMA FloorAbort ==
  ASSUME LedgerIInv, Floor, NEW j \in Jobs, Abort(j)
  PROVE  Floor'
<1>1. /\ job'[j] = Done /\ \A i \in Items : pend'[j][i] = NoWrite
      /\ \A k \in Jobs : k # j => pend'[k] = pend[k] /\ job'[k] = job[k]
      /\ UNCHANGED <<qty, overdrawn, take>>
  BY DEF Abort, ledgerVars, LedgerIInv, StockTyped
<1>2. \A k \in Jobs : Checked(k)'
  BY <1>1, DoneTyped DEF Floor, Checked, Wrote
<1>3. Written'
  BY <1>1, DoneTyped DEF Floor, Written, Wrote
<1> QED
  BY <1>1, <1>2, <1>3 DEF Floor, Heads, AboveZero

LEMMA FloorCommit ==
  ASSUME LedgerIInv, Floor, NEW j \in Jobs, Commit(j)
  PROVE  Floor'
<1> DEFINE W == {i \in Items : Wrote(j, i)}
<1>1. /\ qty' = [i \in Items |-> Seen(j, i)]
      /\ overdrawn' = overdrawn \cup {i \in W : pend[j][i].by = "draw" /\ pend[j][i].late}
      /\ take' = IF job[j].op = "commit"
                 THEN [take EXCEPT !.st = "committed", !.applied = @ \/ W # {}] ELSE take
      /\ pend' = [pend EXCEPT ![j] = [i \in Items |-> NoWrite]]
      /\ job' = [k \in Jobs |-> IF k = j THEN Done
                                ELSE IF job[k].pc = "idle" THEN job[k]
                                ELSE [job[k] EXCEPT !.moved = @ \cup W]]
  BY DEF Commit
<1>2. \A i \in Items : i \in W <=> Wrote(j, i)
  OBVIOUS
<1> HIDE DEF W
<1>3. \A i \in Items : /\ qty'[i] = IF i \in W THEN pend[j][i].to ELSE qty[i]
                       /\ pend'[j][i] = NoWrite
  BY <1>1, <1>2 DEF LedgerIInv, StockTyped, Seen
<1>4. ASSUME NEW k \in Jobs, k # j
      PROVE  /\ pend'[k] = pend[k]
             /\ \/ job[k].pc = "idle" /\ job'[k] = job[k]
                \/ job'[k] = [job[k] EXCEPT !.moved = @ \cup W]
             /\ job[k] \in Locals
  BY <1>1, <1>4 DEF LedgerIInv, StockTyped
<1>5. overdrawn \subseteq overdrawn'
  BY <1>1
<1>6. \A k \in Jobs : Checked(k)'
  <2>1. Checked(j)'
    BY <1>1, DoneTyped DEF Checked
  <2>2. ASSUME NEW k \in Jobs, k # j
        PROVE  Checked(k)'
    <3>1. CASE job[k].pc = "idle" /\ job'[k] = job[k]
      BY <3>1 DEF Checked
    <3>2. CASE job'[k] = [job[k] EXCEPT !.moved = @ \cup W]
      <4> DEFINE q == job'[k]
      <4>1. /\ q.pc = job[k].pc /\ q.op = job[k].op /\ q.item = job[k].item
            /\ q.read = job[k].read /\ q.todo = job[k].todo /\ q.lines = job[k].lines
            /\ q.moved = job[k].moved \cup W /\ q.todo \subseteq Items
        BY <1>4, <2>2, <3>2 DEF Locals
      <4>2. Checked(k) /\ pend'[k] = pend[k]
        BY <1>4, <2>2 DEF Floor
      <4>3. \A i \in Items : i \in job[k].moved \/ qty[i] >= 1 => i \in q.moved \/ qty'[i] >= 1
        BY <1>3, <4>1
      <4>4. q.pc = "check" => Needs(q.item) \subseteq Items
        <5>1. q.pc = "check" => q.item \in Items
          BY <4>1 DEF LedgerIInv, Phase
        <5> QED
          BY <5>1, StockAssumption DEF Needs
      <4> QED
        BY <1>5, <4>1, <4>2, <4>3, <4>4 DEF Checked, Wrote
    <3> QED
      BY <1>4, <2>2, <3>1, <3>2
  <2> QED
    BY <2>1, <2>2
<1>7. Written'
  BY <1>3, <1>4, <1>5, DoneTyped DEF Floor, Written, Wrote
<1>8. AboveZero'
  <2>1. SUFFICES ASSUME NEW i \in Items, i \notin overdrawn'
                 PROVE  qty'[i] >= 0
    BY DEF AboveZero
  <2>2. qty[i] >= 0 /\ i \notin overdrawn
    BY <1>5, <2>1 DEF Floor, AboveZero
  <2>3. i \in W => pend[j][i].to >= 0
    BY <1>1, <1>2, <2>1, <2>2 DEF Floor, Written
  <2> QED
    BY <1>3, <2>2, <2>3
<1>9. Heads'
  BY <1>1 DEF Floor, Heads, LedgerIInv, StockTyped
<1> QED
  BY <1>6, <1>7, <1>8, <1>9 DEF Floor

LEMMA FloorStep ==
  StockAssumption /\ LedgerIInv /\ LedgerIInv' /\ Floor /\ [StockNext]_stockVars => Floor'
<1> SUFFICES ASSUME StockAssumption, LedgerIInv, LedgerIInv', Floor, [StockNext]_stockVars
             PROVE  Floor'
  OBVIOUS
<1>1. CASE UNCHANGED stockVars
  BY <1>1 DEF stockVars, Floor, Heads, Checked, Written, AboveZero, Wrote
<1>2. CASE OpenTake
  <2>1. /\ UNCHANGED <<qty, overdrawn, job, pend>> /\ take'.counted = take.counted
    BY <1>2 DEF OpenTake, ledgerVars, LedgerIInv, StockTyped
  <2>2. \A j \in Jobs : Checked(j)'
    BY <2>1 DEF Floor, Checked, Wrote
  <2> QED
    BY <2>1, <2>2 DEF Floor, Heads, Written, AboveZero, Wrote
<1>3. ASSUME NEW j \in Jobs, ReadStock(j) \/ ReadCost(j)
      PROVE  Floor'
  BY <1>3, FloorReadCost DEF LedgerIInv, StockTyped
<1>4. ASSUME NEW j \in Jobs,
             \/ CommitTake(j) \/ CancelTake(j) \/ PutCancel(j) \/ PutCount(j) \/ FixLine(j)
             \/ Put(j) \/ Make(j) \/ Add(j) \/ Commit(j) \/ Abort(j)
      PROVE  Floor'
  BY <1>4, FloorTakes, FloorWrites, FloorCommit, FloorAbort
<1>5. ASSUME NEW j \in Jobs, NEW i \in Items,
             \/ Check(j, i) \/ Draw(j, i) \/ ReadLive(j, i)
             \/ \E op \in {"compose", "sell"} : Gather(j, op, i)
             \/ \E n \in Amounts :
                  \/ Count(j, i, n)
                  \/ \E op \in {"adjust", "set"} : Correct(j, op, i, n)
                  \/ \E p \in Prices : Receive(j, i, n, p)
      PROVE  Floor'
  BY <1>5, FloorCheck, FloorWrites, FloorReads, FloorRequests
<1> QED
  BY <1>1, <1>2, <1>3, <1>4, <1>5 DEF StockNext

(***************************************************************************)
(* No row is below zero but one from which a sale or a kit drew after      *)
(* another request had moved what it checked.                              *)
(***************************************************************************)
THEOREM StockAboveZero == StockSpec => []AboveZero
<1>1. LedgerIInv /\ Floor => AboveZero
  BY DEF Floor
<1>2. LedgerIInv /\ Floor /\ [StockNext]_stockVars => (LedgerIInv /\ Floor)'
  BY LedgerStep, FloorStep, StockAssumption
<1> QED
  BY <1>1, <1>2, LedgerStart, FloorStart, PTL DEF StockSpec

-----------------------------------------------------------------------------
(* How requests go on *)

\* Which request is in which statement.
Named ==
    \A j \in Jobs : /\ job[j].pc = "cancel" => job[j].op = "cancel"
                    /\ job[j].pc \in {"apply", "fix"} => job[j].op = "commit"

\* The request goes on with what it was asked for.
GoesOn(j) ==
    /\ job'[j].op = job[j].op /\ job'[j].item = job[j].item /\ job'[j].price = job[j].price
    /\ job'[j].pc = "cancel" => job[j].pc = "cancel"
    /\ job'[j].pc \in {"apply", "fix"} => job[j].pc \in {"apply", "fix"}
    /\ job'[j].pc # "price"

Others(j) == \A k \in Jobs \ {j} : job'[k] = job[k]

LEMMA WriteGoesOn ==
  ASSUME StockTyped, NEW j \in Jobs, Put(j) \/ Make(j) \/ Add(j) \/ FixLine(j)
  PROVE  /\ job[j].pc # "idle" /\ GoesOn(j) /\ Others(j)
         /\ UNCHANGED <<ledgerVars, requests, take, crossed>>
<1>1. job[j] \in Locals
  BY DEF StockTyped
<1>2. PICK pc \in {"end", "apply"} :
         /\ job' = [job EXCEPT ![j] = [job[j] EXCEPT !.pc = pc]]
         /\ pc = "apply" => job[j].pc = "fix"
         /\ job[j].pc # "idle"
         /\ UNCHANGED <<ledgerVars, requests, take, crossed>>
  BY DEF Put, Make, Add, FixLine, Write
<1>3. job'[j] = [job[j] EXCEPT !.pc = pc] /\ \A k \in Jobs \ {j} : job'[k] = job[k]
  BY <1>2 DEF StockTyped
<1> QED
  BY <1>1, <1>2, <1>3 DEF Locals, GoesOn, Others

LEMMA PartGoesOn ==
  ASSUME StockTyped, NEW j \in Jobs, NEW i \in Items, Check(j, i) \/ Draw(j, i)
  PROVE  /\ job[j].pc # "idle" /\ GoesOn(j) /\ Others(j)
         /\ UNCHANGED <<ledgerVars, requests, take, crossed>>
<1>1. job[j] \in Locals
  BY DEF StockTyped
<1>2. ASSUME NEW pc \in {"draw", "make", "end"}, job[j].pc \in {"check", "draw"}
      PROVE  /\ Next1(job[j], i, pc).op = job[j].op
             /\ Next1(job[j], i, pc).item = job[j].item
             /\ Next1(job[j], i, pc).price = job[j].price
             /\ Next1(job[j], i, pc).pc \in {"check", "draw", "make", "end"}
             /\ [Next1(job[j], i, pc) EXCEPT !.moved = @ \ {i}].op = job[j].op
             /\ [Next1(job[j], i, pc) EXCEPT !.moved = @ \ {i}].item = job[j].item
             /\ [Next1(job[j], i, pc) EXCEPT !.moved = @ \ {i}].price = job[j].price
             /\ [Next1(job[j], i, pc) EXCEPT !.moved = @ \ {i}].pc \in {"check", "draw", "make", "end"}
  BY <1>1, <1>2 DEF Next1, Locals
<1>3. PICK q : /\ job' = [job EXCEPT ![j] = q] /\ job[j].pc \in {"check", "draw"}
               /\ q.op = job[j].op /\ q.item = job[j].item /\ q.price = job[j].price
               /\ q.pc \in {"check", "draw", "make", "end"}
               /\ UNCHANGED <<ledgerVars, requests, take, crossed>>
  <2>1. CASE Check(j, i)
    BY <1>2, <2>1 DEF Check
  <2>2. CASE Draw(j, i)
    BY <1>2, <2>2 DEF Draw, Write
  <2> QED
    BY <2>1, <2>2
<1>4. job'[j] = q /\ \A k \in Jobs \ {j} : job'[k] = job[k]
  BY <1>3 DEF StockTyped
<1> QED
  BY <1>3, <1>4 DEF GoesOn, Others

LEMMA ReadsGoOn ==
  ASSUME StockTyped, NEW j \in Jobs, ReadStock(j) \/ ReadCost(j) \/ \E i \in Items : ReadLive(j, i)
  PROVE  /\ job[j].pc # "idle" /\ Others(j) /\ job'[j].op = job[j].op
         /\ UNCHANGED <<ledgerVars, requests, take, crossed>>
         /\ job'[j].pc # "cancel"
         /\ job'[j].pc \in {"apply", "fix"} => job[j].pc = "apply"
<1>1. job[j] \in Locals
  BY DEF StockTyped
<1>2. CASE ReadCost(j)
  <2> DEFINE p == Average(job[j].read, cost[job[j].item], job[j].n, job[j].price)
  <2>1. job' = [job EXCEPT ![j].pc = "add", ![j].price = p] /\ job[j].pc = "price"
        /\ UNCHANGED <<ledgerVars, requests, take, crossed>>
    BY <1>2 DEF ReadCost
  <2> HIDE DEF p
  <2> DEFINE q == [job[j] EXCEPT !.pc = "add", !.price = p]
  <2>2. q.op = job[j].op /\ q.pc = "add"
    BY <1>1 DEF Locals
  <2>3. job'[j] = q /\ Others(j)
    BY <2>1 DEF StockTyped, Others
  <2> HIDE DEF q
  <2> QED
    BY <2>1, <2>2, <2>3
<1>3. ASSUME NEW i \in Items, ReadLive(j, i)
      PROVE  /\ job[j].pc = "apply" /\ Others(j) /\ job'[j].op = job[j].op
             /\ UNCHANGED <<ledgerVars, requests, take, crossed>>
             /\ job'[j].pc \in {"apply", "fix"}
  <2> DEFINE r == job[j]
             pc == IF Seen(j, i) # r.lines[i] THEN "fix" ELSE "apply"
             q == [r EXCEPT !.item = i, !.read = Seen(j, i), !.moved = @ \ {i}, !.pc = pc,
                            !.todo = @ \ {i}]
  <2>1. r.pc = "apply" /\ job' = [job EXCEPT ![j] = q]
        /\ UNCHANGED <<ledgerVars, requests, take, crossed>>
    BY <1>3 DEF ReadLive
  <2>2. q.op = r.op /\ q.pc \in {"apply", "fix"}
    BY <1>1 DEF Locals
  <2> HIDE DEF q
  <2>3. job'[j] = q /\ Others(j)
    BY <2>1 DEF StockTyped, Others
  <2> QED
    BY <2>1, <2>2, <2>3
<1>4. CASE ReadStock(j)
  <2> DEFINE n == Seen(j, job[j].item)
  <2>1. job' = [job EXCEPT ![j].pc = "price", ![j].read = n] /\ job[j].pc = "cost"
        /\ UNCHANGED <<ledgerVars, requests, take, crossed>>
    BY <1>4 DEF ReadStock
  <2> HIDE DEF n
  <2> DEFINE q == [job[j] EXCEPT !.pc = "price", !.read = n]
  <2>2. q.op = job[j].op /\ q.pc = "price"
    BY <1>1 DEF Locals
  <2>3. job'[j] = q /\ Others(j)
    BY <2>1 DEF StockTyped, Others
  <2> HIDE DEF q
  <2> QED
    BY <2>1, <2>2, <2>3
<1> QED
  BY <1>2, <1>3, <1>4

\* What a request is asked for when it begins.
LEMMA RequestsBegin ==
  ASSUME StockTyped, NEW j \in Jobs, NEW i \in Items,
         \/ \E op \in {"compose", "sell"} : Gather(j, op, i)
         \/ \E n \in Amounts :
              \/ Count(j, i, n)
              \/ \E op \in {"adjust", "set"} : Correct(j, op, i, n)
              \/ \E p \in Prices : Receive(j, i, n, p)
  PROVE  /\ job[j].pc = "idle" /\ Others(j)
         /\ UNCHANGED <<ledgerVars, take, crossed>>
         /\ job'[j].op \notin {"commit", "cancel"}
         /\ job'[j].pc \notin {"cancel", "apply", "fix", "price"}
         /\ job'[j].op = "receive" => job'[j].price \in Prices
<1>1. ASSUME NEW q, Begin(j, q)
      PROVE  job[j].pc = "idle" /\ Others(j) /\ job'[j] = q
  BY <1>1 DEF Begin, StockTyped, Others
<1>2. CASE \E op \in {"compose", "sell"} : Gather(j, op, i)
  <2>1. PICK op \in {"compose", "sell"} : Gather(j, op, i)
    BY <1>2
  <2> DEFINE q == [Done EXCEPT !.pc = "check", !.op = op, !.item = i, !.todo = Needs(i)]
  <2>2. q.op = op /\ q.pc = "check"
    BY DEF Done
  <2>3. Begin(j, q) /\ UNCHANGED <<ledgerVars, take, crossed>>
    BY <2>1 DEF Gather
  <2> HIDE DEF q
  <2> QED
    BY <1>1, <2>2, <2>3
<1>3. ASSUME NEW n \in Amounts, Count(j, i, n)
      PROVE  /\ job[j].pc = "idle" /\ Others(j) /\ UNCHANGED <<ledgerVars, take, crossed>>
             /\ job'[j].op = "count" /\ job'[j].pc = "line"
  <2> DEFINE q == [Done EXCEPT !.pc = "line", !.op = "count", !.item = i, !.n = n]
  <2>2. q.op = "count" /\ q.pc = "line"
    BY DEF Done
  <2>3. Begin(j, q) /\ UNCHANGED <<ledgerVars, take, crossed>>
    BY <1>3 DEF Count
  <2> HIDE DEF q
  <2> QED
    BY <1>1, <2>2, <2>3
<1>4. ASSUME NEW n \in Amounts, NEW op \in {"adjust", "set"}, Correct(j, op, i, n)
      PROVE  /\ job[j].pc = "idle" /\ Others(j) /\ UNCHANGED <<ledgerVars, take, crossed>>
             /\ job'[j].op = op /\ job'[j].pc = "put"
  <2> DEFINE q == [Done EXCEPT !.pc = "put", !.op = op, !.item = i, !.n = n, !.read = qty[i]]
  <2>2. q.op = op /\ q.pc = "put"
    BY DEF Done
  <2>3. Begin(j, q) /\ UNCHANGED <<ledgerVars, take, crossed>>
    BY <1>4 DEF Correct
  <2> HIDE DEF q
  <2> QED
    BY <1>1, <2>2, <2>3
<1>5. ASSUME NEW n \in Amounts, NEW p \in Prices, Receive(j, i, n, p)
      PROVE  /\ job[j].pc = "idle" /\ Others(j) /\ UNCHANGED <<ledgerVars, take, crossed>>
             /\ job'[j].op = "receive" /\ job'[j].pc = "cost" /\ job'[j].price = p
  <2> DEFINE q == [Done EXCEPT !.pc = "cost", !.op = "receive", !.item = i, !.n = n, !.price = p]
  <2>2. q.op = "receive" /\ q.pc = "cost" /\ q.price = p
    BY DEF Done
  <2>3. Begin(j, q) /\ UNCHANGED <<ledgerVars, take, crossed>>
    BY <1>5 DEF Receive
  <2> HIDE DEF q
  <2> QED
    BY <1>1, <2>2, <2>3
<1> QED
  BY <1>2, <1>3, <1>4, <1>5

\* A request to end the take begins only while it is open.
LEMMA EndingBegins ==
  ASSUME StockTyped, NEW j \in Jobs, CommitTake(j) \/ CancelTake(j)
  PROVE  /\ job[j].pc = "idle" /\ Others(j) /\ take.st = "open"
         /\ UNCHANGED <<ledgerVars, take>> /\ crossed' = (crossed \/ Ending # {})
         /\ \/ job'[j].pc = "apply" /\ job'[j].op = "commit"
            \/ job'[j].pc = "cancel" /\ job'[j].op = "cancel"
<1>1. ASSUME NEW q, Begin(j, q)
      PROVE  job[j].pc = "idle" /\ Others(j) /\ job'[j] = q
  BY <1>1 DEF Begin, StockTyped, Others
<1>2. CASE CommitTake(j)
  <2> DEFINE q == [Done EXCEPT !.pc = "apply", !.op = "commit", !.lines = take.counted,
                               !.todo = Counted(take.counted)]
  <2>1. q.op = "commit" /\ q.pc = "apply"
    BY DEF Done
  <2>2. Begin(j, q) /\ take.st = "open" /\ UNCHANGED <<ledgerVars, take>>
        /\ crossed' = (crossed \/ Ending # {})
    BY <1>2 DEF CommitTake
  <2> HIDE DEF q
  <2> QED
    BY <1>1, <2>1, <2>2
<1>3. CASE CancelTake(j)
  <2> DEFINE q == [Done EXCEPT !.pc = "cancel", !.op = "cancel"]
  <2>1. q.op = "cancel" /\ q.pc = "cancel"
    BY DEF Done
  <2>2. Begin(j, q) /\ take.st = "open" /\ UNCHANGED <<ledgerVars, take>>
        /\ crossed' = (crossed \/ Ending # {})
    BY <1>3 DEF CancelTake
  <2> HIDE DEF q
  <2> QED
    BY <1>1, <2>1, <2>2
<1> QED
  BY <1>2, <1>3

-----------------------------------------------------------------------------
(* How a take ends *)

\* Two requests end the take at once only if they crossed; once one of the
\* others has ended it nothing else can, and only a commit moves stock.
Ends ==
    /\ \A j, k \in Ending : j # k => crossed
    /\ ~crossed => /\ take.st # "open" => Ending = {}
                   /\ take.applied => take.st = "committed"

EndsIInv == StockTyped /\ Named /\ Ends

\* One request goes on or is given up, and the take is as it was, or opened.
LEMMA EndsKept ==
  ASSUME EndsIInv, NEW j \in Jobs, Others(j), UNCHANGED crossed,
         take'.applied = take.applied, take'.st = take.st \/ take.st = "none",
         \/ job'[j].pc = "idle"
         \/ job'[j].op \notin {"commit", "cancel"}
         \/ job[j].pc # "idle" /\ job'[j].op = job[j].op
  PROVE  Ends'
<1>1. Ending' \subseteq Ending
  BY DEF Ending, Others
<1> QED
  BY <1>1 DEF EndsIInv, Ends

\* A request ends the take.
LEMMA EndsDone ==
  ASSUME EndsIInv, NEW j \in Ending, Others(j), UNCHANGED crossed, job'[j].pc = "idle",
         take'.st = "committed" \/ (take'.st = "cancelled" /\ take'.applied = take.applied)
  PROVE  Ends'
<1>1. Ending' = Ending \ {j}
  BY DEF Ending, Others
<1>2. ~crossed => Ending' = {} /\ take.st = "open" /\ ~take.applied
  BY <1>1 DEF EndsIInv, Ends, StockTyped
<1> QED
  BY <1>1, <1>2 DEF EndsIInv, Ends

LEMMA EndsStep == EndsIInv /\ StockTyped' /\ [StockNext]_stockVars => Named' /\ Ends'
<1> SUFFICES ASSUME EndsIInv, StockTyped', [StockNext]_stockVars
             PROVE  Named' /\ Ends'
  OBVIOUS
<1>0. StockTyped /\ Named
  BY DEF EndsIInv
<1>1. CASE UNCHANGED stockVars
  BY <1>1 DEF stockVars, EndsIInv, Named, Ends, Ending
<1>2. CASE OpenTake
  <2>1. /\ UNCHANGED <<job, crossed>> /\ take.st = "none"
        /\ take'.applied = take.applied /\ take'.st = "open"
    BY <1>0, <1>2 DEF OpenTake, StockTyped
  <2> QED
    BY <2>1 DEF EndsIInv, Named, Ends, Ending
<1>3. ASSUME NEW j \in Jobs, Put(j) \/ Make(j) \/ Add(j) \/ FixLine(j)
      PROVE  Named' /\ Ends'
  <2>1. /\ job[j].pc # "idle" /\ GoesOn(j) /\ Others(j) /\ UNCHANGED <<take, crossed>>
    BY <1>0, <1>3, WriteGoesOn
  <2> QED
    BY <1>0, <2>1, EndsKept DEF Named, GoesOn, Others
<1>4. ASSUME NEW j \in Jobs, NEW i \in Items, Check(j, i) \/ Draw(j, i)
      PROVE  Named' /\ Ends'
  <2>1. /\ job[j].pc # "idle" /\ GoesOn(j) /\ Others(j) /\ UNCHANGED <<take, crossed>>
    BY <1>0, <1>4, PartGoesOn
  <2> QED
    BY <1>0, <2>1, EndsKept DEF Named, GoesOn, Others
<1>5. ASSUME NEW j \in Jobs, ReadStock(j) \/ ReadCost(j) \/ \E i \in Items : ReadLive(j, i)
      PROVE  Named' /\ Ends'
  <2>1. /\ job[j].pc # "idle" /\ Others(j) /\ UNCHANGED <<take, crossed>>
        /\ job'[j].op = job[j].op /\ job'[j].pc # "cancel"
        /\ job'[j].pc \in {"apply", "fix"} => job[j].pc = "apply"
    BY <1>0, <1>5, ReadsGoOn
  <2> QED
    BY <1>0, <2>1, EndsKept DEF Named, Others
<1>6. ASSUME NEW j \in Jobs, NEW i \in Items,
             \/ \E op \in {"compose", "sell"} : Gather(j, op, i)
             \/ \E n \in Amounts :
                  \/ Count(j, i, n)
                  \/ \E op \in {"adjust", "set"} : Correct(j, op, i, n)
                  \/ \E p \in Prices : Receive(j, i, n, p)
      PROVE  Named' /\ Ends'
  <2>1. /\ Others(j) /\ UNCHANGED <<take, crossed>>
        /\ job'[j].op \notin {"commit", "cancel"} /\ job'[j].pc \notin {"cancel", "apply", "fix"}
    BY <1>0, <1>6, RequestsBegin
  <2> QED
    BY <1>0, <2>1, EndsKept DEF Named, Others
<1>7. ASSUME NEW j \in Jobs, CommitTake(j) \/ CancelTake(j)
      PROVE  Named' /\ Ends'
  <2>1. /\ Others(j) /\ take.st = "open" /\ UNCHANGED take
        /\ crossed' = (crossed \/ Ending # {})
        /\ \/ job'[j].pc = "apply" /\ job'[j].op = "commit"
           \/ job'[j].pc = "cancel" /\ job'[j].op = "cancel"
    BY <1>0, <1>7, EndingBegins
  <2>2. Ending' \subseteq Ending \cup {j}
    BY <2>1 DEF Ending, Others
  <2> QED
    BY <1>0, <2>1, <2>2 DEF EndsIInv, Ends, Named, Others
<1>8. ASSUME NEW j \in Jobs, PutCancel(j) \/ PutCount(j) \/ Abort(j) \/ Commit(j)
      PROVE  Named' /\ Ends'
  <2>1. job'[j].pc = "idle"
    BY <1>0, <1>8, DoneTyped DEF PutCancel, PutCount, Abort, Commit, StockTyped
  <2>2. CASE PutCancel(j) \/ PutCount(j) \/ Abort(j)
    <3>1. Others(j) /\ UNCHANGED crossed
      BY <1>0, <2>2 DEF PutCancel, PutCount, Abort, StockTyped, Others
    <3>2. Named'
      BY <1>0, <2>1, <3>1 DEF Named, Others
    <3>3. CASE PutCount(j) \/ Abort(j)
      <4>1. take'.applied = take.applied /\ take'.st = take.st
        BY <1>0, <3>3 DEF PutCount, Abort, StockTyped
      <4> QED
        BY <2>1, <3>1, <3>2, <4>1, EndsKept
    <3>4. CASE PutCancel(j)
      <4>1. take'.applied = take.applied /\ take'.st = "cancelled" /\ job[j].pc = "cancel"
        BY <1>0, <3>4 DEF PutCancel, StockTyped
      <4>2. j \in Ending
        BY <1>0, <4>1 DEF Named, Ending
      <4> QED
        BY <2>1, <3>1, <3>2, <4>1, <4>2, EndsDone
    <3> QED
      BY <2>2, <3>3, <3>4
  <2>3. CASE Commit(j)
    <3> DEFINE W == {i \in Items : Wrote(j, i)}
    <3>1. /\ Ready(job[j]) /\ UNCHANGED crossed
          /\ take' = IF job[j].op = "commit" THEN [take EXCEPT !.st = "committed", !.applied = @ \/ W # {}]
                     ELSE take
          /\ job' = [k \in Jobs |-> IF k = j THEN Done
                                    ELSE IF job[k].pc = "idle" THEN job[k]
                                    ELSE [job[k] EXCEPT !.moved = @ \cup W]]
      BY <2>3 DEF Commit
    <3> HIDE DEF W
    <3>2. ASSUME NEW k \in Jobs \ {j}
          PROVE  job'[k].pc = job[k].pc /\ job'[k].op = job[k].op
      <4>1. job[k] \in Locals
        BY <1>0 DEF StockTyped
      <4>2. /\ [job[k] EXCEPT !.moved = @ \cup W].pc = job[k].pc
            /\ [job[k] EXCEPT !.moved = @ \cup W].op = job[k].op
        BY <4>1 DEF Locals
      <4> QED
        BY <3>1, <4>2
    <3>3. Named'
      BY <1>0, <2>1, <3>2 DEF Named
    <3>4. Ending' = Ending \ {j}
      BY <2>1, <3>2 DEF Ending
    <3>5. CASE job[j].op = "commit"
      <4>1. j \in Ending
        BY <3>1, <3>5 DEF Ready, Ending
      <4>2. take'.st = "committed"
        BY <1>0, <3>1, <3>5 DEF StockTyped
      <4>3. ~crossed => Ending' = {}
        BY <3>4, <4>1 DEF EndsIInv, Ends
      <4> QED
        BY <3>1, <3>3, <3>4, <4>2, <4>3 DEF EndsIInv, Ends
    <3>6. CASE job[j].op # "commit"
      <4>1. UNCHANGED take
        BY <3>1, <3>6
      <4> QED
        BY <3>1, <3>3, <3>4, <4>1 DEF EndsIInv, Ends
    <3> QED
      BY <3>5, <3>6
  <2> QED
    BY <1>8, <2>2, <2>3
<1> QED
  BY <1>1, <1>2, <1>3, <1>4, <1>5, <1>6, <1>7, <1>8 DEF StockNext

LEMMA EndsStart == StockInit => Named /\ Ends
<1> SUFFICES ASSUME StockInit
             PROVE  Named /\ Ends
  OBVIOUS
<1>1. \A j \in Jobs : job[j].pc = "idle"
  BY DoneTyped DEF StockInit
<1>2. Ending = {}
  BY <1>1 DEF Ending
<1>3. ~take.applied
  BY DEF StockInit
<1> QED
  BY <1>1, <1>2, <1>3 DEF Named, Ends

(***************************************************************************)
(* A stock take that ends cancelled has moved no stock, except where two   *)
(* requests were ending it at once: what each read of the status before    *)
(* its transaction is all that keeps them apart.                           *)
(***************************************************************************)
THEOREM CancelMovesNothing == StockSpec => []CancelledMovedNothing
<1>1. EndsIInv => CancelledMovedNothing
  BY DEF EndsIInv, Ends, CancelledMovedNothing
<1>2. LedgerIInv /\ Named /\ Ends /\ [StockNext]_stockVars => (LedgerIInv /\ Named /\ Ends)'
  BY LedgerStep, EndsStep, StockAssumption DEF LedgerIInv, EndsIInv
<1>3. LedgerIInv /\ Named /\ Ends => EndsIInv
  BY DEF LedgerIInv, EndsIInv
<1> QED
  BY <1>1, <1>2, <1>3, LedgerStart, EndsStart, PTL DEF StockSpec

-----------------------------------------------------------------------------
(* The average cost *)

Between(c) == \E lo, hi \in Prices : lo <= c /\ c <= hi

LEMMA TimesMono ==
  ASSUME NEW a \in Nat, NEW b \in Nat, NEW c \in Nat, b <= c
  PROVE  a * b <= a * c
<1>1. c - b \in Nat /\ c = b + (c - b)
  OBVIOUS
<1>2. a * (c - b) \in Nat
  BY <1>1
<1>3. a * c = a * b + a * (c - b)
  OBVIOUS
<1> QED
  BY <1>2, <1>3

\* A quotient lies where the dividend lies.
LEMMA QuotientBetween ==
  ASSUME NEW lo \in Nat, NEW hi \in Nat, NEW x \in Nat, NEW d \in Nat \ {0},
         d * lo <= x, x <= d * hi
  PROVE  lo <= x \div d /\ x \div d <= hi
<1> DEFINE q == x \div d
<1>1. q \in Nat /\ d * q <= x /\ x < d * q + d
  OBVIOUS
<1> HIDE DEF q
<1>2. ASSUME q < lo
      PROVE  FALSE
  <2>1. q + 1 <= lo /\ q + 1 \in Nat
    BY <1>1, <1>2
  <2>2. d * (q + 1) <= d * lo
    BY <2>1, TimesMono
  <2>3. d * (q + 1) = d * q + d
    BY <1>1
  <2> QED
    BY <1>1, <2>2, <2>3
<1>3. ASSUME hi < q
      PROVE  FALSE
  <2>1. hi + 1 <= q /\ hi + 1 \in Nat
    BY <1>1, <1>3
  <2>2. d * (hi + 1) <= d * q
    BY <1>1, <2>1, TimesMono
  <2>3. d * (hi + 1) = d * hi + d
    OBVIOUS
  <2>4. d * hi \in Nat /\ d * q \in Nat
    BY <1>1
  <2> QED
    BY <1>1, <2>2, <2>3, <2>4
<1> QED
  BY <1>1, <1>2, <1>3 DEF q

\* The average of what is there and what comes lies between their prices.
LEMMA AverageBetween ==
  ASSUME NEW old \in Nat, NEW avg \in Nat, NEW n \in Nat, NEW p \in Nat,
         NEW lo \in Nat, NEW hi \in Nat, lo <= avg, avg <= hi, lo <= p, p <= hi
  PROVE  lo <= Average(old, avg, n, p) /\ Average(old, avg, n, p) <= hi
<1> DEFINE x == old * avg + n * p
           d == old + n
<1>1. /\ old * lo <= old * avg /\ old * avg <= old * hi
      /\ n * lo <= n * p /\ n * p <= n * hi
  BY TimesMono
<1>2. d * lo = old * lo + n * lo /\ d * hi = old * hi + n * hi
  OBVIOUS
<1>3. /\ old * lo \in Nat /\ old * avg \in Nat /\ old * hi \in Nat
      /\ n * lo \in Nat /\ n * p \in Nat /\ n * hi \in Nat
  OBVIOUS
<1>4. d * lo <= x /\ x <= d * hi /\ x \in Nat /\ d \in Nat
  BY <1>1, <1>2, <1>3
<1>5. CASE d > 0
  <2>1. Average(old, avg, n, p) = x \div d
    BY <1>5 DEF Average
  <2> HIDE DEF x, d
  <2> QED
    BY <1>4, <1>5, <2>1, QuotientBetween
<1>6. CASE ~(d > 0)
  BY <1>6 DEF Average
<1> QED
  BY <1>5, <1>6

LEMMA AverageOfPrices ==
  ASSUME StockAssumption, NEW old \in Nat, NEW avg \in Int, NEW n \in Nat, NEW p \in Int,
         Between(avg), Between(p)
  PROVE  Between(Average(old, avg, n, p))
<1>1. PICK l1 \in Prices, h1 \in Prices : l1 <= avg /\ avg <= h1
  BY DEF Between
<1>2. PICK l2 \in Prices, h2 \in Prices : l2 <= p /\ p <= h2
  BY DEF Between
<1>3. {l1, l2, h1, h2} \subseteq Prices /\ l1 \in Nat /\ l2 \in Nat /\ h1 \in Nat /\ h2 \in Nat
  BY DEF StockAssumption
<1>4. PICK lo \in {l1, l2} : lo <= avg /\ lo <= p
  BY <1>1, <1>2, <1>3
<1>5. PICK hi \in {h1, h2} : avg <= hi /\ p <= hi
  BY <1>1, <1>2, <1>3
<1>6. lo \in Nat /\ hi \in Nat /\ avg \in Nat /\ p \in Nat /\ lo \in Prices /\ hi \in Prices
  BY <1>1, <1>2, <1>3, <1>4, <1>5
<1> QED
  BY <1>4, <1>5, <1>6, AverageBetween DEF Between

-----------------------------------------------------------------------------

\* What a receipt will write as the cost is a mean of prices, as the cost is, and
\* the quantity it averages over is not negative.
Priced ==
    \A j \in Jobs : /\ job[j].op = "receive"
                    /\ job[j].item \notin overdrawn
                    /\ job[j].item \in Items
                    => /\ Between(job[j].price)
                       /\ job[j].pc = "price" => job[j].read >= 0

CostIInv == StockTyped /\ Named /\ Priced /\ CostBetween

LEMMA CostBetweenIs ==
  CostBetween <=> \A i \in Items : i \notin overdrawn => Between(cost[i])
  BY DEF CostBetween, Between

\* Requests that keep what they were asked for, and others that receive nothing.
LEMMA PricedKept ==
  ASSUME CostIInv, UNCHANGED <<cost, overdrawn>>,
         \A j \in Jobs : \/ job'[j].op # "receive"
                         \/ /\ job'[j].op = job[j].op /\ job'[j].item = job[j].item
                            /\ job'[j].price = job[j].price
                            /\ job'[j].pc = "price" => job[j].pc = "price" /\ job'[j].read = job[j].read
                         \/ job'[j].price \in Prices /\ job'[j].pc # "price"
  PROVE  Priced' /\ CostBetween'
<1>1. \A p \in Prices : Between(p)
  BY StockAssumption DEF Between, StockAssumption
<1>2. ASSUME NEW j \in Jobs, job'[j].op = "receive", job'[j].item \in Items, job'[j].item \notin overdrawn
      PROVE  Between(job'[j].price) /\ (job'[j].pc = "price" => job'[j].read >= 0)
  BY <1>1, <1>2 DEF CostIInv, Priced
<1>3. Priced'
  BY <1>2 DEF Priced, Between
<1>4. CostBetween'
  BY DEF CostIInv, CostBetween
<1> QED
  BY <1>3, <1>4

\* One receipt reads.
LEMMA PricedOne ==
  ASSUME CostIInv, NEW j \in Jobs, NEW q, UNCHANGED <<cost, overdrawn>>,
         job'[j] = q, \A k \in Jobs \ {j} : job'[k] = job[k],
         q.op = "receive" /\ q.item \notin overdrawn /\ q.item \in Items
           => Between(q.price) /\ (q.pc = "price" => q.read >= 0)
  PROVE  Priced' /\ CostBetween'
<1>1. ASSUME NEW k \in Jobs, job'[k].op = "receive", job'[k].item \in Items, job'[k].item \notin overdrawn
      PROVE  Between(job'[k].price) /\ (job'[k].pc = "price" => job'[k].read >= 0)
  <2>1. CASE k = j
    BY <1>1, <2>1
  <2>2. CASE k # j
    BY <1>1, <2>2 DEF CostIInv, Priced
  <2> QED
    BY <2>1, <2>2
<1>2. Priced'
  BY <1>1 DEF Priced, Between
<1>3. CostBetween'
  BY DEF CostIInv, CostBetween
<1> QED
  BY <1>2, <1>3

LEMMA PricedRead ==
  ASSUME CostIInv, LedgerIInv, AboveZero, NEW j \in Jobs, ReadCost(j)
  PROVE  Priced' /\ CostBetween'
<1> DEFINE r == job[j]
           p == Average(r.read, cost[r.item], r.n, r.price)
           q == [r EXCEPT !.pc = "add", !.price = p]
<1>1. r \in Locals /\ r.item \in Items /\ r.pc = "price" /\ cost[r.item] \in Int
  BY DEF LedgerIInv, StockTyped, Phase, ReadCost
<1>2. job' = [job EXCEPT ![j].pc = "add", ![j].price = p] /\ UNCHANGED <<cost, overdrawn>>
  BY DEF ReadCost, ledgerVars
<1>3. ASSUME r.op = "receive", r.item \notin overdrawn
      PROVE  Between(p)
  <2>1. r.read \in Nat /\ Between(r.price)
    BY <1>1, <1>3 DEF CostIInv, Priced, Locals
  <2>2. Between(cost[r.item])
    BY <1>1, <1>3 DEF CostIInv, CostBetween, Between
  <2>3. r.n \in Nat /\ r.price \in Int
    BY <1>1 DEF Locals
  <2> QED
    BY <1>1, <2>1, <2>2, <2>3, StockAssumption, AverageOfPrices
<1> HIDE DEF p
<1>4. q.op = r.op /\ q.item = r.item /\ q.price = p /\ q.pc = "add"
  BY <1>1 DEF Locals
<1>5. job'[j] = q /\ \A k \in Jobs \ {j} : job'[k] = job[k]
  BY <1>2 DEF LedgerIInv, StockTyped
<1> HIDE DEF q
<1> QED
  BY <1>2, <1>3, <1>4, <1>5, PricedOne

LEMMA PricedReadStock ==
  ASSUME CostIInv, LedgerIInv, AboveZero, NEW j \in Jobs, ReadStock(j)
  PROVE  Priced' /\ CostBetween'
<1> DEFINE r == job[j]
           n == Seen(j, r.item)
           q == [r EXCEPT !.pc = "price", !.read = n]
<1>1. r \in Locals /\ r.item \in Items /\ n = qty[r.item] /\ qty[r.item] \in Int
  BY DEF LedgerIInv, StockTyped, Phase, Clean, Seen, ReadStock
<1>2. job' = [job EXCEPT ![j].pc = "price", ![j].read = n] /\ UNCHANGED <<cost, overdrawn>>
  BY DEF ReadStock, ledgerVars
<1>3. r.op = "receive" /\ r.item \notin overdrawn => Between(r.price) /\ n >= 0
  BY <1>1 DEF CostIInv, Priced, AboveZero
<1> HIDE DEF n
<1>4. q.op = r.op /\ q.item = r.item /\ q.price = r.price /\ q.read = n
  BY <1>1 DEF Locals
<1>5. job'[j] = q /\ \A k \in Jobs \ {j} : job'[k] = job[k]
  BY <1>2 DEF LedgerIInv, StockTyped
<1> HIDE DEF q
<1> QED
  BY <1>2, <1>3, <1>4, <1>5, PricedOne

LEMMA PricedCommit ==
  ASSUME CostIInv, NEW j \in Jobs, Commit(j)
  PROVE  Priced' /\ CostBetween'
<1> DEFINE W == {i \in Items : Wrote(j, i)}
<1>1. /\ overdrawn \subseteq overdrawn'
      /\ cost' = IF job[j].op = "receive" THEN [cost EXCEPT ![job[j].item] = job[j].price] ELSE cost
      /\ job' = [k \in Jobs |-> IF k = j THEN Done
                                ELSE IF job[k].pc = "idle" THEN job[k]
                                ELSE [job[k] EXCEPT !.moved = @ \cup W]]
  BY DEF Commit
<1> HIDE DEF W
<1>2. job'[j].op # "receive"
  BY <1>1 DEF Done
<1>3. ASSUME NEW k \in Jobs \ {j}
      PROVE  /\ job'[k].op = job[k].op /\ job'[k].item = job[k].item /\ job'[k].price = job[k].price
             /\ job'[k].pc = job[k].pc /\ job'[k].read = job[k].read
  <2>1. job[k] \in Locals
    BY DEF CostIInv, StockTyped
  <2>2. /\ [job[k] EXCEPT !.moved = @ \cup W].op = job[k].op
        /\ [job[k] EXCEPT !.moved = @ \cup W].item = job[k].item
        /\ [job[k] EXCEPT !.moved = @ \cup W].price = job[k].price
        /\ [job[k] EXCEPT !.moved = @ \cup W].pc = job[k].pc
        /\ [job[k] EXCEPT !.moved = @ \cup W].read = job[k].read
    BY <2>1 DEF Locals
  <2> QED
    BY <1>1, <2>2
<1>4. ASSUME NEW k \in Jobs, job'[k].op = "receive", job'[k].item \in Items, job'[k].item \notin overdrawn'
      PROVE  Between(job'[k].price) /\ (job'[k].pc = "price" => job'[k].read >= 0)
  BY <1>1, <1>2, <1>3, <1>4 DEF CostIInv, Priced
<1>5. ASSUME NEW i \in Items, i \notin overdrawn'
      PROVE  Between(cost'[i])
  <2>1. cost'[i] = cost[i] \/ (job[j].op = "receive" /\ i = job[j].item /\ cost'[i] = job[j].price)
    BY <1>1 DEF CostIInv, StockTyped
  <2>2. Between(cost[i])
    BY <1>1, <1>5 DEF CostIInv, CostBetween, Between
  <2>3. job[j].op = "receive" /\ i = job[j].item => Between(job[j].price)
    BY <1>1, <1>5 DEF CostIInv, Priced
  <2> QED
    BY <2>1, <2>2, <2>3
<1>6. Priced'
  BY <1>4 DEF Priced, Between
<1>7. CostBetween'
  BY <1>5 DEF CostBetween, Between
<1> QED
  BY <1>6, <1>7

LEMMA PricedStep ==
  CostIInv /\ LedgerIInv /\ AboveZero /\ [StockNext]_stockVars => Priced' /\ CostBetween'
<1> SUFFICES ASSUME CostIInv, LedgerIInv, AboveZero, [StockNext]_stockVars
             PROVE  Priced' /\ CostBetween'
  OBVIOUS
<1>0. StockTyped /\ Named
  BY DEF CostIInv
<1>1. CASE UNCHANGED stockVars
  BY <1>1, PricedKept DEF stockVars
<1>2. CASE OpenTake
  BY <1>2, PricedKept DEF OpenTake, ledgerVars
<1>3. ASSUME NEW j \in Jobs, Put(j) \/ Make(j) \/ Add(j) \/ FixLine(j)
      PROVE  Priced' /\ CostBetween'
  <2>1. GoesOn(j) /\ Others(j) /\ UNCHANGED <<cost, overdrawn>>
    BY <1>0, <1>3, WriteGoesOn DEF ledgerVars
  <2> QED
    BY <2>1, PricedKept DEF GoesOn, Others
<1>4. ASSUME NEW j \in Jobs, NEW i \in Items, Check(j, i) \/ Draw(j, i)
      PROVE  Priced' /\ CostBetween'
  <2>1. GoesOn(j) /\ Others(j) /\ UNCHANGED <<cost, overdrawn>>
    BY <1>0, <1>4, PartGoesOn DEF ledgerVars
  <2> QED
    BY <2>1, PricedKept DEF GoesOn, Others
<1>5. ASSUME NEW j \in Jobs, NEW i \in Items, ReadLive(j, i)
      PROVE  Priced' /\ CostBetween'
  <2>1. Others(j) /\ UNCHANGED <<cost, overdrawn>> /\ job'[j].op = job[j].op
    BY <1>0, <1>5, ReadsGoOn DEF ledgerVars
  <2>2. job[j].op = "commit"
    BY <1>0, <1>5 DEF ReadLive, Named
  <2> QED
    BY <2>1, <2>2, PricedKept DEF Others
<1>6. ASSUME NEW j \in Jobs, NEW i \in Items,
             \/ \E op \in {"compose", "sell"} : Gather(j, op, i)
             \/ \E n \in Amounts :
                  \/ Count(j, i, n)
                  \/ \E op \in {"adjust", "set"} : Correct(j, op, i, n)
                  \/ \E p \in Prices : Receive(j, i, n, p)
      PROVE  Priced' /\ CostBetween'
  <2>1. /\ Others(j) /\ UNCHANGED <<cost, overdrawn>>
        /\ job'[j].op = "receive" => job'[j].price \in Prices
        /\ job'[j].pc # "price"
    BY <1>0, <1>6, RequestsBegin DEF ledgerVars
  <2> QED
    BY <2>1, PricedKept DEF Others
<1>7. ASSUME NEW j \in Jobs, CommitTake(j) \/ CancelTake(j)
      PROVE  Priced' /\ CostBetween'
  <2>1. Others(j) /\ UNCHANGED <<cost, overdrawn>> /\ job'[j].op \in {"commit", "cancel"}
    BY <1>0, <1>7, EndingBegins DEF ledgerVars
  <2> QED
    BY <2>1, PricedKept DEF Others
<1>8. ASSUME NEW j \in Jobs, PutCancel(j) \/ PutCount(j) \/ Abort(j)
      PROVE  Priced' /\ CostBetween'
  <2>1. job' = [job EXCEPT ![j] = Done] /\ UNCHANGED <<cost, overdrawn>>
    BY <1>8 DEF PutCancel, PutCount, Abort, ledgerVars
  <2>2. Done.op = "none"
    BY DEF Done
  <2>3. job'[j] = Done /\ \A k \in Jobs \ {j} : job'[k] = job[k]
    BY <1>0, <2>1 DEF StockTyped
  <2> QED
    BY <2>1, <2>2, <2>3, PricedKept
<1> QED
  BY <1>1, <1>2, <1>3, <1>4, <1>5, <1>6, <1>7, <1>8, PricedRead, PricedReadStock, PricedCommit DEF StockNext

(***************************************************************************)
(* The moving average never leaves the range of the prices paid, as long   *)
(* as the row was not overdrawn, though the average is computed from two   *)
(* reads and written by a later statement.                                 *)
(***************************************************************************)
THEOREM AverageStaysBetween == StockSpec => []CostBetween
<1> DEFINE Inv == LedgerIInv /\ Floor /\ Named /\ Ends /\ Priced /\ CostBetween
<1>1. StockInit => Inv
  <2>1. StockInit => Priced /\ CostBetween
    <3> SUFFICES ASSUME StockInit PROVE Priced /\ CostBetween
      OBVIOUS
    <3>1. \A j \in Jobs : job[j].op = "none"
      BY DEF StockInit, Done
    <3>2. Initial \in Prices /\ Initial <= Initial /\ \A i \in Items : cost[i] = Initial
      BY StockAssumption DEF StockInit, StockAssumption
    <3> QED
      BY <3>1, <3>2 DEF Priced, CostBetween
  <2> QED
    BY <2>1, LedgerStart, FloorStart, EndsStart
<1>2. Inv /\ [StockNext]_stockVars => Inv'
  <2> SUFFICES ASSUME Inv, [StockNext]_stockVars PROVE Inv'
    OBVIOUS
  <2>1. LedgerIInv' /\ Floor'
    BY LedgerStep, FloorStep, StockAssumption
  <2>2. StockTyped /\ StockTyped'
    BY <2>1 DEF LedgerIInv
  <2>3. Named' /\ Ends'
    BY <2>2, EndsStep DEF EndsIInv
  <2>4. Priced' /\ CostBetween'
    BY <2>2, PricedStep DEF CostIInv, Floor
  <2> QED
    BY <2>1, <2>3, <2>4
<1>3. Inv => CostBetween
  OBVIOUS
<1> QED
  BY <1>1, <1>2, <1>3, PTL DEF StockSpec
=============================================================================
