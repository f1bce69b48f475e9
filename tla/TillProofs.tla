----------------------------- MODULE TillProofs -----------------------------
(***************************************************************************)
(* No line leaves the cart unsold, for any number of products, scans,      *)
(* previews and submits that overlap.                                      *)
(***************************************************************************)
EXTENDS Till, TLAPS

(***************************************************************************)
(* UnsoldKept is not inductive: ClearCart empties the cart.  By then the   *)
(* lines entered before the submit have been taken out of unsold, and no   *)
(* others were added, since all that time a submit was under way.          *)
(***************************************************************************)
TillTypeOK ==
    /\ cart \in [Products -> Nat]
    /\ submit \in [Submits -> [pc : {"idle", "posted", "print", "clear"},
                               lines : SUBSET Products, held : BOOLEAN]]
    /\ scan \in [Scans -> [pc : {"idle"}, of : {Blank}] \cup [pc : {"local", "outside"}, of : Products]]

\* Until it is answered, a submit carries all that is unsold.
Carried == \A k \in Submits : submit[k].pc = "posted" => unsold \subseteq submit[k].lines

\* Once it is answered, nothing is unsold.
Settled == \A k \in Submits : submit[k].pc \in {"print", "clear"} => unsold = {}

TillIInv == TillTypeOK /\ UnsoldKept /\ Carried /\ Settled

LEMMA TillStarts == TillInit => TillIInv
  BY DEF TillInit, TillIInv, TillTypeOK, UnsoldKept, Carried, Settled, NoSubmit, NoScan

\* A changed line is in the cart unless it was removed, and counts as unsold
\* only while no submit is under way.
LEMMA LineKeeps ==
  ASSUME TillIInv, NEW p \in Products, NEW qty \in Nat, Line(p, qty),
         scan' \in [Scans -> [pc : {"idle"}, of : {Blank}] \cup [pc : {"local", "outside"}, of : Products]]
  PROVE  TillIInv'
<1>1. cart' = [cart EXCEPT ![p] = qty] /\ submit' = submit
  BY DEF Line
<1>2. TillTypeOK'
  BY <1>1 DEF TillIInv, TillTypeOK
<1>3. DOMAIN cart = Products /\ DOMAIN cart' = Products
  BY <1>2 DEF TillIInv, TillTypeOK
<1>4. CASE qty = 0
  <2>1. unsold' = unsold \ {p}
    BY <1>4 DEF Line
  <2> QED
    BY <1>1, <1>2, <1>3, <2>1 DEF TillIInv, TillTypeOK, UnsoldKept, Carried, Settled, InCart
<1>5. CASE qty # 0 /\ SubmitUnderWay
  <2>1. unsold' = unsold
    BY <1>5 DEF Line
  <2> QED
    BY <1>1, <1>2, <1>3, <1>5, <2>1 DEF TillIInv, TillTypeOK, UnsoldKept, Carried, Settled, InCart
<1>6. CASE qty # 0 /\ ~SubmitUnderWay
  <2>1. unsold' = unsold \cup {p}
    BY <1>6 DEF Line
  <2>2. \A k \in Submits : submit'[k].pc = "idle"
    BY <1>1, <1>6 DEF SubmitUnderWay
  <2> QED
    BY <1>1, <1>2, <1>3, <1>6, <2>1, <2>2 DEF TillIInv, TillTypeOK, UnsoldKept, Carried, Settled, InCart
<1> QED
  BY <1>4, <1>5, <1>6

\* Opening the page anew ends nothing that is under way.
LEMMA ResumeKeeps ==
  ASSUME TillIInv, NEW p \in Products, Resume(p)
  PROVE  TillIInv'
  BY DEF TillIInv, TillTypeOK, UnsoldKept, Carried, Settled, InCart, Resume, SubmitUnderWay

\* A lookup found adds a line, others change no line.
LEMMA ScansKeep ==
  ASSUME TillIInv, NEW k \in Scans,
         ScanFound(k) \/ AskOutside(k) \/ ScanUnknown(k) \/ \E p \in Products : ScanCode(k, p)
  PROVE  TillIInv'
<1>1. CASE ScanFound(k)
  <2>1. scan[k].of \in Products
    BY <1>1 DEF ScanFound, TillIInv, TillTypeOK
  <2>2. cart[scan[k].of] + 1 \in Nat /\ Line(scan[k].of, cart[scan[k].of] + 1)
    BY <1>1, <2>1 DEF ScanFound, AddLine, TillIInv, TillTypeOK
  <2>3. scan' \in [Scans -> [pc : {"idle"}, of : {Blank}] \cup [pc : {"local", "outside"}, of : Products]]
    BY <1>1 DEF ScanFound, TillIInv, TillTypeOK, NoScan
  <2> QED
    BY <2>1, <2>2, <2>3, LineKeeps
<1>2. CASE AskOutside(k)
  BY <1>2 DEF AskOutside, TillIInv, TillTypeOK, UnsoldKept, Carried, Settled, InCart
<1>3. CASE ScanUnknown(k)
  BY <1>3 DEF ScanUnknown, NoScan, TillIInv, TillTypeOK, UnsoldKept, Carried, Settled, InCart
<1>4. CASE \E p \in Products : ScanCode(k, p)
  BY <1>4 DEF ScanCode, TillIInv, TillTypeOK, UnsoldKept, Carried, Settled, InCart
<1> QED
  BY <1>1, <1>2, <1>3, <1>4

\* The discount code and its previews change neither cart nor submits.
LEMMA CodesKeep ==
  ASSUME TillIInv,
         \/ \E d \in Vouchers \cup {Blank} : TypeCode(d)
         \/ \E k \in Previews : AskPreview(k) \/ HearPreview(k)
  PROVE  TillIInv'
<1>1. UNCHANGED <<cart, submit, scan, unsold>>
  BY DEF TypeCode, AskPreview, HearPreview
<1> QED
  BY <1>1 DEF TillIInv, TillTypeOK, UnsoldKept, Carried, Settled, InCart

\* A submit takes all lines of the cart with it.
LEMMA PressKeeps ==
  ASSUME TillIInv, NEW k \in Submits, NEW held \in BOOLEAN, NEW knows, Press(k, held, knows)
  PROVE  TillIInv'
<1>1. submit' = [submit EXCEPT ![k] = [pc |-> "posted", lines |-> InCart(cart), held |-> held]]
  BY DEF Press
<1>2. UNCHANGED <<cart, scan, unsold>>
  BY DEF Press
<1>3. InCart(cart) \subseteq Products
  BY DEF InCart, TillIInv, TillTypeOK
<1>4. TillTypeOK'
  BY <1>1, <1>2, <1>3 DEF TillIInv, TillTypeOK
<1>5. UnsoldKept'
  BY <1>2 DEF TillIInv, UnsoldKept, InCart
<1>6. Carried'
  BY <1>1, <1>2 DEF TillIInv, TillTypeOK, Carried, UnsoldKept
<1>7. Settled'
  BY <1>1, <1>2 DEF TillIInv, TillTypeOK, Settled
<1> QED
  BY <1>4, <1>5, <1>6, <1>7 DEF TillIInv

\* The answer to a submit, what follows it, and its end.
LEMMA AnswersKeep ==
  ASSUME TillIInv, NEW k \in Submits,
         Saved(k) \/ Queued(k) \/ Printed(k) \/ ClearCart(k) \/ NotSaved(k)
  PROVE  TillIInv'
<1> USE DEF TillIInv, TillTypeOK, UnsoldKept, Carried, Settled, NoSubmit
<1>1. CASE Saved(k) \/ Queued(k)
  <2>1. unsold' = {} /\ UNCHANGED <<cart, scan>>
    BY <1>1 DEF Saved, Queued
  <2>2. PICK next \in {"print", "clear"} :
           submit' = [submit EXCEPT ![k] = Answered(next)]
    <3>1. CASE Saved(k)
      BY <3>1 DEF Saved
    <3>2. CASE Queued(k)
      BY <3>2 DEF Queued
    <3> QED
      BY <1>1, <3>1, <3>2
  <2> QED
    BY <2>1, <2>2 DEF Answered
<1>2. CASE Printed(k)
  BY <1>2 DEF Printed, InCart
<1>3. CASE ClearCart(k)
  <2>1. unsold = {} /\ unsold' = {}
    BY <1>3 DEF ClearCart
  <2> QED
    BY <1>3, <2>1 DEF ClearCart
<1>4. CASE NotSaved(k)
  BY <1>4 DEF NotSaved, InCart
<1> QED
  BY <1>1, <1>2, <1>3, <1>4

LEMMA TillKeeps == TillIInv /\ [TillNext]_tillVars => TillIInv'
<1> SUFFICES ASSUME TillIInv, [TillNext]_tillVars
             PROVE  TillIInv'
  OBVIOUS
<1>1. ASSUME NEW p \in Products, AddToCart(p)
      PROVE  TillIInv'
  <2>1. cart[p] + 1 \in Nat /\ Line(p, cart[p] + 1) /\ scan' = scan
    BY <1>1 DEF AddToCart, AddLine, TillIInv, TillTypeOK
  <2> QED
    BY <2>1, LineKeeps DEF TillIInv, TillTypeOK
<1>2. ASSUME NEW p \in Products, RemoveLine(p)
      PROVE  TillIInv'
  <2>1. 0 \in Nat /\ Line(p, 0) /\ scan' = scan
    BY <1>2 DEF RemoveLine
  <2> QED
    BY <2>1, LineKeeps DEF TillIInv, TillTypeOK
<1>3. ASSUME NEW p \in Products, NEW qty \in 1 .. MaxUnits, SetQty(p, qty)
      PROVE  TillIInv'
  <2>1. qty \in Nat /\ Line(p, qty) /\ scan' = scan
    BY <1>3, TillAssumption DEF SetQty
  <2> QED
    BY <2>1, LineKeeps DEF TillIInv, TillTypeOK
<1>4. ASSUME NEW p \in Products, Resume(p)
      PROVE  TillIInv'
  BY <1>4, ResumeKeeps
<1>5. ASSUME NEW k \in Submits, NEW held \in BOOLEAN, PressButton(k, held) \/ PressKey(k, held)
      PROVE  TillIInv'
  BY <1>5, PressKeeps DEF PressButton, PressKey
<1>6. CASE UNCHANGED tillVars
  BY <1>6 DEF tillVars, TillIInv, TillTypeOK, UnsoldKept, Carried, Settled, InCart
<1> QED
  BY <1>1, <1>2, <1>3, <1>4, <1>5, <1>6, ScansKeep, CodesKeep, AnswersKeep DEF TillNext

(***************************************************************************)
(* However submits overlap, fail, and are queued, saved and printed, a     *)
(* line entered while none was under way is in the cart until it is sold,  *)
(* queued, or removed by the cashier.                                      *)
(***************************************************************************)
THEOREM CartKeepsUnsold == TillSpec => []UnsoldKept
<1>1. TillIInv => UnsoldKept
  BY DEF TillIInv
<1> QED
  BY TillStarts, TillKeeps, <1>1, PTL DEF TillSpec

-----------------------------------------------------------------------------
(* The discount shown *)

\* An answer is on its way for what is on the screen.
Awaited == \E k \in Previews : ask[k].sent /\ ask[k].of = OnScreen

\* A preview shown for something else is about to be replaced: the timer runs,
\* or the right answer is awaited, or it has already come and was overtaken.
Replaced == timer \/ overtaken \/ check \in {NoPreview, OnScreen} \/ Awaited

AskFn == DOMAIN ask = Previews

ShownIInv == AskFn /\ Replaced

\* A step that may run the effect of the preview, and answers nothing.
LEMMA EffectKeeps ==
  ASSUME ShownIInv, PreviewEffect, UNCHANGED ask
  PROVE  ShownIInv'
<1>1. CASE Basis(cart', code') = Basis(cart, code)
  <2>1. OnScreen' = OnScreen
    BY <1>1 DEF Basis, OnScreen
  <2>2. UNCHANGED <<timer, check, overtaken>>
    BY <1>1 DEF PreviewEffect
  <2> QED
    BY <2>1, <2>2 DEF ShownIInv, AskFn, Replaced, Awaited
<1>2. CASE Basis(cart', code') # Basis(cart, code)
  BY <1>2 DEF PreviewEffect, ShownIInv, AskFn, Replaced
<1> QED
  BY <1>1, <1>2

\* A step that changes neither the screen nor the previews.
LEMMA ScreenKeeps ==
  ASSUME ShownIInv, UNCHANGED <<cart, code, timer, ask, check, overtaken>>
  PROVE  ShownIInv'
  BY DEF ShownIInv, AskFn, Replaced, Awaited, OnScreen

LEMMA ShownKeeps == ShownIInv /\ [TillNext]_tillVars => ShownIInv'
<1> SUFFICES ASSUME ShownIInv, [TillNext]_tillVars
             PROVE  ShownIInv'
  OBVIOUS
<1>1. ASSUME NEW p \in Products, NEW qty, Line(p, qty)
      PROVE  ShownIInv'
  BY <1>1, EffectKeeps DEF Line, Effects
<1>2. ASSUME NEW d, TypeCode(d)
      PROVE  ShownIInv'
  BY <1>2, EffectKeeps DEF TypeCode, Effects
<1>3. ASSUME NEW p \in Products, Resume(p)
      PROVE  ShownIInv'
  BY <1>3 DEF Resume, ShownIInv, AskFn, Replaced
<1>4. ASSUME NEW k \in Submits, ClearCart(k)
      PROVE  ShownIInv'
  BY <1>4 DEF ClearCart, ShownIInv, AskFn, Replaced
<1>5. ASSUME NEW k \in Previews, AskPreview(k)
      PROVE  ShownIInv'
  <2>1. ask'[k].sent /\ ask'[k].of = OnScreen /\ OnScreen' = OnScreen /\ DOMAIN ask' = Previews
    BY <1>5 DEF AskPreview, ShownIInv, AskFn, OnScreen
  <2> QED
    BY <2>1 DEF ShownIInv, AskFn, Replaced, Awaited
<1>6. ASSUME NEW k \in Previews, HearPreview(k)
      PROVE  ShownIInv'
  <2>1. OnScreen' = OnScreen /\ DOMAIN ask' = Previews
    BY <1>6 DEF HearPreview, OnScreen, ShownIInv, AskFn
  <2> QED
    BY <1>6, <2>1 DEF HearPreview, ShownIInv, AskFn, Replaced
<1>7. ASSUME NEW k \in Scans, ScanFound(k) \/ AskOutside(k) \/ ScanUnknown(k) \/ \E p \in Products : ScanCode(k, p)
      PROVE  ShownIInv'
  <2>1. CASE ScanFound(k)
    BY <2>1, EffectKeeps DEF ScanFound, AddLine, Line, Effects
  <2>2. CASE AskOutside(k) \/ ScanUnknown(k) \/ \E p \in Products : ScanCode(k, p)
    BY <2>2, ScreenKeeps DEF AskOutside, ScanUnknown, ScanCode
  <2> QED
    BY <1>7, <2>1, <2>2
<1>8. ASSUME NEW k \in Submits,
             \/ \E held \in BOOLEAN : PressButton(k, held) \/ PressKey(k, held)
             \/ Saved(k) \/ Queued(k) \/ Printed(k) \/ NotSaved(k)
      PROVE  ShownIInv'
  BY <1>8, ScreenKeeps DEF PressButton, PressKey, Press, Saved, Queued, Printed, NotSaved
<1>9. CASE UNCHANGED tillVars
  BY <1>9, ScreenKeeps DEF tillVars
<1> QED
  BY <1>1, <1>2, <1>3, <1>4, <1>5, <1>6, <1>7, <1>8, <1>9
  DEF TillNext, AddToCart, AddLine, RemoveLine, SetQty

(***************************************************************************)
(* When no preview is due or under way, the discount shown is that of the  *)
(* code and total on the screen, unless an earlier answer came after it.   *)
(***************************************************************************)
THEOREM ShownDiscountIsCurrent == TillSpec => []ShownIsCurrent
<1>1. TillInit => ShownIInv
  BY DEF TillInit, ShownIInv, AskFn, Replaced
<1>2. ShownIInv => ShownIsCurrent
  BY DEF ShownIInv, Replaced, Awaited, ShownIsCurrent
<1> QED
  BY <1>1, <1>2, ShownKeeps, PTL DEF TillSpec
=============================================================================
