-------------------------------- MODULE Till --------------------------------
(***************************************************************************)
(* The cashier's page POS.tsx between scan and receipt: the cart, barcodes *)
(* being looked up, the preview of a discount code, and the submits under  *)
(* way.  What the backend does with a submit is module Checkout's.         *)
(*                                                                         *)
(* The page is a React component: its effects run when what they depend on *)
(* changed, and its key handler is the one of the last such change.        *)
(***************************************************************************)
EXTENDS Naturals, FiniteSets, FiniteSetsExt

CONSTANTS
    Products,
    Vouchers, Blank, \* what may stand in the field of the discount code
    Scans,          \* barcodes that may be looked up at a time
    Previews,       \* previews that may be asked for at a time
    Submits,        \* submits that may be under way at a time
    MaxUnits        \* bound: units in the cart

ASSUME TillAssumption == Blank \notin Vouchers /\ MaxUnits \in Nat \ {0}

VARIABLES
    cart,       \* cart[p]: units of p in the cart store, 0 for no line
    code,       \* the discount code on the page
    busy,       \* the flag that disables the buttons
    keys,       \* the flag as the key handler knows it
    scan,       \* scan[k]: a barcode being looked up
    timer,      \* the preview waits for the typing to pause
    ask,        \* ask[k]: a preview asked for, of which code and total
    check,      \* the preview shown, of which code and total
    overtaken,  \* history: the preview shown came late, for another code or total
    submit,        \* submit[k]: a submit under way
    unsold      \* history: lines entered while no submit was under way, and not yet sold

tillVars == <<cart, code, busy, keys, scan, timer, ask, check, overtaken, submit, unsold>>

NoPreview == [code |-> Blank, total |-> 0]
NoAsk == [sent |-> FALSE, of |-> NoPreview]
NoScan == [pc |-> "idle", of |-> Blank]
NoSubmit == [pc |-> "idle", lines |-> {}, held |-> FALSE]
Answered(pc) == [pc |-> pc, lines |-> {}, held |-> FALSE]

TillInit ==
    /\ cart = [p \in Products |-> 0]
    /\ code = Blank
    /\ busy = FALSE
    /\ keys = FALSE
    /\ scan = [k \in Scans |-> NoScan]
    /\ timer = FALSE
    /\ ask = [k \in Previews |-> NoAsk]
    /\ check = NoPreview
    /\ overtaken = FALSE
    /\ submit = [k \in Submits |-> NoSubmit]
    /\ unsold = {}

-----------------------------------------------------------------------------
(* Totals and effects *)

InCart(c) == {p \in DOMAIN c : c[p] > 0}

\* cartTotals; every product costs 1.
Total(c) == MapThenSumSet(LAMBDA p : c[p], DOMAIN c)

OnScreen == [code |-> code, total |-> Total(cart)]

\* Mutant: the effect does not depend on the total.
BasisOfLines(c, d) == <<d, Cardinality(InCart(c))>>

\* What the effect of the preview depends on.
Basis(c, d) == <<d, Cardinality(InCart(c)), Total(c)>>

\* Without code or lines there is nothing to show; otherwise the preview shown
\* stays until the next answer.
PreviewEffect ==
    IF Basis(cart', code') = Basis(cart, code) THEN UNCHANGED <<timer, check, overtaken>>
    ELSE IF code' = Blank \/ InCart(cart') = {}
    THEN timer' = FALSE /\ check' = NoPreview /\ overtaken' = FALSE
    ELSE timer' = TRUE /\ UNCHANGED <<check, overtaken>>

\* The key handler is registered anew when the lines or the code change, and
\* not when the flag does.
KeyEffect == keys' = busy'

Effects == PreviewEffect /\ KeyEffect

-----------------------------------------------------------------------------
(* The cart *)

SubmitUnderWay == \E k \in Submits : submit[k].pc # "idle"

\* The cashier, or a scan, changes the line of p.
Line(p, qty) ==
    /\ cart' = [cart EXCEPT ![p] = qty]
    /\ unsold' = IF qty = 0 THEN unsold \ {p}
                 ELSE IF SubmitUnderWay THEN unsold ELSE unsold \cup {p}
    /\ UNCHANGED <<code, busy, ask, submit>>
    /\ Effects

AddLine(p) == Total(cart) < MaxUnits /\ Line(p, cart[p] + 1)

\* A product of the catalogue is clicked.
AddToCart(p) == AddLine(p) /\ UNCHANGED scan

\* The quantities typed are positive, as the input asks.
SetQty(p, qty) ==
    /\ cart[p] > 0 /\ qty # cart[p] /\ Total(cart) - cart[p] + qty <= MaxUnits
    /\ Line(p, qty)
    /\ UNCHANGED scan

RemoveLine(p) == cart[p] > 0 /\ Line(p, 0) /\ UNCHANGED scan

\* App.resumeOrder: the lines of a held order replace those of the cart; the
\* page is opened anew, and its effects run.  Bound: not while a submit of the
\* page left is under way.
Resume(p) ==
    /\ ~SubmitUnderWay
    /\ cart' = [q \in Products |-> IF q = p THEN 1 ELSE 0]
    /\ unsold' = {p}
    /\ code' = Blank
    /\ busy' = FALSE
    /\ KeyEffect
    /\ timer' = FALSE /\ check' = NoPreview /\ overtaken' = FALSE
    /\ ask' = [k \in Previews |-> NoAsk]
    /\ UNCHANGED <<scan, submit>>

-----------------------------------------------------------------------------
(* handleScan and lookupBarcode *)

ScanCode(k, p) ==
    /\ scan[k].pc = "idle"
    /\ scan' = [scan EXCEPT ![k] = [pc |-> "local", of |-> p]]
    /\ UNCHANGED <<cart, code, busy, keys, timer, ask, check, overtaken, submit, unsold>>

\* Found, here or by the service that asks outside databases too.
ScanFound(k) ==
    /\ scan[k].pc # "idle"
    /\ AddLine(scan[k].of)
    /\ scan' = [scan EXCEPT ![k] = NoScan]

\* Not found, or no answer: the service is asked.
AskOutside(k) ==
    /\ scan[k].pc = "local"
    /\ scan' = [scan EXCEPT ![k].pc = "outside"]
    /\ UNCHANGED <<cart, code, busy, keys, timer, ask, check, overtaken, submit, unsold>>

\* Unknown there as well: the form of a new product opens, which adds what it
\* saved (then this is ScanFound) or is closed.
ScanUnknown(k) ==
    /\ scan[k].pc = "outside"
    /\ scan' = [scan EXCEPT ![k] = NoScan]
    /\ UNCHANGED <<cart, code, busy, keys, timer, ask, check, overtaken, submit, unsold>>

-----------------------------------------------------------------------------
(* The discount code *)

TypeCode(d) ==
    /\ d # code
    /\ code' = d
    /\ UNCHANGED <<cart, busy, scan, ask, submit, unsold>>
    /\ Effects

\* 350 ms after the last change.
AskPreview(k) ==
    /\ timer /\ ~ask[k].sent
    /\ timer' = FALSE
    /\ ask' = [ask EXCEPT ![k] = [sent |-> TRUE, of |-> OnScreen]]
    /\ UNCHANGED <<cart, code, busy, keys, scan, check, overtaken, submit, unsold>>

\* An answer is shown whenever it comes; a failing request shows nothing.
HearPreview(k) ==
    /\ ask[k].sent
    /\ ask' = [ask EXCEPT ![k] = NoAsk]
    /\ \/ /\ check' = ask[k].of
          /\ overtaken' = (ask[k].of # OnScreen)
       \/ check' = NoPreview /\ overtaken' = FALSE
    /\ UNCHANGED <<cart, code, busy, keys, scan, timer, submit, unsold>>

-----------------------------------------------------------------------------
(* submit, by a button or by F9 and F12 *)

\* Whether the shift allows it is module Shifts'.  The flag known to the button
\* is that of the page, the one known to the key handler may be older.
Press(k, held, knows) ==
    /\ submit[k].pc = "idle"
    /\ ~knows
    /\ InCart(cart) # {}
    /\ busy' = TRUE
    /\ submit' = [submit EXCEPT ![k] = [pc |-> "posted", lines |-> InCart(cart), held |-> held]]
    /\ UNCHANGED <<cart, code, keys, scan, timer, ask, check, overtaken, unsold>>

PressButton(k, held) == Press(k, held, busy)

PressKey(k, held) == Press(k, held, keys)

\* Saved: a held order is done with, a confirmed one is printed first.
Saved(k) ==
    /\ submit[k].pc = "posted"
    /\ unsold' = unsold \ submit[k].lines
    /\ submit' = [submit EXCEPT ![k] = Answered(IF submit[k].held THEN "clear" ELSE "print")]
    /\ UNCHANGED <<cart, code, busy, keys, scan, timer, ask, check, overtaken>>

\* No answer, and queued by the desktop shell.
Queued(k) ==
    /\ submit[k].pc = "posted"
    /\ unsold' = unsold \ submit[k].lines
    /\ submit' = [submit EXCEPT ![k] = Answered("clear")]
    /\ UNCHANGED <<cart, code, busy, keys, scan, timer, ask, check, overtaken>>

\* printReceipt is waited for; it may refuse or fail, and may be switched off.
Printed(k) ==
    /\ submit[k].pc = "print"
    /\ submit' = [submit EXCEPT ![k].pc = "clear"]
    /\ UNCHANGED <<cart, code, busy, keys, scan, timer, ask, check, overtaken, unsold>>

\* cart.clear and the fields, and finally the flag, whatever came in meanwhile
\* and whichever submit is still under way.
ClearCart(k) ==
    /\ submit[k].pc = "clear"
    /\ cart' = [p \in Products |-> 0]
    /\ code' = Blank
    /\ busy' = FALSE
    /\ KeyEffect
    /\ timer' = FALSE /\ check' = NoPreview /\ overtaken' = FALSE
    /\ submit' = [submit EXCEPT ![k] = NoSubmit]
    /\ UNCHANGED <<scan, ask, unsold>>

\* Mutant: the cart is cleared finally.
NotSavedClearing(k) ==
    /\ submit[k].pc = "posted"
    /\ cart' = [p \in Products |-> 0]
    /\ UNCHANGED code
    /\ busy' = FALSE
    /\ Effects
    /\ submit' = [submit EXCEPT ![k] = NoSubmit]
    /\ UNCHANGED <<scan, ask, unsold>>

\* Refused, or no answer and not queued.
NotSaved(k) ==
    /\ submit[k].pc = "posted"
    /\ busy' = FALSE
    /\ submit' = [submit EXCEPT ![k] = NoSubmit]
    /\ UNCHANGED <<cart, code, keys, scan, timer, ask, check, overtaken, unsold>>

-----------------------------------------------------------------------------
TillNext ==
    \/ \E p \in Products : AddToCart(p) \/ RemoveLine(p) \/ Resume(p)
    \/ \E p \in Products, qty \in 1 .. MaxUnits : SetQty(p, qty)
    \/ \E k \in Scans : ScanFound(k) \/ AskOutside(k) \/ ScanUnknown(k) \/ \E p \in Products : ScanCode(k, p)
    \/ \E d \in Vouchers \cup {Blank} : TypeCode(d)
    \/ \E k \in Previews : AskPreview(k) \/ HearPreview(k)
    \/ \E k \in Submits :
        \/ \E held \in BOOLEAN : PressButton(k, held) \/ PressKey(k, held)
        \/ Saved(k) \/ Queued(k) \/ Printed(k) \/ ClearCart(k) \/ NotSaved(k)

TillSpec == TillInit /\ [][TillNext]_tillVars

-----------------------------------------------------------------------------
(* Properties *)

\* No line leaves the cart unsold: one entered while no submit was under way is
\* there until an order or the queue has it, or the cashier removes it or resumes
\* another order, also when submits overlap and fail.  The page does not keep
\* what is scanned during a submit.
UnsoldKept == unsold \subseteq InCart(cart)

\* Once nothing is asked for, the discount on the screen is that of the code and
\* the total on the screen, which the backend will charge; unless the answer to
\* an earlier preview came after it.
ShownIsCurrent ==
    ~timer /\ ~overtaken /\ (\A k \in Previews : ~ask[k].sent) =>
        check \in {NoPreview, OnScreen}
=============================================================================
