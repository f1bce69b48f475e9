------------------------------ MODULE Settings ------------------------------
(***************************************************************************)
(* The switch that pauses orders from outside the shop: a SystemSetting    *)
(* row, the backend's copy of it in memory, which is what the intake of    *)
(* orders asks, and the windows that show and flip it.  The other settings *)
(* are stored and read in the same way.                                    *)
(***************************************************************************)
EXTENDS Integers

CONSTANTS
    Windows,    \* browser windows of managers
    Gates,      \* concurrent orders from outside
    MaxWrites   \* bound: times the row is written

ASSUME SettingsAssumption == MaxWrites \in Nat

VARIABLES
    setting,    \* the row: its value, and how often it was written
    copy,       \* the copy in memory, and which version of the row it is
    gate,       \* gate[g]: a read of the setting that missed the copy
    page,       \* page[u]: what window u shows
    flip,       \* flip[u]: the window's request to change it
    load,       \* load[u][k]: its requests to read it
    raced       \* history: an older version was put over a newer one, or the newer never

settingsVars == <<setting, copy, gate, page, flip, load, raced>>

\* SETTING_DEFAULTS: accepting while there is no row, version 0.
Default == [v |-> TRUE, ver |-> 0]
NoCopy == [v |-> TRUE, ver |-> -1]
Loads == {"opened", "flipped"}
Still == [pc |-> "idle", got |-> Default]

SettingsInit ==
    /\ setting = Default
    /\ copy = NoCopy
    /\ gate = [g \in Gates |-> Still]
    /\ page = [u \in Windows |-> Default]
    /\ flip = [u \in Windows |-> Still]
    /\ load = [u \in Windows |-> [k \in Loads |-> Still]]
    /\ raced = FALSE

-----------------------------------------------------------------------------
(* SettingsService.get, behind assertExternalOrdersAllowed *)

\* A hit changes nothing; a miss reads the row.
GetMiss(g) ==
    /\ gate[g].pc = "idle" /\ copy = NoCopy
    /\ gate' = [gate EXCEPT ![g] = [pc |-> "fill", got |-> setting]]
    /\ UNCHANGED <<setting, copy, page, flip, load, raced>>

Copied(got) == copy' = got /\ raced' = (got.ver # setting.ver)

GetFill(g) ==
    /\ gate[g].pc = "fill"
    /\ Copied(gate[g].got)
    /\ gate' = [gate EXCEPT ![g] = Still]
    /\ UNCHANGED <<setting, page, flip, load>>

Accepts == IF copy = NoCopy THEN setting.v ELSE copy.v

-----------------------------------------------------------------------------
(* SettingsService.set *)

Flip(u) ==
    /\ flip[u].pc = "idle"
    /\ flip' = [flip EXCEPT ![u] = [pc |-> "upsert", got |-> [v |-> ~page[u].v, ver |-> 0]]]
    /\ UNCHANGED <<setting, copy, gate, page, load, raced>>

Upsert(u) ==
    /\ flip[u].pc = "upsert" /\ setting.ver < MaxWrites
    /\ setting' = [v |-> flip[u].got.v, ver |-> setting.ver + 1]
    /\ flip' = [flip EXCEPT ![u] = [pc |-> "copy", got |-> setting']]
    /\ UNCHANGED <<copy, gate, page, load, raced>>

\* Mutant: the copy is left as it is.
SetKeepsCopy(u) ==
    /\ flip[u].pc = "copy"
    /\ flip' = [flip EXCEPT ![u].pc = "answered"]
    /\ UNCHANGED <<setting, copy, gate, page, load, raced>>

SetCopy(u) ==
    /\ flip[u].pc = "copy"
    /\ Copied(flip[u].got)
    /\ flip' = [flip EXCEPT ![u].pc = "answered"]
    /\ UNCHANGED <<setting, gate, page, load>>

FlipAnswered(u) ==
    /\ flip[u].pc = "answered"
    /\ load' = [load EXCEPT ![u]["flipped"] = [pc |-> "asked", got |-> Default]]
    /\ flip' = [flip EXCEPT ![u] = Still]
    /\ UNCHANGED <<setting, copy, gate, raced>>

\* The banner only opens the shop, and shows it open at once; the settings page
\* waits for the reading.  Both ask for one next.
HearBanner(u) ==
    /\ flip[u].got.v
    /\ FlipAnswered(u)
    /\ page' = [page EXCEPT ![u] = flip[u].got]

HearPage(u) == FlipAnswered(u) /\ UNCHANGED page

\* The request fails at any point: the row may be written and the copy not, or
\* both and the answer lost.  setAccepting then asks again, as the page's user may.
FlipFails(u) ==
    /\ flip[u].pc # "idle"
    /\ raced' = (raced \/ flip[u].pc = "copy")
    /\ \E again \in {Still, [pc |-> "upsert", got |-> [v |-> flip[u].got.v, ver |-> 0]]} : flip' = [flip EXCEPT ![u] = again]
    /\ UNCHANGED <<setting, copy, gate, page, load>>

-----------------------------------------------------------------------------
(* The windows read the row itself, not the copy: loadPublic and loadAll *)

OpenPage(u) ==
    /\ load[u]["opened"].pc = "idle"
    /\ load' = [load EXCEPT ![u]["opened"].pc = "asked"]
    /\ UNCHANGED <<setting, copy, gate, page, flip, raced>>

ReadRow(u, k) ==
    /\ load[u][k].pc = "asked"
    /\ load' = [load EXCEPT ![u][k] = [pc |-> "read", got |-> setting]]
    /\ UNCHANGED <<setting, copy, gate, page, flip, raced>>

\* An answer is shown when it comes, or lost; there is no order among them.
HearLoad(u, k) ==
    /\ load[u][k].pc # "idle"
    /\ load' = [load EXCEPT ![u][k] = Still]
    /\ \/ load[u][k].pc = "read" /\ page' = [page EXCEPT ![u] = load[u][k].got]
       \/ page' = page
    /\ UNCHANGED <<setting, copy, gate, flip, raced>>

\* The backend restarts: the copy and the requests under way are gone.
RestartBackend ==
    /\ copy # NoCopy
    /\ copy' = NoCopy /\ raced' = FALSE
    /\ gate' = [g \in Gates |-> Still]
    /\ flip' = [u \in Windows |-> Still]
    /\ UNCHANGED <<setting, page, load>>

-----------------------------------------------------------------------------
SettingsNext ==
    \/ \E g \in Gates : GetMiss(g) \/ GetFill(g)
    \/ \E u \in Windows :
        \/ Flip(u) \/ Upsert(u) \/ SetCopy(u) \/ HearBanner(u) \/ HearPage(u) \/ FlipFails(u) \/ OpenPage(u)
        \/ \E k \in Loads : ReadRow(u, k) \/ HearLoad(u, k)
    \/ RestartBackend

SettingsSpec == SettingsInit /\ [][SettingsNext]_settingsVars

-----------------------------------------------------------------------------
(* Properties *)

\* A window that shows the row as it is shows what orders from outside meet:
\* the intake asks the copy in memory, every window the row.  Exempt are a
\* change on its way into the copy, and one that an older value overtook there.
GateAgrees ==
    \A u \in Windows :
        page[u].ver = setting.ver =>
            \/ Accepts = page[u].v
            \/ raced
            \/ \E w \in Windows : flip[w].pc = "copy"
=============================================================================
