----------------------------- MODULE WindowTabs -----------------------------
(***************************************************************************)
(* The tab list of one mux window (mux/src/window.rs), as operators on a   *)
(* record: the tabs in their order, the index of the active one, and the   *)
(* id of the one that was active before.  Indices count from 1.            *)
(*                                                                         *)
(* A definition whose name ends in Bug is no part of the model: it is what *)
(* the definition after it would be with a plausible bug, and a property   *)
(* of MuxWindows is known to fail with it in that definition's place.      *)
(***************************************************************************)
EXTENDS Naturals, Sequences, SequencesExt

\* The option switch_to_last_active_tab_when_closing_tab.
CONSTANT SwitchBack

ASSUME SwitchBackAssumption == SwitchBack \in BOOLEAN

\* Tab ids are positive; `last_active' is an Option.
NoTab == 0

NewWindow == [tabs |-> <<>>, active |-> 1, last |-> NoTab]

HasTab(w, t)  == \E i \in 1..Len(w.tabs) : w.tabs[i] = t
IndexOf(w, t) == CHOOSE i \in 1..Len(w.tabs) : w.tabs[i] = t
ActiveTab(w)  == IF w.active \in 1..Len(w.tabs) THEN w.tabs[w.active] ELSE NoTab

\* What the asserts of window.rs demand (set_active_without_saving: the index
\* is in range; insert and push: the tab is new), and get_active relies on.
WellFormed(w) ==
    /\ w.active \in 1..Len(w.tabs) \/ (w.tabs = <<>> /\ w.active = 1)
    /\ \A i, j \in 1..Len(w.tabs) : w.tabs[i] = w.tabs[j] => i = j

PushTab(w, t)      == [w EXCEPT !.tabs = Append(@, t)]
InsertTab(w, i, t) == [w EXCEPT !.tabs = InsertAt(@, i, t)]

SaveAndThenSetActive(w, i) ==
    IF i = w.active THEN w ELSE [w EXCEPT !.last = ActiveTab(w), !.active = i]

FixupActiveRangeBug(w, t) ==   \* an index past the end is not corrected
    IF HasTab(w, t) THEN [w EXCEPT !.active = IndexOf(w, t)] ELSE w

FixupActiveClampBug(w, t) ==   \* off by one
    IF HasTab(w, t) THEN [w EXCEPT !.active = IndexOf(w, t)]
    ELSE IF w.tabs # <<>> /\ w.active > Len(w.tabs)
         THEN [w EXCEPT !.active = Len(w.tabs) - 1] ELSE w

\* fixup_active_tab_after_removal; t was active before the removal.
FixupActive(w, t) ==
    IF HasTab(w, t) THEN [w EXCEPT !.active = IndexOf(w, t)]
    ELSE IF w.tabs # <<>> /\ w.active > Len(w.tabs)
         THEN [w EXCEPT !.active = Len(w.tabs)] ELSE w

\* do_remove_idx.  The switch back to the previously active tab takes its index
\* before the removal.
RemoveIdx(w, i) ==
    LET back  == /\ i = w.active /\ SwitchBack /\ HasTab(w, w.last)
        aimed == IF back THEN [w EXCEPT !.active = IndexOf(w, w.last)] ELSE w
    IN  FixupActive([aimed EXCEPT !.tabs = RemoveAt(@, i)], ActiveTab(w))

RemoveTabId(w, t) == IF HasTab(w, t) THEN RemoveIdx(w, IndexOf(w, t)) ELSE w

\* remove_by_id for each tab of ts, in the order of the list.
RemoveAll(w, ts) ==
    LET after[n \in 0..Len(w.tabs)] ==
            IF n = 0 THEN w
            ELSE IF w.tabs[n] \in ts THEN RemoveTabId(after[n - 1], w.tabs[n])
            ELSE after[n - 1]
    IN  after[Len(w.tabs)]

\* TermWindow::move_tab: the active tab moves to index i.
MoveActive(w, i) ==
    [InsertTab(RemoveIdx(w, w.active), i, ActiveTab(w)) EXCEPT !.active = i]
=============================================================================
