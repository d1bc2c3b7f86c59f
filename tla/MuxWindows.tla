----------------------------- MODULE MuxWindows -----------------------------
(***************************************************************************)
(* The registry of the mux: windows, their tabs, the panes in the tree of  *)
(* each tab, and the map of panes (struct Mux of mux/src/lib.rs), while    *)
(* the user, its clients and the panes' own ends change it.                *)
(*                                                                         *)
(* Everything here runs on the main thread, but not at once.  Spawning and *)
(* splitting suspend while the domain prepares the pane (Domain::spawn,    *)
(* Domain::split_pane), and whatever was looked up before may have gone    *)
(* when they resume.  Cleaning up is done by tasks, and not at all while   *)
(* an Activity lasts.                                                      *)
(*                                                                         *)
(* The tree of a tab is the set of its panes.  Panes belong to a domain    *)
(* that is not detachable.  prune_dead_windows and remove_tab_internal are *)
(* assumed to get the lock they try (windows.try_write).                   *)
(*                                                                         *)
(* A definition whose name ends in Bug is no part of the model: it is what *)
(* the definition after it would be with a plausible bug, and a property   *)
(* below is known to fail with it in that definition's place.              *)
(***************************************************************************)
EXTENDS WindowTabs

CONSTANTS
    Requests,     (* bound: requests to spawn or split, each made once     *)
    MaxWindows, MaxTabs, MaxPanes    (* bounds on the ids ever given       *)

\* There is a window to start with.
ASSUME BoundsAssumption == {MaxWindows, MaxTabs, MaxPanes} \subseteq Nat \ {0}

VARIABLES
    mux,          (* the registry, see Init                                *)
    prune,        (* a task that prunes is queued                          *)
    removals,     (* the panes for which a task that removes them is       *)
    exited,       (* panes whose is_dead() is true                         *)
    request,      (* what each request is waiting for                      *)
    lost          (* history: panes made or moved for a tab or window that *)
                  (* was gone, or that refused them                        *)

vars == <<mux, prune, removals, exited, request, lost>>

WindowIds == 1..MaxWindows
TabIds    == 1..MaxTabs
PaneIds   == 1..MaxPanes

Window == [tabs : Seq(TabIds), active : 1..MaxTabs, last : TabIds \cup {NoTab}]

Request ==
    [op : {"new", "spawn", "split", "done"}, win : 0..MaxWindows,
     tab : 0..MaxTabs, pane : 0..MaxPanes, gui : BOOLEAN]

Fresh == [op |-> "new", win |-> 0, tab |-> 0, pane |-> 0, gui |-> FALSE]

\* The first window is up, with a tab of one pane.  open: the keys of
\* Mux.windows.  ids: the last window, tab and pane id given.
Init ==
    /\ mux = [open |-> {1}, tabs |-> {1}, panes |-> {1},
              win |-> [w \in WindowIds |-> IF w = 1 THEN PushTab(NewWindow, 1) ELSE NewWindow],
              tree |-> [t \in TabIds |-> IF t = 1 THEN {1} ELSE {}],
              ids |-> [win |-> 1, tab |-> 1, pane |-> 1]]
    /\ prune = FALSE /\ removals = {} /\ exited = {} /\ lost = {}
    /\ request = [r \in Requests |-> Fresh]

-----------------------------------------------------------------------------
(***************************************************************************)
(* What the mux looks up.                                                  *)
(***************************************************************************)
\* The tabs the windows show.
Shown(m) == UNION {ToSet(m.win[w].tabs) : w \in m.open}

\* resolve_pane_id: the tab of a pane, which must be in some window.
TabsOf(m, p) == {t \in m.tabs \cap Shown(m) : p \in m.tree[t]}

\* Activity::count() > 0: the GUI holds one from the start of a request to its
\* end; a mux server holds none.
Busy     == {r \in Requests : request[r].op \in {"spawn", "split"}}
Activity == \E r \in Busy : request[r].gui

-----------------------------------------------------------------------------
(***************************************************************************)
(* What removes things from the registry.                                  *)
(***************************************************************************)
RemovePanes(m, ps) == [m EXCEPT !.panes = @ \ ps]

RemoveTabsLockBug(m, ts) ==   \* the windows are not told
    [m EXCEPT !.tabs = @ \ ts, !.panes = @ \ UNION {m.tree[t] : t \in ts \cap m.tabs}]

RemoveTabsKeepBug(m, ts) ==   \* the panes stay
    LET known == ts \cap m.tabs
    IN  [m EXCEPT !.tabs = @ \ known, !.win = [w \in WindowIds |-> RemoveAll(m.win[w], known)]]

\* remove_tab_internal, for each tab of ts that the mux knows.  The tabs' trees
\* are left as they are.
RemoveTabs(m, ts) ==
    LET known == ts \cap m.tabs
    IN  [m EXCEPT !.tabs = @ \ known,
                  !.panes = @ \ UNION {m.tree[t] : t \in known},
                  !.win = [w \in WindowIds |-> RemoveAll(m.win[w], known)]]

\* remove_window_internal, for each window of ws that is open.
RemoveWindows(m, ws) ==
    RemoveTabs([m EXCEPT !.open = @ \ ws,
                         !.win = [w \in WindowIds |-> IF w \in ws THEN NewWindow ELSE @[w]]],
               UNION {ToSet(m.win[w].tabs) : w \in ws \cap m.open})

\* What prune_dead_panes looks for in a tab of a window: panes that are dead,
\* and panes the mux does not know.
GonePanes(m, t) ==
    IF t \in Shown(m) THEN {p \in m.tree[t] : p \in exited \/ p \notin m.panes} ELSE {}

\* Its walk removes one of them at least, but may step over the sibling of a
\* pane it removed: the sets of panes it may leave for the next time.
Skips(m) ==
    {s \in SUBSET UNION {GonePanes(m, t) : t \in TabIds} :
        \A t \in TabIds : GonePanes(m, t) \subseteq s => GonePanes(m, t) = {}}

\* prune_dead_windows: dead panes leave their tabs, then dead tabs and tabs the
\* mux does not know leave their windows, dead tabs the mux, and empty windows
\* the mux.
Prune(m, skips) ==
    LET tree == [t \in TabIds |-> m.tree[t] \ (GonePanes(m, t) \ skips)]
        dead == {t \in TabIds : tree[t] \subseteq exited}
        win  == [w \in WindowIds |-> RemoveAll(RemoveAll(m.win[w], dead), TabIds \ m.tabs)]
    IN  RemoveWindows(RemoveTabs([m EXCEPT !.tree = tree, !.win = win], dead),
                      {w \in m.open : win[w].tabs = <<>>})

\* How prune_dead_windows leaves the registry m, and what it queues: nothing
\* happens during an Activity; remove_pane_if queues the removal of each pane
\* that leaves its tab.
Pruned(m) ==
    IF Activity THEN {<<m, {}>>}
    ELSE {<<Prune(m, skips), (UNION {GonePanes(m, t) : t \in TabIds}) \ skips>> : skips \in Skips(m)}

\* The end of a step that removes: it prunes m; queued is what stays queued.
ThenPrune(m, queued) ==
    \E after \in Pruned(m) : mux' = after[1] /\ removals' = queued \cup after[2]

-----------------------------------------------------------------------------
(***************************************************************************)
(* Requests that suspend.                                                  *)
(***************************************************************************)
\* spawn_tab_or_window for a window: it must have an active tab with a pane.
SpawnTab(r, w, gui) ==
    /\ request[r].op = "new"
    /\ w \in mux.open /\ mux.win[w].tabs # <<>>
    /\ mux.tree[ActiveTab(mux.win[w])] # {}
    /\ request' = [request EXCEPT ![r] = [Fresh EXCEPT !.op = "spawn", !.win = w, !.gui = gui]]
    /\ UNCHANGED <<mux, prune, removals, exited, lost>>

\* ... and for a new one.  MuxWindowBuilder::notify drops the builder's Activity
\* at once, which queues a prune.
SpawnWindow(r, gui) ==
    /\ request[r].op = "new" /\ mux.ids.win < MaxWindows
    /\ LET w == mux.ids.win + 1
       IN  /\ mux' = [mux EXCEPT !.ids.win = w, !.open = @ \cup {w}]
           /\ request' = [request EXCEPT ![r] =
                             [Fresh EXCEPT !.op = "spawn", !.win = w, !.gui = gui]]
    /\ prune' = TRUE
    /\ UNCHANGED <<removals, exited, lost>>

Finish(r) == request' = [request EXCEPT ![r] = [Fresh EXCEPT !.op = "done"]]

EndActivityBug(r) == UNCHANGED prune   \* nothing prunes after the Activity

\* A request that ends drops its Activity, which queues a prune.
EndActivity(r) == prune' = (prune \/ request[r].gui)

\* The domain could not make the pane.
RequestFails(r) ==
    /\ r \in Busy
    /\ Finish(r) /\ EndActivity(r)
    /\ UNCHANGED <<mux, removals, exited, lost>>

\* spawn_pane has registered its pane; Domain::spawn makes a tab for it, adds
\* both to the mux, and the tab to the window it was meant for, if that is
\* still there; spawn_tab_or_window activates it.
SpawnDone(r) ==
    /\ request[r].op = "spawn"
    /\ mux.ids.tab < MaxTabs /\ mux.ids.pane < MaxPanes
    /\ LET t == mux.ids.tab + 1
           p == mux.ids.pane + 1
           w == request[r].win
           v == PushTab(mux.win[w], t)
           m == [mux EXCEPT !.ids.tab = t, !.ids.pane = p,
                            !.tabs = @ \cup {t}, !.panes = @ \cup {p},
                            !.tree[t] = {p}]
       IN  IF w \in mux.open
           THEN /\ mux' = [m EXCEPT !.win[w] = SaveAndThenSetActive(v, Len(v.tabs))]
                /\ UNCHANGED lost
           ELSE mux' = m /\ lost' = lost \cup {p}
    /\ Finish(r) /\ EndActivity(r)
    /\ UNCHANGED <<removals, exited>>

\* Mux::split_pane with a new pane.
SplitPane(r, p, gui) ==
    /\ request[r].op = "new" /\ p \in mux.panes
    /\ \E t \in TabsOf(mux, p) :
          request' = [request EXCEPT ![r] =
              [Fresh EXCEPT !.op = "split", !.tab = t, !.pane = p, !.gui = gui]]
    /\ UNCHANGED <<mux, prune, removals, exited, lost>>

\* spawn_pane has registered the new pane, which goes beside the old one if the
\* tab looked up before the wait still has it, and split_and_insert accepts it:
\* it refuses while the tab is zoomed and where there is no room, and the pane
\* stays registered.  Whether the mux still has the tab is not asked.
SplitDone(r, accepted) ==
    /\ request[r].op = "split" /\ mux.ids.pane < MaxPanes
    /\ LET q == mux.ids.pane + 1
           t == request[r].tab
           split == accepted /\ request[r].pane \in mux.tree[t]
       IN  /\ mux' = [mux EXCEPT !.ids.pane = q, !.panes = @ \cup {q},
                                 !.tree[t] = IF split THEN @ \cup {q} ELSE @]
           /\ lost' = IF split /\ t \in mux.tabs THEN lost ELSE lost \cup {q}
    /\ Finish(r) /\ EndActivity(r)
    /\ UNCHANGED <<removals, exited>>

-----------------------------------------------------------------------------
(***************************************************************************)
(* Panes that move; nothing suspends here.                                 *)
(***************************************************************************)
\* p leaves its tab t for a new one in the window w.
MoveToNewTab(m, p, t, w) ==
    LET u == m.ids.tab + 1
    IN  [open  |-> m.open \cup {w}, tabs |-> m.tabs \cup {u}, panes |-> m.panes \cup {p},
         win   |-> [m.win EXCEPT ![w] = PushTab(@, u)],
         tree  |-> [m.tree EXCEPT ![t] = @ \ {p}, ![u] = {p}],
         ids   |-> [win  |-> IF w \in m.open THEN m.ids.win ELSE w,
                    tab  |-> u, pane |-> m.ids.pane]]

\* move_pane_to_new_tab, to a window, or to a new one whose builder holds an
\* Activity until the end of the call.  add_pane makes the pane known again if
\* it was not.
MovePane(p, w) ==
    /\ mux.ids.tab < MaxTabs
    /\ \/ w \in mux.open /\ mux.win[w].tabs # <<>>
       \/ w = mux.ids.win + 1
    /\ \E t \in TabsOf(mux, p) :
          LET isNew == w \notin mux.open
              moved == MoveToNewTab(mux, p, t, w)
              emptied == moved.tree[t] \subseteq exited
              left == IF emptied THEN RemoveTabs(moved, {t}) ELSE moved
          IN  /\ prune' = (prune \/ isNew)
              /\ \/ emptied /\ ~isNew /\ ThenPrune(left, removals)
                 \/ ~(emptied /\ ~isNew) /\ mux' = left /\ UNCHANGED removals
    /\ UNCHANGED <<exited, request, lost>>

\* Mux::split_pane with SplitSource::MovePane: q moves beside p.  If the tab of
\* q is dead without it, remove_tab prunes, which may take p away.  A refused q
\* has left its tab.
SplitMove(p, q, accepted) ==
    /\ p \in mux.panes
    /\ \E t \in TabsOf(mux, p), s \in TabsOf(mux, q) :
          LET moved     == [mux EXCEPT !.tree[s] = @ \ {q}]
              emptied   == moved.tree[s] \subseteq exited
              without   == IF emptied THEN RemoveTabs(moved, {s}) ELSE moved
          IN  \E after \in IF emptied THEN Pruned(without) ELSE {<<without, {}>>} :
                 LET m == after[1]
                     split == accepted /\ p \in m.tree[t]
                 IN  /\ mux' = [m EXCEPT !.tree[t] = IF split THEN @ \cup {q} ELSE @]
                     /\ removals' = removals \cup after[2]
                     /\ lost' = IF split /\ t \in m.tabs THEN lost ELSE lost \cup {q}
    /\ UNCHANGED <<prune, exited, request>>

-----------------------------------------------------------------------------
(***************************************************************************)
(* Ends: a process exits, or somebody closes something.                    *)
(***************************************************************************)
ChildExit(p) ==
    /\ p <= mux.ids.pane /\ p \notin exited
    /\ exited' = exited \cup {p}
    /\ prune' = TRUE
    /\ UNCHANGED <<mux, removals, request, lost>>

OnPrune ==
    /\ prune /\ prune' = FALSE
    /\ ThenPrune(mux, removals)
    /\ UNCHANGED <<exited, request, lost>>

\* Mux::remove_pane, from a task (one for each pane, although one task may
\* remove several in a row) ...
OnRemove(p) ==
    /\ p \in removals
    /\ ThenPrune(RemovePanes(mux, {p}), removals \ {p})
    /\ UNCHANGED <<prune, exited, request, lost>>

\* ... or directly.
ClosePane(p) ==
    /\ p \in mux.panes
    /\ ThenPrune(RemovePanes(mux, {p}), removals)
    /\ UNCHANGED <<prune, exited, request, lost>>

\* The close dialog of a pane: Tab::kill_pane on the tab that is active when it
\* is answered.
KillPane(w, p) ==
    /\ w \in mux.open /\ mux.win[w].tabs # <<>>
    /\ LET t == ActiveTab(mux.win[w])
       IN  /\ p \in mux.tree[t]
           /\ mux' = [mux EXCEPT !.tree[t] = @ \ {p}]
    /\ removals' = removals \cup {p}
    /\ UNCHANGED <<prune, exited, request, lost>>

RemoveTab(t) ==
    /\ t \in mux.tabs \cap Shown(mux)
    /\ ThenPrune(RemoveTabs(mux, {t}), removals)
    /\ UNCHANGED <<prune, exited, request, lost>>

KillWindow(w) ==
    /\ w \in mux.open
    /\ ThenPrune(RemoveWindows(mux, {w}), removals)
    /\ UNCHANGED <<prune, exited, request, lost>>

ActivateTab(w, i) ==
    /\ w \in mux.open /\ i <= Len(mux.win[w].tabs)
    /\ mux' = [mux EXCEPT !.win[w] = SaveAndThenSetActive(@, i)]
    /\ UNCHANGED <<prune, removals, exited, request, lost>>

MoveTab(w, i) ==
    /\ w \in mux.open /\ i <= Len(mux.win[w].tabs)
    /\ mux' = [mux EXCEPT !.win[w] = MoveActive(@, i)]
    /\ UNCHANGED <<prune, removals, exited, request, lost>>

-----------------------------------------------------------------------------
RequestEnds(r) ==
    SpawnDone(r) \/ RequestFails(r) \/ \E accepted \in BOOLEAN : SplitDone(r, accepted)

Next ==
    \/ \E r \in Requests, gui \in BOOLEAN :
          \/ \E w \in WindowIds : SpawnTab(r, w, gui)
          \/ SpawnWindow(r, gui)
          \/ \E p \in PaneIds : SplitPane(r, p, gui)
    \/ \E r \in Requests : RequestEnds(r)
    \/ \E p \in PaneIds : ChildExit(p) \/ OnRemove(p) \/ ClosePane(p)
    \/ \E p \in PaneIds, w \in WindowIds : MovePane(p, w) \/ KillPane(w, p)
    \/ \E p, q \in PaneIds, accepted \in BOOLEAN : SplitMove(p, q, accepted)
    \/ \E t \in TabIds : RemoveTab(t)
    \/ \E w \in WindowIds : KillWindow(w)
    \/ \E w \in WindowIds, i \in 1..MaxTabs : ActivateTab(w, i) \/ MoveTab(w, i)
    \/ OnPrune

Spec == Init /\ [][Next]_vars

\* Queued tasks run, and every request comes to its end.  Nothing obliges the
\* user or a process to do anything.  Each action is named by its effect on the
\* one variable that no other action changes in that way: OnPrune, OnRemove(p)
\* (which may find p in a tree and queue p again, but then p is in no tree) and
\* RequestEnds(r), in this order.
Fairness ==
    /\ WF_prune(prune /\ prune' = FALSE)
    /\ \A p \in PaneIds :
          WF_removals(p \in removals /\ \E s \in SUBSET PaneIds : removals' = s \ {p})
    /\ \A r \in Requests : WF_request(r \in Busy /\ Finish(r))

FairSpec == Spec /\ Fairness

-----------------------------------------------------------------------------
(***************************************************************************)
(* Properties.                                                             *)
(***************************************************************************)
TypeOK ==
    /\ mux.open \subseteq WindowIds /\ mux.win \in [WindowIds -> Window]
    /\ mux.tabs \subseteq TabIds /\ mux.tree \in [TabIds -> SUBSET PaneIds]
    /\ mux.panes \subseteq PaneIds /\ removals \subseteq PaneIds /\ prune \in BOOLEAN
    /\ mux.ids.win <= MaxWindows /\ mux.ids.tab <= MaxTabs /\ mux.ids.pane <= MaxPanes
    /\ exited \subseteq PaneIds /\ lost \subseteq PaneIds
    /\ request \in [Requests -> Request]

\* No assert of window.rs can fail: the active index of every window denotes a
\* tab, and no tab is in a window twice, nor in two windows.
WindowsWellFormed ==
    /\ \A w \in WindowIds : WellFormed(mux.win[w])
    /\ \A v, w \in mux.open : v # w =>
          ToSet(mux.win[v].tabs) \cap ToSet(mux.win[w].tabs) = {}

\* The maps agree between any two steps: the windows show registered tabs only,
\* and a pane is in the tree of one registered tab at most.
MapsAgree ==
    /\ Shown(mux) \subseteq mux.tabs
    /\ \A s, t \in mux.tabs : s # t => mux.tree[s] \cap mux.tree[t] = {}

\* Nothing leaks: a registered pane can be reached through a registered tab or
\* its removal is queued, and a registered tab is in a window.  The exceptions
\* are the panes of requests that found their window or tab gone when they
\* resumed, and the panes a split refused after they were registered or taken
\* out of their tab: the code leaves those in no tab (domain.rs:200-203).
NothingLeaks ==
    /\ \A p \in mux.panes \ (lost \cup removals) :
          \E t \in mux.tabs : p \in mux.tree[t]
    /\ \A t \in mux.tabs \ Shown(mux) : mux.tree[t] \cap lost # {}

\* What is dead goes, although a prune may skip it, do nothing for an Activity, or
\* find it half removed: a pane that died leaves the mux, and a window with no
\* tab gets one or is removed.  Not so the panes that NothingLeaks excepts: the
\* prune looks into the windows' tabs only.
DeadIsPruned ==
    /\ \A p \in PaneIds :
          p \in exited /\ p \notin lost ~> p \notin mux.panes \/ p \in lost
    /\ \A w \in WindowIds :
          w \in mux.open /\ mux.win[w].tabs = <<>> ~>
              w \notin mux.open \/ mux.win[w].tabs # <<>>
=============================================================================
