------------------------------ MODULE TabTree ------------------------------
(***************************************************************************)
(* The panes of one tab (mux/src/tab.rs): a binary tree of splits whose    *)
(* leaves are panes, the geometry each split records for its two sides,    *)
(* the zoomed pane, the active index, and the sizes the panes were told.   *)
(*                                                                         *)
(* A position in the tree is its path, the sides taken on the way from the *)
(* root; the tree is where its splits and its panes are. What a walk of    *)
(* the tree hands down from split to split is a recursive function of the  *)
(* path. Sizes and the arithmetic of a split are in SplitGeometry. The     *)
(* recency list, which only breaks ties between neighbours, is left out.   *)
(*                                                                         *)
(* A definition whose name ends in Bug is no part of the model: it is what *)
(* a mutant puts in the place of the definition it is named after.         *)
(***************************************************************************)
EXTENDS SplitGeometry, Sequences, SequencesExt, FiniteSets

CONSTANTS Panes,     \* identities a pane of the tab may have
          NoPane,
          Sizes,     \* sizes the window may give to the tab
          Requests,  \* SplitRequests the user may make
          Deltas,    \* distances a divider is moved by in one step
          MaxMoves   \* bound: steps other than splits in one behaviour

ASSUME TabAssumption ==
  /\ NoPane \notin Panes
  /\ MaxMoves \in Nat
  /\ \A s \in Sizes : s \in Size /\ s["x"] > 0 /\ s["y"] > 0
  /\ Requests \subseteq [dir : {"x", "y"}, second : BOOLEAN, top : BOOLEAN, cells : Nat]
  /\ Deltas \subseteq Int

VARIABLES tab,      \* TabInner
          pending,  \* Domain::split_pane between its two calls into the tab
          moves     \* steps other than splits so far

vars == <<tab, pending, moves>>

---------------------------------------------------------------------------
(* Positions. The walks of the code are in preorder: a split before what   *)
(* is inside it, its left side before its right.                           *)

Sides == {"left", "right"}
Path == Seq(Sides)
Other(side) == IF side = "left" THEN "right" ELSE "left"

Inside(path, p) == IsStrictPrefix(path, p)
Before(p, q) == \E i \in DOMAIN p \cap DOMAIN q :
                  /\ p[i] = "left" /\ q[i] = "right"
                  /\ \A j \in 1..(i - 1) : p[j] = q[j]

\* preorder_next goes on to these.
After(path, p) == Inside(path, p) \/ Before(path, p)

\* The index of a pane among the leaves, and the pane of an index.
Index(at, p) == Cardinality({q \in DOMAIN at : Before(at[q], at[p])})
PaneAt(at, i) == IF \E p \in DOMAIN at : Index(at, p) = i
                 THEN CHOOSE p \in DOMAIN at : Index(at, p) = i ELSE NoPane

\* Two panes, or all of them, change places.
Moved(at, to) == [p \in DOMAIN at |-> at[to[p]]]

\* Unsplitting the parent of the position up followed by side: its sibling
\* takes the parent's place, and what is inside moves along. Sunk undoes it.
Lifted(p, up, side) == IF IsPrefix(Append(up, Other(side)), p)
                       THEN RemoveAt(p, Len(up) + 1) ELSE p
Sunk(p, up, side) == IF IsPrefix(up, p) THEN InsertAt(p, Len(up) + 1, Other(side)) ELSE p

---------------------------------------------------------------------------
(* Sizes.                                                                  *)

Total(n) == Whole(n.dir, n.slot)

\* The space of a position: what its parent records for that side.
SlotAt(split, path, root) == IF path = <<>> THEN root
                             ELSE split[Front(path)].slot[Last(path)]

\* compute_min_size of a position.
MinSize(split, path) ==
  LET least[p \in Path] ==
        LET l == least[Append(p, "left")]  r == least[Append(p, "right")]
        IN  IF p \notin DOMAIN split THEN [x |-> 1, y |-> 1]
            ELSE [ax \in Axes |-> IF ax = split[p].dir THEN l[ax] + r[ax] + Gutter(ax)
                                                       ELSE Larger(l[ax], r[ax])]
  IN  least[path]

\* The slots of a split given anew.
WithSlots(split, slots) ==
  [p \in DOMAIN split |->
     [dir |-> split[p].dir, slot |-> [side \in Sides |-> slots[p][side]]]]

\* adjust_x_size and adjust_y_size are one algorithm on two axes. A split
\* across the axis passes the change to both sides; a split along it hands
\* it out a cell at a time, left side first, and each side passes its cell on
\* at once. When neither side records more than one cell the loop that
\* shrinks changes nothing and goes on for ever: Adjust is the set of the
\* slots it may come out with, empty when it does not come out.
Adjust(split, ax, cells) ==
  LET S == DOMAIN split
      pass[slots \in [S -> [Sides -> [Axes -> Int]]], p \in Path, d \in Int] ==
        LET one == IF d > 0 THEN 1 ELSE -1
            gives(side, n) == n # 0 /\ (d > 0 \/ slots[p][side][ax] > 1)
            first == IF gives("left", d) THEN one ELSE 0
            second == IF gives("right", d - first) THEN one ELSE 0
            across == Larger(slots[p]["left"][ax] + d, MinSize(split, p)[ax])
            change == across - slots[p]["left"][ax]
            both(new, l, r) == UNION {pass[s, Append(p, "right"), r] :
                                        s \in pass[new, Append(p, "left"), l]}
        IN  CASE d = 0 \/ p \notin S -> {slots}
              [] d # 0 /\ p \in S /\ split[p].dir # ax ->
                   IF change = 0 THEN {slots}
                   ELSE both([slots EXCEPT ![p]["left"][ax] = across,
                                           ![p]["right"][ax] = across], change, change)
              [] d # 0 /\ p \in S /\ split[p].dir = ax ->
                   IF first = 0 /\ second = 0 THEN {}
                   ELSE UNION {pass[s, p, d - first - second] :
                                 s \in both([slots EXCEPT ![p]["left"][ax] = @ + first,
                                                          ![p]["right"][ax] = @ + second],
                                            first, second)}
  IN  pass[[p \in S |-> split[p].slot], <<>>, cells]

\* cascade_size_from_cursor: the splits after path, in turn, are fitted to
\* the space their parents record by then.
Cascaded(split, path) ==
  LET fit[p \in DOMAIN split] ==
        IF After(path, p)
        THEN [split[p] EXCEPT !.slot = Refit(split[p].dir, @, fit[Front(p)].slot[Last(p)])]
        ELSE split[p]
  IN  fit

---------------------------------------------------------------------------
(* TabInner and the steps its methods are made of. shown is the size of a  *)
(* pane's terminal, pty the size its process was last told; Pane::resize   *)
(* sets both and resize_visual only the first. A tab is hung once a resize *)
(* does not return: it keeps the tab's lock and the main thread.           *)

\* size_before_zoom is set when a pane is zoomed and read when it no longer is;
\* in between the model keeps none.
NoSize == [x |-> 0, y |-> 0]

ActivePane(tb) == IF tb.zoomed # NoPane THEN tb.zoomed ELSE PaneAt(tb.at, tb.active)

\* apply_sizes_from_splits: the space every leaf is given.
SlotsOf(tb) == [p \in DOMAIN tb.at |-> SlotAt(tb.split, tb.at[p], tb.size)]

\* A leaf is given what its parent has.
CascadedSlotsBug(tb, path) ==
  [p \in {q \in DOMAIN tb.at : After(path, tb.at[q])} |-> Total(tb.split[Front(tb.at[p])])]

\* The leaves a cascade resizes, and to what.
CascadedSlots(tb, path) ==
  [p \in {q \in DOMAIN tb.at : After(path, tb.at[q])} |-> SlotsOf(tb)[p]]

Updated(f, sizes) == [p \in DOMAIN f \cup DOMAIN sizes |->
                        IF p \in DOMAIN sizes THEN sizes[p] ELSE f[p]]
One(p, x) == [q \in {p} |-> x]

Told(tb, sizes) == [tb EXCEPT !.shown = Updated(@, sizes), !.pty = Updated(@, sizes)]

ClampedBug(tb, sz) == sz     \* the least the panes need is not asked for

Clamped(tb, sz) == LET least == MinSize(tb.split, <<>>)
                   IN  [ax \in Axes |-> Larger(sz[ax], least[ax])]

\* resize_visual: the geometry alone.
Reshaped(tb, sz) ==
  LET to == Clamped(tb, sz)
      results == UNION {Adjust(WithSlots(tb.split, s), "y", to["y"] - tb.size["y"]) :
                          s \in Adjust(tb.split, "x", to["x"] - tb.size["x"])}
  IN  IF tb.zoomed # NoPane THEN [tb EXCEPT !.size = sz]
      ELSE IF results = {} THEN [tb EXCEPT !.hung = TRUE]
      ELSE [tb EXCEPT !.split = WithSlots(@, CHOOSE s \in results : TRUE), !.size = to]

\* apply_sizes_from_splits, where the resize before it returned.
ToldSlots(tb) == IF tb.hung THEN tb ELSE Told(tb, SlotsOf(tb))

Resized(tb, sz) ==
  IF tb.zoomed # NoPane THEN Told(Reshaped(tb, sz), One(tb.zoomed, sz))
                        ELSE ToldSlots(Reshaped(tb, sz))

ZoomToggled(tb) ==
  LET p == ActivePane(tb)
  IN  IF tb.zoomed # NoPane
      THEN Resized([tb EXCEPT !.zoomed = NoPane, !.size = tb.before, !.before = NoSize], tb.size)
      ELSE IF p = NoPane THEN tb
      ELSE Told([tb EXCEPT !.before = tb.size, !.zoomed = p], One(p, tb.size))

Unzoomed(tb) == IF tb.zoomed = NoPane THEN tb ELSE ZoomToggled(tb)

\* A pane the tab no longer holds keeps no record in the model.
Without(f, p) == [q \in DOMAIN f \ {p} |-> f[q]]

Forgot(tb, p) ==
  [tb EXCEPT !.at = Without(@, p), !.shown = Without(@, p), !.pty = Without(@, p),
             !.zoomed = IF @ = p THEN NoPane ELSE @,
             !.before = IF tb.zoomed = p THEN NoSize ELSE @]

\* What remove_pane_if does about one pane it removes. The sibling takes the
\* place of the parent and all of its space, and whatever the walk meets from
\* there on is fitted to its own. (That the model does so at once, up to the
\* end of the tree, comes to the same: a split that is fitted keeps no trace
\* of what it was fitted to before.)
Unsplit(tb, p) ==
  LET up == Front(tb.at[p])
      side == Last(tb.at[p])
      whole == Total(tb.split[up])
      new == Forgot(tb, p)
      at == [q \in DOMAIN new.at |-> Lifted(new.at[q], up, side)]
      moved == [q \in {Lifted(s, up, side) : s \in DOMAIN tb.split \ {up}} |->
                  tb.split[Sunk(q, up, side)]]
      sibling == [q \in DOMAIN moved |->
                    IF q = up THEN [moved[q] EXCEPT !.slot = Refit(moved[q].dir, @, whole)]
                    ELSE moved[q]]
      fitted == [new EXCEPT !.at = at, !.split = Cascaded(sibling, up)]
      there == {q \in DOMAIN at : at[q] = up}
  IN  Told(fitted, Updated(CascadedSlots(fitted, up), [q \in there |-> whole]))

\* The walk of remove_pane_if, from one removed pane to the next: the tab so
\* far, the panes the walk has still to come to, the leaves it has counted,
\* and the indices it removed at. It goes on AFTER the position the sibling
\* took, or into it again when the sibling is a split it has been through.
NextRemoved(w, kill) ==
  CHOOSE p \in w.rest \cap kill :
    \A q \in (w.rest \cap kill) \ {p} : Before(w.tab.at[p], w.tab.at[q])

RemoveNext(w, kill) ==
  LET p == NextRemoved(w, kill)
      index == w.count + Cardinality({q \in w.rest : Before(w.tab.at[q], w.tab.at[p])})
      cut == Unsplit(w.tab, p)
  IN  IF w.rest \cap kill = {} THEN w
      ELSE IF w.tab.at[p] = <<>>
      THEN [tab |-> Forgot(w.tab, p), rest |-> {}, count |-> index, removed |-> w.removed \cup {index}]
      ELSE [tab |-> cut,
            rest |-> {q \in DOMAIN cut.at : After(Front(w.tab.at[p]), cut.at[q])},
            count |-> index + 1,
            removed |-> w.removed \cup {index}]

Walked(tb, kill) ==
  LET walk[n \in 0..Cardinality(kill)] ==
        IF n = 0 THEN [tab |-> tb, rest |-> DOMAIN tb.at, count |-> 0, removed |-> {}]
        ELSE RemoveNext(walk[n - 1], kill)
  IN  walk[Cardinality(kill)]

\* The removed index itself is not counted, or every removed index is.
RemovedBelowBug(tb, kill) ==
  LET w == Walked(tb, kill)
  IN  [w.tab EXCEPT !.active = Less(@, Cardinality({i \in w.removed : i < tb.active}))]
RemovedAllBug(tb, kill) ==
  LET w == Walked(tb, kill)
  IN  [w.tab EXCEPT !.active = Less(@, Cardinality(w.removed))]

\* remove_pane_if: the walk, then the active index moves down by one for each
\* removed index that was not above it.
Removed(tb, kill) ==
  LET w == Walked(tb, kill)
  IN  [w.tab EXCEPT !.active = Less(@, Cardinality({i \in w.removed : i <= tb.active}))]

\* compute_split_size on an un-zoomed tab: the sides of the split of p, or of
\* the whole tab.
SplitSlots(tb, p, r) == Cut(IF r.top THEN tb.size ELSE SlotsOf(tb)[p], r)

\* split_and_insert's "No space for split!" and "cannot split while zoomed".
Refused(tb, p, r) == \/ tb.zoomed # NoPane
                     \/ NoRoom(SplitSlots(tb, p, r), r.dir, tb.size)

\* split_and_insert of a pane that comes with the sizes shown and pty. A
\* top-level split of several panes first shrinks the tab to one side, and
\* neither tells the new pane its size nor gives the tab its own back.
SplitPane(tb, p, r, new) ==
  LET slots == SplitSlots(tb, p, r)
      old == IF r.second THEN "left" ELSE "right"
      at == tb.at[p]
      both == [tb EXCEPT
                 !.at = [q \in DOMAIN @ \cup {new} |->
                           CASE q = p -> Append(at, old)
                             [] q = new -> Append(at, Other(old))
                             [] OTHER -> tb.at[q]],
                 !.split = [q \in DOMAIN @ \cup {at} |->
                              IF q = at THEN [dir |-> r.dir, slot |-> slots] ELSE tb.split[q]],
                 !.active = IF r.second THEN Index(tb.at, p) + 1 ELSE @]
  IN  Told(both, [q \in {p, new} |-> slots[IF q = p THEN old ELSE Other(old)]])

SplitTab(tb, r, new, shown, pty) ==
  LET slots == Cut(tb.size, r)
      old == IF r.second THEN "left" ELSE "right"
      shrunk == Resized(tb, slots[old])
      below(p) == <<old>> \o p
  IN  IF shrunk.hung THEN shrunk
      ELSE [shrunk EXCEPT
              !.at = [q \in DOMAIN @ \cup {new} |->
                        IF q = new THEN <<Other(old)>> ELSE below(tb.at[q])],
              !.split = [q \in {<<>>} \cup {below(s) : s \in DOMAIN @} |->
                           IF q = <<>> THEN [dir |-> r.dir, slot |-> slots]
                           ELSE shrunk.split[Tail(q)]],
              !.active = IF r.second THEN Cardinality(DOMAIN tb.at) ELSE 0,
              !.shown = Updated(@, One(new, shown)),
              !.pty = Updated(@, One(new, pty))]

Inserted(tb, p, r, new, shown, pty) ==
  IF r.top /\ <<>> \in DOMAIN tb.split THEN SplitTab(tb, r, new, shown, pty)
  ELSE SplitPane(tb, p, r, new)

---------------------------------------------------------------------------
(* Actions: what the window, the mux and the command line do to a tab.     *)

NoSplit == [pane |-> NoPane]

InTab == DOMAIN tab.at

Init == \E p \in Panes, s \in Sizes :
          /\ tab = [at |-> One(p, <<>>), split |-> <<>>, size |-> s, before |-> NoSize,
                    zoomed |-> NoPane, active |-> 0, shown |-> One(p, s), pty |-> One(p, s),
                    hung |-> FALSE]
          /\ pending = NoSplit
          /\ moves = 0

\* Domain::split_pane up to its await: the sides of the split are computed,
\* which un-zooms the tab, and a process is being started at the size of the
\* second side, whichever side the new pane will take.
BeginSplit(p, r) ==
  /\ pending = NoSplit
  /\ tab' = IF r.top THEN tab ELSE Unzoomed(tab)
  /\ pending' = [pane |-> p, request |-> r, size |-> SplitSlots(tab', p, r)["right"]]

\* Its end: the index of the pane is looked up again, then the split made.
EndSplit(new) ==
  /\ pending # NoSplit
  /\ new \notin InTab
  /\ pending' = NoSplit
  /\ LET p == pending.pane  r == pending.request
     IN  tab' = IF p \notin InTab \/ Refused(tab, p, r) THEN tab
                ELSE Inserted(tab, p, r, new, pending.size, pending.size)

\* split_pane with SplitSource::MovePane within the tab; nothing is awaited. The
\* source leaves its place first: it is in no tab when the split is refused.
MoveSplit(p, source, r) ==
  /\ p # source
  /\ LET open == IF r.top THEN tab ELSE Unzoomed(tab)
         cut == Removed(open, {source})
     IN  tab' = IF open.hung THEN open ELSE IF Refused(cut, p, r) THEN cut
                ELSE Inserted(cut, p, r, source, tab.shown[source], tab.pty[source])
  /\ UNCHANGED pending

\* kill_pane, prune_dead_panes and kill_panes_in_domain.
RemovePanes(kill) == /\ tab' = Removed(tab, kill)
                     /\ UNCHANGED pending

Resize(sz) == tab' = Resized(tab, sz) /\ UNCHANGED pending
ResizeVisual(sz) == tab' = Reshaped(tab, sz) /\ UNCHANGED pending

\* flush_pane_pty_sizes, at the end of a live resize or of a drag.
Flush == /\ tab' = Told(tab, IF tab.zoomed # NoPane THEN One(tab.zoomed, tab.size) ELSE SlotsOf(tab))
         /\ UNCHANGED pending

\* A split changed, and what follows from it.
MoveDivider(tb, path, delta) ==
  LET shifted == Shift(tb.split[path].dir, tb.split[path].slot, delta)
  IN  [tb EXCEPT !.split = Cascaded([@ EXCEPT ![path].slot = shifted], path)]

\* resize_split_by_visual: the divider the mouse drags.
Drag(path, delta) ==
  /\ tab.zoomed = NoPane
  /\ LET new == MoveDivider(tab, path, delta)
     IN  tab' = [new EXCEPT !.shown = Updated(@, CascadedSlots(new, path))]
  /\ UNCHANGED pending

\* adjust_pane_size: the nearest split of that axis above the active pane.
AdjustPaneSize(ax, delta) ==
  /\ tab.zoomed = NoPane
  /\ ActivePane(tab) # NoPane
  /\ LET above == {p \in DOMAIN tab.split :
                     Inside(p, tab.at[ActivePane(tab)]) /\ tab.split[p].dir = ax}
     IN  \E path \in above :
           /\ \A p \in above : Len(p) <= Len(path)
           /\ LET new == MoveDivider(tab, path, delta)
              IN  tab' = Told(new, CascadedSlots(new, path))
  /\ UNCHANGED pending

\* toggle_pane_split_direction: the active pane's split turns a quarter.
ToggleSplitDirection ==
  /\ tab.zoomed = NoPane
  /\ ActivePane(tab) # NoPane
  /\ <<>> \in DOMAIN tab.split
  /\ LET path == Front(tab.at[ActivePane(tab)])
         n == tab.split[path]
         turned == IF CanTurn(n.dir, n.slot)
                   THEN [dir |-> Turned(n.dir), slot |-> Turn(n.dir, n.slot)] ELSE n
         new == [tab EXCEPT !.split = Cascaded([@ EXCEPT ![path] = turned], path)]
     IN  tab' = Told(new, CascadedSlots(new, path))
  /\ UNCHANGED pending

ToggleZoom == tab' = ZoomToggled(tab) /\ UNCHANGED pending

\* rotate_counter_clockwise and rotate_clockwise: the panes move one leaf
\* down or up, the active index stays.
Rotate(step) ==
  /\ LET n == Cardinality(InTab)
         to == [p \in InTab |-> PaneAt(tab.at, (Index(tab.at, p) - step + n) % n)]
         new == [tab EXCEPT !.at = Moved(@, to)]
     IN  tab' = Told(new, SlotsOf(new))
  /\ UNCHANGED pending

Swap(p, q) == [r \in InTab |-> CASE r = p -> q [] r = q -> p [] OTHER -> r]

\* The second of the two swaps missing.
PaneSelectBug(i, keepFocus) ==
  /\ LET open == Unzoomed(tab)
         to == [r \in InTab |-> IF r = PaneAt(open.at, i) THEN ActivePane(open) ELSE r]
         new == [open EXCEPT !.at = Moved(@, to)]
     IN  tab' = Told(new, SlotsOf(new))
  /\ UNCHANGED pending

\* swap_active_with_index.
SwappedActive(tb, i, keepFocus) ==
  LET p == ActivePane(tb)
      new == [tb EXCEPT !.at = Moved(@, Swap(p, PaneAt(tb.at, i)))]
  IN  IF p = NoPane THEN tb
      ELSE [Told(new, SlotsOf(new)) EXCEPT !.active = IF keepFocus THEN i ELSE @]

\* PaneSelector: un-zoom, swap the chosen pane with the active one, zoom again.
PaneSelect(i, keepFocus) ==
  /\ LET open == Unzoomed(tab)
         swapped == SwappedActive(open, i, keepFocus)
     IN  tab' = IF open.hung THEN open ELSE IF tab.zoomed = NoPane THEN swapped ELSE ZoomToggled(swapped)
  /\ UNCHANGED pending

\* ActivatePaneByIndex and a click: an index of iter_panes, which while
\* zoomed lists the zoomed pane alone, as number 0.
SetActiveIndex(i) == /\ i < (IF tab.zoomed = NoPane THEN Cardinality(InTab) ELSE 1)
                     /\ tab' = [tab EXCEPT !.active = i]
                     /\ UNCHANGED pending

\* set_active_pane and activate_pane_direction: un-zoom, then focus a pane.
FocusPane(p) ==
  /\ p # ActivePane(tab)
  /\ tab' = [Unzoomed(tab) EXCEPT !.active = Index(tab.at, p)]
  /\ UNCHANGED pending

Splits == \/ \E p \in InTab, r \in Requests : BeginSplit(p, r)
          \/ \E p \in Panes : EndSplit(p)

Focusing ==
  \/ ToggleZoom
  \/ \E i \in 0..Cardinality(InTab) - 1, keep \in BOOLEAN : PaneSelect(i, keep)
  \/ \E p \in InTab : FocusPane(p)

Moves ==
  \/ \E p \in InTab, q \in InTab, r \in Requests : MoveSplit(p, q, r)
  \/ \E kill \in (SUBSET InTab) \ {{}} : RemovePanes(kill)
  \/ \E s \in Sizes : Resize(s) \/ ResizeVisual(s)
  \/ Flush
  \/ \E path \in DOMAIN tab.split, d \in Deltas : Drag(path, d)
  \/ \E ax \in Axes, d \in Deltas : AdjustPaneSize(ax, d)
  \/ ToggleSplitDirection
  \/ \E step \in {1, -1} : Rotate(step)
  \/ \E i \in 0..Cardinality(InTab) - 1 : SetActiveIndex(i)
  \/ Focusing

Next == /\ InTab # {}
        /\ ~ tab.hung
        /\ \/ Splits /\ UNCHANGED moves
           \/ moves < MaxMoves /\ Moves /\ moves' = moves + 1

Spec == Init /\ [][Next]_vars

---------------------------------------------------------------------------
(* Properties.                                                             *)

\* Splits and panes make one binary tree: each pane and each split is at a
\* position of its own, every split has both its sides and lies, like every
\* pane, below splits up to the root.
IsTree(at, split) ==
  LET S == DOMAIN split
      all == S \cup {at[p] : p \in DOMAIN at}
  IN  /\ IsInjective(at)
      /\ \A p \in DOMAIN at : at[p] \in Path \ S
      /\ S \subseteq Path
      /\ \A p \in S : Append(p, "left") \in all /\ Append(p, "right") \in all
      /\ \A p \in all : \A n \in 0..(Len(p) - 1) : SubSeq(p, 1, n) \in S

\* The panes in the tab have each a leaf of their own and the tab is a tree, the
\* zoomed pane is one of its panes, and no pane outside has a size: no split,
\* swap, rotation or removal duplicates a pane or keeps a removed one zoomed.
\* (It does not say which panes are in the tab: a move that is refused loses the
\* pane it moved, see MoveSplit.)
TypeOK ==
  /\ InTab \subseteq Panes /\ IsFiniteSet(InTab) /\ IsTree(tab.at, tab.split)
  /\ \A p \in DOMAIN tab.split : tab.split[p].dir \in Axes
  /\ tab.zoomed \in InTab \cup {NoPane}
  /\ tab.active \in Nat /\ tab.hung \in BOOLEAN
  /\ DOMAIN tab.shown = InTab /\ DOMAIN tab.pty = InTab
  /\ pending # NoSplit => pending.pane \in Panes /\ pending.request \in Requests
  /\ moves \in 0..MaxMoves

\* Every split fills exactly the space its parent gives it, and no side is
\* empty. While a pane is zoomed the tree keeps the size from before.
Fills(at, split, size) ==
  LET space(p) == SlotAt(split, p, size)
  IN  /\ \A p \in DOMAIN split \cup {at[q] : q \in DOMAIN at} :
           space(p) \in Size /\ space(p)["x"] > 0 /\ space(p)["y"] > 0
      /\ \A p \in DOMAIN split :
           /\ Total(split[p]) = space(p)
           /\ \A ax \in Axes \ {split[p].dir} : split[p].slot["right"][ax] = space(p)[ax]
Fits(tb) == Fills(tb.at, tb.split, IF tb.zoomed = NoPane THEN tb.size ELSE tb.before)

\* Every pane the window shows was told the space it is shown in.
Settled(tb) == IF tb.zoomed # NoPane THEN tb.pty[tb.zoomed] = tb.size
               ELSE tb.pty = SlotsOf(tb) /\ tb.shown = tb.pty

Sound(tb) == Fits(tb) /\ Settled(tb)

\* A pane split in two leaves a sound tab: both panes told their sizes, and
\* the rest of the tab untouched, even when panes went or the window was
\* resized while the new process started. A split of a whole tab of several
\* panes is left out: it keeps the shrunken size as the tab's.
SplitKeepsLayout ==
  [][/\ pending # NoSplit /\ pending' = NoSplit
     /\ ~ (pending.request.top /\ <<>> \in DOMAIN tab.split)
     /\ Sound(tab)
     => Sound(tab')]_vars

\* Panes that go give their space to a sibling and the tab stays sound, also
\* when several go in one walk of the tree. Removal under a zoomed pane is
\* left out: it resizes that pane, or un-zooms without the size from before.
RemovalKeepsLayout ==
  [][/\ InTab' # InTab /\ tab.zoomed = NoPane
     /\ \E kill \in SUBSET InTab : RemovePanes(kill)
     /\ Sound(tab)
     => Sound(tab')]_vars

\* A split inside one across it inside one along it. The cells of a resize go to
\* the sides in turn, and a split across the axis that is asked for a cell which
\* a split inside it cannot spare keeps it, though its parent has given it up:
\* the sides then overlap.
Alternating(split) ==
  \E p, q, r \in DOMAIN split : /\ Inside(p, q) /\ Inside(q, r)
                                /\ split[p].dir = split[r].dir /\ split[p].dir # split[q].dir

\* A resize that returns leaves a sound tab at the size asked for, or at the
\* least the panes need, however the cells were handed out, unless the splits
\* alternate.
ResizeKeepsLayout ==
  [][\A s \in Sizes :
       /\ tab'.at = tab.at /\ tab'.zoomed = tab.zoomed
       /\ tab'.size["x"] >= s["x"] /\ tab'.size["y"] >= s["y"]
       /\ Sound(tab) /\ ~ Alternating(tab.split)
       /\ Resize(s)
       => Sound(tab') \/ tab'.hung]_vars

\* A sound tab whose splits do not alternate stays sound as panes are zoomed,
\* un-zoomed, focused and swapped, although the window may have changed its size
\* in between.
ZoomKeepsLayout ==
  [][/\ tab'.zoomed # tab.zoomed \/ tab'.active # tab.active \/ tab'.at # tab.at
     /\ InTab' = InTab
     /\ Sound(tab) /\ ~ Alternating(tab.split)
     /\ Focusing
     => Sound(tab') \/ tab'.hung]_vars

\* However panes come, go and swap, the splits keep filling the tab, and each
\* pane knows its size.
PanesKeepLayout == SplitKeepsLayout /\ RemovalKeepsLayout

\* The same for whatever changes the size of the tab or what of it is shown.
SizesKeepLayout == ResizeKeepsLayout /\ ZoomKeepsLayout

\* A dragged divider changes the panes on its two sides and no other, although
\* the code walks on through all that follows in the tree.
DragStaysInside ==
  [][\A path \in DOMAIN tab.split, d \in Deltas :
       /\ tab'.split # tab.split /\ tab'.pty = tab.pty /\ tab'.size = tab.size
       /\ Sound(tab)
       /\ Drag(path, d)
       => \A p \in InTab :
            ~ Inside(path, tab.at[p]) =>
              /\ SlotsOf(tab')[p] = SlotsOf(tab)[p]
              /\ tab'.shown[p] = tab.shown[p]]_vars

\* When another pane goes the focused pane keeps the focus: the active index
\* moves with it. And no step loses the focus, that is, leaves an index past
\* the last pane, unless several panes go in one walk: remove_pane_if then
\* counts a split that it walks through a second time twice, and with four
\* panes the index can come out too high.
ActiveNamed == tab.active < Cardinality(InTab)
FocusKept ==
  [][/\ /\ InTab' # InTab /\ tab.zoomed = NoPane
        /\ \E p \in InTab \ {ActivePane(tab)} : RemovePanes({p})
        => ActivePane(tab') = ActivePane(tab)
     /\ /\ ActiveNamed /\ InTab' # {}
        /\ Cardinality(InTab \ InTab') <= 1
        => ActiveNamed']_vars

\* "Constrain the new size to the minimum possible dimensions" (tab.rs:1500):
\* once constrained, a resize can be distributed and returns.
ResizeReturns == ~ tab.hung
=============================================================================
