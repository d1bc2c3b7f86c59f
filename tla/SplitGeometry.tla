--------------------------- MODULE SplitGeometry ---------------------------
(***************************************************************************)
(* The arithmetic of one split (mux/src/tab.rs): the extents of its two    *)
(* sides along and across the axis it divides, with the gutter in between. *)
(*                                                                         *)
(* A size is a record of columns (x) and rows (y); "x" and "y" also name   *)
(* the two axes, so a split of direction "x" puts its sides left and right *)
(* (SplitDirection::Horizontal) and one of direction "y" top and bottom.   *)
(* TerminalSize's pixels and dpi follow the cells and are left out.        *)
(***************************************************************************)
EXTENDS Integers

CONSTANT Gap     \* split_pane_gap

ASSUME GapAssumption == Gap \in Nat

Axes == {"x", "y"}
Size == [Axes -> Nat]
Slots == [{"left", "right"} -> Size]     \* first and second

Larger(a, b) == IF a > b THEN a ELSE b
Smaller(a, b) == IF a < b THEN a ELSE b
Less(a, b) == Larger(a - b, 0)                    \* usize::saturating_sub

\* split_col_gutter and split_row_gutter.
Gutter(dir) == IF dir = "x" THEN 1 + 2 * Gap ELSE Larger(Gap, 1)

\* A size with another extent along the axis.
With(sz, dir, n) == [ax \in Axes |-> IF ax = dir THEN n ELSE sz[ax]]

\* SplitDirectionAndSize::size, of width and height.
Whole(dir, slots) ==
  With(slots["left"], dir, slots["left"][dir] + slots["right"][dir] + Gutter(dir))

\* compute_split_size: the sides of a split of space, the one asked for
\* having cells cells, or half when none are named.
Cut(space, r) ==
  LET target == Larger(IF r.cells = 0 THEN (space[r.dir] * 50) \div 100 ELSE r.cells, 1)
      rest == Less(space[r.dir], target + Gutter(r.dir))
  IN  [side \in {"left", "right"} |->
         With(space, r.dir, IF r.second = (side = "right") THEN target ELSE rest)]

\* split_and_insert's "No space for split!".
NoRoom(slots, dir, size) ==
  \E ax \in Axes :
    \/ slots["left"][ax] = 0 \/ slots["right"][ax] = 0
    \/ (IF ax = dir THEN slots["left"][ax] + Gutter(ax) ELSE 0) + slots["right"][ax] > size[ax]

\* For a mutant of TabTree's runs: the second side keeps its extent across the split.
RefitBug(dir, slots, sz) ==
  [side \in {"left", "right"} |->
     With(IF side = "left" THEN sz ELSE slots["right"], dir,
          IF side = "left" THEN slots["left"][dir]
          ELSE Less(sz[dir], Gutter(dir) + slots["left"][dir]))]

\* apply_pane_size: the first side keeps its extent, the second has the rest.
Refit(dir, slots, sz) ==
  [side \in {"left", "right"} |->
     With(sz, dir, IF side = "left" THEN slots["left"][dir]
                   ELSE Less(sz[dir], Gutter(dir) + slots["left"][dir]))]

\* adjust_node_at_cursor: the first side's extent clamped to [1, total - 2]
\* and the second the rest. (A negative one becomes a huge usize in the code.)
Shift(dir, slots, delta) ==
  LET total == Whole(dir, slots)[dir]
      extent == Smaller(Larger(slots["left"][dir] + delta, 1), total - 2)
  IN  [side \in {"left", "right"} |->
         With(slots[side], dir, IF side = "left" THEN extent
                                ELSE Less(total, extent + Gutter(dir)))]

\* toggle_pane_split_direction: the same space halved along the other axis.
Turned(dir) == IF dir = "x" THEN "y" ELSE "x"
CanTurn(dir, slots) == Whole(dir, slots)[Turned(dir)] >= Gutter(Turned(dir)) + 2
Turn(dir, slots) ==
  LET to == Turned(dir)
      whole == Whole(dir, slots)
      half == Less(whole[to], Gutter(to)) \div 2
  IN  [side \in {"left", "right"} |->
         With(whole, to, IF side = "left" THEN half ELSE Less(whole[to], Gutter(to)) - half)]
=============================================================================
