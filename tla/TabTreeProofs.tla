--------------------------- MODULE TabTreeProofs ---------------------------
(***************************************************************************)
(* What holds of a tab for every set of panes, every size of the window,   *)
(* every gutter and every order of the calls: the arithmetic of one split, *)
(* that the tab stays one tree of its panes, which pane has the focus, and *)
(* that dividers, splits and removals leave the splits filling the tab.    *)
(*                                                                         *)
(* What a cascade or the walk of a removal computes is had from the        *)
(* function it is defined by, one split or one pane at a time; an          *)
(* induction is over the numbers up to the depth of the tree, or up to the *)
(* number of panes that go.                                                *)
(***************************************************************************)
EXTENDS TabTree, SequenceTheorems, FiniteSetTheorems, TLAPS

---------------------------------------------------------------------------
(* Sizes: the arithmetic of a split.                                       *)

Request == [dir : Axes, second : BOOLEAN, top : BOOLEAN, cells : Nat]

\* Between the sides of a split there is at least one cell.
LEMMA GutterType == \A dir \in Axes : Gutter(dir) \in Nat /\ Gutter(dir) >= 1
  BY GapAssumption DEF Gutter, Axes, Larger

\* Sizes are equal when they agree on both axes.
LEMMA SizeEqual ==
  ASSUME NEW s \in Size, NEW t \in Size, NEW dir \in Axes,
         s[dir] = t[dir], \A ax \in Axes \ {dir} : s[ax] = t[ax]
  PROVE  s = t
  BY DEF Size, Axes

\* A size with another extent on one axis.
LEMMA WithSize ==
  ASSUME NEW s \in Size, NEW dir \in Axes, NEW n \in Nat, NEW t, t = With(s, dir, n)
  PROVE  /\ t \in Size
         /\ t[dir] = n
         /\ \A ax \in Axes \ {dir} : t[ax] = s[ax]
  BY DEF With, Size, Axes

\* What a split and its gutter take.
LEMMA WholeSize ==
  ASSUME NEW dir \in Axes, NEW slots, slots["left"] \in Size, slots["right"] \in Size
  PROVE  /\ Whole(dir, slots) \in Size
         /\ Whole(dir, slots)[dir] = slots["left"][dir] + slots["right"][dir] + Gutter(dir)
         /\ \A ax \in Axes \ {dir} : Whole(dir, slots)[ax] = slots["left"][ax]
<1>1. slots["left"][dir] + slots["right"][dir] + Gutter(dir) \in Nat
  BY GutterType DEF Size
<1> QED BY <1>1, WithSize DEF Whole

\* compute_split_size: whenever neither side comes out empty, which
\* split_and_insert insists on, the two sides and the gutter fill the space.
THEOREM CutFills ==
  ASSUME NEW space \in Size, NEW r \in Request,
         Cut(space, r)["left"][r.dir] # 0, Cut(space, r)["right"][r.dir] # 0
  PROVE  Whole(r.dir, Cut(space, r)) = space
<1> DEFINE target == Larger(IF r.cells = 0 THEN (space[r.dir] * 50) \div 100 ELSE r.cells, 1)
           rest == Less(space[r.dir], target + Gutter(r.dir))
           cut == Cut(space, r)
<1>1. r.dir \in Axes /\ r.second \in BOOLEAN /\ r.cells \in Nat /\ space[r.dir] \in Nat
  BY DEF Request, Size
<1>2. target \in Nat /\ target >= 1
  <2>1. (space[r.dir] * 50) \div 100 \in Int
    BY <1>1
  <2> QED BY <1>1, <2>1 DEF Larger
<1>3. Gutter(r.dir) \in Nat
  BY <1>1, GutterType
<1>4. rest \in Nat /\ (rest # 0 => rest + target + Gutter(r.dir) = space[r.dir])
  BY <1>1, <1>2, <1>3 DEF Less, Larger
<1>5. /\ cut["left"] = With(space, r.dir, IF r.second THEN rest ELSE target)
      /\ cut["right"] = With(space, r.dir, IF r.second THEN target ELSE rest)
  BY <1>1 DEF Cut
<1> HIDE DEF target, rest, cut
<1>6. cut["left"] \in Size /\ cut["right"] \in Size
  BY <1>1, <1>2, <1>4, <1>5, WithSize
<1>7. cut["left"][r.dir] + cut["right"][r.dir] + Gutter(r.dir) = space[r.dir]
  <2>1. /\ cut["left"][r.dir] = (IF r.second THEN rest ELSE target)
        /\ cut["right"][r.dir] = (IF r.second THEN target ELSE rest)
    BY <1>1, <1>2, <1>4, <1>5, WithSize
  <2>2. rest # 0
    BY <2>1, <1>1 DEF cut
  <2> QED BY <2>1, <2>2, <1>1, <1>2, <1>3, <1>4
<1>8. \A ax \in Axes \ {r.dir} : cut["left"][ax] = space[ax]
  <2>1. CASE r.second
    <3>1. cut["left"] = With(space, r.dir, rest)
      BY <2>1, <1>5
    <3> QED BY <3>1, <1>1 DEF With
  <2>2. CASE ~ r.second
    <3>1. cut["left"] = With(space, r.dir, target)
      BY <2>2, <1>5
    <3> QED BY <3>1, <1>1 DEF With
  <2> QED BY <2>1, <2>2
<1>9. Whole(r.dir, cut) = space
  BY <1>1, <1>6, <1>7, <1>8, WholeSize, SizeEqual
<1> QED BY <1>9 DEF cut

\* apply_pane_size: a split fits the space it is given exactly when its first
\* side, which keeps its extent, and the gutter leave the second something or
\* nothing, but not less than nothing.
THEOREM RefitFills ==
  ASSUME NEW dir \in Axes, NEW slots \in Slots, NEW sz \in Size
  PROVE  Whole(dir, Refit(dir, slots, sz)) = sz <=> slots["left"][dir] + Gutter(dir) <= sz[dir]
<1> DEFINE first == slots["left"][dir]
           rest == Less(sz[dir], Gutter(dir) + first)
           fit == Refit(dir, slots, sz)
<1>1. first \in Nat /\ Gutter(dir) \in Nat /\ sz[dir] \in Nat
  BY GutterType DEF Slots, Size
<1>2. rest \in Nat /\ (first + rest + Gutter(dir) = sz[dir] <=> first + Gutter(dir) <= sz[dir])
  BY <1>1 DEF Less, Larger
<1>3. fit["left"] = With(sz, dir, first) /\ fit["right"] = With(sz, dir, rest)
  BY DEF Refit
<1> HIDE DEF first, rest, fit
<1>4. /\ fit["left"] \in Size /\ fit["left"][dir] = first
      /\ \A ax \in Axes \ {dir} : fit["left"][ax] = sz[ax]
      /\ fit["right"] \in Size /\ fit["right"][dir] = rest
  <2>1. first \in Nat /\ fit["left"] = With(sz, dir, first)
    BY <1>1, <1>3
  <2>2. rest \in Nat /\ fit["right"] = With(sz, dir, rest)
    BY <1>2, <1>3
  <2>3. /\ fit["left"] \in Size /\ fit["left"][dir] = first
        /\ \A ax \in Axes \ {dir} : fit["left"][ax] = sz[ax]
    BY <2>1, WithSize
  <2>4. fit["right"] \in Size /\ fit["right"][dir] = rest
    BY <2>2, WithSize
  <2> QED BY <2>3, <2>4
<1>5. /\ Whole(dir, fit) \in Size
      /\ Whole(dir, fit)[dir] = first + rest + Gutter(dir)
      /\ \A ax \in Axes \ {dir} : Whole(dir, fit)[ax] = sz[ax]
  BY <1>4, WholeSize
<1>6. Whole(dir, fit) = sz <=> first + Gutter(dir) <= sz[dir]
  BY <1>2, <1>5, SizeEqual
<1> QED BY <1>6 DEF first, fit

\* What adjust_node_at_cursor makes of the two extents along the axis.
LEMMA ShiftExtents ==
  ASSUME NEW dir \in Axes, NEW slots \in Slots, NEW delta \in Int
  PROVE  LET total == Whole(dir, slots)[dir]
             extent == Smaller(Larger(slots["left"][dir] + delta, 1), total - 2)
         IN  /\ Shift(dir, slots, delta)["left"] = With(slots["left"], dir, extent)
             /\ Shift(dir, slots, delta)["right"] =
                  With(slots["right"], dir, Less(total, extent + Gutter(dir)))
  BY DEF Shift

\* adjust_node_at_cursor with a gutter of one cell: a divider, moved however
\* far, leaves both sides at least a cell and the split as large as it was.
THEOREM ShiftFills ==
  ASSUME NEW dir \in Axes, NEW slots \in Slots, NEW delta \in Int,
         Gutter(dir) = 1, Whole(dir, slots)[dir] >= 3
  PROVE  /\ Shift(dir, slots, delta)["left"][dir] >= 1
         /\ Shift(dir, slots, delta)["right"][dir] >= 1
         /\ Whole(dir, Shift(dir, slots, delta)) = Whole(dir, slots)
<1> DEFINE total == Whole(dir, slots)[dir]
           extent == Smaller(Larger(slots["left"][dir] + delta, 1), total - 2)
           rest == Less(total, extent + Gutter(dir))
           new == Shift(dir, slots, delta)
<1>1. slots["left"] \in Size /\ slots["right"] \in Size
  BY DEF Slots
<1>2. Whole(dir, slots) \in Size /\ total \in Nat /\ slots["left"][dir] \in Nat
  BY <1>1, WholeSize DEF Size
<1>3. extent \in Nat /\ extent >= 1 /\ extent <= total - 2
  BY <1>2 DEF Smaller, Larger
<1>4. rest \in Nat /\ rest >= 1 /\ extent + rest + Gutter(dir) = total
  <2> HIDE DEF extent, total
  <2> QED BY <1>2, <1>3 DEF Less, Larger
<1>5. new["left"] = With(slots["left"], dir, extent) /\ new["right"] = With(slots["right"], dir, rest)
  BY ShiftExtents
<1> HIDE DEF extent, rest, new
<1>6. /\ new["left"] \in Size /\ new["left"][dir] = extent
      /\ \A ax \in Axes \ {dir} : new["left"][ax] = slots["left"][ax]
  <2>1. extent \in Nat /\ new["left"] = With(slots["left"], dir, extent)
    BY <1>3, <1>5
  <2>2. \A ax \in Axes \ {dir} : new["left"][ax] = slots["left"][ax]
    BY <1>5 DEF With
  <2>3. new["left"] \in Size /\ new["left"][dir] = extent
    BY <2>1, <1>1 DEF With, Size
  <2> QED BY <2>2, <2>3
<1>7. new["right"] \in Size /\ new["right"][dir] = rest
  <2>1. rest \in Nat /\ new["right"] = With(slots["right"], dir, rest)
    BY <1>4, <1>5
  <2> QED BY <2>1, <1>1 DEF With, Size
<1>8. /\ Whole(dir, new) \in Size /\ Whole(dir, new)[dir] = total
      /\ \A ax \in Axes \ {dir} : Whole(dir, new)[ax] = slots["left"][ax]
  BY <1>4, <1>6, <1>7, WholeSize
<1>9. \A ax \in Axes \ {dir} : Whole(dir, slots)[ax] = slots["left"][ax]
  BY <1>1, WholeSize
<1>10. Whole(dir, new) = Whole(dir, slots)
  BY <1>2, <1>8, <1>9, SizeEqual
<1> QED BY <1>3, <1>4, <1>6, <1>7, <1>10 DEF new

\* The same with a wider gutter, as split_pane_gap makes it: a divider moved
\* to the far edge leaves the second side nothing, and once the gutter is
\* wider than two cells the split takes more space than it has.
THEOREM ShiftToTheEdge ==
  ASSUME NEW dir \in Axes, NEW slots \in Slots, NEW delta \in Int,
         Gutter(dir) >= 2, Whole(dir, slots)[dir] >= 3, delta >= Whole(dir, slots)[dir]
  PROVE  /\ Shift(dir, slots, delta)["right"][dir] = 0
         /\ Gutter(dir) > 2 =>
              Whole(dir, Shift(dir, slots, delta))[dir] > Whole(dir, slots)[dir]
<1> DEFINE total == Whole(dir, slots)[dir]
           extent == Smaller(Larger(slots["left"][dir] + delta, 1), total - 2)
           rest == Less(total, extent + Gutter(dir))
           new == Shift(dir, slots, delta)
<1>1. slots["left"] \in Size /\ slots["right"] \in Size /\ Gutter(dir) \in Nat
  BY GutterType DEF Slots
<1>2. total \in Nat /\ slots["left"][dir] \in Nat
  BY <1>1, WholeSize DEF Size
<1>3. extent = total - 2 /\ extent \in Nat
  BY <1>2 DEF Smaller, Larger
<1>4. rest = 0
  BY <1>1, <1>2, <1>3 DEF Less, Larger
<1>5. new["left"] = With(slots["left"], dir, extent) /\ new["right"] = With(slots["right"], dir, rest)
  BY ShiftExtents
<1> HIDE DEF extent, rest, new
<1>6. /\ new["left"] \in Size /\ new["left"][dir] = extent
      /\ new["right"] \in Size /\ new["right"][dir] = 0
  <2>1. extent \in Nat /\ new["left"] = With(slots["left"], dir, extent)
    BY <1>3, <1>5
  <2>2. 0 \in Nat /\ new["right"] = With(slots["right"], dir, 0)
    BY <1>4, <1>5
  <2>3. new["left"] \in Size /\ new["left"][dir] = extent
    BY <2>1, <1>1 DEF With, Size
  <2>4. new["right"] \in Size /\ new["right"][dir] = 0
    BY <2>2, <1>1 DEF With, Size
  <2> QED BY <2>3, <2>4
<1>7. Whole(dir, new)[dir] = total - 2 + Gutter(dir)
  BY <1>1, <1>2, <1>3, <1>6, WholeSize
<1> QED BY <1>1, <1>2, <1>6, <1>7 DEF new

\* toggle_pane_split_direction, where it does turn a split: both sides get at
\* least a cell and the split keeps its space.
THEOREM TurnFills ==
  ASSUME NEW dir \in Axes, NEW slots \in Slots, CanTurn(dir, slots)
  PROVE  /\ Turn(dir, slots)["left"][Turned(dir)] >= 1
         /\ Turn(dir, slots)["right"][Turned(dir)] >= 1
         /\ Whole(Turned(dir), Turn(dir, slots)) = Whole(dir, slots)
<1> DEFINE to == Turned(dir)
           whole == Whole(dir, slots)
           room == Less(whole[to], Gutter(to))
           half == room \div 2
           new == Turn(dir, slots)
<1>1. to \in Axes
  BY DEF Turned, Axes
<1>2. whole \in Size /\ whole[to] \in Nat /\ Gutter(to) \in Nat
  BY <1>1, WholeSize, GutterType DEF Slots, Size
<1>3. room \in Nat /\ room >= 2 /\ room + Gutter(to) = whole[to]
  BY <1>2 DEF CanTurn, Less, Larger
<1>4. half \in Nat /\ half >= 1 /\ room - half \in Nat /\ room - half >= 1
  <2> HIDE DEF room
  <2> QED BY <1>3
<1>5. new["left"] = With(whole, to, half) /\ new["right"] = With(whole, to, room - half)
  BY DEF Turn
<1> HIDE DEF to, whole, room, half, new
<1>6. /\ new["left"] \in Size /\ new["left"][to] = half
      /\ \A ax \in Axes \ {to} : new["left"][ax] = whole[ax]
      /\ new["right"] \in Size /\ new["right"][to] = room - half
  <2>1. half \in Nat /\ new["left"] = With(whole, to, half)
    BY <1>4, <1>5
  <2>2. PICK other \in Nat : other = room - half /\ new["right"] = With(whole, to, other)
    BY <1>4, <1>5
  <2>3. /\ new["left"] \in Size /\ new["left"][to] = half
        /\ \A ax \in Axes \ {to} : new["left"][ax] = whole[ax]
    BY <2>1, <1>1, <1>2 DEF With, Size
  <2>4. new["right"] \in Size /\ new["right"][to] = room - half
    BY <2>2, <1>1, <1>2 DEF With, Size
  <2> QED BY <2>3, <2>4
<1>7. half + (room - half) + Gutter(to) = whole[to]
  BY <1>2, <1>3, <1>4
<1>8. Whole(to, new) = whole
  BY <1>1, <1>2, <1>6, <1>7, WholeSize, SizeEqual
<1> QED BY <1>4, <1>6, <1>8 DEF to, new, whole

---------------------------------------------------------------------------
(* Positions and trees of them.                                            *)

(* Positions. *)
LEMMA PathType ==
  ASSUME NEW p \in Path
  PROVE  /\ Len(p) \in Nat /\ DOMAIN p = 1..Len(p)
         /\ \A i \in 1..Len(p) : p[i] \in Sides
  BY LenProperties DEF Path

\* Positions are equal when they take the same sides.
LEMMA PathEqual ==
  ASSUME NEW p \in Path, NEW q \in Path, Len(p) = Len(q), \A i \in 1..Len(p) : p[i] = q[i]
  PROVE  p = q
  BY SeqEqual DEF Path

\* The root of the tree is a position.
LEMMA RootType == <<>> \in Path /\ Len(<<>>) = 0
  BY EmptySeq DEF Path

\* And the only one of no length.
LEMMA RootOnly ==
  ASSUME NEW p \in Path
  PROVE  p = <<>> <=> Len(p) = 0
  BY EmptySeq, LenProperties DEF Path

\* The part of a position above it.
LEMMA PathUpTo ==
  ASSUME NEW p \in Path, NEW n \in 0..Len(p)
  PROVE  /\ SubSeq(p, 1, n) \in Path /\ Len(SubSeq(p, 1, n)) = n
         /\ \A i \in 1..n : SubSeq(p, 1, n)[i] = p[i]
<1>1. Len(p) \in Nat /\ \A i \in 1..n : p[i] \in Sides
  BY PathType
<1>2. /\ SubSeq(p, 1, n) \in Seq(Sides)
      /\ Len(SubSeq(p, 1, n)) = IF 1 <= n THEN n - 1 + 1 ELSE 0
      /\ \A i \in 1..(n - 1 + 1) : SubSeq(p, 1, n)[i] = p[1 + i - 1]
  BY <1>1, SubSeqProperties
<1>3. n \in Nat /\ n - 1 + 1 = n
  BY <1>1
<1>4. \A i \in 1..n : i \in 1..(n - 1 + 1) /\ 1 + i - 1 = i
  BY <1>3
<1>5. \A i \in 1..n : SubSeq(p, 1, n)[i] = p[i]
  BY <1>2, <1>4
<1> QED BY <1>2, <1>3, <1>5 DEF Path

\* One position is above another when the other starts with its sides.
LEMMA PrefixElements ==
  ASSUME NEW p \in Path, NEW q \in Path
  PROVE  IsPrefix(p, q) <=> Len(p) <= Len(q) /\ \A i \in 1..Len(p) : p[i] = q[i]
<1>1. Len(p) \in Nat /\ Len(q) \in Nat
  BY PathType
<1>2. SUFFICES ASSUME Len(p) <= Len(q)
               PROVE  SubSeq(p, 1, Len(p)) = SubSeq(q, 1, Len(p)) <=> \A i \in 1..Len(p) : p[i] = q[i]
  BY DEF IsPrefix
<1>3. Len(p) \in 0..Len(q) /\ Len(p) \in 0..Len(p)
  BY <1>1, <1>2
<1>4. /\ SubSeq(p, 1, Len(p)) \in Path /\ Len(SubSeq(p, 1, Len(p))) = Len(p)
      /\ \A i \in 1..Len(p) : SubSeq(p, 1, Len(p))[i] = p[i]
  BY <1>3, PathUpTo
<1>5. /\ SubSeq(q, 1, Len(p)) \in Path /\ Len(SubSeq(q, 1, Len(p))) = Len(p)
      /\ \A i \in 1..Len(p) : SubSeq(q, 1, Len(p))[i] = q[i]
  BY <1>3, PathUpTo
<1> QED BY <1>4, <1>5, PathEqual

\* The children of a position are positions, one longer.
LEMMA ChildType ==
  ASSUME NEW p \in Path, NEW s \in Sides
  PROVE  /\ Append(p, s) \in Path /\ Len(Append(p, s)) = Len(p) + 1
         /\ \A i \in 1..Len(p) : Append(p, s)[i] = p[i]
         /\ Append(p, s)[Len(p) + 1] = s
         /\ Append(p, s) # <<>>
  BY AppendProperties DEF Path

\* Every position but the root is a child of the one above it.
LEMMA ParentType ==
  ASSUME NEW p \in Path, p # <<>>
  PROVE  /\ Front(p) \in Path /\ Len(p) >= 1 /\ Len(Front(p)) = Len(p) - 1
         /\ \A i \in 1..(Len(p) - 1) : Front(p)[i] = p[i]
         /\ Last(p) = p[Len(p)] /\ Last(p) \in Sides
         /\ p = Append(Front(p), Last(p))
<1>1. Len(p) \in Nat /\ Len(p) # 0
  BY PathType, RootOnly
<1>2. Len(p) - 1 \in 0..Len(p) /\ Len(p) \in 1..Len(p)
  BY <1>1
<1>3. /\ Front(p) \in Path /\ Len(Front(p)) = Len(p) - 1
      /\ \A i \in 1..(Len(p) - 1) : Front(p)[i] = p[i]
  BY <1>2, PathUpTo DEF Front
<1>4. Last(p) = p[Len(p)] /\ Last(p) \in Sides
  BY <1>2, PathType DEF Last
<1>5. /\ Append(Front(p), Last(p)) \in Path
      /\ Len(Append(Front(p), Last(p))) = Len(p)
      /\ \A i \in 1..(Len(p) - 1) : Append(Front(p), Last(p))[i] = p[i]
      /\ Append(Front(p), Last(p))[Len(p)] = p[Len(p)]
  BY <1>1, <1>3, <1>4, ChildType
<1>6. \A i \in 1..Len(p) : Append(Front(p), Last(p))[i] = p[i]
  BY <1>1, <1>5
<1>7. p = Append(Front(p), Last(p))
  BY <1>5, <1>6, PathEqual
<1> QED BY <1>1, <1>3, <1>4, <1>7

\* A child knows its parent and its side.
LEMMA ChildParent ==
  ASSUME NEW p \in Path, NEW s \in Sides
  PROVE  Front(Append(p, s)) = p /\ Last(Append(p, s)) = s
<1>1. Append(p, s) = Append(Front(Append(p, s)), Last(Append(p, s)))
  BY ChildType, ParentType
<1>2. Front(Append(p, s)) \in Path /\ Last(Append(p, s)) \in Sides
  BY ChildType, ParentType
<1> QED BY <1>1, <1>2, AppendInjective DEF Path

\* There are two sides.
LEMMA OtherType == \A s \in Sides : Other(s) \in Sides /\ Other(s) # s /\ Other(Other(s)) = s
  BY DEF Other, Sides

(* The order of positions: one is above another when it is a prefix of it. *)
LEMMA PrefixOrder ==
  ASSUME NEW p \in Path, NEW q \in Path, NEW r \in Path
  PROVE  /\ IsPrefix(p, p)
         /\ IsPrefix(<<>>, p)
         /\ IsPrefix(p, q) /\ IsPrefix(q, r) => IsPrefix(p, r)
         /\ IsPrefix(p, q) /\ IsPrefix(q, p) => p = q
         /\ IsPrefix(p, r) /\ IsPrefix(q, r) => IsPrefix(p, q) \/ IsPrefix(q, p)
<1>0. Len(p) \in Nat /\ Len(q) \in Nat /\ Len(r) \in Nat
  BY PathType
<1>1. IsPrefix(p, p)
  BY <1>0, PrefixElements
<1>2. IsPrefix(<<>>, p)
  BY <1>0, RootType, PrefixElements
<1>3. IsPrefix(p, q) /\ IsPrefix(q, r) => IsPrefix(p, r)
  BY <1>0, PrefixElements
<1>4. IsPrefix(p, q) /\ IsPrefix(q, p) => p = q
  BY <1>0, PrefixElements, PathEqual
<1>5. IsPrefix(p, r) /\ IsPrefix(q, r) => IsPrefix(p, q) \/ IsPrefix(q, p)
  BY <1>0, PrefixElements
<1> QED BY <1>1, <1>2, <1>3, <1>4, <1>5

\* What is above a child is its parent, or above it.
LEMMA ChildOrder ==
  ASSUME NEW p \in Path, NEW s \in Sides, NEW q \in Path
  PROVE  /\ IsPrefix(p, Append(p, s))
         /\ IsPrefix(q, Append(p, s)) <=> IsPrefix(q, p) \/ q = Append(p, s)
<1>0. Len(p) \in Nat /\ Len(q) \in Nat
  BY PathType
<1> DEFINE c == Append(p, s)
<1>c. c \in Path /\ Len(c) = Len(p) + 1 /\ \A i \in 1..Len(p) : c[i] = p[i]
  BY ChildType
<1> HIDE DEF c
<1>1. IsPrefix(p, c)
  BY <1>0, <1>c, PrefixElements
<1>2. ASSUME IsPrefix(q, c) PROVE IsPrefix(q, p) \/ q = c
  <2>1. Len(q) <= Len(p) + 1 /\ \A i \in 1..Len(q) : q[i] = c[i]
    BY <1>2, <1>c, PrefixElements
  <2>2. CASE Len(q) = Len(p) + 1
    BY <2>1, <2>2, <1>c, PathEqual
  <2>3. CASE Len(q) <= Len(p)
    <3>1. \A i \in 1..Len(q) : q[i] = p[i]
      BY <1>0, <2>1, <2>3, <1>c
    <3> QED BY <2>3, <3>1, PrefixElements
  <2> QED BY <1>0, <2>1, <2>2, <2>3
<1>3. IsPrefix(q, p) => IsPrefix(q, c)
  BY <1>1, <1>c, PrefixOrder
<1>4. q = c => IsPrefix(q, c)
  BY PrefixOrder, <1>c
<1> QED BY <1>1, <1>2, <1>3, <1>4 DEF c

\* Something below a position is a child of it, or below one.
LEMMA BelowChild ==
  ASSUME NEW p \in Path, NEW q \in Path, IsPrefix(p, q), p # q
  PROVE  \E s \in Sides : IsPrefix(Append(p, s), q)
<1>0. Len(p) \in Nat /\ Len(q) \in Nat
  BY PathType
<1>1. Len(p) <= Len(q) /\ \A i \in 1..Len(p) : p[i] = q[i]
  BY PrefixElements
<1>2. Len(p) # Len(q)
  BY <1>1, PathEqual
<1>3. Len(p) + 1 \in 1..Len(q)
  BY <1>0, <1>1, <1>2
<1> DEFINE s == q[Len(p) + 1]
<1>4. s \in Sides
  BY <1>3, PathType
<1> HIDE DEF s
<1>5. \A i \in 1..(Len(p) + 1) : Append(p, s)[i] = q[i]
  BY <1>0, <1>1, <1>4, ChildType DEF s
<1>6. Len(p) + 1 <= Len(q)
  BY <1>0, <1>3
<1>7. IsPrefix(Append(p, s), q)
  BY <1>4, <1>5, <1>6, ChildType, PrefixElements
<1> QED BY <1>4, <1>7

\* Nothing is below both sides of a position, nor below one without being
\* below it.
LEMMA NotBothSides ==
  ASSUME NEW p \in Path, NEW s \in Sides, NEW q \in Path, IsPrefix(Append(p, s), q)
  PROVE  /\ ~ IsPrefix(Append(p, Other(s)), q)
         /\ q # p /\ IsPrefix(p, q)
<1>0. Len(p) \in Nat /\ Len(q) \in Nat /\ Other(s) \in Sides /\ Other(s) # s
  BY PathType, OtherType
<1> DEFINE c(x) == Append(p, x)
<1>c. \A x \in Sides : /\ c(x) \in Path /\ Len(c(x)) = Len(p) + 1
                       /\ \A i \in 1..Len(p) : c(x)[i] = p[i]
                       /\ c(x)[Len(p) + 1] = x
  BY ChildType
<1>p. \A x \in Sides : IsPrefix(c(x), q) =>
         Len(p) + 1 <= Len(q) /\ q[Len(p) + 1] = x /\ \A i \in 1..Len(p) : p[i] = q[i]
  <2> SUFFICES ASSUME NEW x \in Sides, IsPrefix(c(x), q)
               PROVE  Len(p) + 1 <= Len(q) /\ q[Len(p) + 1] = x /\ \A i \in 1..Len(p) : p[i] = q[i]
    OBVIOUS
  <2>1. Len(c(x)) <= Len(q) /\ \A i \in 1..Len(c(x)) : c(x)[i] = q[i]
    <3>1. c(x) \in Path
      BY <1>c
    <3> HIDE DEF c
    <3> QED BY <3>1, PrefixElements
  <2> HIDE DEF c
  <2> QED BY <1>0, <1>c, <2>1
<1>1. Len(p) + 1 <= Len(q) /\ q[Len(p) + 1] = s /\ \A i \in 1..Len(p) : p[i] = q[i]
  BY <1>p
<1>2. ~ IsPrefix(Append(p, Other(s)), q)
  BY <1>0, <1>1, <1>p
<1>3. IsPrefix(p, q)
  BY <1>0, <1>1, PrefixElements
<1> QED BY <1>0, <1>1, <1>2, <1>3

\* RemoveAt and InsertAt, told by what is before and after the element.
LEMMA RemoveAtParts ==
  ASSUME NEW s, NEW n, NEW before, NEW after, n - 1 = before, n + 1 = after
  PROVE  RemoveAt(s, n) = SubSeq(s, 1, before) \o SubSeq(s, after, Len(s))
  BY DEF RemoveAt

\* The same for InsertAt.
LEMMA InsertAtParts ==
  ASSUME NEW s, NEW n, NEW x, NEW before, n - 1 = before
  PROVE  InsertAt(s, n, x) = SubSeq(s, 1, before) \o <<x>> \o SubSeq(s, n, Len(s))
  BY DEF InsertAt

(* Lifting the sibling of a position into its parent's place.              *)
LEMMA LiftedBelow ==
  ASSUME NEW up \in Path, NEW side \in Sides, NEW q \in Path,
         IsPrefix(Append(up, Other(side)), q)
  PROVE  /\ Lifted(q, up, side) \in Path
         /\ Len(Lifted(q, up, side)) = Len(q) - 1
         /\ \A i \in 1..(Len(q) - 1) :
               Lifted(q, up, side)[i] = IF i <= Len(up) THEN q[i] ELSE q[i + 1]
<1> DEFINE n == Len(up)
           above == SubSeq(q, 1, n)
           below == SubSeq(q, n + 2, Len(q))
<1>0. n \in Nat /\ Len(q) \in Nat /\ Other(side) \in Sides /\ \A i \in 1..Len(q) : q[i] \in Sides
  BY PathType, OtherType
<1>1. n + 1 <= Len(q)
  BY <1>0, ChildType, PrefixElements
<1>2. above \in Path /\ Len(above) = n /\ \A i \in 1..n : above[i] = q[i]
  BY <1>0, <1>1, PathUpTo
<1>3. below \in Path /\ Len(below) = Len(q) - n - 1 /\ \A i \in 1..(Len(q) - n - 1) : below[i] = q[i + n + 1]
  <2>1. n + 2 \in Int /\ Len(q) \in Int /\ \A i \in (n + 2)..Len(q) : q[i] \in Sides
    BY <1>0
  <2> HIDE DEF n
  <2>2. /\ below \in Seq(Sides)
        /\ Len(below) = IF n + 2 <= Len(q) THEN Len(q) - (n + 2) + 1 ELSE 0
        /\ \A i \in 1..(Len(q) - (n + 2) + 1) : below[i] = q[n + 2 + i - 1]
    BY <2>1, SubSeqProperties
  <2> HIDE DEF below
  <2>3. Len(below) = Len(q) - n - 1
    BY <1>0, <1>1, <2>2
  <2>4. ASSUME NEW i \in 1..(Len(q) - n - 1) PROVE below[i] = q[i + n + 1]
    <3>1. i \in 1..(Len(q) - (n + 2) + 1) /\ n + 2 + i - 1 = i + n + 1
      BY <1>0
    <3> QED BY <2>2, <3>1
  <2> QED BY <2>2, <2>3, <2>4 DEF Path
<1>4. Lifted(q, up, side) = above \o below
  <2> DEFINE k == n + 1
             k2 == n + 2
  <2>1. k - 1 = n /\ k + 1 = k2
    BY <1>0
  <2>2. RemoveAt(q, k) = SubSeq(q, 1, n) \o SubSeq(q, k2, Len(q))
    <3> HIDE DEF n, k, k2
    <3> QED BY <2>1, RemoveAtParts
  <2> QED BY <2>2 DEF Lifted
<1> HIDE DEF above, below
<1>5. /\ above \o below \in Seq(Sides)
      /\ Len(above \o below) = Len(above) + Len(below)
      /\ \A i \in 1..(Len(above) + Len(below)) :
            (above \o below)[i] = IF i <= Len(above) THEN above[i] ELSE below[i - Len(above)]
  BY <1>2, <1>3, ConcatProperties DEF Path
<1>6. Len(above) + Len(below) = Len(q) - 1
  BY <1>0, <1>1, <1>2, <1>3
<1>7. ASSUME NEW i \in 1..(Len(q) - 1)
      PROVE  (above \o below)[i] = IF i <= n THEN q[i] ELSE q[i + 1]
  <2>1. CASE i <= n
    BY <1>0, <1>2, <1>5, <1>6, <2>1
  <2>2. CASE ~ (i <= n)
    <3>1. i - n \in 1..(Len(q) - n - 1) /\ i - n + n + 1 = i + 1
      BY <1>0, <1>1, <2>2
    <3>2. below[i - n] = q[i + 1]
      BY <1>3, <3>1
    <3> QED BY <1>2, <1>5, <1>6, <2>2, <3>2
  <2> QED BY <2>1, <2>2
<1> QED BY <1>4, <1>5, <1>6, <1>7 DEF Path

\* The way back puts the side of the sibling in again.
LEMMA SunkBelow ==
  ASSUME NEW up \in Path, NEW side \in Sides, NEW q \in Path, IsPrefix(up, q)
  PROVE  /\ Sunk(q, up, side) \in Path
         /\ Len(Sunk(q, up, side)) = Len(q) + 1
         /\ \A i \in 1..(Len(q) + 1) :
               Sunk(q, up, side)[i] = IF i <= Len(up) THEN q[i]
                                      ELSE IF i = Len(up) + 1 THEN Other(side) ELSE q[i - 1]
<1> DEFINE n == Len(up)
           above == SubSeq(q, 1, n)
           below == SubSeq(q, n + 1, Len(q))
           mid == Append(above, Other(side))
<1>0. n \in Nat /\ Len(q) \in Nat /\ Other(side) \in Sides /\ \A i \in 1..Len(q) : q[i] \in Sides
  BY PathType, OtherType
<1>1. n <= Len(q)
  BY <1>0, PrefixElements
<1>2. above \in Path /\ Len(above) = n /\ \A i \in 1..n : above[i] = q[i]
  BY <1>0, <1>1, PathUpTo
<1>3. below \in Path /\ Len(below) = Len(q) - n /\ \A i \in 1..(Len(q) - n) : below[i] = q[i + n]
  <2>1. n + 1 \in Int /\ Len(q) \in Int /\ \A i \in (n + 1)..Len(q) : q[i] \in Sides
    BY <1>0
  <2> HIDE DEF n
  <2>2. /\ below \in Seq(Sides)
        /\ Len(below) = IF n + 1 <= Len(q) THEN Len(q) - (n + 1) + 1 ELSE 0
        /\ \A i \in 1..(Len(q) - (n + 1) + 1) : below[i] = q[n + 1 + i - 1]
    BY <2>1, SubSeqProperties
  <2> HIDE DEF below
  <2>3. Len(below) = Len(q) - n
    BY <1>0, <1>1, <2>2
  <2>4. ASSUME NEW i \in 1..(Len(q) - n) PROVE below[i] = q[i + n]
    <3>1. i \in 1..(Len(q) - (n + 1) + 1) /\ n + 1 + i - 1 = i + n
      BY <1>0
    <3> QED BY <2>2, <3>1
  <2> QED BY <2>2, <2>3, <2>4 DEF Path
<1>4. mid \in Path /\ Len(mid) = n + 1 /\ mid[n + 1] = Other(side) /\ \A i \in 1..n : mid[i] = q[i]
  <2> HIDE DEF above
  <2> QED BY <1>0, <1>2, ChildType
<1>5. Sunk(q, up, side) = mid \o below
  <2> DEFINE k == n + 1
  <2>1. k - 1 = n
    BY <1>0
  <2>2. Sunk(q, up, side) = above \o <<Other(side)>> \o below
    <3>1. InsertAt(q, k, Other(side)) = SubSeq(q, 1, n) \o <<Other(side)>> \o SubSeq(q, k, Len(q))
      <4> HIDE DEF n, k
      <4> QED BY <2>1, InsertAtParts
    <3> QED BY <3>1 DEF Sunk
  <2>3. mid = above \o <<Other(side)>>
    <3> HIDE DEF above
    <3> QED BY <1>0, <1>2, AppendIsConcat DEF Path
  <2> QED BY <2>2, <2>3
<1> HIDE DEF above, below, mid
<1> HIDE DEF n
<1>6. /\ mid \o below \in Seq(Sides)
      /\ Len(mid \o below) = Len(mid) + Len(below)
      /\ \A i \in 1..(Len(mid) + Len(below)) :
            (mid \o below)[i] = IF i <= Len(mid) THEN mid[i] ELSE below[i - Len(mid)]
  BY <1>3, <1>4, ConcatProperties DEF Path
<1>7. Len(mid) + Len(below) = Len(q) + 1
  BY <1>0, <1>1, <1>3, <1>4
<1>8. ASSUME NEW i \in 1..(Len(q) + 1)
      PROVE  (mid \o below)[i] = IF i <= n THEN q[i] ELSE IF i = n + 1 THEN Other(side) ELSE q[i - 1]
  <2>1. CASE i <= n + 1
    BY <1>0, <1>4, <1>6, <1>7, <2>1
  <2>2. CASE ~ (i <= n + 1)
    <3>1. i - (n + 1) \in 1..(Len(q) - n) /\ i - (n + 1) + n = i - 1 /\ ~ (i <= n) /\ i # n + 1
      BY <1>0, <1>1, <2>2
    <3>2. below[i - (n + 1)] = q[i - 1]
      BY <1>3, <3>1
    <3> QED BY <1>4, <1>6, <1>7, <2>2, <3>1, <3>2
  <2> QED BY <2>1, <2>2
<1> QED BY <1>5, <1>6, <1>7, <1>8 DEF Path, n

\* What is not below the parent stays where it is.
LEMMA LiftedElsewhere ==
  ASSUME NEW up \in Path, NEW side \in Sides, NEW q \in Path, ~ IsPrefix(up, q)
  PROVE  Lifted(q, up, side) = q /\ Sunk(q, up, side) = q
<1>1. ~ IsPrefix(Append(up, Other(side)), q)
  BY NotBothSides, OtherType
<1> QED BY <1>1 DEF Lifted, Sunk

\* Lifting and sinking undo each other.
LEMMA SunkLifted ==
  ASSUME NEW up \in Path, NEW side \in Sides, NEW q \in Path,
         IsPrefix(Append(up, Other(side)), q)
  PROVE  /\ IsPrefix(up, Lifted(q, up, side))
         /\ Sunk(Lifted(q, up, side), up, side) = q
<1> DEFINE l == Lifted(q, up, side)
           c == Append(up, Other(side))
           t == Sunk(l, up, side)
<1>0. Len(q) \in Nat /\ Len(up) \in Nat /\ Other(side) \in Sides
  BY PathType, OtherType
<1>1. /\ l \in Path /\ Len(l) = Len(q) - 1
      /\ \A i \in 1..(Len(q) - 1) : l[i] = IF i <= Len(up) THEN q[i] ELSE q[i + 1]
  BY LiftedBelow
<1>2. /\ c \in Path /\ Len(c) = Len(up) + 1 /\ c[Len(up) + 1] = Other(side)
      /\ \A i \in 1..Len(up) : c[i] = up[i]
  BY <1>0, ChildType
<1>3. Len(c) <= Len(q) /\ \A i \in 1..Len(c) : c[i] = q[i]
  <2> HIDE DEF c
  <2>1. IsPrefix(c, q)
    BY DEF c
  <2> QED BY <1>2, <2>1, PrefixElements
<1> HIDE DEF l, c
<1>4. IsPrefix(up, l)
  <2>1. Len(up) <= Len(l)
    BY <1>0, <1>1, <1>2, <1>3
  <2>2. \A i \in 1..Len(up) : up[i] = l[i]
    <3> SUFFICES ASSUME NEW i \in 1..Len(up) PROVE up[i] = l[i]
      OBVIOUS
    <3>1. i \in 1..Len(c) /\ i \in 1..(Len(q) - 1) /\ i <= Len(up)
      BY <1>0, <1>2, <1>3
    <3> QED BY <1>1, <1>2, <1>3, <3>1
  <2> QED BY <1>1, <2>1, <2>2, PrefixElements
<1>5. /\ t \in Path /\ Len(t) = Len(l) + 1
      /\ \A i \in 1..(Len(l) + 1) : t[i] = IF i <= Len(up) THEN l[i]
                                          ELSE IF i = Len(up) + 1 THEN Other(side) ELSE l[i - 1]
  BY <1>1, <1>4, SunkBelow
<1> HIDE DEF t
<1>6. Len(t) = Len(q)
  BY <1>0, <1>1, <1>5
<1>7. ASSUME NEW i \in 1..Len(t) PROVE t[i] = q[i]
  <2>1. CASE i <= Len(up)
    BY <1>0, <1>1, <1>2, <1>3, <1>5, <1>6, <2>1
  <2>2. CASE i = Len(up) + 1
    BY <1>0, <1>2, <1>3, <1>5, <1>6, <1>1, <2>2
  <2>3. CASE i > Len(up) + 1
    <3>1. i - 1 \in 1..(Len(q) - 1) /\ ~ (i - 1 <= Len(up)) /\ i - 1 + 1 = i
      BY <1>0, <1>6, <2>3
    <3>2. l[i - 1] = q[i]
      BY <1>1, <3>1
    <3>3. i \in 1..(Len(l) + 1) /\ ~ (i <= Len(up)) /\ i # Len(up) + 1
      BY <1>0, <1>1, <1>6, <2>3
    <3> QED BY <1>5, <3>2, <3>3
  <2> QED BY <1>0, <1>6, <2>1, <2>2, <2>3
<1>8. t = q
  BY <1>5, <1>6, <1>7, PathEqual
<1> QED BY <1>4, <1>8 DEF l, t

\* The other way round too.
LEMMA LiftedSunk ==
  ASSUME NEW up \in Path, NEW side \in Sides, NEW q \in Path, IsPrefix(up, q)
  PROVE  /\ IsPrefix(Append(up, Other(side)), Sunk(q, up, side))
         /\ Lifted(Sunk(q, up, side), up, side) = q
<1> DEFINE t == Sunk(q, up, side)
           c == Append(up, Other(side))
           l == Lifted(t, up, side)
<1>0. Len(q) \in Nat /\ Len(up) \in Nat /\ Other(side) \in Sides
  BY PathType, OtherType
<1>1. /\ t \in Path /\ Len(t) = Len(q) + 1
      /\ \A i \in 1..(Len(q) + 1) : t[i] = IF i <= Len(up) THEN q[i]
                                          ELSE IF i = Len(up) + 1 THEN Other(side) ELSE q[i - 1]
  BY SunkBelow
<1>2. /\ c \in Path /\ Len(c) = Len(up) + 1 /\ c[Len(up) + 1] = Other(side)
      /\ \A i \in 1..Len(up) : c[i] = up[i]
  BY <1>0, ChildType
<1>3. Len(up) <= Len(q) /\ \A i \in 1..Len(up) : up[i] = q[i]
  BY PrefixElements
<1> HIDE DEF t, c
<1>4. Len(c) <= Len(t) /\ \A i \in 1..Len(c) : c[i] = t[i]
  BY <1>0, <1>1, <1>2, <1>3
<1>5. IsPrefix(c, t)
  BY <1>1, <1>2, <1>4, PrefixElements
<1>6. /\ l \in Path /\ Len(l) = Len(t) - 1
      /\ \A i \in 1..(Len(t) - 1) : l[i] = IF i <= Len(up) THEN t[i] ELSE t[i + 1]
  BY <1>1, <1>5, LiftedBelow DEF c
<1> HIDE DEF l
<1>7. Len(l) = Len(q)
  BY <1>0, <1>1, <1>6
<1>8. ASSUME NEW i \in 1..Len(l) PROVE l[i] = q[i]
  <2>1. CASE i <= Len(up)
    BY <1>0, <1>1, <1>6, <1>7, <2>1
  <2>2. CASE ~ (i <= Len(up))
    <3>1. i + 1 \in 1..(Len(q) + 1) /\ ~ (i + 1 <= Len(up)) /\ i + 1 # Len(up) + 1 /\ i + 1 - 1 = i
      BY <1>0, <1>7, <2>2
    <3>2. t[i + 1] = q[i]
      BY <1>1, <3>1
    <3>3. i \in 1..(Len(t) - 1)
      BY <1>0, <1>1, <1>7
    <3> QED BY <1>6, <2>2, <3>2, <3>3
  <2> QED BY <2>1, <2>2
<1>9. l = q
  BY <1>6, <1>7, <1>8, PathEqual
<1> QED BY <1>5, <1>9 DEF l, t, c

\* What is above something stays above it.
LEMMA SunkPrefix ==
  ASSUME NEW up \in Path, NEW side \in Sides, NEW q \in Path, NEW r \in Path,
         IsPrefix(up, q), IsPrefix(q, r)
  PROVE  IsPrefix(Sunk(q, up, side), Sunk(r, up, side))
<1> DEFINE a == Sunk(q, up, side)
           b == Sunk(r, up, side)
<1>0. Len(q) \in Nat /\ Len(up) \in Nat /\ Len(r) \in Nat /\ IsPrefix(up, r)
  BY PathType, PrefixOrder
<1>1. /\ a \in Path /\ Len(a) = Len(q) + 1
      /\ \A i \in 1..(Len(q) + 1) : a[i] = IF i <= Len(up) THEN q[i]
                                          ELSE IF i = Len(up) + 1 THEN Other(side) ELSE q[i - 1]
  BY SunkBelow
<1>2. /\ b \in Path /\ Len(b) = Len(r) + 1
      /\ \A i \in 1..(Len(r) + 1) : b[i] = IF i <= Len(up) THEN r[i]
                                          ELSE IF i = Len(up) + 1 THEN Other(side) ELSE r[i - 1]
  BY <1>0, SunkBelow
<1>3. Len(q) <= Len(r) /\ Len(up) <= Len(q) /\ \A i \in 1..Len(q) : q[i] = r[i]
  BY PrefixElements
<1> HIDE DEF a, b
<1>4. ASSUME NEW i \in 1..Len(a) PROVE a[i] = b[i]
  <2>1. i \in 1..(Len(q) + 1) /\ i \in 1..(Len(r) + 1)
    BY <1>0, <1>1, <1>3
  <2>2. CASE i <= Len(up)
    <3>1. i \in 1..Len(q)
      BY <1>0, <1>3, <2>1, <2>2
    <3>2. a[i] = q[i] /\ b[i] = r[i] /\ q[i] = r[i]
      BY <1>1, <1>2, <1>3, <2>1, <2>2, <3>1
    <3> QED BY <3>2
  <2>3. CASE i = Len(up) + 1
    <3>1. ~ (i <= Len(up))
      BY <1>0, <2>3
    <3> QED BY <1>1, <1>2, <2>1, <2>3, <3>1
  <2>4. CASE i > Len(up) + 1
    <3>1. i - 1 \in 1..Len(q) /\ ~ (i <= Len(up)) /\ i # Len(up) + 1
      BY <1>0, <2>1, <2>4
    <3>2. q[i - 1] = r[i - 1]
      BY <1>3, <3>1
    <3> QED BY <1>1, <1>2, <2>1, <3>1, <3>2
  <2> QED BY <1>0, <2>1, <2>2, <2>3, <2>4
<1>5. Len(a) <= Len(b)
  BY <1>0, <1>1, <1>2, <1>3
<1>6. IsPrefix(a, b)
  BY <1>1, <1>2, <1>4, <1>5, PrefixElements
<1> QED BY <1>6 DEF a, b

(* Trees. *)
Positions(at, split) == DOMAIN split \cup {at[p] : p \in DOMAIN at}

\* IsTree names what is above a position by its length.
LEMMA AboveIsPrefix ==
  ASSUME NEW p \in Path
  PROVE  /\ \A q \in Path : IsPrefix(q, p) /\ q # p =>
              Len(q) \in 0..(Len(p) - 1) /\ SubSeq(p, 1, Len(q)) = q
         /\ \A n \in 0..(Len(p) - 1) : /\ SubSeq(p, 1, n) \in Path /\ SubSeq(p, 1, n) # p
                                       /\ IsPrefix(SubSeq(p, 1, n), p)
<1>0. Len(p) \in Nat
  BY PathType
<1>1. ASSUME NEW q \in Path, IsPrefix(q, p), q # p
      PROVE  Len(q) \in 0..(Len(p) - 1) /\ SubSeq(p, 1, Len(q)) = q
  <2>1. Len(q) \in Nat /\ Len(q) <= Len(p) /\ \A i \in 1..Len(q) : q[i] = p[i]
    BY <1>1, PathType, PrefixElements
  <2>2. Len(q) # Len(p)
    BY <1>1, <2>1, PathEqual
  <2>3. Len(q) \in 0..(Len(p) - 1) /\ Len(q) \in 0..Len(p)
    BY <1>0, <2>1, <2>2
  <2> DEFINE s == SubSeq(p, 1, Len(q))
  <2>4. s \in Path /\ Len(s) = Len(q) /\ \A i \in 1..Len(q) : s[i] = p[i]
    BY <2>3, PathUpTo
  <2> HIDE DEF s
  <2>5. s = q
    BY <2>1, <2>4, PathEqual
  <2> QED BY <2>3, <2>5 DEF s
<1>2. ASSUME NEW n \in 0..(Len(p) - 1)
      PROVE  SubSeq(p, 1, n) \in Path /\ SubSeq(p, 1, n) # p /\ IsPrefix(SubSeq(p, 1, n), p)
  <2> DEFINE s == SubSeq(p, 1, n)
  <2>1. n \in 0..Len(p) /\ n < Len(p)
    BY <1>0
  <2>2. s \in Path /\ Len(s) = n /\ \A i \in 1..n : s[i] = p[i]
    BY <2>1, PathUpTo
  <2> HIDE DEF s
  <2>3. IsPrefix(s, p) /\ s # p
    BY <1>0, <2>1, <2>2, PrefixElements
  <2> QED BY <2>2, <2>3 DEF s
<1> QED BY <1>1, <1>2

\* IsTree, told by what is above what.
LEMMA TreeIff ==
  ASSUME NEW at, NEW split
  PROVE  IsTree(at, split) <=>
           /\ IsInjective(at)
           /\ \A p \in DOMAIN at : at[p] \in Path \ DOMAIN split
           /\ DOMAIN split \subseteq Path
           /\ \A p \in DOMAIN split, s \in Sides : Append(p, s) \in Positions(at, split)
           /\ \A p \in Positions(at, split), q \in Path :
                 IsPrefix(q, p) /\ q # p => q \in DOMAIN split
<1> DEFINE all == Positions(at, split)
<1>1. (\A p \in DOMAIN split : Append(p, "left") \in all /\ Append(p, "right") \in all) <=>
      \A p \in DOMAIN split, s \in Sides : Append(p, s) \in all
  BY DEF Sides
<1>2. ASSUME \A p \in DOMAIN at : at[p] \in Path \ DOMAIN split, DOMAIN split \subseteq Path
      PROVE  (\A p \in all : \A n \in 0..(Len(p) - 1) : SubSeq(p, 1, n) \in DOMAIN split) <=>
             \A p \in all, q \in Path : IsPrefix(q, p) /\ q # p => q \in DOMAIN split
  <2>1. \A p \in all : p \in Path
    BY <1>2 DEF Positions
  <2>2. ASSUME NEW p \in all
        PROVE  (\A n \in 0..(Len(p) - 1) : SubSeq(p, 1, n) \in DOMAIN split) <=>
               \A q \in Path : IsPrefix(q, p) /\ q # p => q \in DOMAIN split
    <3>1. ASSUME \A n \in 0..(Len(p) - 1) : SubSeq(p, 1, n) \in DOMAIN split,
                 NEW q \in Path, IsPrefix(q, p), q # p
          PROVE  q \in DOMAIN split
      <4>1. Len(q) \in 0..(Len(p) - 1) /\ SubSeq(p, 1, Len(q)) = q
        BY <2>1, <3>1, AboveIsPrefix
      <4> QED BY <3>1, <4>1
    <3>2. ASSUME \A q \in Path : IsPrefix(q, p) /\ q # p => q \in DOMAIN split,
                 NEW n \in 0..(Len(p) - 1)
          PROVE  SubSeq(p, 1, n) \in DOMAIN split
      BY <2>1, <3>2, AboveIsPrefix
    <3> QED BY <3>1, <3>2
  <2> QED BY <2>2
<1> QED BY <1>1, <1>2 DEF IsTree, Positions

\* The leaf of the whole tab is alone.
LEMMA RootLeaf ==
  ASSUME NEW at, NEW split, IsTree(at, split), NEW p \in DOMAIN at, at[p] = <<>>
  PROVE  DOMAIN at = {p} /\ DOMAIN split = {}
<1>1. <<>> \notin DOMAIN split /\ <<>> \in Path
  BY TreeIff, RootType
<1>2. \A q \in Positions(at, split) : q = <<>>
  <2> SUFFICES ASSUME NEW q \in Positions(at, split), q # <<>> PROVE FALSE
    OBVIOUS
  <2>1. q \in Path
    BY TreeIff DEF Positions
  <2>2. IsPrefix(<<>>, q)
    BY <2>1, PrefixOrder
  <2> QED BY <1>1, <2>2, TreeIff
<1>3. DOMAIN split = {}
  BY <1>1, <1>2 DEF Positions
<1>4. \A q \in DOMAIN at : at[q] = at[p]
  BY <1>2 DEF Positions
<1>5. DOMAIN at = {p}
  BY <1>4, TreeIff DEF IsInjective
<1> QED BY <1>3, <1>5

\* Panes that change places leave the tree the one it was.
LEMMA MovedTree ==
  ASSUME NEW at, NEW split, IsTree(at, split),
         NEW to \in [DOMAIN at -> DOMAIN at],
         \A p, q \in DOMAIN at : to[p] = to[q] => p = q,
         \A p \in DOMAIN at : \E q \in DOMAIN at : to[q] = p
  PROVE  DOMAIN Moved(at, to) = DOMAIN at /\ IsTree(Moved(at, to), split)
<1> DEFINE new == Moved(at, to)
<1>1. DOMAIN new = DOMAIN at /\ \A p \in DOMAIN at : new[p] = at[to[p]] /\ to[p] \in DOMAIN at
  BY DEF Moved
<1> HIDE DEF new
<1>2. Positions(new, split) = Positions(at, split)
  BY <1>1 DEF Positions
<1>3. IsInjective(new)
  BY <1>1, TreeIff DEF IsInjective
<1>4. \A p \in DOMAIN new : new[p] \in Path \ DOMAIN split
  BY <1>1, TreeIff
<1>5. IsTree(new, split)
  BY <1>2, <1>3, <1>4, TreeIff
<1> QED BY <1>1, <1>5 DEF new

\* What is left in place or lifted when the leaf p is unsplit.
LEMMA Survives ==
  ASSUME NEW at, NEW split, IsTree(at, split), NEW p \in DOMAIN at, at[p] # <<>>,
         NEW up, up = Front(at[p]), NEW side, side = Last(at[p]),
         NEW x \in Positions(at, split), x # up, x # at[p]
  PROVE  /\ x \in Path
         /\ IsPrefix(Append(up, Other(side)), x) \/ ~ IsPrefix(up, x)
         /\ Lifted(x, up, side) \in Path
         /\ Sunk(Lifted(x, up, side), up, side) = x
<1>1. at[p] \in Path /\ up \in Path /\ side \in Sides /\ at[p] = Append(up, side)
  BY TreeIff, ParentType
<1>2. x \in Path
  BY TreeIff DEF Positions
<1>3. ASSUME IsPrefix(up, x) PROVE IsPrefix(Append(up, Other(side)), x)
  <2>1. PICK s \in Sides : IsPrefix(Append(up, s), x)
    BY <1>1, <1>2, <1>3, BelowChild
  <2>2. s # side
    <3> SUFFICES ASSUME s = side PROVE FALSE
      OBVIOUS
    <3>1. IsPrefix(at[p], x)
      BY <1>1, <2>1
    <3>2. at[p] \in DOMAIN split
      BY <1>1, <1>2, <3>1, TreeIff
    <3> QED BY <3>2, TreeIff
  <2> QED BY <1>1, <2>1, <2>2 DEF Other, Sides
<1>4. CASE IsPrefix(Append(up, Other(side)), x)
  BY <1>1, <1>2, <1>4, LiftedBelow, SunkLifted
<1>5. CASE ~ IsPrefix(up, x)
  BY <1>1, <1>2, <1>5, LiftedElsewhere
<1> QED BY <1>2, <1>3, <1>4, <1>5

\* unsplit_leaf leaves a tree: the sibling takes the parent's place.
LEMMA LiftedTree ==
  ASSUME NEW at, NEW split, IsTree(at, split), NEW p \in DOMAIN at, at[p] # <<>>,
         NEW up, up = Front(at[p]), NEW side, side = Last(at[p]),
         NEW new, new = [q \in DOMAIN at \ {p} |-> Lifted(at[q], up, side)],
         NEW rest, DOMAIN rest = {Lifted(s, up, side) : s \in DOMAIN split \ {up}}
  PROVE  IsTree(new, rest)
<1> DEFINE lift(x) == Lifted(x, up, side)
           sib == Append(up, Other(side))
           S == DOMAIN split
           all == Positions(at, split)
           left == all \ {up, at[p]}
<1>1. /\ at[p] \in Path /\ up \in Path /\ side \in Sides /\ at[p] = Append(up, side)
      /\ Other(side) \in Sides /\ Other(side) # side /\ at[p] \notin S
  BY TreeIff, ParentType, OtherType
<1>2. sib \in Path /\ sib # up /\ sib # at[p] /\ up # at[p]
  <2>1. sib \in Path /\ Len(sib) = Len(up) + 1 /\ Len(at[p]) = Len(up) + 1 /\ Len(up) \in Nat
    BY <1>1, ChildType, PathType
  <2>2. sib # at[p]
    BY <1>1, AppendInjective DEF Path
  <2> QED BY <2>1, <2>2
<1>3. up \in S
  <2>1. IsPrefix(up, at[p]) /\ at[p] \in all
    BY <1>1, ChildOrder DEF Positions
  <2> QED BY <1>1, <1>2, <2>1, TreeIff
<1>4. sib \in left
  <2>1. sib \in all
    BY <1>1, <1>3, TreeIff
  <2> QED BY <1>2, <2>1
<1>5. \A x \in left : /\ x \in Path /\ lift(x) \in Path
                      /\ IsPrefix(sib, x) \/ ~ IsPrefix(up, x)
                      /\ Sunk(lift(x), up, side) = x
                      /\ ~ IsPrefix(up, x) => lift(x) = x
                      /\ IsPrefix(sib, x) => IsPrefix(up, lift(x))
  <2> SUFFICES ASSUME NEW x \in left
               PROVE  /\ x \in Path /\ lift(x) \in Path
                      /\ IsPrefix(sib, x) \/ ~ IsPrefix(up, x)
                      /\ Sunk(lift(x), up, side) = x
                      /\ ~ IsPrefix(up, x) => lift(x) = x
                      /\ IsPrefix(sib, x) => IsPrefix(up, lift(x))
    OBVIOUS
  <2>1. x \in Positions(at, split) /\ x # up /\ x # at[p]
    OBVIOUS
  <2>2. /\ x \in Path /\ lift(x) \in Path
        /\ IsPrefix(sib, x) \/ ~ IsPrefix(up, x)
        /\ Sunk(lift(x), up, side) = x
    BY <2>1, Survives
  <2>3. ~ IsPrefix(up, x) => lift(x) = x
    BY <1>1, <2>2, LiftedElsewhere
  <2>4. IsPrefix(sib, x) => IsPrefix(up, lift(x))
    BY <1>1, <2>2, SunkLifted
  <2> QED BY <2>2, <2>3, <2>4
<1>6. \A x, y \in left : lift(x) = lift(y) => x = y
  <2> HIDE DEF lift, left
  <2> SUFFICES ASSUME NEW x \in left, NEW y \in left, lift(x) = lift(y) PROVE x = y
    OBVIOUS
  <2>1. Sunk(lift(x), up, side) = x /\ Sunk(lift(y), up, side) = y
    BY <1>5
  <2> QED BY <2>1
<1>7. /\ DOMAIN rest = {lift(s) : s \in S \ {up}} /\ S \ {up} \subseteq left
      /\ DOMAIN new = DOMAIN at \ {p}
      /\ \A q \in DOMAIN new : new[q] = lift(at[q]) /\ at[q] \in left /\ at[q] \notin S
  <2>1. S \ {up} \subseteq left
    BY <1>1 DEF Positions
  <2>2. \A q \in DOMAIN at \ {p} : at[q] \in left /\ at[q] \notin S
    <3>1. \A q \in DOMAIN at \ {p} : at[q] # at[p] /\ at[q] \notin S
      BY TreeIff DEF IsInjective
    <3> QED BY <1>3, <3>1 DEF Positions
  <2> QED BY <2>1, <2>2
<1>8. Positions(new, rest) = {lift(x) : x \in left}
  <2>1. left = (S \ {up}) \cup {at[q] : q \in DOMAIN at \ {p}}
    BY <1>7 DEF Positions
  <2>2. Positions(new, rest) = {lift(s) : s \in S \ {up}} \cup {lift(at[q]) : q \in DOMAIN at \ {p}}
    <3> HIDE DEF lift, S
    <3> QED BY <1>7 DEF Positions
  <2> HIDE DEF lift, left, S
  <2> QED BY <2>1, <2>2, ZenonT(60)
<1>m. /\ \A r : r \in DOMAIN rest <=> \E s \in S \ {up} : r = lift(s)
      /\ \A r : r \in Positions(new, rest) <=> \E x \in left : r = lift(x)
  <2> HIDE DEF lift, left, S
  <2> QED BY <1>7, <1>8
<1>l. \A x \in Path : IsPrefix(sib, x) =>
         /\ Len(up) + 1 <= Len(x) /\ lift(x) \in Path /\ Len(lift(x)) = Len(x) - 1
         /\ \A i \in 1..(Len(x) - 1) : lift(x)[i] = IF i <= Len(up) THEN x[i] ELSE x[i + 1]
  <2> SUFFICES ASSUME NEW x \in Path, IsPrefix(sib, x)
               PROVE  /\ Len(up) + 1 <= Len(x) /\ lift(x) \in Path /\ Len(lift(x)) = Len(x) - 1
                      /\ \A i \in 1..(Len(x) - 1) : lift(x)[i] = IF i <= Len(up) THEN x[i] ELSE x[i + 1]
    OBVIOUS
  <2>1. /\ lift(x) \in Path /\ Len(lift(x)) = Len(x) - 1
        /\ \A i \in 1..(Len(x) - 1) : lift(x)[i] = IF i <= Len(up) THEN x[i] ELSE x[i + 1]
    BY <1>1, LiftedBelow
  <2>2. Len(sib) = Len(up) + 1
    BY <1>1, ChildType
  <2> HIDE DEF sib, lift
  <2>3. Len(sib) <= Len(x)
    BY <1>2, PrefixElements
  <2> QED BY <2>1, <2>2, <2>3
<1>n. ~ IsPrefix(sib, up)
  BY <1>1, <1>2, ChildOrder, PrefixOrder
<1> HIDE DEF lift, left, all, S
<1>9. IsInjective(new)
  BY <1>6, <1>7, TreeIff DEF IsInjective
<1>10. \A q \in DOMAIN new : new[q] \in Path \ DOMAIN rest
  BY <1>5, <1>6, <1>7, <1>m
<1>11. DOMAIN rest \subseteq Path
  BY <1>5, <1>7, <1>m
<1>12. \A r \in DOMAIN rest, d \in Sides : Append(r, d) \in Positions(new, rest)
  <2> SUFFICES ASSUME NEW r \in DOMAIN rest, NEW d \in Sides
               PROVE  Append(r, d) \in Positions(new, rest)
    OBVIOUS
  <2>0. PICK s \in S \ {up} : r = lift(s)
    BY <1>m
  <2> SUFFICES \E y \in left : Append(lift(s), d) = lift(y)
    BY <1>m, <2>0
  <2>1. s \in left /\ s \in Path /\ Append(s, d) \in all /\ Append(s, d) \in Path
    BY <1>5, <1>7, TreeIff, ChildType DEF all, S
  <2>2. Append(s, d) # at[p]
    <3>1. s # up
      OBVIOUS
    <3> QED BY <1>1, <2>1, <3>1, ChildParent
  <2>3. CASE IsPrefix(sib, s)
    <3> DEFINE c == Append(s, d)
               l == lift(s)
    <3>1. IsPrefix(sib, c)
      BY <1>2, <2>1, <2>3, ChildOrder
    <3>2. c # up
      BY <1>n, <3>1
    <3>3. c \in left
      BY <2>1, <2>2, <3>2 DEF left
    <3>4. Append(l, d) = lift(c)
      <4>0. Len(s) \in Nat /\ Len(up) \in Nat
        BY <1>1, <2>1, PathType
      <4>1. /\ l \in Path /\ Len(l) = Len(s) - 1
            /\ \A i \in 1..(Len(s) - 1) : l[i] = IF i <= Len(up) THEN s[i] ELSE s[i + 1]
        BY <1>l, <2>1, <2>3
      <4>2. c \in Path /\ Len(c) = Len(s) + 1 /\ (\A i \in 1..Len(s) : c[i] = s[i]) /\ c[Len(s) + 1] = d
        BY <2>1, ChildType
      <4> HIDE DEF l, c
      <4>3. /\ lift(c) \in Path /\ Len(lift(c)) = Len(c) - 1
            /\ \A i \in 1..(Len(c) - 1) : lift(c)[i] = IF i <= Len(up) THEN c[i] ELSE c[i + 1]
        BY <1>l, <3>1, <4>2
      <4>4. /\ Append(l, d) \in Path /\ Len(Append(l, d)) = Len(l) + 1
            /\ (\A i \in 1..Len(l) : Append(l, d)[i] = l[i]) /\ Append(l, d)[Len(l) + 1] = d
        BY <4>1, ChildType
      <4>5. Len(up) + 1 <= Len(s)
        BY <1>l, <2>1, <2>3
      <4>6. ASSUME NEW i \in 1..Len(s) PROVE Append(l, d)[i] = lift(c)[i]
        <5>1. CASE i = Len(s)
          <6>1. Append(l, d)[i] = d
            BY <4>0, <4>1, <4>4, <5>1
          <6>2. i \in 1..(Len(c) - 1) /\ ~ (i <= Len(up)) /\ i + 1 = Len(s) + 1
            BY <4>0, <4>2, <4>5, <5>1
          <6>3. lift(c)[i] = c[Len(s) + 1]
            BY <4>3, <6>2
          <6> QED BY <4>2, <6>1, <6>3
        <5>2. CASE i # Len(s)
          <6>1. i \in 1..(Len(s) - 1) /\ i \in 1..Len(l) /\ i \in 1..(Len(c) - 1) /\ i + 1 \in 1..Len(s)
            BY <4>0, <4>1, <4>2, <5>2
          <6>2. Append(l, d)[i] = IF i <= Len(up) THEN s[i] ELSE s[i + 1]
            BY <4>1, <4>4, <6>1
          <6>3. lift(c)[i] = IF i <= Len(up) THEN c[i] ELSE c[i + 1]
            BY <4>3, <6>1
          <6> QED BY <4>2, <6>1, <6>2, <6>3
        <5> QED BY <5>1, <5>2
      <4>7. Len(Append(l, d)) = Len(s) /\ Len(lift(c)) = Len(s)
        BY <4>0, <4>1, <4>2, <4>3, <4>4
      <4> QED BY <4>3, <4>4, <4>6, <4>7, PathEqual
    <3> QED BY <3>3, <3>4
  <2>4. CASE ~ IsPrefix(up, s)
    <3>1. lift(s) = s
      BY <1>5, <2>1, <2>4
    <3>2. CASE Append(s, d) = up
      <4>1. lift(sib) = up
        <5>1. IsPrefix(sib, sib)
          BY <1>2, PrefixOrder
        <5>2. Len(up) \in Nat /\ Len(sib) = Len(up) + 1 /\ \A i \in 1..Len(up) : sib[i] = up[i]
          BY <1>1, PathType, ChildType
        <5> HIDE DEF sib
        <5>3. /\ lift(sib) \in Path /\ Len(lift(sib)) = Len(sib) - 1
              /\ \A i \in 1..(Len(sib) - 1) : lift(sib)[i] = IF i <= Len(up) THEN sib[i] ELSE sib[i + 1]
          BY <1>2, <1>l, <5>1
        <5>4. Len(lift(sib)) = Len(up) /\ \A i \in 1..Len(up) : lift(sib)[i] = up[i]
          BY <5>2, <5>3
        <5> QED BY <1>1, <5>3, <5>4, PathEqual
      <4> QED BY <1>4, <3>1, <3>2, <4>1
    <3>3. CASE Append(s, d) # up
      <4>1. Append(s, d) \in left
        BY <2>1, <2>2, <3>3 DEF left
      <4>2. ~ IsPrefix(up, Append(s, d))
        BY <1>1, <2>1, <2>4, <3>3, ChildOrder
      <4>3. lift(Append(s, d)) = Append(s, d)
        BY <1>5, <4>1, <4>2
      <4> QED BY <3>1, <4>1, <4>3
    <3> QED BY <3>2, <3>3
  <2> QED BY <1>5, <2>1, <2>3, <2>4
<1>13. ASSUME NEW r \in Positions(new, rest), NEW x \in Path, IsPrefix(x, r), x # r
       PROVE  x \in DOMAIN rest
  <2>1. PICK y \in left : r = lift(y)
    BY <1>m
  <2>2. y \in Path /\ r \in Path /\ y \in all
    BY <1>5, <2>1 DEF left
  <2> SUFFICES \E z \in S \ {up} : x = lift(z)
    BY <1>m
  <2>3. CASE ~ IsPrefix(up, y)
    <3>1. r = y
      BY <1>5, <2>1, <2>3
    <3>2. x \in S
      BY <1>13, <2>2, <3>1, TreeIff DEF all, S
    <3>3. ~ IsPrefix(up, x)
      BY <1>1, <1>13, <2>2, <2>3, <3>1, PrefixOrder
    <3>4. x # up
      BY <1>1, <3>3, PrefixOrder
    <3>5. lift(x) = x
      BY <1>5, <1>7, <3>2, <3>3, <3>4
    <3> QED BY <3>2, <3>4, <3>5
  <2>4. CASE IsPrefix(sib, y) /\ IsPrefix(up, x)
    <3> DEFINE z == Sunk(x, up, side)
    <3>1. IsPrefix(sib, z) /\ lift(z) = x
      BY <1>1, <2>4, LiftedSunk DEF lift
    <3>2. z \in Path
      BY <1>1, <2>4, SunkBelow
    <3>3. Sunk(r, up, side) = y
      BY <1>5, <2>1
    <3>4. IsPrefix(z, y)
      BY <1>1, <1>13, <2>2, <2>4, <3>3, SunkPrefix
    <3>5. z # y
      BY <1>13, <2>1, <3>1
    <3> HIDE DEF z
    <3>6. z \in S
      BY <2>2, <3>2, <3>4, <3>5, TreeIff DEF all, S
    <3>7. z # up
      BY <1>n, <3>1
    <3> QED BY <3>1, <3>6, <3>7
  <2>5. CASE IsPrefix(sib, y) /\ ~ IsPrefix(up, x)
    <3>1. IsPrefix(up, r)
      BY <1>5, <2>1, <2>5
    <3>2. IsPrefix(x, up)
      BY <1>1, <1>13, <2>2, <2>5, <3>1, PrefixOrder
    <3>3. x # up
      BY <1>1, <2>5, PrefixOrder
    <3>4. x \in S
      BY <1>1, <1>3, <3>2, <3>3, TreeIff DEF Positions, S
    <3>5. lift(x) = x
      BY <1>5, <1>7, <2>5, <3>3, <3>4
    <3> QED BY <3>3, <3>4, <3>5
  <2> QED BY <1>5, <2>1, <2>3, <2>4, <2>5
<1> QED BY <1>9, <1>10, <1>11, <1>12, <1>13, TreeIff

(* The order in which the leaves are met. *)

\* A set of numbers has a least one.
LEMMA LeastNat ==
  \A T \in SUBSET Nat : T # {} => \E x \in T : \A y \in T : ~ (y < x)
<1> DEFINE Lt == {p \in Nat \X Nat : p[1] < p[2]}
<1>1. IsWellFoundedOn(Lt, Nat)
  BY NatLessThanWellFounded DEF OpToRel
<1>2. SUFFICES ASSUME NEW T \in SUBSET Nat, T # {}
               PROVE  \E x \in T : \A y \in T : ~ (y < x)
  OBVIOUS
<1>3. T \subseteq Nat
  OBVIOUS
<1> HIDE DEF Lt
<1>4. \E x \in T : \A y \in T : ~ (<<y, x>> \in Lt)
  BY ONLY <1>1, <1>2, <1>3, WFMin
<1> QED BY <1>4 DEF Lt

\* Which of two positions a walk in preorder meets first.
LEMMA BeforeElements ==
  ASSUME NEW p \in Path, NEW q \in Path
  PROVE  Before(p, q) <=> \E i \in 1..Len(p) : /\ i \in 1..Len(q) /\ p[i] = "left" /\ q[i] = "right"
                                              /\ \A j \in 1..(i - 1) : p[j] = q[j]
<1>1. DOMAIN p = 1..Len(p) /\ DOMAIN q = 1..Len(q)
  BY PathType
<1> QED BY <1>1 DEF Before

\* Two positions are in this order, or in the other, or one is above the other.
LEMMA BeforeTotal ==
  ASSUME NEW p \in Path, NEW q \in Path
  PROVE  Before(p, q) \/ Before(q, p) \/ IsPrefix(p, q) \/ IsPrefix(q, p)
<1> DEFINE D == {i \in Nat : i \in 1..Len(p) /\ i \in 1..Len(q) /\ p[i] # q[i]}
<1>0. Len(p) \in Nat /\ Len(q) \in Nat
  BY PathType
<1>1. CASE D = {}
  <2>1. \A i \in Nat : i \in 1..Len(p) /\ i \in 1..Len(q) => p[i] = q[i]
    BY <1>1
  <2>2. CASE Len(p) <= Len(q)
    <3>1. \A i \in 1..Len(p) : p[i] = q[i]
      BY <1>0, <2>1, <2>2
    <3> QED BY <2>2, <3>1, PrefixElements
  <2>3. CASE Len(q) <= Len(p)
    <3>1. \A i \in 1..Len(q) : q[i] = p[i]
      BY <1>0, <2>1, <2>3
    <3> QED BY <2>3, <3>1, PrefixElements
  <2> QED BY <1>0, <2>2, <2>3
<1>2. CASE D # {}
  <2>1. D \in SUBSET Nat
    OBVIOUS
  <2>2. PICK i \in D : \A y \in D : ~ (y < i)
    <3> HIDE DEF D
    <3> QED BY <1>2, <2>1, LeastNat
  <2>3. i \in 1..Len(p) /\ i \in 1..Len(q) /\ p[i] # q[i] /\ i \in Nat
    BY <2>2
  <2>4. \A j \in 1..(i - 1) : p[j] = q[j]
    <3> SUFFICES ASSUME NEW j \in 1..(i - 1), p[j] # q[j] PROVE FALSE
      OBVIOUS
    <3>1. j \in Nat /\ j \in 1..Len(p) /\ j \in 1..Len(q) /\ j < i
      BY <1>0, <2>3
    <3> QED BY <2>2, <3>1
  <2>5. p[i] \in Sides /\ q[i] \in Sides
    BY <2>3, PathType
  <2> HIDE DEF D
  <2>6. CASE p[i] = "left" /\ q[i] = "right"
    BY <2>3, <2>4, <2>6, BeforeElements
  <2>7. CASE p[i] = "right" /\ q[i] = "left"
    BY <2>3, <2>4, <2>7, BeforeElements
  <2> QED BY <2>3, <2>5, <2>6, <2>7 DEF Sides
<1> QED BY <1>1, <1>2

\* The order of the walk is a strict order, and what is below two positions is
\* in the order of the two.
LEMMA BeforeOrder ==
  ASSUME NEW p \in Path, NEW q \in Path, NEW r \in Path, Before(p, q)
  PROVE  /\ ~ Before(q, p) /\ ~ IsPrefix(p, q) /\ ~ IsPrefix(q, p) /\ p # q
         /\ Before(q, r) => Before(p, r)
         /\ IsPrefix(q, r) => Before(p, r)
         /\ IsPrefix(p, r) => Before(r, q)
<1>0. Len(p) \in Nat /\ Len(q) \in Nat /\ Len(r) \in Nat
  BY PathType
<1>1. PICK i \in 1..Len(p) : /\ i \in 1..Len(q) /\ p[i] = "left" /\ q[i] = "right"
                             /\ \A j \in 1..(i - 1) : p[j] = q[j]
  BY BeforeElements
<1>2. ~ Before(q, p)
  <2> SUFFICES ASSUME Before(q, p) PROVE FALSE
    OBVIOUS
  <2>1. PICK k \in 1..Len(q) : /\ k \in 1..Len(p) /\ q[k] = "left" /\ p[k] = "right"
                               /\ \A j \in 1..(k - 1) : q[j] = p[j]
    BY BeforeElements
  <2>2. ~ (k < i) /\ ~ (i < k)
    <3>1. k < i => k \in 1..(i - 1)
      BY <1>0, <2>1
    <3>2. i < k => i \in 1..(k - 1)
      BY <1>0, <1>1
    <3> QED BY <1>1, <2>1, <3>1, <3>2
  <2>3. i = k
    BY <1>0, <1>1, <2>1, <2>2
  <2> QED BY <1>1, <2>1, <2>3
<1>3. ~ IsPrefix(p, q) /\ ~ IsPrefix(q, p)
  BY <1>1, PrefixElements
<1>4. p # q
  BY <1>1
<1>5. ASSUME Before(q, r) PROVE Before(p, r)
  <2>1. PICK k \in 1..Len(q) : /\ k \in 1..Len(r) /\ q[k] = "left" /\ r[k] = "right"
                               /\ \A j \in 1..(k - 1) : q[j] = r[j]
    BY <1>5, BeforeElements
  <2>2. i # k
    BY <1>1, <2>1
  <2>3. CASE i < k
    <3>1. i \in 1..(k - 1) /\ i \in 1..Len(r)
      BY <1>0, <1>1, <2>1, <2>3
    <3>2. \A j \in 1..(i - 1) : j \in 1..(k - 1)
      BY <1>0, <1>1, <2>1, <2>3
    <3>3. r[i] = "right" /\ \A j \in 1..(i - 1) : p[j] = r[j]
      BY <1>1, <2>1, <3>1, <3>2
    <3> QED BY <1>1, <3>1, <3>3, BeforeElements
  <2>4. CASE k < i
    <3>1. k \in 1..(i - 1) /\ k \in 1..Len(p)
      BY <1>0, <1>1, <2>1, <2>4
    <3>2. \A j \in 1..(k - 1) : j \in 1..(i - 1)
      BY <1>0, <1>1, <2>1, <2>4
    <3>3. p[k] = "left" /\ \A j \in 1..(k - 1) : p[j] = r[j]
      BY <1>1, <2>1, <3>1, <3>2
    <3> QED BY <2>1, <3>1, <3>3, BeforeElements
  <2> QED BY <1>0, <1>1, <2>1, <2>2, <2>3, <2>4
<1>6. ASSUME IsPrefix(q, r) PROVE Before(p, r)
  <2>1. Len(q) <= Len(r) /\ \A j \in 1..Len(q) : q[j] = r[j]
    BY <1>6, PrefixElements
  <2>2. i \in 1..Len(r) /\ \A j \in 1..(i - 1) : j \in 1..Len(q)
    BY <1>0, <1>1, <2>1
  <2>3. r[i] = "right" /\ \A j \in 1..(i - 1) : p[j] = r[j]
    BY <1>1, <2>1, <2>2
  <2> QED BY <1>1, <2>2, <2>3, BeforeElements
<1>7. ASSUME IsPrefix(p, r) PROVE Before(r, q)
  <2>1. Len(p) <= Len(r) /\ \A j \in 1..Len(p) : p[j] = r[j]
    BY <1>7, PrefixElements
  <2>2. i \in 1..Len(r) /\ \A j \in 1..(i - 1) : j \in 1..Len(p)
    BY <1>0, <1>1, <2>1
  <2>3. r[i] = "left" /\ \A j \in 1..(i - 1) : r[j] = q[j]
    BY <1>1, <2>1, <2>2
  <2> QED BY <1>1, <2>2, <2>3, BeforeElements
<1> QED BY <1>2, <1>3, <1>4, <1>5, <1>6, <1>7

\* Of two leaves one comes before the other.
LEMMA LeavesOrdered ==
  ASSUME NEW at, NEW split, IsTree(at, split), NEW p \in DOMAIN at, NEW q \in DOMAIN at
  PROVE  /\ at[p] \in Path /\ at[q] \in Path
         /\ p # q => Before(at[p], at[q]) \/ Before(at[q], at[p])
         /\ Before(at[p], at[q]) => ~ Before(at[q], at[p]) /\ p # q
<1>1. at[p] \in Path \ DOMAIN split /\ at[q] \in Path \ DOMAIN split
  BY TreeIff
<1>2. at[p] \in Positions(at, split) /\ at[q] \in Positions(at, split)
  BY DEF Positions
<1>3. ASSUME p # q PROVE Before(at[p], at[q]) \/ Before(at[q], at[p])
  <2>1. at[p] # at[q]
    BY <1>3, TreeIff DEF IsInjective
  <2>2. ~ IsPrefix(at[p], at[q]) /\ ~ IsPrefix(at[q], at[p])
    BY <1>1, <1>2, <2>1, TreeIff
  <2> QED BY <1>1, <2>2, BeforeTotal
<1>4. ASSUME Before(at[p], at[q]) PROVE ~ Before(at[q], at[p]) /\ p # q
  BY <1>1, <1>4, BeforeOrder
<1> QED BY <1>1, <1>3, <1>4

\* The index of a leaf counts the leaves before it, so it numbers them all.
LEMMA IndexType ==
  ASSUME NEW at, NEW split, IsTree(at, split), IsFiniteSet(DOMAIN at), NEW p \in DOMAIN at
  PROVE  /\ Cardinality(DOMAIN at) \in Nat
         /\ Index(at, p) \in 0..(Cardinality(DOMAIN at) - 1)
<1> DEFINE B == {q \in DOMAIN at : Before(at[q], at[p])}
<1>1. B \subseteq DOMAIN at \ {p}
  BY LeavesOrdered
<1>2. /\ Cardinality(DOMAIN at) \in Nat /\ IsFiniteSet(DOMAIN at \ {p})
      /\ Cardinality(DOMAIN at \ {p}) = Cardinality(DOMAIN at) - 1
  BY FS_RemoveElement, FS_CardinalityType
<1>3. IsFiniteSet(B) /\ Cardinality(B) <= Cardinality(DOMAIN at \ {p}) /\ Cardinality(B) \in Nat
  <2> HIDE DEF B
  <2> QED BY <1>1, <1>2, FS_Subset, FS_CardinalityType
<1> HIDE DEF B
<1>4. Cardinality(B) \in 0..(Cardinality(DOMAIN at) - 1)
  BY <1>2, <1>3
<1> QED BY <1>2, <1>4 DEF Index, B

\* Leaves are numbered in the order of the walk.
LEMMA IndexOrder ==
  ASSUME NEW at, NEW split, IsTree(at, split), IsFiniteSet(DOMAIN at),
         NEW p \in DOMAIN at, NEW q \in DOMAIN at
  PROVE  /\ Before(at[p], at[q]) <=> Index(at, p) < Index(at, q)
         /\ p = q <=> Index(at, p) = Index(at, q)
<1> DEFINE B(r) == {x \in DOMAIN at : Before(at[x], at[r])}
<1>1. ASSUME NEW a \in DOMAIN at, NEW b \in DOMAIN at, Before(at[a], at[b])
      PROVE  Index(at, a) < Index(at, b)
  <2>1. B(a) \subseteq B(b) /\ a \in B(b) /\ a \notin B(a)
    <3>1. ASSUME NEW x \in B(a) PROVE x \in B(b)
      <4>1. x \in DOMAIN at /\ Before(at[x], at[a])
        OBVIOUS
      <4>2. at[x] \in Path /\ at[a] \in Path /\ at[b] \in Path
        BY <4>1, TreeIff
      <4>3. Before(at[x], at[b])
        BY <1>1, <4>1, <4>2, BeforeOrder
      <4> QED BY <4>1, <4>3
    <3>2. a \notin B(a)
      BY LeavesOrdered
    <3> QED BY <1>1, <3>1, <3>2
  <2>2. IsFiniteSet(B(b)) /\ IsFiniteSet(B(a))
    BY FS_Subset
  <2> DEFINE U == B(a)
             V == B(b)
  <2> HIDE DEF U, V
  <2>3. U \subseteq V /\ U # V /\ IsFiniteSet(U) /\ IsFiniteSet(V)
    BY <2>1, <2>2 DEF U, V
  <2>4. Cardinality(U) < Cardinality(V)
    BY <2>3, FS_Subset, FS_CardinalityType
  <2> QED BY <2>4 DEF U, V, Index
<1>2. Index(at, p) \in Nat /\ Index(at, q) \in Nat
  BY IndexType
<1>3. p # q => Before(at[p], at[q]) \/ Before(at[q], at[p])
  BY LeavesOrdered
<1>4. Before(at[p], at[q]) => p # q
  BY LeavesOrdered
<1> QED BY <1>1, <1>2, <1>3, <1>4

\* So the pane of an index is the one that has it (iter_panes,
\* get_active_idx).
LEMMA PaneAtIndex ==
  ASSUME NEW at, NEW split, IsTree(at, split), IsFiniteSet(DOMAIN at)
  PROVE  /\ \A i \in 0..(Cardinality(DOMAIN at) - 1) :
              PaneAt(at, i) \in DOMAIN at /\ Index(at, PaneAt(at, i)) = i
         /\ \A p \in DOMAIN at : PaneAt(at, Index(at, p)) = p
         /\ \A i \in Nat : i >= Cardinality(DOMAIN at) => PaneAt(at, i) = NoPane
         /\ \A i : PaneAt(at, i) \in DOMAIN at \cup {NoPane}
<1> DEFINE S == DOMAIN at
           T == 0..(Cardinality(DOMAIN at) - 1)
           f == [p \in S |-> Index(at, p)]
<1>0. Cardinality(S) \in Nat
  BY FS_CardinalityType
<1>1. IsFiniteSet(T) /\ Cardinality(T) = Cardinality(S)
  <2>1. 0 \in Int /\ Cardinality(S) - 1 \in Int
    BY <1>0
  <2>2. IsFiniteSet(T) /\ Cardinality(T) = IF 0 > Cardinality(S) - 1 THEN 0 ELSE Cardinality(S) - 1 - 0 + 1
    <3> HIDE DEF S
    <3> QED BY <2>1, FS_Interval DEF S
  <2> QED BY <1>0, <2>2
<1>2. f \in Injection(S, T)
  <2>1. f \in [S -> T]
    BY IndexType
  <2>2. IsInjective(f)
    BY IndexOrder DEF IsInjective
  <2> QED BY <2>1, <2>2 DEF Injection
<1>3. f \in Surjection(S, T)
  <2> HIDE DEF S, T, f
  <2> QED BY <1>1, <1>2, FS_Injection
<1>4. \A i \in T : \E p \in S : Index(at, p) = i
  BY <1>3 DEF Surjection
<1>5. \A i \in T : PaneAt(at, i) \in S /\ Index(at, PaneAt(at, i)) = i
  BY <1>4 DEF PaneAt
<1>6. \A p \in S : Index(at, p) \in T /\ PaneAt(at, Index(at, p)) = p
  <2> SUFFICES ASSUME NEW p \in S PROVE Index(at, p) \in T /\ PaneAt(at, Index(at, p)) = p
    OBVIOUS
  <2>1. Index(at, p) \in T
    BY IndexType
  <2>2. PaneAt(at, Index(at, p)) \in S /\ Index(at, PaneAt(at, Index(at, p))) = Index(at, p)
    BY <1>5, <2>1
  <2> QED BY <2>1, <2>2, IndexOrder
<1>7. ASSUME NEW i \in Nat, i >= Cardinality(S) PROVE PaneAt(at, i) = NoPane
  <2>1. \A p \in S : Index(at, p) # i
    <3> SUFFICES ASSUME NEW p \in S, Index(at, p) = i PROVE FALSE
      OBVIOUS
    <3>1. i \in 0..(Cardinality(S) - 1)
      BY IndexType
    <3> QED BY <1>0, <1>7, <3>1
  <2> QED BY <2>1 DEF PaneAt
<1>8. \A i : PaneAt(at, i) \in DOMAIN at \cup {NoPane}
  BY DEF PaneAt
<1> QED BY <1>5, <1>6, <1>7, <1>8

\* Of some leaves there is a first.
LEMMA FirstLeaf ==
  ASSUME NEW at, NEW split, IsTree(at, split), IsFiniteSet(DOMAIN at),
         NEW T \in SUBSET DOMAIN at, T # {}
  PROVE  \E p \in T : \A q \in T \ {p} : Before(at[p], at[q])
<1> DEFINE N == {Index(at, p) : p \in T}
<1>1. \A p \in T : Index(at, p) \in Nat
  BY IndexType
<1>2. N \in SUBSET Nat /\ N # {}
  BY <1>1
<1>3. PICK x \in N : \A y \in N : ~ (y < x)
  <2> HIDE DEF N
  <2> QED BY <1>2, LeastNat
<1>4. PICK p \in T : x = Index(at, p)
  BY <1>3
<1>5. ASSUME NEW q \in T \ {p} PROVE Before(at[p], at[q])
  <2>1. ~ (Index(at, q) < Index(at, p))
    BY <1>3, <1>4
  <2>2. ~ Before(at[q], at[p])
    BY <2>1, IndexOrder
  <2> QED BY <2>2, LeavesOrdered
<1> QED BY <1>5

---------------------------------------------------------------------------
(* The invariant. Resizing and zooming keep the tree.                      *)

Fields == {"at", "split", "size", "before", "zoomed", "active", "shown", "pty", "hung"}
IsTab(tb) == DOMAIN tb = Fields /\ tb = [f \in Fields |-> tb[f]]

IsSplit(n) == /\ n = [dir |-> n.dir, slot |-> [side \in Sides |-> n.slot[side]]]
              /\ n.dir \in Axes

Shallow(split) == \E n \in Nat : \A p \in DOMAIN split : Len(p) <= n

GoodTree(at, split) ==
  /\ DOMAIN at \subseteq Panes /\ IsFiniteSet(DOMAIN at) /\ IsTree(at, split)
  /\ at = [p \in DOMAIN at |-> at[p]] /\ split = [p \in DOMAIN split |-> split[p]]
  /\ \A p \in DOMAIN split : IsSplit(split[p])
  /\ Shallow(split)

GoodTab(tb) ==
  /\ IsTab(tb)
  /\ GoodTree(tb.at, tb.split)
  /\ tb.zoomed \in DOMAIN tb.at \cup {NoPane}
  /\ tb.active \in Nat /\ tb.hung \in BOOLEAN
  /\ tb.shown = [p \in DOMAIN tb.at |-> tb.shown[p]]
  /\ tb.pty = [p \in DOMAIN tb.at |-> tb.pty[p]]

IInv ==
  /\ GoodTab(tab)
  /\ pending # NoSplit => pending.pane \in Panes /\ pending.request \in Requests
  /\ moves \in 0..MaxMoves

\* Told sizes of panes the tab holds, a record of sizes keeps its panes.
LEMMA UpdatedType ==
  ASSUME NEW f, NEW sizes, DOMAIN sizes \subseteq DOMAIN f
  PROVE  /\ DOMAIN Updated(f, sizes) = DOMAIN f
         /\ \A p \in DOMAIN f : Updated(f, sizes)[p] = IF p \in DOMAIN sizes THEN sizes[p] ELSE f[p]
         /\ Updated(f, sizes) = [p \in DOMAIN f |-> Updated(f, sizes)[p]]
<1>1. DOMAIN f \cup DOMAIN sizes = DOMAIN f
  OBVIOUS
<1> QED BY <1>1 DEF Updated

\* What one pane is told.
LEMMA OneDomain ==
  ASSUME NEW p, NEW x
  PROVE  DOMAIN One(p, x) = {p} /\ One(p, x)[p] = x
  BY DEF One

\* Being told sizes changes nothing but the sizes.
LEMMA ToldFields ==
  ASSUME NEW tb, IsTab(tb), NEW sizes
  PROVE  /\ IsTab(Told(tb, sizes))
         /\ Told(tb, sizes).at = tb.at /\ Told(tb, sizes).split = tb.split
         /\ Told(tb, sizes).size = tb.size /\ Told(tb, sizes).before = tb.before
         /\ Told(tb, sizes).zoomed = tb.zoomed /\ Told(tb, sizes).active = tb.active
         /\ Told(tb, sizes).hung = tb.hung
         /\ Told(tb, sizes).shown = Updated(tb.shown, sizes)
         /\ Told(tb, sizes).pty = Updated(tb.pty, sizes)
  BY DEF Told, IsTab, Fields

\* And leaves a good tab one.
LEMMA ToldGood ==
  ASSUME NEW tb, GoodTab(tb), NEW sizes, DOMAIN sizes \subseteq DOMAIN tb.at
  PROVE  GoodTab(Told(tb, sizes))
<1> DEFINE new == Told(tb, sizes)
<1>1. /\ IsTab(new) /\ new.at = tb.at /\ new.split = tb.split /\ new.zoomed = tb.zoomed
      /\ new.active = tb.active /\ new.hung = tb.hung
      /\ new.shown = Updated(tb.shown, sizes) /\ new.pty = Updated(tb.pty, sizes)
  BY ToldFields DEF GoodTab
<1>2. DOMAIN tb.shown = DOMAIN tb.at /\ DOMAIN tb.pty = DOMAIN tb.at
  BY DEF GoodTab
<1>3. /\ Updated(tb.shown, sizes) = [p \in DOMAIN tb.at |-> Updated(tb.shown, sizes)[p]]
      /\ Updated(tb.pty, sizes) = [p \in DOMAIN tb.at |-> Updated(tb.pty, sizes)[p]]
  BY <1>2, UpdatedType
<1> HIDE DEF new
<1>4. GoodTab(new)
  BY <1>1, <1>3 DEF GoodTab
<1> QED BY <1>4 DEF new

\* What panes are told by a walk are sizes of panes in the tab.
LEMMA SlotsDomain ==
  ASSUME NEW tb, NEW path
  PROVE  /\ DOMAIN SlotsOf(tb) = DOMAIN tb.at
         /\ DOMAIN CascadedSlots(tb, path) = {q \in DOMAIN tb.at : After(path, tb.at[q])}
         /\ DOMAIN CascadedSlots(tb, path) \subseteq DOMAIN tb.at
  BY DEF SlotsOf, CascadedSlots

(* Resizing keeps the tree. *)
LEMMA WithSlotsShape ==
  ASSUME NEW split, NEW slots, \A p \in DOMAIN split : IsSplit(split[p]), Shallow(split)
  PROVE  LET new == WithSlots(split, slots)
         IN  /\ DOMAIN new = DOMAIN split /\ new = [p \in DOMAIN new |-> new[p]]
             /\ \A p \in DOMAIN new : IsSplit(new[p]) /\ new[p].dir = split[p].dir
             /\ Shallow(new)
<1> DEFINE new == WithSlots(split, slots)
<1>1. DOMAIN new = DOMAIN split /\ new = [p \in DOMAIN new |-> new[p]]
  BY DEF WithSlots
<1>2. \A p \in DOMAIN split : new[p] = [dir |-> split[p].dir, slot |-> [side \in Sides |-> slots[p][side]]]
  BY DEF WithSlots
<1> HIDE DEF new
<1>3. \A p \in DOMAIN split : IsSplit(new[p]) /\ new[p].dir = split[p].dir
  <2> TAKE p \in DOMAIN split
  <2> DEFINE sl == [side \in Sides |-> slots[p][side]]
             d == split[p].dir
  <2>1. new[p] = [dir |-> d, slot |-> sl]
    BY <1>2
  <2>2. sl = [side \in Sides |-> sl[side]] /\ d \in Axes
    BY DEF IsSplit
  <2> HIDE DEF sl, d
  <2>3. new[p].dir = d /\ new[p].slot = sl
    BY <2>1
  <2>4. IsSplit(new[p])
    BY <2>1, <2>2, <2>3 DEF IsSplit
  <2> QED BY <2>3, <2>4 DEF d
<1>4. Shallow(new)
  BY <1>1 DEF Shallow
<1> QED BY <1>1, <1>3, <1>4 DEF new

\* A tree is one by where its splits are.
LEMMA TreeDomain ==
  ASSUME NEW at, NEW split, NEW new, DOMAIN new = DOMAIN split
  PROVE  IsTree(at, split) <=> IsTree(at, new)
  BY DEF IsTree

\* So does giving the tab splits at the same places.
LEMMA NewSplitsGood ==
  ASSUME NEW tb, GoodTab(tb), NEW new, IsTab(new), new.at = tb.at,
         DOMAIN new.split = DOMAIN tb.split, new.split = [p \in DOMAIN new.split |-> new.split[p]],
         \A p \in DOMAIN new.split : IsSplit(new.split[p]), Shallow(new.split),
         new.zoomed \in DOMAIN tb.at \cup {NoPane}, new.active \in Nat, new.hung \in BOOLEAN,
         new.shown = tb.shown, new.pty = tb.pty
  PROVE  GoodTab(new)
<1>1. IsTree(tb.at, new.split)
  BY TreeDomain DEF GoodTab, GoodTree
<1> QED BY <1>1 DEF GoodTab, GoodTree

\* resize_visual keeps the tree, whatever cells it hands out.
LEMMA ReshapedGood ==
  ASSUME NEW tb, GoodTab(tb), NEW sz
  PROVE  LET new == Reshaped(tb, sz)
         IN  /\ GoodTab(new) /\ new.at = tb.at /\ new.zoomed = tb.zoomed
             /\ new.active = tb.active /\ DOMAIN new.split = DOMAIN tb.split
             /\ new.shown = tb.shown /\ new.pty = tb.pty /\ new.before = tb.before
<1> DEFINE new == Reshaped(tb, sz)
           to == Clamped(tb, sz)
<1>1. CASE tb.zoomed # NoPane
  <2>1. new = [tb EXCEPT !.size = sz]
    BY <1>1 DEF Reshaped
  <2> HIDE DEF new
  <2>2. /\ IsTab(new) /\ new.at = tb.at /\ new.split = tb.split /\ new.zoomed = tb.zoomed
        /\ new.active = tb.active /\ new.hung = tb.hung /\ new.shown = tb.shown /\ new.pty = tb.pty
        /\ new.before = tb.before
    BY <2>1 DEF GoodTab, IsTab, Fields
  <2>3. GoodTab(new)
    BY <2>2 DEF GoodTab
  <2> QED BY <2>2, <2>3 DEF new
<1>2. CASE tb.zoomed = NoPane
  <2>1. PICK slots : \/ new = [tb EXCEPT !.hung = TRUE]
                     \/ new = [tb EXCEPT !.split = WithSlots(@, slots), !.size = to]
    BY <1>2 DEF Reshaped
  <2> HIDE DEF new, to
  <2>2. CASE new = [tb EXCEPT !.hung = TRUE]
    <3>1. /\ IsTab(new) /\ new.at = tb.at /\ new.split = tb.split /\ new.zoomed = tb.zoomed
          /\ new.active = tb.active /\ new.hung = TRUE /\ new.shown = tb.shown /\ new.pty = tb.pty
          /\ new.before = tb.before
      BY <2>2 DEF GoodTab, IsTab, Fields
    <3>2. GoodTab(new)
      BY <3>1 DEF GoodTab
    <3> QED BY <3>1, <3>2 DEF new
  <2>3. CASE new = [tb EXCEPT !.split = WithSlots(@, slots), !.size = to]
    <3> DEFINE split == WithSlots(tb.split, slots)
    <3>1. /\ IsTab(new) /\ new.at = tb.at /\ new.split = split /\ new.zoomed = tb.zoomed
          /\ new.active = tb.active /\ new.hung = tb.hung /\ new.shown = tb.shown /\ new.pty = tb.pty
          /\ new.before = tb.before
      BY <2>3 DEF GoodTab, IsTab, Fields
    <3>2. /\ DOMAIN split = DOMAIN tb.split /\ split = [p \in DOMAIN split |-> split[p]]
          /\ (\A p \in DOMAIN split : IsSplit(split[p])) /\ Shallow(split)
      BY WithSlotsShape DEF GoodTab, GoodTree
    <3> HIDE DEF split
    <3>3. tb.zoomed \in DOMAIN tb.at \cup {NoPane} /\ tb.active \in Nat /\ tb.hung \in BOOLEAN
      BY DEF GoodTab
    <3>4. GoodTab(new)
      BY <3>1, <3>2, <3>3, NewSplitsGood
    <3> QED BY <3>1, <3>2, <3>4 DEF new
  <2> QED BY <2>1, <2>2, <2>3
<1> QED BY <1>1, <1>2

\* resize, which tells the panes their sizes too.
LEMMA ResizedGood ==
  ASSUME NEW tb, GoodTab(tb), NEW sz
  PROVE  LET new == Resized(tb, sz)
         IN  /\ GoodTab(new) /\ new.at = tb.at /\ new.zoomed = tb.zoomed
             /\ new.active = tb.active /\ DOMAIN new.split = DOMAIN tb.split
             /\ new.before = tb.before
<1> DEFINE new == Resized(tb, sz)
           mid == Reshaped(tb, sz)
<1>1. /\ GoodTab(mid) /\ mid.at = tb.at /\ mid.zoomed = tb.zoomed
      /\ mid.active = tb.active /\ DOMAIN mid.split = DOMAIN tb.split /\ mid.before = tb.before
  BY ReshapedGood
<1>2. \/ new = mid
      \/ tb.zoomed # NoPane /\ new = Told(mid, One(tb.zoomed, sz))
      \/ new = Told(mid, SlotsOf(mid))
  BY DEF Resized, ToldSlots
<1> HIDE DEF new, mid
<1>3. CASE new = mid
  BY <1>1, <1>3 DEF new
<1>4. ASSUME NEW sizes, new = Told(mid, sizes), DOMAIN sizes \subseteq DOMAIN tb.at
      PROVE  /\ GoodTab(new) /\ new.at = tb.at /\ new.zoomed = tb.zoomed
             /\ new.active = tb.active /\ DOMAIN new.split = DOMAIN tb.split
             /\ new.before = tb.before
  <2>1. GoodTab(new)
    BY <1>1, <1>4, ToldGood
  <2>2. IsTab(mid)
    BY <1>1 DEF GoodTab
  <2> QED BY <1>1, <1>4, <2>1, <2>2, ToldFields
<1>5. CASE tb.zoomed # NoPane /\ new = Told(mid, One(tb.zoomed, sz))
  <2>0. tb.zoomed \in DOMAIN tb.at
    BY <1>5 DEF GoodTab
  <2>1. DOMAIN (One(tb.zoomed, sz)) \subseteq DOMAIN tb.at
    BY <2>0 DEF One
  <2> QED BY <1>4, <1>5, <2>1 DEF new
<1>6. CASE new = Told(mid, SlotsOf(mid))
  <2>1. DOMAIN SlotsOf(mid) \subseteq DOMAIN tb.at
    BY <1>1, SlotsDomain
  <2> QED BY <1>4, <1>6, <2>1 DEF new
<1> QED BY <1>2, <1>3, <1>5, <1>6

\* The active pane is one of the panes of the tab, or none.
LEMMA ActivePaneType ==
  ASSUME NEW tb, GoodTab(tb)
  PROVE  ActivePane(tb) \in DOMAIN tb.at \cup {NoPane}
<1>1. \A i : PaneAt(tb.at, i) \in DOMAIN tb.at \cup {NoPane}
  BY DEF PaneAt
<1> QED BY <1>1 DEF ActivePane, GoodTab

\* set_zoomed keeps the tree.
LEMMA ZoomToggledGood ==
  ASSUME NEW tb, GoodTab(tb)
  PROVE  LET new == ZoomToggled(tb)
         IN  /\ GoodTab(new) /\ new.at = tb.at /\ new.active = tb.active
             /\ DOMAIN new.split = DOMAIN tb.split
             /\ tb.zoomed # NoPane => new.zoomed = NoPane
<1> DEFINE new == ZoomToggled(tb)
           p == ActivePane(tb)
<1>1. CASE tb.zoomed # NoPane
  <2> DEFINE open == [tb EXCEPT !.zoomed = NoPane, !.size = tb.before, !.before = NoSize]
  <2>1. /\ IsTab(open) /\ open.at = tb.at /\ open.split = tb.split /\ open.zoomed = NoPane
        /\ open.active = tb.active /\ open.hung = tb.hung /\ open.shown = tb.shown /\ open.pty = tb.pty
    BY DEF GoodTab, IsTab, Fields
  <2>2. new = Resized(open, tb.size)
    BY <1>1 DEF ZoomToggled
  <2> HIDE DEF open, new
  <2>3. GoodTab(open)
    BY <2>1 DEF GoodTab
  <2>4. /\ GoodTab(new) /\ new.at = open.at /\ new.zoomed = open.zoomed
        /\ new.active = open.active /\ DOMAIN new.split = DOMAIN open.split
    BY <2>2, <2>3, ResizedGood
  <2> QED BY <2>1, <2>4 DEF new
<1>2. CASE tb.zoomed = NoPane /\ p = NoPane
  BY <1>2 DEF ZoomToggled, GoodTab
<1>3. CASE tb.zoomed = NoPane /\ p # NoPane
  <2> DEFINE mid == [tb EXCEPT !.before = tb.size, !.zoomed = p]
  <2>0. p \in DOMAIN tb.at
    BY <1>3, ActivePaneType
  <2>1. new = Told(mid, One(p, tb.size))
    BY <1>3 DEF ZoomToggled
  <2> HIDE DEF p, new
  <2>2. /\ IsTab(mid) /\ mid.at = tb.at /\ mid.split = tb.split /\ mid.zoomed = p
        /\ mid.active = tb.active /\ mid.hung = tb.hung /\ mid.shown = tb.shown /\ mid.pty = tb.pty
    BY DEF GoodTab, IsTab, Fields
  <2> HIDE DEF mid
  <2>3. GoodTab(mid)
    BY <2>0, <2>2 DEF GoodTab
  <2> DEFINE told == One(p, tb.size)
  <2>6. DOMAIN told \subseteq DOMAIN mid.at
    BY <2>0, <2>2 DEF One
  <2>7. new = Told(mid, told)
    BY <2>1
  <2> HIDE DEF told
  <2>4. GoodTab(new)
    BY <2>3, <2>6, <2>7, ToldGood
  <2>5. new.at = mid.at /\ new.active = mid.active /\ new.split = mid.split
    BY <2>1, <2>2, ToldFields
  <2> QED BY <1>3, <2>2, <2>4, <2>5 DEF new
<1> QED BY <1>1, <1>2, <1>3

\* And un-zooming leaves no pane zoomed.
LEMMA UnzoomedGood ==
  ASSUME NEW tb, GoodTab(tb)
  PROVE  LET new == Unzoomed(tb)
         IN  /\ GoodTab(new) /\ new.at = tb.at /\ new.active = tb.active
             /\ DOMAIN new.split = DOMAIN tb.split /\ new.zoomed = NoPane
             /\ tb.zoomed = NoPane => new = tb
  BY ZoomToggledGood DEF Unzoomed

---------------------------------------------------------------------------
(* A cascade, split by split.                                              *)

\* Induction up to a bound, over the set of the numbers it holds for.
LEMMA SetInduction ==
  ASSUME NEW n \in Nat, NEW T, 0 \in T, \A k \in 1..n : k - 1 \in T => k \in T
  PROVE  \A k \in 0..n : k \in T
<1> DEFINE U == {k \in 0..n : k \notin T}
<1>1. SUFFICES ASSUME U # {} PROVE FALSE
  OBVIOUS
<1>2. PICK x \in U : \A y \in U : ~ (y < x)
  <2>1. U \in SUBSET Nat
    OBVIOUS
  <2> QED BY <1>1, <2>1, LeastNat
<1>3. x \in 0..n /\ x \notin T /\ x # 0
  BY <1>2
<1>4. x - 1 \in 0..n /\ x - 1 < x /\ x \in 1..n
  BY <1>3
<1>5. x - 1 \in T
  BY <1>2, <1>4
<1> QED BY <1>3, <1>4, <1>5

\* Nothing comes after a position at the root.
LEMMA NotBeforeRoot ==
  ASSUME NEW path
  PROVE  ~ After(path, <<>>)
<1>1. ~ Before(path, <<>>)
  BY DEF Before
<1>2. ~ Inside(path, <<>>)
  <2>1. SUFFICES ASSUME IsPrefix(path, <<>>), path # <<>> PROVE FALSE
    BY DEF Inside, IsStrictPrefix
  <2>2. Len(path) <= 0 /\ SubSeq(path, 1, Len(path)) = SubSeq(<<>>, 1, Len(path))
    BY <2>1 DEF IsPrefix
  <2> QED BY <2>1, <2>2
<1> QED BY <1>1, <1>2 DEF After

\* A cascade is what it says: a split after path is fitted to what its parent,
\* fitted before it, has for it, and the others stay as they are.
CascadeStep(split, path, g, p) ==
  IF After(path, p)
  THEN [split[p] EXCEPT !.slot = Refit(split[p].dir, @, g[Front(p)].slot[Last(p)])]
  ELSE split[p]

\* A cascade is what it says, split by split.
LEMMA CascadedSteps ==
  ASSUME NEW split, NEW path, DOMAIN split \subseteq Path, Shallow(split),
         \A p \in DOMAIN split : p # <<>> => Front(p) \in DOMAIN split
  PROVE  /\ DOMAIN Cascaded(split, path) = DOMAIN split
         /\ Cascaded(split, path) = [p \in DOMAIN split |-> Cascaded(split, path)[p]]
         /\ \A p \in DOMAIN split :
              Cascaded(split, path)[p] = CascadeStep(split, path, Cascaded(split, path), p)
<1> DEFINE S == DOMAIN split
           Upto(k) == {p \in S : Len(p) <= k}
           Step(g, p) == CascadeStep(split, path, g, p)
           F(g) == g = [p \in S |-> Step(g, p)]
<1>1. PICK n \in Nat : \A p \in S : Len(p) <= n
  BY DEF Shallow
<1>2. \A p \in S : /\ p \in Path /\ Len(p) \in Nat
                   /\ After(path, p) => /\ p # <<>> /\ Len(p) >= 1 /\ Front(p) \in S
                                        /\ Len(Front(p)) = Len(p) - 1
  BY PathType, ParentType, NotBeforeRoot
<1>3. ASSUME NEW g, NEW h, NEW p \in S, After(path, p) => g[Front(p)] = h[Front(p)]
      PROVE  Step(g, p) = Step(h, p)
  BY <1>3 DEF CascadeStep
<1> DEFINE T == {k \in 0..n : \E g : \A p \in Upto(k) : g[p] = Step(g, p)}
<1> HIDE DEF Step
<1>4. \A k \in 0..n : k \in T
  <2>1. 0 \in T
    <3> DEFINE g == [p \in S |-> split[p]]
    <3>1. ASSUME NEW p \in Upto(0) PROVE g[p] = Step(g, p)
      <4>1. p \in S /\ ~ After(path, p)
        BY <1>2
      <4> QED BY <4>1 DEF Step, CascadeStep
    <3> HIDE DEF g
    <3> QED BY <1>1, <3>1
  <2>2. ASSUME NEW k \in 1..n, k - 1 \in T
        PROVE  k \in T
    <3>1. PICK g : \A p \in Upto(k - 1) : g[p] = Step(g, p)
      BY <2>2
    <3> DEFINE h == [p \in S |-> IF Len(p) = k THEN Step(g, p) ELSE g[p]]
    <3>2. ASSUME NEW p \in Upto(k)
          PROVE  h[p] = Step(h, p)
      <4>1. p \in S /\ Len(p) \in Nat /\ Len(p) <= k
        BY <1>2
      <4>2. After(path, p) => h[Front(p)] = g[Front(p)]
        <5>1. After(path, p) => Front(p) \in S /\ Len(Front(p)) # k
          BY <1>2, <4>1
        <5> QED BY <5>1
      <4>3. Step(g, p) = Step(h, p)
        <5> HIDE DEF h
        <5> QED BY <1>3, <4>1, <4>2
      <4>4. CASE Len(p) = k
        <5>1. h[p] = Step(g, p)
          BY <4>1, <4>4
        <5> HIDE DEF h
        <5> QED BY <4>3, <5>1
      <4>5. CASE Len(p) # k
        <5>1. h[p] = g[p] /\ p \in Upto(k - 1)
          BY <4>1, <4>5
        <5> HIDE DEF h
        <5> QED BY <3>1, <4>3, <5>1
      <4> QED BY <4>4, <4>5
    <3> HIDE DEF h
    <3>3. k \in 0..n
      BY <1>1
    <3> QED BY <3>2, <3>3
  <2> HIDE DEF T
  <2> QED BY <1>1, <2>1, <2>2, SetInduction
<1>5. PICK g : \A p \in S : g[p] = Step(g, p)
  <2>1. n \in T
    <3> HIDE DEF T
    <3> QED BY <1>1, <1>4
  <2>2. Upto(n) = S
    BY <1>1
  <2> HIDE DEF Upto
  <2> QED BY <2>1, <2>2
<1> DEFINE fit == CHOOSE h : F(h)
           g2 == [p \in S |-> g[p]]
<1>6. \E h : F(h)
  <2>1. ASSUME NEW p \in S
        PROVE  g2[p] = Step(g2, p)
    <3>1. g2[p] = g[p] /\ (After(path, p) => g2[Front(p)] = g[Front(p)])
      BY <1>2
    <3> HIDE DEF g2
    <3> QED BY <1>3, <1>5, <3>1
  <2> HIDE DEF g2
  <2>2. g2 = [p \in S |-> g2[p]]
    BY DEF g2
  <2>3. g2 = [p \in S |-> Step(g2, p)]
    BY <2>1, <2>2
  <2> QED BY <2>3
<1> HIDE DEF F
<1>7. F(fit)
  BY <1>6
<1>8. Cascaded(split, path) = fit
  BY DEF Cascaded, fit, F, Step, CascadeStep
<1> HIDE DEF fit
<1>9. fit = [p \in S |-> Step(fit, p)]
  BY <1>7 DEF F
<1> QED BY <1>8, <1>9 DEF Step

\* A split that is fitted keeps its direction.
LEMMA RefittedSplit ==
  ASSUME NEW n, IsSplit(n), NEW sz
  PROVE  LET new == [n EXCEPT !.slot = Refit(n.dir, @, sz)]
         IN  IsSplit(new) /\ new.dir = n.dir /\ new.slot = Refit(n.dir, n.slot, sz)
<1> DEFINE sl == Refit(n.dir, n.slot, sz)
           d == n.dir
           new == [n EXCEPT !.slot = sl]
           slot == [side \in Sides |-> n.slot[side]]
<1>1. sl = [side \in Sides |-> sl[side]] /\ d \in Axes
  BY DEF Refit, Sides, IsSplit
<1>2. n = [dir |-> d, slot |-> slot]
  BY DEF IsSplit
<1> HIDE DEF sl, d, slot
<1>3. new = [dir |-> d, slot |-> sl]
  BY <1>2
<1>4. new.dir = d /\ new.slot = sl
  BY <1>3
<1> HIDE DEF new
<1>5. IsSplit(new)
  BY <1>1, <1>3, <1>4 DEF IsSplit
<1> QED BY <1>4, <1>5 DEF new, sl, d

\* cascade_size_from_cursor keeps the tree.
LEMMA CascadedGood ==
  ASSUME NEW at, NEW split, GoodTree(at, split), NEW path
  PROVE  LET new == Cascaded(split, path)
         IN  /\ GoodTree(at, new) /\ DOMAIN new = DOMAIN split
             /\ \A p \in DOMAIN split : new[p].dir = split[p].dir
<1> DEFINE new == Cascaded(split, path)
<1>1. DOMAIN split \subseteq Path /\ \A p \in DOMAIN split : p # <<>> => Front(p) \in DOMAIN split
  <2>1. DOMAIN split \subseteq Path
    BY TreeIff DEF GoodTree
  <2>2. ASSUME NEW p \in DOMAIN split, p # <<>> PROVE Front(p) \in DOMAIN split
    <3>1. p \in Path /\ p \in Positions(at, split)
      BY <2>1 DEF Positions
    <3>2. Front(p) \in Path /\ Last(p) \in Sides /\ p = Append(Front(p), Last(p)) /\ Len(Front(p)) # Len(p)
      BY <2>2, <3>1, ParentType, PathType
    <3>3. IsPrefix(Front(p), p)
      BY <3>2, <3>1, ChildOrder
    <3> QED BY <3>1, <3>2, <3>3, TreeIff DEF GoodTree
  <2> QED BY <2>1, <2>2
<1>2. /\ DOMAIN new = DOMAIN split /\ new = [p \in DOMAIN split |-> new[p]]
      /\ \A p \in DOMAIN split : new[p] = CascadeStep(split, path, new, p)
  BY <1>1, CascadedSteps DEF GoodTree
<1>3. \A p \in DOMAIN split : IsSplit(split[p])
  BY DEF GoodTree
<1> HIDE DEF new
<1>4. \A p \in DOMAIN split : IsSplit(new[p]) /\ new[p].dir = split[p].dir
  <2> TAKE p \in DOMAIN split
  <2> DEFINE n == split[p]
             sz == new[Front(p)].slot[Last(p)]
  <2>1. new[p] = [n EXCEPT !.slot = Refit(n.dir, @, sz)] \/ new[p] = n
    BY <1>2 DEF CascadeStep
  <2>2. IsSplit(n)
    BY <1>3
  <2> HIDE DEF n, sz
  <2>3. LET m == [n EXCEPT !.slot = Refit(n.dir, @, sz)] IN IsSplit(m) /\ m.dir = n.dir
    BY <2>2, RefittedSplit
  <2>4. IsSplit(new[p]) /\ new[p].dir = n.dir
    BY <2>1, <2>2, <2>3
  <2> QED BY <2>4 DEF n
<1>5. IsTree(at, new)
  BY <1>2, TreeDomain DEF GoodTree
<1>6. Shallow(new)
  BY <1>2 DEF GoodTree, Shallow
<1>7. GoodTree(at, new)
  BY <1>2, <1>4, <1>5, <1>6 DEF GoodTree
<1> QED BY <1>2, <1>4, <1>7 DEF new

\* What forgetting a pane changes.
LEMMA ForgotFields ==
  ASSUME NEW tb, IsTab(tb), NEW p
  PROVE  LET new == Forgot(tb, p)
         IN  /\ IsTab(new) /\ new.split = tb.split /\ new.size = tb.size
             /\ new.active = tb.active /\ new.hung = tb.hung
             /\ new.at = Without(tb.at, p) /\ new.shown = Without(tb.shown, p)
             /\ new.pty = Without(tb.pty, p)
             /\ new.zoomed = IF tb.zoomed = p THEN NoPane ELSE tb.zoomed
             /\ new.before = IF tb.zoomed = p THEN NoSize ELSE tb.before
  BY DEF Forgot, IsTab, Fields

\* A record without a pane.
LEMMA WithoutShape ==
  ASSUME NEW f, NEW p
  PROVE  /\ DOMAIN Without(f, p) = DOMAIN f \ {p}
         /\ Without(f, p) = [q \in DOMAIN f \ {p} |-> Without(f, p)[q]]
         /\ \A q \in DOMAIN f \ {p} : Without(f, p)[q] = f[q]
  BY DEF Without

\* The last pane of a tab goes.
LEMMA LastForgotGood ==
  ASSUME NEW tb, GoodTab(tb), NEW p \in DOMAIN tb.at, tb.at[p] = <<>>
  PROVE  GoodTab(Forgot(tb, p)) /\ DOMAIN Forgot(tb, p).at = {} /\ DOMAIN tb.at = {p}
<1> DEFINE new == Forgot(tb, p)
<1>1. /\ IsTab(new) /\ new.split = tb.split /\ new.active = tb.active /\ new.hung = tb.hung
      /\ new.at = Without(tb.at, p) /\ new.shown = Without(tb.shown, p)
      /\ new.pty = Without(tb.pty, p)
      /\ new.zoomed = IF tb.zoomed = p THEN NoPane ELSE tb.zoomed
  BY ForgotFields DEF GoodTab
<1>2. DOMAIN tb.at = {p} /\ DOMAIN tb.split = {}
  BY RootLeaf DEF GoodTab, GoodTree
<1>3. DOMAIN tb.shown = {p} /\ DOMAIN tb.pty = {p}
  BY <1>2 DEF GoodTab
<1> HIDE DEF new
<1>4. /\ DOMAIN new.at = {} /\ new.at = [q \in {} |-> new.at[q]]
      /\ new.shown = [q \in {} |-> new.shown[q]] /\ new.pty = [q \in {} |-> new.pty[q]]
  BY <1>1, <1>2, <1>3 DEF Without
<1>5. IsTree(new.at, new.split)
  BY <1>1, <1>2, <1>4 DEF IsTree, IsInjective
<1>6. new.zoomed = NoPane
  BY <1>1, <1>2 DEF GoodTab
<1>7. IsFiniteSet({})
  BY FS_EmptySet
<1>8. GoodTree(new.at, new.split)
  BY <1>1, <1>4, <1>5, <1>7 DEF GoodTab, GoodTree
<1>9. GoodTab(new)
  BY <1>1, <1>4, <1>6, <1>8 DEF GoodTab
<1> QED BY <1>2, <1>4, <1>9 DEF new

\* Lifting takes a position up, so the tree does not get deeper.
LEMMA LiftedLength ==
  ASSUME NEW up \in Path, NEW side \in Sides, NEW q \in Path
  PROVE  Len(Lifted(q, up, side)) <= Len(q)
  BY LiftedBelow, PathType DEF Lifted

UnsplitAt(tb, p) == [q \in DOMAIN tb.at \ {p} |->
                       Lifted(tb.at[q], Front(tb.at[p]), Last(tb.at[p]))]

\* The sibling in its parent's place, fitted to the whole of it.
Sibling(tb, p) ==
  LET up == Front(tb.at[p])
      side == Last(tb.at[p])
      moved == [q \in {Lifted(s, up, side) : s \in DOMAIN tb.split \ {up}} |->
                  tb.split[Sunk(q, up, side)]]
  IN  [q \in DOMAIN moved |->
         IF q = up THEN [moved[q] EXCEPT !.slot = Refit(moved[q].dir, @, Total(tb.split[up]))]
         ELSE moved[q]]

\* unsplit_leaf: the sibling takes the parent's place and the tree stays one.
LEMMA SiblingGood ==
  ASSUME NEW tb, GoodTab(tb), NEW p \in DOMAIN tb.at, tb.at[p] # <<>>
  PROVE  LET up == Front(tb.at[p])
             side == Last(tb.at[p])
             new == Sibling(tb, p)
         IN  /\ GoodTree(UnsplitAt(tb, p), new)
             /\ up \in DOMAIN tb.split /\ side \in Sides /\ up \in Path
             /\ \A q \in DOMAIN new :
                  /\ Sunk(q, up, side) \in DOMAIN tb.split \ {up}
                  /\ Lifted(Sunk(q, up, side), up, side) = q
                  /\ q \in Path
                  /\ new[q].dir = tb.split[Sunk(q, up, side)].dir
                  /\ q = up => new[q].slot = Refit(new[q].dir, tb.split[Sunk(q, up, side)].slot,
                                                   Total(tb.split[up]))
                  /\ q # up => new[q] = tb.split[Sunk(q, up, side)]
<1> DEFINE up == Front(tb.at[p])
           side == Last(tb.at[p])
           whole == Total(tb.split[up])
           S == DOMAIN tb.split
           R == {Lifted(s, up, side) : s \in S \ {up}}
           moved == [q \in R |-> tb.split[Sunk(q, up, side)]]
           new == Sibling(tb, p)
           at == UnsplitAt(tb, p)
<1>1. /\ tb.at[p] \in Path \ S /\ S \subseteq Path /\ tb.at[p] \in Positions(tb.at, tb.split)
      /\ IsTree(tb.at, tb.split)
  BY TreeIff DEF GoodTab, GoodTree, Positions
<1>2. /\ up \in Path /\ side \in Sides /\ tb.at[p] = Append(up, side) /\ Len(up) # Len(tb.at[p])
      /\ IsPrefix(up, tb.at[p])
  <2> DEFINE x == tb.at[p]
  <2>1. x \in Path /\ x # <<>>
    BY <1>1
  <2> HIDE DEF x
  <2>2. /\ Front(x) \in Path /\ Last(x) \in Sides /\ x = Append(Front(x), Last(x))
        /\ Len(Front(x)) # Len(x)
    BY <2>1, ParentType, PathType
  <2>3. IsPrefix(Front(x), x)
    BY <2>1, <2>2, ChildOrder
  <2> QED BY <2>2, <2>3 DEF x
<1>3. up \in S
  <2> HIDE DEF up, side
  <2>1. up # tb.at[p]
    BY <1>2
  <2> QED BY <1>1, <1>2, <2>1, TreeIff
<1>4. /\ DOMAIN new = R /\ new = [q \in R |-> new[q]]
      /\ \A q \in R : new[q] = IF q = up
                               THEN [moved[q] EXCEPT !.slot = Refit(moved[q].dir, @, whole)]
                               ELSE moved[q]
  BY DEF Sibling
<1> HIDE DEF new
<1>5. ASSUME NEW q \in R
      PROVE  /\ Sunk(q, up, side) \in S \ {up} /\ q \in Path
             /\ Lifted(Sunk(q, up, side), up, side) = q
             /\ \E s \in S : Len(q) <= Len(s)
  <2>1. PICK s \in S \ {up} : q = Lifted(s, up, side)
    OBVIOUS
  <2>2. s # tb.at[p] /\ s \in Positions(tb.at, tb.split) /\ s \in Path
    BY <1>1, <2>1 DEF Positions
  <2> HIDE DEF up, side
  <2>3. s # up /\ up = Front(tb.at[p]) /\ side = Last(tb.at[p])
    BY <2>1 DEF up, side
  <2>4. Lifted(s, up, side) \in Path /\ Sunk(Lifted(s, up, side), up, side) = s
    BY <1>1, <2>2, <2>3, Survives
  <2>5. Len(Lifted(s, up, side)) <= Len(s)
    BY <1>2, <2>2, LiftedLength
  <2> QED BY <2>1, <2>4, <2>5
<1>6. IsTree(at, new)
  <2> HIDE DEF up, side
  <2>1. up = Front(tb.at[p]) /\ side = Last(tb.at[p])
    BY DEF up, side
  <2>2. at = [q \in DOMAIN tb.at \ {p} |-> Lifted(tb.at[q], up, side)]
    BY DEF UnsplitAt, up, side
  <2>3. DOMAIN new = {Lifted(s, up, side) : s \in DOMAIN tb.split \ {up}}
    BY <1>4
  <2>4. IsTree(tb.at, tb.split)
    BY <1>1
  <2> HIDE DEF at, S, R, moved, whole
  <2> QED BY <2>1, <2>2, <2>3, <2>4, LiftedTree, SMTT(30)
<1>7. ASSUME NEW q \in R
      PROVE  /\ IsSplit(new[q]) /\ new[q].dir = tb.split[Sunk(q, up, side)].dir
             /\ q = up => new[q].slot = Refit(new[q].dir, tb.split[Sunk(q, up, side)].slot, whole)
             /\ q # up => new[q] = tb.split[Sunk(q, up, side)]
  <2> DEFINE n == tb.split[Sunk(q, up, side)]
  <2>1. IsSplit(n)
    BY <1>5 DEF GoodTab, GoodTree
  <2>2. moved[q] = n
    OBVIOUS
  <2>3. new[q] = IF q = up THEN [n EXCEPT !.slot = Refit(n.dir, @, whole)] ELSE n
    BY <1>4, <2>2
  <2> HIDE DEF n, whole
  <2>4. LET m == [n EXCEPT !.slot = Refit(n.dir, @, whole)]
        IN  IsSplit(m) /\ m.dir = n.dir /\ m.slot = Refit(n.dir, n.slot, whole)
    BY <2>1, RefittedSplit
  <2>5. /\ IsSplit(new[q]) /\ new[q].dir = n.dir
        /\ q = up => new[q].slot = Refit(new[q].dir, n.slot, whole)
        /\ q # up => new[q] = n
    BY <2>1, <2>3, <2>4
  <2> QED BY <2>5 DEF n
<1>8. Shallow(new)
  <2>1. PICK n \in Nat : \A s \in S : Len(s) <= n
    BY DEF GoodTab, GoodTree, Shallow
  <2>2. \A s \in S : Len(s) \in Nat
    BY <1>1, PathType
  <2>3. \A q \in R : Len(q) \in Nat /\ \E s \in S : Len(q) <= Len(s)
    BY <1>5, PathType
  <2>4. \A q \in R : Len(q) <= n
    BY <2>1, <2>2, <2>3
  <2> QED BY <1>4, <2>4 DEF Shallow
<1>9. DOMAIN at = DOMAIN tb.at \ {p} /\ at = [q \in DOMAIN at |-> at[q]]
  BY DEF UnsplitAt
<1>10. IsFiniteSet(DOMAIN tb.at \ {p}) /\ DOMAIN tb.at \subseteq Panes
  BY FS_RemoveElement DEF GoodTab, GoodTree
<1>11. GoodTree(at, new)
  <2> HIDE DEF at, R
  <2> QED BY <1>4, <1>6, <1>7, <1>8, <1>9, <1>10 DEF GoodTree
<1> HIDE DEF at, R
<1> QED BY <1>2, <1>3, <1>4, <1>5, <1>7, <1>11 DEF new, at

---------------------------------------------------------------------------
(* Removing panes keeps the tree.                                          *)

UnsplitSplit(tb, p) == Cascaded(Sibling(tb, p), Front(tb.at[p]))

\* What an unsplit leaves: the tree without the pane, its sibling lifted and
\* all that follows fitted.
LEMMA UnsplitFields ==
  ASSUME NEW tb, GoodTab(tb), NEW p \in DOMAIN tb.at, tb.at[p] # <<>>
  PROVE  LET new == Unsplit(tb, p)
         IN  /\ GoodTab(new)
             /\ DOMAIN new.at = DOMAIN tb.at \ {p}
             /\ new.at = UnsplitAt(tb, p) /\ new.split = UnsplitSplit(tb, p)
             /\ new.size = tb.size /\ new.active = tb.active /\ new.hung = tb.hung
             /\ new.zoomed = IF tb.zoomed = p THEN NoPane ELSE tb.zoomed
             /\ new.before = IF tb.zoomed = p THEN NoSize ELSE tb.before
<1> DEFINE up == Front(tb.at[p])
           side == Last(tb.at[p])
           whole == Total(tb.split[up])
           mid == Forgot(tb, p)
           at == [q \in DOMAIN mid.at |-> Lifted(mid.at[q], up, side)]
           split == Cascaded(Sibling(tb, p), up)
           fitted == [mid EXCEPT !.at = at, !.split = split]
           there == {q \in DOMAIN at : at[q] = up}
           sizes == Updated(CascadedSlots(fitted, up), [q \in there |-> whole])
           new == Unsplit(tb, p)
<1>1. new = Told(fitted, sizes)
  BY DEF Unsplit, Sibling
<1>2. /\ IsTab(mid) /\ mid.split = tb.split /\ mid.size = tb.size
      /\ mid.active = tb.active /\ mid.hung = tb.hung
      /\ mid.at = Without(tb.at, p) /\ mid.shown = Without(tb.shown, p)
      /\ mid.pty = Without(tb.pty, p)
      /\ mid.zoomed = IF tb.zoomed = p THEN NoPane ELSE tb.zoomed
      /\ mid.before = IF tb.zoomed = p THEN NoSize ELSE tb.before
  BY ForgotFields DEF GoodTab
<1> HIDE DEF mid
<1>3. at = UnsplitAt(tb, p)
  BY <1>2 DEF UnsplitAt, Without
<1> HIDE DEF at, split, new
<1>4. /\ IsTab(fitted) /\ fitted.at = at /\ fitted.split = split /\ fitted.size = mid.size
      /\ fitted.active = mid.active /\ fitted.hung = mid.hung /\ fitted.zoomed = mid.zoomed
      /\ fitted.before = mid.before /\ fitted.shown = mid.shown /\ fitted.pty = mid.pty
  BY <1>2 DEF IsTab, Fields
<1> HIDE DEF fitted
<1>5. GoodTree(at, split)
  <2>1. GoodTree(at, Sibling(tb, p))
    BY <1>3, SiblingGood
  <2> QED BY <2>1, CascadedGood DEF split
<1>6. DOMAIN at = DOMAIN tb.at \ {p}
  BY <1>3 DEF UnsplitAt
<1>7. DOMAIN tb.shown = DOMAIN tb.at /\ DOMAIN tb.pty = DOMAIN tb.at
  BY DEF GoodTab
<1>8. GoodTab(fitted)
  <2>1. /\ fitted.shown = [q \in DOMAIN at |-> fitted.shown[q]]
        /\ fitted.pty = [q \in DOMAIN at |-> fitted.pty[q]]
    <3>1. fitted.shown = Without(tb.shown, p) /\ fitted.pty = Without(tb.pty, p)
      BY <1>2, <1>4
    <3>2. DOMAIN tb.shown \ {p} = DOMAIN at /\ DOMAIN tb.pty \ {p} = DOMAIN at
      BY <1>6, <1>7
    <3>3. /\ Without(tb.shown, p) = [q \in DOMAIN tb.shown \ {p} |-> Without(tb.shown, p)[q]]
          /\ Without(tb.pty, p) = [q \in DOMAIN tb.pty \ {p} |-> Without(tb.pty, p)[q]]
      BY WithoutShape
    <3> QED BY <3>1, <3>2, <3>3
  <2>2. fitted.zoomed \in DOMAIN at \cup {NoPane} /\ fitted.active \in Nat /\ fitted.hung \in BOOLEAN
    BY <1>2, <1>4, <1>6 DEF GoodTab
  <2> QED BY <1>4, <1>5, <2>1, <2>2 DEF GoodTab
<1>9. DOMAIN sizes \subseteq DOMAIN fitted.at
  <2>1. DOMAIN CascadedSlots(fitted, up) \subseteq DOMAIN fitted.at
    BY SlotsDomain
  <2>2. DOMAIN sizes = DOMAIN CascadedSlots(fitted, up) \cup there
    BY DEF Updated
  <2>3. there \subseteq DOMAIN at
    OBVIOUS
  <2> HIDE DEF there, sizes
  <2> QED BY <1>4, <2>1, <2>2, <2>3
<1> HIDE DEF sizes
<1>10. GoodTab(new)
  BY <1>1, <1>8, <1>9, ToldGood
<1>11. /\ new.at = at /\ new.split = split /\ new.size = tb.size /\ new.active = tb.active
       /\ new.hung = tb.hung /\ new.zoomed = mid.zoomed /\ new.before = mid.before
  BY <1>1, <1>2, <1>4, ToldFields
<1> QED BY <1>2, <1>3, <1>6, <1>10, <1>11 DEF new, split, UnsplitSplit

(* The walk.                                                               *)
WalkGood(w, tb, kill) ==
  /\ GoodTab(w.tab)
  /\ w.rest \subseteq DOMAIN w.tab.at
  /\ w.count \in Nat /\ w.removed \subseteq Nat /\ IsFiniteSet(w.removed)
  /\ DOMAIN w.tab.at \subseteq DOMAIN tb.at /\ DOMAIN tb.at \ kill \subseteq DOMAIN w.tab.at
  /\ w.tab.active = tb.active /\ w.tab.hung = tb.hung
  /\ tb.zoomed = NoPane => w.tab.zoomed = NoPane /\ w.tab.size = tb.size

\* The walk of remove_pane_if comes to the first of the panes that are to go.
LEMMA NextRemovedType ==
  ASSUME NEW w, GoodTab(w.tab), w.rest \subseteq DOMAIN w.tab.at, NEW kill, w.rest \cap kill # {}
  PROVE  /\ NextRemoved(w, kill) \in w.rest \cap kill
         /\ \A q \in (w.rest \cap kill) \ {NextRemoved(w, kill)} :
              Before(w.tab.at[NextRemoved(w, kill)], w.tab.at[q])
<1>1. \E p \in w.rest \cap kill : \A q \in (w.rest \cap kill) \ {p} : Before(w.tab.at[p], w.tab.at[q])
  <2> DEFINE T == w.rest \cap kill
  <2>1. T \in SUBSET DOMAIN w.tab.at /\ T # {}
    OBVIOUS
  <2> HIDE DEF T
  <2>2. \E p \in T : \A q \in T \ {p} : Before(w.tab.at[p], w.tab.at[q])
    BY <2>1, FirstLeaf DEF GoodTab, GoodTree
  <2> QED BY <2>2 DEF T
<1> QED BY <1>1 DEF NextRemoved

\* The index that the walk counts for a pane it comes to.
CountedAt(w, p) == w.count + Cardinality({q \in w.rest : Before(w.tab.at[q], w.tab.at[p])})

\* One step of the walk removes one of the panes that are to go, or nothing.
LEMMA RemoveNextIs ==
  ASSUME NEW tb, NEW kill, NEW w, WalkGood(w, tb, kill), w.rest \cap kill # {},
         NEW p, p = NextRemoved(w, kill), NEW new, new = RemoveNext(w, kill)
  PROVE  /\ p \in w.rest \cap kill /\ CountedAt(w, p) \in Nat
         /\ new.removed = w.removed \cup {CountedAt(w, p)}
         /\ new.count \in Nat /\ new.rest \subseteq DOMAIN new.tab.at
         /\ DOMAIN new.tab.at = DOMAIN w.tab.at \ {p}
         /\ w.tab.at[p] = <<>> => new.tab = Forgot(w.tab, p) /\ DOMAIN new.tab.at = {}
         /\ w.tab.at[p] # <<>> => new.tab = Unsplit(w.tab, p)
<1> DEFINE index == CountedAt(w, p)
           cut == Unsplit(w.tab, p)
           gone == Forgot(w.tab, p)
           later == {q \in DOMAIN cut.at : After(Front(w.tab.at[p]), cut.at[q])}
<1>1. p \in w.rest \cap kill /\ p \in DOMAIN w.tab.at /\ GoodTab(w.tab)
  BY NextRemovedType DEF WalkGood
<1>2. index \in Nat
  <2>1. IsFiniteSet(w.rest)
    BY FS_Subset DEF WalkGood, GoodTab, GoodTree
  <2> DEFINE B == {q \in w.rest : Before(w.tab.at[q], w.tab.at[p])}
  <2>2. B \subseteq w.rest
    OBVIOUS
  <2> HIDE DEF B
  <2>3. IsFiniteSet(B)
    BY <2>1, <2>2, FS_Subset
  <2>4. Cardinality(B) \in Nat
    BY <2>3, FS_CardinalityType
  <2> QED BY <2>4 DEF WalkGood, B, CountedAt
<1>3. IF w.tab.at[p] = <<>>
      THEN new = [tab |-> gone, rest |-> {}, count |-> index, removed |-> w.removed \cup {index}]
      ELSE new = [tab |-> cut, rest |-> later, count |-> index + 1,
                  removed |-> w.removed \cup {index}]
  BY DEF RemoveNext, CountedAt
<1> HIDE DEF index
<1>4. CASE w.tab.at[p] = <<>>
  <2>1. DOMAIN gone.at = {} /\ DOMAIN w.tab.at = {p}
    BY <1>1, <1>4, LastForgotGood
  <2> HIDE DEF gone, later, cut
  <2>2. /\ new.tab = gone /\ new.rest = {} /\ new.count = index
        /\ new.removed = w.removed \cup {index}
    BY <1>3, <1>4
  <2> QED BY <1>1, <1>2, <1>4, <2>1, <2>2 DEF index, gone
<1>5. CASE w.tab.at[p] # <<>>
  <2>1. DOMAIN cut.at = DOMAIN w.tab.at \ {p}
    BY <1>1, <1>5, UnsplitFields
  <2>2. later \subseteq DOMAIN cut.at
    OBVIOUS
  <2> HIDE DEF gone, later, cut
  <2>3. /\ new.tab = cut /\ new.rest = later /\ new.count = index + 1
        /\ new.removed = w.removed \cup {index}
    BY <1>3, <1>5
  <2> QED BY <1>1, <1>2, <1>5, <2>1, <2>2, <2>3 DEF index, cut
<1> QED BY <1>4, <1>5

\* A step of the walk keeps what WalkGood says.
LEMMA RemoveNextGood ==
  ASSUME NEW tb, NEW kill, NEW w, WalkGood(w, tb, kill)
  PROVE  WalkGood(RemoveNext(w, kill), tb, kill)
<1> DEFINE new == RemoveNext(w, kill)
           p == NextRemoved(w, kill)
<1>1. CASE w.rest \cap kill = {}
  BY <1>1 DEF RemoveNext
<1>2. CASE w.rest \cap kill # {}
  <2>0. new = RemoveNext(w, kill) /\ p = NextRemoved(w, kill)
    OBVIOUS
  <2> HIDE DEF new, p
  <2>1. /\ p \in w.rest \cap kill /\ CountedAt(w, p) \in Nat
        /\ new.removed = w.removed \cup {CountedAt(w, p)}
        /\ new.count \in Nat /\ new.rest \subseteq DOMAIN new.tab.at
        /\ DOMAIN new.tab.at = DOMAIN w.tab.at \ {p}
        /\ w.tab.at[p] = <<>> => new.tab = Forgot(w.tab, p)
        /\ w.tab.at[p] # <<>> => new.tab = Unsplit(w.tab, p)
    BY <1>2, <2>0, RemoveNextIs
  <2>2. p \in DOMAIN w.tab.at /\ GoodTab(w.tab)
    BY <2>1 DEF WalkGood
  <2>3. IsFiniteSet(new.removed) /\ new.removed \subseteq Nat
    <3> DEFINE i == CountedAt(w, p)
               R == w.removed
    <3>1. i \in Nat /\ new.removed = R \cup {i} /\ IsFiniteSet(R) /\ R \subseteq Nat
      BY <2>1 DEF WalkGood
    <3> HIDE DEF i, R
    <3>2. IsFiniteSet(R \cup {i})
      BY <3>1, FS_AddElement
    <3> QED BY <3>1, <3>2
  <2>4. /\ GoodTab(new.tab) /\ new.tab.active = w.tab.active /\ new.tab.hung = w.tab.hung
        /\ w.tab.zoomed = NoPane => new.tab.zoomed = NoPane /\ new.tab.size = w.tab.size
    <3>1. CASE w.tab.at[p] = <<>>
      <4>1. GoodTab(Forgot(w.tab, p))
        BY <2>2, <3>1, LastForgotGood
      <4>2. /\ Forgot(w.tab, p).active = w.tab.active /\ Forgot(w.tab, p).hung = w.tab.hung
            /\ Forgot(w.tab, p).size = w.tab.size
            /\ w.tab.zoomed = NoPane => Forgot(w.tab, p).zoomed = NoPane
        BY <2>2, ForgotFields DEF GoodTab
      <4> QED BY <2>1, <3>1, <4>1, <4>2
    <3>2. CASE w.tab.at[p] # <<>>
      <4>1. /\ GoodTab(Unsplit(w.tab, p)) /\ Unsplit(w.tab, p).active = w.tab.active
            /\ Unsplit(w.tab, p).hung = w.tab.hung /\ Unsplit(w.tab, p).size = w.tab.size
            /\ w.tab.zoomed = NoPane => Unsplit(w.tab, p).zoomed = NoPane
        BY <2>2, <3>2, UnsplitFields
      <4> QED BY <2>1, <3>2, <4>1
    <3> QED BY <3>1, <3>2
  <2>5. DOMAIN new.tab.at \subseteq DOMAIN tb.at /\ DOMAIN tb.at \ kill \subseteq DOMAIN new.tab.at
    BY <2>1 DEF WalkGood
  <2>6. WalkGood(new, tb, kill)
    BY <2>1, <2>3, <2>4, <2>5 DEF WalkGood
  <2> QED BY <2>6 DEF new
<1> QED BY <1>1, <1>2

\* Where the walk starts, and that its function exists.
WalkStart(tb) == [tab |-> tb, rest |-> DOMAIN tb.at, count |-> 0, removed |-> {}]

\* Where the walk starts, and that its function exists.
LEMMA WalkSteps ==
  ASSUME NEW tb, NEW kill, Cardinality(kill) \in Nat
  PROVE  \E walk : /\ walk[0] = WalkStart(tb)
                   /\ \A n \in 1..Cardinality(kill) : walk[n] = RemoveNext(walk[n - 1], kill)
                   /\ Walked(tb, kill) = walk[Cardinality(kill)]
<1> DEFINE c == Cardinality(kill)
           Step(g, n) == IF n = 0 THEN WalkStart(tb) ELSE RemoveNext(g[n - 1], kill)
           F(g) == g = [n \in 0..c |-> Step(g, n)]
           T == {k \in 0..c : \E g : \A n \in 0..k : g[n] = Step(g, n)}
<1>1. ASSUME NEW g, NEW h, NEW n, n # 0 => g[n - 1] = h[n - 1]
      PROVE  Step(g, n) = Step(h, n)
  BY <1>1
<1>2. \A g : Step(g, 0) = WalkStart(tb)
  OBVIOUS
<1>3. ASSUME NEW g, NEW n \in 1..c PROVE Step(g, n) = RemoveNext(g[n - 1], kill)
  OBVIOUS
<1> HIDE DEF Step
<1>4. \A k \in 0..c : k \in T
  <2>1. 0 \in T
    <3> DEFINE g == [n \in 0..0 |-> WalkStart(tb)]
    <3>1. \A n \in 0..0 : g[n] = Step(g, n)
      BY <1>2
    <3> HIDE DEF g
    <3> QED BY <3>1
  <2>2. ASSUME NEW k \in 1..c, k - 1 \in T
        PROVE  k \in T
    <3>1. PICK g : \A n \in 0..(k - 1) : g[n] = Step(g, n)
      BY <2>2
    <3> DEFINE h == [n \in 0..k |-> IF n = k THEN Step(g, k) ELSE g[n]]
    <3>2. ASSUME NEW n \in 0..k
          PROVE  h[n] = Step(h, n)
      <4>1. n # 0 => h[n - 1] = g[n - 1]
        OBVIOUS
      <4>2. Step(g, n) = Step(h, n)
        <5> HIDE DEF h
        <5> QED BY <1>1, <4>1
      <4>3. CASE n = k
        <5>1. h[n] = Step(g, n)
          BY <4>3
        <5> HIDE DEF h
        <5> QED BY <4>2, <5>1
      <4>4. CASE n # k
        <5>1. h[n] = g[n] /\ n \in 0..(k - 1)
          BY <4>4
        <5> HIDE DEF h
        <5> QED BY <3>1, <4>2, <5>1
      <4> QED BY <4>3, <4>4
    <3> HIDE DEF h
    <3> QED BY <3>2
  <2> HIDE DEF T
  <2> QED BY <2>1, <2>2, SetInduction
<1>5. PICK g : \A n \in 0..c : g[n] = Step(g, n)
  <2>1. c \in T
    <3> HIDE DEF T
    <3> QED BY <1>4
  <2> QED BY <2>1
<1> DEFINE walk == CHOOSE h : F(h)
           g2 == [n \in 0..c |-> g[n]]
<1>6. \E h : F(h)
  <2>1. ASSUME NEW n \in 0..c PROVE g2[n] = Step(g2, n)
    <3>1. g2[n] = g[n] /\ (n # 0 => g2[n - 1] = g[n - 1])
      OBVIOUS
    <3> HIDE DEF g2
    <3> QED BY <1>1, <1>5, <3>1
  <2>2. g2 = [n \in 0..c |-> g2[n]]
    OBVIOUS
  <2> HIDE DEF g2
  <2>3. g2 = [n \in 0..c |-> Step(g2, n)]
    BY <2>1, <2>2
  <2> QED BY <2>3
<1>7. Walked(tb, kill) = walk[c]
  BY DEF Walked, F, Step, WalkStart
<1> HIDE DEF F
<1>8. F(walk)
  BY <1>6
<1> HIDE DEF walk
<1>9. \A n \in 0..c : walk[n] = Step(walk, n)
  BY <1>8 DEF F
<1>10. walk[0] = WalkStart(tb)
  <2>1. 0 \in 0..c
    OBVIOUS
  <2> QED BY <1>2, <1>9, <2>1
<1>11. \A n \in 1..c : walk[n] = RemoveNext(walk[n - 1], kill)
  BY <1>3, <1>9
<1> QED BY <1>7, <1>10, <1>11

\* The walk starts well.
LEMMA WalkStartGood ==
  ASSUME NEW tb, GoodTab(tb), NEW kill
  PROVE  WalkGood(WalkStart(tb), tb, kill)
  BY FS_EmptySet DEF WalkGood, WalkStart

\* And ends well.
LEMMA WalkedGood ==
  ASSUME NEW tb, GoodTab(tb), NEW kill, kill \subseteq DOMAIN tb.at
  PROVE  WalkGood(Walked(tb, kill), tb, kill)
<1>1. Cardinality(kill) \in Nat
  BY FS_Subset, FS_CardinalityType DEF GoodTab, GoodTree
<1>2. PICK walk : /\ walk[0] = WalkStart(tb)
                  /\ \A n \in 1..Cardinality(kill) : walk[n] = RemoveNext(walk[n - 1], kill)
                  /\ Walked(tb, kill) = walk[Cardinality(kill)]
  BY <1>1, WalkSteps
<1> DEFINE c == Cardinality(kill)
           T == {n \in 0..c : WalkGood(walk[n], tb, kill)}
<1>3. 0 \in T
  BY <1>1, <1>2, WalkStartGood
<1>4. ASSUME NEW n \in 1..c, n - 1 \in T PROVE n \in T
  <2>1. WalkGood(walk[n - 1], tb, kill)
    BY <1>4
  <2>2. WalkGood(RemoveNext(walk[n - 1], kill), tb, kill)
    BY <2>1, RemoveNextGood
  <2> QED BY <1>2, <2>2
<1>5. \A n \in 0..c : n \in T
  <2> HIDE DEF T
  <2> QED BY <1>1, <1>3, <1>4, SetInduction
<1>6. c \in 0..c
  BY <1>1
<1> QED BY <1>2, <1>5, <1>6

\* What remove_pane_if changes beyond its walk.
LEMMA RemovedFields ==
  ASSUME NEW tb, GoodTab(tb), NEW kill, kill \subseteq DOMAIN tb.at
  PROVE  LET new == Removed(tb, kill)
             w == Walked(tb, kill)
         IN  /\ WalkGood(w, tb, kill)
             /\ IsTab(new) /\ new.hung = tb.hung
             /\ new.at = w.tab.at /\ new.split = w.tab.split /\ new.zoomed = w.tab.zoomed
             /\ new.size = w.tab.size /\ new.before = w.tab.before
             /\ new.shown = w.tab.shown /\ new.pty = w.tab.pty
             /\ new.active = Less(tb.active, Cardinality({i \in w.removed : i <= tb.active}))
<1> DEFINE new == Removed(tb, kill)
           w == Walked(tb, kill)
           active == Less(w.tab.active, Cardinality({i \in w.removed : i <= tb.active}))
<1>1. WalkGood(w, tb, kill)
  BY WalkedGood
<1>2. new = [w.tab EXCEPT !.active = active]
  BY DEF Removed
<1> HIDE DEF new, w, active
<1>3. /\ IsTab(new) /\ new.at = w.tab.at /\ new.split = w.tab.split /\ new.zoomed = w.tab.zoomed
      /\ new.size = w.tab.size /\ new.before = w.tab.before /\ new.hung = w.tab.hung
      /\ new.shown = w.tab.shown /\ new.pty = w.tab.pty /\ new.active = active
  BY <1>1, <1>2 DEF WalkGood, GoodTab, IsTab, Fields
<1>4. active = Less(tb.active, Cardinality({i \in w.removed : i <= tb.active}))
  BY <1>1 DEF WalkGood, active
<1> QED BY <1>1, <1>3, <1>4 DEF WalkGood, new, w

\* remove_pane_if keeps the tree.
LEMMA RemovedGood ==
  ASSUME NEW tb, GoodTab(tb), NEW kill, kill \subseteq DOMAIN tb.at
  PROVE  GoodTab(Removed(tb, kill))
<1> DEFINE new == Removed(tb, kill)
           w == Walked(tb, kill)
           R == {i \in w.removed : i <= tb.active}
<1>1. /\ WalkGood(w, tb, kill)
      /\ IsTab(new) /\ new.hung = tb.hung
      /\ new.at = w.tab.at /\ new.split = w.tab.split /\ new.zoomed = w.tab.zoomed
      /\ new.shown = w.tab.shown /\ new.pty = w.tab.pty
      /\ new.active = Less(tb.active, Cardinality(R))
  BY RemovedFields
<1> HIDE DEF w, new
<1>2. Cardinality(R) \in Nat
  <2>1. IsFiniteSet(w.removed) /\ R \subseteq w.removed
    BY <1>1 DEF WalkGood
  <2> HIDE DEF R
  <2> QED BY <2>1, FS_Subset, FS_CardinalityType
<1> HIDE DEF R
<1>3. tb.active \in Nat
  BY DEF GoodTab
<1>4. new.active \in Nat
  BY <1>1, <1>2, <1>3 DEF Less, Larger
<1>5. GoodTab(new)
  BY <1>1, <1>4 DEF WalkGood, GoodTab
<1> QED BY <1>5 DEF new

\* A walk that is to remove one pane is one step.
LEMMA WalkedOne ==
  ASSUME NEW tb, GoodTab(tb), NEW p \in DOMAIN tb.at
  PROVE  LET w == Walked(tb, {p})
         IN  /\ w.removed = {Index(tb.at, p)}
             /\ DOMAIN w.tab.at = DOMAIN tb.at \ {p}
             /\ tb.at[p] = <<>> => w.tab = Forgot(tb, p)
             /\ tb.at[p] # <<>> => w.tab = Unsplit(tb, p)
<1> DEFINE w0 == WalkStart(tb)
<1>1. Cardinality({p}) = 1
  BY FS_Singleton
<1>2. Walked(tb, {p}) = RemoveNext(w0, {p})
  <2>1. PICK walk : /\ walk[0] = w0
                    /\ \A n \in 1..1 : walk[n] = RemoveNext(walk[n - 1], {p})
                    /\ Walked(tb, {p}) = walk[1]
    BY <1>1, WalkSteps
  <2>2. walk[1] = RemoveNext(walk[1 - 1], {p}) /\ 1 - 1 = 0
    BY <2>1
  <2> QED BY <2>1, <2>2
<1>3. /\ WalkGood(w0, tb, {p}) /\ w0.rest = DOMAIN tb.at /\ w0.tab = tb /\ w0.count = 0
      /\ w0.removed = {}
  BY WalkStartGood DEF WalkStart
<1> HIDE DEF w0
<1>4. w0.rest \cap {p} = {p}
  BY <1>3
<1> DEFINE one == {p}
           first == NextRemoved(w0, one)
           next == RemoveNext(w0, one)
<1>5. /\ first \in {p} /\ CountedAt(w0, first) \in Nat
      /\ next.removed = w0.removed \cup {CountedAt(w0, first)}
      /\ DOMAIN next.tab.at = DOMAIN w0.tab.at \ {first}
      /\ w0.tab.at[first] = <<>> => next.tab = Forgot(w0.tab, first)
      /\ w0.tab.at[first] # <<>> => next.tab = Unsplit(w0.tab, first)
  <2>1. WalkGood(w0, tb, one) /\ w0.rest \cap one = {p}
    BY <1>3, <1>4
  <2>2. w0.rest \cap one # {}
    BY <2>1
  <2> HIDE DEF one
  <2>3. /\ first \in w0.rest \cap one /\ CountedAt(w0, first) \in Nat
        /\ next.removed = w0.removed \cup {CountedAt(w0, first)}
        /\ DOMAIN next.tab.at = DOMAIN w0.tab.at \ {first}
        /\ w0.tab.at[first] = <<>> => next.tab = Forgot(w0.tab, first) /\ DOMAIN next.tab.at = {}
        /\ w0.tab.at[first] # <<>> => next.tab = Unsplit(w0.tab, first)
    <3>1. first = NextRemoved(w0, one) /\ next = RemoveNext(w0, one) /\ WalkGood(w0, tb, one)
      BY <2>1
    <3> HIDE DEF first, next
    <3> QED BY <3>1, <2>2, RemoveNextIs
  <2> HIDE DEF first, next
  <2> QED BY <2>1, <2>3
<1>6. first = p
  BY <1>5
<1> HIDE DEF first
<1>7. CountedAt(w0, p) = Index(tb.at, p)
  <2> DEFINE n == Cardinality({q \in w0.rest : Before(w0.tab.at[q], w0.tab.at[p])})
  <2>1. n = Index(tb.at, p)
    BY <1>3 DEF Index
  <2>2. n \in Nat
    <3>1. IsTree(tb.at, tb.split) /\ IsFiniteSet(DOMAIN tb.at)
      BY DEF GoodTab, GoodTree
    <3>2. Index(tb.at, p) \in Nat
      BY <3>1, IndexType
    <3> HIDE DEF n
    <3> QED BY <2>1, <3>2
  <2>3. CountedAt(w0, p) = w0.count + n
    BY DEF CountedAt
  <2> HIDE DEF n
  <2> QED BY <1>3, <2>1, <2>2, <2>3
<1>8. Walked(tb, {p}) = next
  BY <1>2
<1> HIDE DEF next
<1>9. next.removed = {Index(tb.at, p)}
  BY <1>3, <1>5, <1>6, <1>7
<1>10. tb.at[p] = w0.tab.at[p]
  BY <1>3
<1> QED BY <1>3, <1>5, <1>6, <1>8, <1>9, <1>10

---------------------------------------------------------------------------
(* Splitting keeps the tree.                                               *)

\* at2 and split2 are at and split with the leaf of p split, new on the other side.
LeafSplit(at, split, p, new, old, at2, split2) ==
  /\ p \in DOMAIN at /\ new \notin DOMAIN at /\ old \in Sides
  /\ DOMAIN at2 = DOMAIN at \cup {new}
  /\ at2[p] = Append(at[p], old) /\ at2[new] = Append(at[p], Other(old))
  /\ \A q \in DOMAIN at \ {p} : at2[q] = at[q]
  /\ DOMAIN split2 = DOMAIN split \cup {at[p]}

\* A leaf that becomes a split of two leaves.
LEMMA SplitTree ==
  ASSUME NEW at, NEW split, IsTree(at, split), NEW p, NEW new, NEW old, NEW at2, NEW split2,
         LeafSplit(at, split, p, new, old, at2, split2)
  PROVE  IsTree(at2, split2)
<1> USE DEF LeafSplit
<1> DEFINE a == at[p]
           c(s) == Append(a, s)
           S == DOMAIN split
           all == Positions(at, split)
           all2 == Positions(at2, split2)
<1>1. /\ IsInjective(at) /\ a \in Path \ S /\ S \subseteq Path
      /\ \A q \in DOMAIN at : at[q] \in Path \ S
      /\ \A q \in S, s \in Sides : Append(q, s) \in all
      /\ \A x \in all, q \in Path : IsPrefix(q, x) /\ q # x => q \in S
  BY TreeIff
<1>2. /\ DOMAIN at2 = DOMAIN at \cup {new} /\ p # new
      /\ at2[p] = c(old) /\ at2[new] = c(Other(old))
      /\ \A q \in DOMAIN at \ {p} : at2[q] = at[q]
  OBVIOUS
<1>3. Other(old) \in Sides /\ Other(old) # old /\ \A s \in Sides : s = old \/ s = Other(old)
  BY OtherType DEF Sides, Other
<1>4. \A s \in Sides : /\ c(s) \in Path /\ c(s) # a /\ IsPrefix(a, c(s))
                       /\ \A q \in Path : IsPrefix(q, c(s)) => IsPrefix(q, a) \/ q = c(s)
                       /\ Last(c(s)) = s
  <2> HIDE DEF a
  <2>1. a \in Path
    BY <1>1
  <2> TAKE s \in Sides
  <2>2. c(s) \in Path /\ Len(c(s)) = Len(a) + 1 /\ Len(a) \in Nat
    BY <2>1, ChildType, PathType
  <2>3. IsPrefix(a, c(s)) /\ \A q \in Path : IsPrefix(q, c(s)) => IsPrefix(q, a) \/ q = c(s)
    BY <2>1, ChildOrder
  <2>4. Last(c(s)) = s
    BY <2>1, ChildParent
  <2> QED BY <2>2, <2>3, <2>4
<1> HIDE DEF a, c
<1>5. \A x \in all : ~ (IsPrefix(a, x) /\ a # x)
  BY <1>1
<1>6. \A s \in Sides : c(s) \notin all
  BY <1>4, <1>5
<1>7. all2 = all \cup {c("left"), c("right")}
  <2>1. all = S \cup {at[q] : q \in DOMAIN at} /\ all2 = DOMAIN split2 \cup {at2[q] : q \in DOMAIN at2}
    BY DEF Positions
  <2>2. a \in all
    BY <2>1 DEF a
  <2>3. {at2[q] : q \in DOMAIN at2} = {at[q] : q \in DOMAIN at \ {p}} \cup {c(old), c(Other(old))}
    BY <1>2
  <2>4. {at[q] : q \in DOMAIN at} = {at[q] : q \in DOMAIN at \ {p}} \cup {a}
    BY DEF a
  <2>5. {c(old), c(Other(old))} = {c("left"), c("right")}
    BY DEF Other, Sides
  <2>6. DOMAIN split2 = S \cup {a}
    BY DEF a
  <2> HIDE DEF all, all2, S
  <2> QED BY <2>1, <2>3, <2>4, <2>5, <2>6
<1>8. DOMAIN split2 = S \cup {a} /\ DOMAIN split2 \subseteq Path
  BY <1>1 DEF a
<1>9. \A q \in DOMAIN at : at[q] \in all
  BY DEF Positions
<1> HIDE DEF all, all2
<1>10. IsInjective(at2)
  <2>1. SUFFICES ASSUME NEW x \in DOMAIN at2, NEW y \in DOMAIN at2, at2[x] = at2[y]
                 PROVE  x = y
    BY DEF IsInjective
  <2>2. \A q \in DOMAIN at \ {p}, s \in Sides : at2[q] # c(s)
    BY <1>2, <1>6, <1>9
  <2>3. c(old) # c(Other(old))
    BY <1>3, <1>4
  <2>4. \A q, r \in DOMAIN at : at[q] = at[r] => q = r
    BY <1>1 DEF IsInjective
  <2>5. \A q \in DOMAIN at2 : q = p \/ q = new \/ q \in DOMAIN at \ {p}
    BY <1>2
  <2>6. CASE x \in DOMAIN at \ {p} /\ y \in DOMAIN at \ {p}
    BY <1>2, <2>1, <2>4, <2>6
  <2>7. CASE x \in DOMAIN at \ {p} /\ y \in {p, new}
    BY <1>2, <1>3, <2>1, <2>2, <2>7
  <2>8. CASE x \in {p, new} /\ y \in DOMAIN at \ {p}
    BY <1>2, <1>3, <2>1, <2>2, <2>8
  <2>9. CASE x \in {p, new} /\ y \in {p, new}
    BY <1>2, <2>1, <2>3, <2>9
  <2> QED BY <2>5, <2>6, <2>7, <2>8, <2>9
<1>11. \A q \in DOMAIN at2 : at2[q] \in Path \ DOMAIN split2
  <2>1. \A s \in Sides : c(s) \in Path /\ c(s) \notin S \cup {a}
    <3>1. S \subseteq all
      BY DEF all, Positions
    <3> QED BY <1>4, <1>6, <3>1
  <2>2. \A q \in DOMAIN at \ {p} : at[q] \in Path /\ at[q] \notin S \cup {a}
    BY <1>1 DEF IsInjective, a
  <2> TAKE q \in DOMAIN at2
  <2>3. CASE q \in {p, new}
    BY <1>2, <1>3, <1>8, <2>1, <2>3
  <2>4. CASE q \in DOMAIN at \ {p}
    BY <1>2, <1>8, <2>2, <2>4
  <2> QED BY <1>2, <2>3, <2>4
<1>12. \A q \in DOMAIN split2, s \in Sides : Append(q, s) \in all2
  BY <1>1, <1>7, <1>8 DEF c, Sides
<1>13. \A x \in all2, q \in Path : IsPrefix(q, x) /\ q # x => q \in DOMAIN split2
  <2>1. TAKE x \in all2, q \in Path
  <2>2. HAVE IsPrefix(q, x) /\ q # x
  <2>3. CASE x \in all
    BY <1>1, <1>8, <2>2, <2>3
  <2>4. CASE x \notin all
    <3>1. PICK s \in Sides : x = c(s)
      BY <1>7, <2>4 DEF Sides
    <3>2. IsPrefix(q, a)
      BY <1>4, <2>2, <3>1
    <3>3. a \in all
      BY <1>9 DEF a
    <3> QED BY <1>1, <1>8, <3>2, <3>3
  <2> QED BY <2>3, <2>4
<1>14. IsTree(at2, split2) <=>
         /\ IsInjective(at2)
         /\ \A q \in DOMAIN at2 : at2[q] \in Path \ DOMAIN split2
         /\ DOMAIN split2 \subseteq Path
         /\ \A q \in DOMAIN split2, s \in Sides : Append(q, s) \in all2
         /\ \A x \in all2, q \in Path : IsPrefix(q, x) /\ q # x => q \in DOMAIN split2
  BY TreeIff DEF all2
<1> QED BY <1>8, <1>10, <1>11, <1>12, <1>13, <1>14

Wrap(s, p) == <<s>> \o p

\* A tree hung below one side of a new root (split_and_insert, top_level).
LEMMA WrapType ==
  ASSUME NEW s \in Sides, NEW p \in Path
  PROVE  /\ Wrap(s, p) \in Path /\ Len(Wrap(s, p)) = Len(p) + 1 /\ Wrap(s, p)[1] = s
         /\ \A i \in 1..Len(p) : Wrap(s, p)[i + 1] = p[i]
         /\ Wrap(s, p) # <<>>
         /\ Tail(Wrap(s, p)) = p
<1> DEFINE w == Wrap(s, p)
<1>1. Len(p) \in Nat /\ p \in Seq(Sides) /\ <<s>> \in Seq(Sides) /\ Len(<<s>>) = 1 /\ <<s>>[1] = s
  BY PathType DEF Path
<1>2. /\ w \in Seq(Sides) /\ Len(w) = 1 + Len(p)
      /\ \A i \in 1..(1 + Len(p)) : w[i] = IF i <= 1 THEN <<s>>[i] ELSE p[i - 1]
  BY <1>1, ConcatProperties DEF Wrap
<1> HIDE DEF w
<1>3. w[1] = s
  BY <1>1, <1>2
<1>4. \A i \in 1..Len(p) : w[i + 1] = p[i]
  <2> TAKE i \in 1..Len(p)
  <2>1. i + 1 \in 1..(1 + Len(p)) /\ ~ (i + 1 <= 1) /\ (i + 1) - 1 = i
    BY <1>1
  <2> DEFINE k == i + 1
  <2> HIDE DEF k
  <2>2. k \in 1..(1 + Len(p)) /\ ~ (k <= 1) /\ k - 1 = i
    BY <2>1 DEF k
  <2>3. w[k] = p[k - 1]
    BY <1>2, <2>2
  <2> QED BY <2>2, <2>3 DEF k
<1>5. w # <<>>
  BY <1>1, <1>2
<1>6. Tail(w) = p
  <2>1. Tail(w) \in Path /\ Len(Tail(w)) = Len(p) /\ \A i \in 1..Len(p) : Tail(w)[i] = w[i + 1]
    BY <1>1, <1>2, <1>5, HeadTailProperties DEF Path
  <2> QED BY <1>4, <2>1, PathEqual
<1> QED BY <1>2, <1>3, <1>4, <1>5, <1>6 DEF w, Path

\* Children stay children.
LEMMA WrapAppend ==
  ASSUME NEW s \in Sides, NEW p \in Path, NEW t \in Sides
  PROVE  Wrap(s, Append(p, t)) = Append(Wrap(s, p), t)
<1> DEFINE a == Wrap(s, Append(p, t))
           b == Append(Wrap(s, p), t)
           n == Len(p)
<1>1. n \in Nat
  BY PathType
<1>2. /\ Append(p, t) \in Path /\ Len(Append(p, t)) = n + 1
      /\ \A i \in 1..n : Append(p, t)[i] = p[i]
      /\ Append(p, t)[n + 1] = t
  BY ChildType
<1>3. /\ a \in Path /\ Len(a) = n + 2 /\ a[1] = s
      /\ \A i \in 1..(n + 1) : a[i + 1] = Append(p, t)[i]
  <2> DEFINE x == Append(p, t)
             y == Wrap(s, x)
  <2>1. x \in Path /\ Len(x) = n + 1
    BY <1>2
  <2> HIDE DEF x
  <2>2. /\ y \in Path /\ Len(y) = Len(x) + 1 /\ y[1] = s
        /\ \A i \in 1..Len(x) : y[i + 1] = x[i]
    BY <2>1, WrapType
  <2>3. Len(y) = n + 2
    BY <1>1, <2>1, <2>2
  <2> QED BY <2>1, <2>2, <2>3 DEF x
<1>4. /\ Wrap(s, p) \in Path /\ Len(Wrap(s, p)) = n + 1 /\ Wrap(s, p)[1] = s
      /\ \A i \in 1..n : Wrap(s, p)[i + 1] = p[i]
  BY WrapType
<1>5. /\ b \in Path /\ Len(b) = n + 2
      /\ \A i \in 1..(n + 1) : b[i] = Wrap(s, p)[i]
      /\ b[n + 2] = t
  BY <1>1, <1>4, ChildType
<1> HIDE DEF a, b, n
<1>6. \A i \in 1..(n + 2) : a[i] = b[i]
  <2> TAKE i \in 1..(n + 2)
  <2>1. CASE i = 1
    BY <1>1, <1>3, <1>4, <1>5, <2>1
  <2>2. CASE i # 1
    <3> DEFINE k == i - 1
    <3>1. i = k + 1 /\ k \in 1..(n + 1)
      BY <1>1, <2>2
    <3> HIDE DEF k
    <3>2. a[i] = Append(p, t)[k]
      BY <1>3, <3>1
    <3>3. CASE k = n + 1
      BY <1>1, <1>2, <1>5, <3>1, <3>2, <3>3
    <3>4. CASE k # n + 1
      BY <1>1, <1>2, <1>4, <1>5, <3>1, <3>2, <3>4
    <3> QED BY <3>3, <3>4
  <2> QED BY <2>1, <2>2
<1>7. a = b
  BY <1>3, <1>5, <1>6, PathEqual
<1> QED BY <1>7 DEF a, b

\* And what is above stays above.
LEMMA WrapPrefix ==
  ASSUME NEW s \in Sides, NEW p \in Path, NEW r \in Path, IsPrefix(r, Wrap(s, p)), r # <<>>
  PROVE  \E q \in Path : r = Wrap(s, q) /\ IsPrefix(q, p)
<1> DEFINE w == Wrap(s, p)
           m == Len(r)
           n == Len(p)
           q == SubSeq(p, 1, m - 1)
<1>1. n \in Nat /\ m \in Nat /\ m # 0
  BY PathType, RootOnly
<1>2. w \in Path /\ Len(w) = n + 1 /\ w[1] = s /\ \A i \in 1..n : w[i + 1] = p[i]
  BY WrapType
<1>3. m <= n + 1 /\ \A i \in 1..m : r[i] = w[i]
  BY <1>2, PrefixElements
<1>4. m - 1 \in 0..n
  BY <1>1, <1>3
<1>5. q \in Path /\ Len(q) = m - 1 /\ \A i \in 1..(m - 1) : q[i] = p[i]
  BY <1>4, PathUpTo
<1> HIDE DEF q, w
<1>6. IsPrefix(q, p)
  BY <1>1, <1>3, <1>5, PrefixElements
<1> DEFINE v == Wrap(s, q)
<1>7. v \in Path /\ Len(v) = m /\ v[1] = s /\ \A i \in 1..(m - 1) : v[i + 1] = q[i]
  <2>1. /\ v \in Path /\ Len(v) = Len(q) + 1 /\ v[1] = s
        /\ \A i \in 1..Len(q) : v[i + 1] = q[i]
    BY <1>5, WrapType
  <2> HIDE DEF v, m
  <2>2. Len(v) = m
    BY <1>1, <1>5, <2>1
  <2> QED BY <1>5, <2>1, <2>2
<1> HIDE DEF v
<1>8. \A i \in 1..m : r[i] = v[i]
  <2> TAKE i \in 1..m
  <2>1. CASE i = 1
    BY <1>1, <1>2, <1>3, <1>7, <2>1
  <2>2. CASE i # 1
    <3> DEFINE k == i - 1
    <3>1. i = k + 1 /\ k \in 1..(m - 1) /\ k \in 1..n
      BY <1>1, <1>3, <2>2
    <3> HIDE DEF k, m, n
    <3> QED BY <1>2, <1>3, <1>5, <1>7, <3>1
  <2> QED BY <2>1, <2>2
<1>9. r = v
  BY <1>7, <1>8, PathEqual
<1> QED BY <1>5, <1>6, <1>9 DEF v

\* A tree put below one side of a new root, a leaf on the other.
Wraps(at, split, new, old, at2, split2) ==
  /\ new \notin DOMAIN at /\ DOMAIN at # {} /\ old \in Sides
  /\ DOMAIN at2 = DOMAIN at \cup {new} /\ at2[new] = <<Other(old)>>
  /\ \A q \in DOMAIN at : at2[q] = Wrap(old, at[q])
  /\ DOMAIN split2 = {<<>>} \cup {Wrap(old, s) : s \in DOMAIN split}

\* So a whole tree and a new leaf make one tree.
LEMMA WrapTree ==
  ASSUME NEW at, NEW split, IsTree(at, split), NEW new, NEW old, NEW at2, NEW split2,
         Wraps(at, split, new, old, at2, split2)
  PROVE  IsTree(at2, split2)
<1> USE DEF Wraps
<1> DEFINE S == DOMAIN split
           S2 == DOMAIN split2
           all == Positions(at, split)
           all2 == Positions(at2, split2)
           leaf == <<Other(old)>>
<1>1. /\ IsInjective(at) /\ S \subseteq Path /\ all \subseteq Path
      /\ \A q \in DOMAIN at : at[q] \in Path \ S
      /\ \A q \in S, s \in Sides : Append(q, s) \in all
      /\ \A x \in all, q \in Path : IsPrefix(q, x) /\ q # x => q \in S
  <2>1. /\ IsInjective(at) /\ S \subseteq Path
        /\ \A q \in DOMAIN at : at[q] \in Path \ S
        /\ \A q \in S, s \in Sides : Append(q, s) \in all
        /\ \A x \in all, q \in Path : IsPrefix(q, x) /\ q # x => q \in S
    BY TreeIff
  <2>2. all \subseteq Path
    BY <2>1 DEF Positions
  <2> QED BY <2>1, <2>2
<1>2. <<>> \in all
  <2>1. PICK p \in DOMAIN at : TRUE
    OBVIOUS
  <2>2. at[p] \in all /\ at[p] \in Path
    BY <1>1 DEF Positions
  <2>3. IsPrefix(<<>>, at[p])
    BY <2>2, PrefixOrder
  <2>4. S \subseteq all
    BY DEF Positions
  <2> HIDE DEF all, S
  <2> QED BY <1>1, <2>2, <2>3, <2>4, RootType
<1>3. Other(old) \in Sides /\ Other(old) # old /\ \A s \in Sides : s = old \/ s = Other(old)
  BY OtherType DEF Sides, Other
<1>4. /\ leaf \in Path /\ leaf = Append(<<>>, Other(old)) /\ leaf # <<>>
      /\ \A q \in Path : IsPrefix(q, leaf) => q = <<>> \/ q = leaf
      /\ Len(leaf) = 1 /\ leaf[1] = Other(old)
  <2>1. leaf = Append(<<>>, Other(old))
    OBVIOUS
  <2>2. leaf \in Path /\ leaf # <<>> /\ Len(leaf) = 1 /\ leaf[1] = Other(old)
    BY <1>3 DEF Path
  <2>3. ASSUME NEW q \in Path, IsPrefix(q, leaf) PROVE q = <<>> \/ q = leaf
    <3> HIDE DEF leaf
    <3>1. IsPrefix(q, <<>>) \/ q = leaf
      BY <1>3, <2>1, <2>3, RootType, ChildOrder
    <3>2. IsPrefix(q, <<>>) => q = <<>>
      BY RootType, PrefixOrder
    <3> QED BY <3>1, <3>2
  <2> QED BY <2>1, <2>2, <2>3
<1> HIDE DEF leaf
<1>5. \A q \in Path : /\ Wrap(old, q) \in Path /\ Wrap(old, q) # <<>> /\ Wrap(old, q) # leaf
                      /\ Tail(Wrap(old, q)) = q
  <2> TAKE q \in Path
  <2>1. /\ Wrap(old, q) \in Path /\ Wrap(old, q) # <<>> /\ Wrap(old, q)[1] = old
        /\ Tail(Wrap(old, q)) = q
    BY WrapType
  <2> QED BY <1>3, <1>4, <2>1
<1>6. all2 = {<<>>, leaf} \cup {Wrap(old, x) : x \in all}
  <2>1. all = S \cup {at[q] : q \in DOMAIN at} /\ all2 = S2 \cup {at2[q] : q \in DOMAIN at2}
    BY DEF Positions
  <2>2. {at2[q] : q \in DOMAIN at2} = {leaf} \cup {Wrap(old, at[q]) : q \in DOMAIN at}
    BY DEF leaf
  <2>3. S2 = {<<>>} \cup {Wrap(old, s) : s \in S}
    OBVIOUS
  <2> HIDE DEF all, all2, S, S2
  <2>4. {Wrap(old, x) : x \in all} = {Wrap(old, s) : s \in S} \cup {Wrap(old, at[q]) : q \in DOMAIN at}
    BY <2>1
  <2> QED BY <2>1, <2>2, <2>3, <2>4
<1>7. S2 = {<<>>} \cup {Wrap(old, s) : s \in S} /\ at2[new] = leaf
  BY DEF leaf
<1>8. \A q \in DOMAIN at : at[q] \in all /\ at[q] \in Path
  BY <1>1 DEF Positions
<1>9. IsInjective(at2)
  <2>1. SUFFICES ASSUME NEW x \in DOMAIN at2, NEW y \in DOMAIN at2, at2[x] = at2[y]
                 PROVE  x = y
    BY DEF IsInjective
  <2>2. ASSUME NEW q \in DOMAIN at, NEW r \in DOMAIN at, at2[q] = at2[r]
        PROVE  q = r
    <3>1. at[q] = at[r]
      BY <1>5, <1>8, <2>2
    <3> QED BY <1>1, <3>1 DEF IsInjective
  <2>3. \A q \in DOMAIN at : at2[q] # at2[new]
    BY <1>5, <1>7, <1>8
  <2> QED BY <2>1, <2>2, <2>3
<1> HIDE DEF all, all2, S, S2
<1>10. S2 \subseteq Path
  BY <1>1, <1>5, <1>7, RootType
<1>11. \A q \in DOMAIN at2 : at2[q] \in Path \ S2
  <2>1. leaf \in Path \ S2
    BY <1>1, <1>4, <1>5, <1>7
  <2>2. ASSUME NEW q \in DOMAIN at PROVE at2[q] \in Path \ S2
    <3>1. at2[q] = Wrap(old, at[q]) /\ at[q] \in Path /\ at[q] \notin S
      BY <1>1
    <3>2. ASSUME at2[q] \in S2 PROVE FALSE
      <4>1. PICK s \in S : at2[q] = Wrap(old, s)
        BY <1>5, <1>7, <3>1, <3>2
      <4>2. s = at[q]
        BY <1>1, <1>5, <3>1, <4>1
      <4> QED BY <3>1, <4>2
    <3> QED BY <1>5, <3>1, <3>2
  <2> QED BY <1>7, <2>1, <2>2
<1>12. \A q \in S2, s \in Sides : Append(q, s) \in all2
  <2> TAKE q \in S2, s \in Sides
  <2>1. CASE q = <<>>
    <3>1. Wrap(old, <<>>) = Append(<<>>, old)
      BY DEF Wrap
    <3> QED BY <1>2, <1>3, <1>4, <1>6, <2>1, <3>1
  <2>2. CASE q # <<>>
    <3>1. PICK r \in S : q = Wrap(old, r)
      BY <1>7, <2>2
    <3>2. Append(q, s) = Wrap(old, Append(r, s)) /\ Append(r, s) \in all
      BY <1>1, <3>1, WrapAppend
    <3> QED BY <1>6, <3>2
  <2> QED BY <2>1, <2>2
<1>13. \A x \in all2, q \in Path : IsPrefix(q, x) /\ q # x => q \in S2
  <2> TAKE x \in all2, q \in Path
  <2>1. HAVE IsPrefix(q, x) /\ q # x
  <2>2. CASE q = <<>>
    BY <1>7, <2>2
  <2>3. CASE q # <<>>
    <3>1. x # <<>> /\ x # leaf
      <4>1. IsPrefix(q, <<>>) => q = <<>>
        BY RootType, PrefixOrder
      <4> QED BY <1>4, <2>1, <2>3, <4>1
    <3>2. PICK y \in all : x = Wrap(old, y)
      BY <1>6, <3>1
    <3>3. PICK r \in Path : q = Wrap(old, r) /\ IsPrefix(r, y)
      BY <1>1, <2>1, <2>3, <3>2, WrapPrefix
    <3>4. r # y
      BY <2>1, <3>2, <3>3
    <3>5. r \in S
      BY <1>1, <3>3, <3>4
    <3> QED BY <1>7, <3>3, <3>5
  <2> QED BY <2>2, <2>3
<1>14. IsTree(at2, split2) <=>
         /\ IsInjective(at2)
         /\ \A q \in DOMAIN at2 : at2[q] \in Path \ S2
         /\ S2 \subseteq Path
         /\ \A q \in S2, s \in Sides : Append(q, s) \in all2
         /\ \A x \in all2, q \in Path : IsPrefix(q, x) /\ q # x => q \in S2
  BY TreeIff DEF S2, all2
<1> QED BY <1>9, <1>10, <1>11, <1>12, <1>13, <1>14

\* Sizes panes are told, beside the ones they had.
LEMMA UpdatedDomain ==
  ASSUME NEW f, NEW sizes
  PROVE  /\ DOMAIN Updated(f, sizes) = DOMAIN f \cup DOMAIN sizes
         /\ Updated(f, sizes) = [p \in DOMAIN f \cup DOMAIN sizes |-> Updated(f, sizes)[p]]
         /\ \A p \in DOMAIN sizes : Updated(f, sizes)[p] = sizes[p]
         /\ \A p \in DOMAIN f \ DOMAIN sizes : Updated(f, sizes)[p] = f[p]
  BY DEF Updated

\* What a SplitRequest says.
LEMMA RequestType ==
  ASSUME NEW r \in Requests
  PROVE  r.dir \in Axes /\ r.second \in BOOLEAN /\ r.top \in BOOLEAN /\ r.cells \in Nat
  BY TabAssumption DEF Axes

\* A split with these sides.
LEMMA NewSplit ==
  ASSUME NEW dir \in Axes, NEW space, NEW r
  PROVE  IsSplit([dir |-> dir, slot |-> Cut(space, r)])
<1> DEFINE sl == Cut(space, r)
           n == [dir |-> dir, slot |-> sl]
<1>1. sl = [side \in Sides |-> sl[side]]
  BY DEF Cut, Sides
<1> HIDE DEF sl
<1>2. n.dir = dir /\ n.slot = sl
  OBVIOUS
<1>3. IsSplit(n)
  BY <1>1, <1>2 DEF IsSplit
<1> QED BY <1>3 DEF sl

\* split_and_insert of one pane: the tree it leaves, and what it leaves as it
\* was.
LEMMA SplitPaneGood ==
  ASSUME NEW tb, GoodTab(tb), NEW p \in DOMAIN tb.at, NEW r \in Requests,
         NEW new \in Panes, new \notin DOMAIN tb.at,
         NEW old, old = IF r.second THEN "left" ELSE "right",
         NEW tb2, tb2 = SplitPane(tb, p, r, new)
  PROVE  /\ GoodTab(tb2) /\ DOMAIN tb2.at = DOMAIN tb.at \cup {new}
         /\ tb2.at[p] = Append(tb.at[p], old) /\ tb2.at[new] = Append(tb.at[p], Other(old))
         /\ \A q \in DOMAIN tb.at \ {p} : tb2.at[q] = tb.at[q]
         /\ DOMAIN tb2.split = DOMAIN tb.split \cup {tb.at[p]}
         /\ tb2.split[tb.at[p]].dir = r.dir /\ tb2.split[tb.at[p]].slot = SplitSlots(tb, p, r)
         /\ \A q \in DOMAIN tb.split : tb2.split[q] = tb.split[q]
         /\ tb2.active = IF r.second THEN Index(tb.at, p) + 1 ELSE tb.active
         /\ tb2.size = tb.size /\ tb2.zoomed = tb.zoomed /\ tb2.hung = tb.hung
         /\ tb2.before = tb.before
<1> DEFINE slots == SplitSlots(tb, p, r)
           a == tb.at[p]
           node == [dir |-> r.dir, slot |-> slots]
           at == [q \in DOMAIN tb.at \cup {new} |->
                    CASE q = p -> Append(a, old)
                      [] q = new -> Append(a, Other(old))
                      [] OTHER -> tb.at[q]]
           split == [q \in DOMAIN tb.split \cup {a} |-> IF q = a THEN node ELSE tb.split[q]]
           active == IF r.second THEN Index(tb.at, p) + 1 ELSE tb.active
           both == [tb EXCEPT !.at = at, !.split = split, !.active = active]
           sizes == [q \in {p, new} |-> slots[IF q = p THEN old ELSE Other(old)]]
<1>1. tb2 = Told(both, sizes)
  BY DEF SplitPane
<1>2. IsTree(tb.at, tb.split) /\ IsFiniteSet(DOMAIN tb.at) /\ DOMAIN tb.at \subseteq Panes
  BY DEF GoodTab, GoodTree
<1>3. /\ DOMAIN at = DOMAIN tb.at \cup {new} /\ at = [q \in DOMAIN at |-> at[q]]
      /\ at[p] = Append(a, old) /\ at[new] = Append(a, Other(old))
      /\ \A q \in DOMAIN tb.at \ {p} : at[q] = tb.at[q]
  OBVIOUS
<1>4. /\ DOMAIN split = DOMAIN tb.split \cup {a} /\ split = [q \in DOMAIN split |-> split[q]]
      /\ split[a] = node /\ \A q \in DOMAIN tb.split \ {a} : split[q] = tb.split[q]
  OBVIOUS
<1>5. a \in Path /\ a \notin DOMAIN tb.split /\ Len(a) \in Nat
  BY <1>2, TreeIff, PathType
<1>6. old \in Sides
  BY DEF Sides
<1>7. active \in Nat
  <2>1. Index(tb.at, p) \in Nat
    BY <1>2, IndexType
  <2> QED BY <2>1 DEF GoodTab
<1>8. IsSplit(node)
  BY RequestType, NewSplit DEF SplitSlots
<1>9. DOMAIN sizes = {p, new}
  OBVIOUS
<1>n. node.dir = r.dir /\ node.slot = slots
  OBVIOUS
<1> HIDE DEF at, split, active, node, sizes, a, slots
<1>10. /\ IsTab(both) /\ both.at = at /\ both.split = split /\ both.active = active
       /\ both.size = tb.size /\ both.zoomed = tb.zoomed /\ both.hung = tb.hung
       /\ both.before = tb.before /\ both.shown = tb.shown /\ both.pty = tb.pty
  BY DEF GoodTab, IsTab, Fields
<1> HIDE DEF both
<1>11. /\ IsTab(tb2) /\ tb2.at = at /\ tb2.split = split /\ tb2.active = active
       /\ tb2.size = tb.size /\ tb2.zoomed = tb.zoomed /\ tb2.hung = tb.hung
       /\ tb2.before = tb.before
       /\ tb2.shown = Updated(tb.shown, sizes) /\ tb2.pty = Updated(tb.pty, sizes)
  BY <1>1, <1>10, ToldFields
<1>12. IsTree(at, split)
  <2>1. /\ at[p] = Append(tb.at[p], old) /\ at[new] = Append(tb.at[p], Other(old))
        /\ DOMAIN split = DOMAIN tb.split \cup {tb.at[p]} /\ DOMAIN at = DOMAIN tb.at \cup {new}
        /\ \A q \in DOMAIN tb.at \ {p} : at[q] = tb.at[q]
    BY <1>3, <1>4 DEF a
  <2>2. LeafSplit(tb.at, tb.split, p, new, old, at, split)
    BY <1>6, <2>1 DEF LeafSplit
  <2> QED BY <1>2, <2>2, SplitTree
<1>13. IsFiniteSet(DOMAIN at) /\ DOMAIN at \subseteq Panes
  BY <1>2, <1>3, FS_AddElement
<1>14. Shallow(split)
  <2>1. PICK n \in Nat : \A q \in DOMAIN tb.split : Len(q) <= n
    BY DEF GoodTab, GoodTree, Shallow
  <2>2. DOMAIN tb.split \subseteq Path
    BY <1>2, TreeIff
  <2>3. \A q \in DOMAIN split : Len(q) <= n + Len(a)
    <3> TAKE q \in DOMAIN split
    <3>1. CASE q = a
      BY <1>5, <3>1
    <3>2. CASE q \in DOMAIN tb.split
      <4>1. Len(q) \in Nat /\ Len(q) <= n
        BY <2>1, <2>2, <3>2, PathType
      <4> QED BY <1>5, <4>1
    <3> QED BY <1>4, <3>1, <3>2
  <2>4. n + Len(a) \in Nat
    BY <1>5
  <2> QED BY <2>3, <2>4 DEF Shallow
<1>15. \A q \in DOMAIN split : IsSplit(split[q])
  <2>1. \A q \in DOMAIN tb.split : IsSplit(tb.split[q])
    BY DEF GoodTab, GoodTree
  <2> QED BY <1>4, <1>5, <1>8, <2>1
<1>16. GoodTree(at, split)
  BY <1>3, <1>4, <1>12, <1>13, <1>14, <1>15 DEF GoodTree
<1>17. /\ tb2.shown = [q \in DOMAIN at |-> tb2.shown[q]]
       /\ tb2.pty = [q \in DOMAIN at |-> tb2.pty[q]]
  <2>1. DOMAIN tb.shown = DOMAIN tb.at /\ DOMAIN tb.pty = DOMAIN tb.at
    BY DEF GoodTab
  <2>2. DOMAIN tb.shown \cup DOMAIN sizes = DOMAIN at /\ DOMAIN tb.pty \cup DOMAIN sizes = DOMAIN at
    BY <1>3, <1>9, <2>1
  <2>3. /\ Updated(tb.shown, sizes) = [q \in DOMAIN tb.shown \cup DOMAIN sizes |->
                                        Updated(tb.shown, sizes)[q]]
        /\ Updated(tb.pty, sizes) = [q \in DOMAIN tb.pty \cup DOMAIN sizes |->
                                        Updated(tb.pty, sizes)[q]]
    BY UpdatedDomain
  <2>4. tb2.shown = Updated(tb.shown, sizes) /\ tb2.pty = Updated(tb.pty, sizes)
    BY <1>11
  <2> QED BY <2>2, <2>3, <2>4
<1>18. tb2.zoomed \in DOMAIN at \cup {NoPane} /\ tb2.active \in Nat /\ tb2.hung \in BOOLEAN
  BY <1>3, <1>7, <1>11 DEF GoodTab
<1>19. GoodTab(tb2)
  BY <1>11, <1>16, <1>17, <1>18 DEF GoodTab
<1>20. \A q \in DOMAIN tb.split : split[q] = tb.split[q]
  BY <1>4, <1>5
<1> QED BY <1>3, <1>4, <1>11, <1>19, <1>20, <1>n DEF a, active, slots

\* The sizes of the two sides of a new split.
SideSizes(p, new, old, slots) == [q \in {p, new} |-> slots[IF q = p THEN old ELSE Other(old)]]

\* Only the two sides of the new split are told their sizes.
LEMMA SplitPaneSizes ==
  ASSUME NEW tb, IsTab(tb), NEW p, NEW r, NEW new,
         NEW old, old = IF r.second THEN "left" ELSE "right",
         NEW slots, slots = SplitSlots(tb, p, r),
         NEW sizes, sizes = SideSizes(p, new, old, slots),
         NEW tb2, tb2 = SplitPane(tb, p, r, new)
  PROVE  tb2.shown = Updated(tb.shown, sizes) /\ tb2.pty = Updated(tb.pty, sizes)
<1> DEFINE a == tb.at[p]
           at == [q \in DOMAIN tb.at \cup {new} |->
                    CASE q = p -> Append(a, old)
                      [] q = new -> Append(a, Other(old))
                      [] OTHER -> tb.at[q]]
           split == [q \in DOMAIN tb.split \cup {a} |->
                       IF q = a THEN [dir |-> r.dir, slot |-> slots] ELSE tb.split[q]]
           active == IF r.second THEN Index(tb.at, p) + 1 ELSE tb.active
           both == [tb EXCEPT !.at = at, !.split = split, !.active = active]
<1>1. tb2 = Told(both, sizes)
  BY DEF SplitPane, SideSizes
<1> HIDE DEF at, split, active
<1>2. IsTab(both) /\ both.shown = tb.shown /\ both.pty = tb.pty
  BY DEF IsTab, Fields
<1> HIDE DEF both
<1> QED BY <1>1, <1>2, ToldFields

\* split_and_insert of a whole tab: the old tree below one side of the new
\* root.
LEMMA SplitTabGood ==
  ASSUME NEW tb, GoodTab(tb), DOMAIN tb.at # {}, NEW r \in Requests,
         NEW new \in Panes, new \notin DOMAIN tb.at, NEW shown, NEW pty
  PROVE  LET tb2 == SplitTab(tb, r, new, shown, pty)
         IN  /\ GoodTab(tb2)
             /\ tb2.hung \/ (DOMAIN tb2.at = DOMAIN tb.at \cup {new} /\ tb2.zoomed = tb.zoomed)
             /\ tb2.hung => DOMAIN tb2.at = DOMAIN tb.at /\ tb2.active = tb.active
             /\ ~ tb2.hung => tb2.active = IF r.second THEN Cardinality(DOMAIN tb.at) ELSE 0
<1> DEFINE slots == Cut(tb.size, r)
           old == IF r.second THEN "left" ELSE "right"
           node == [dir |-> r.dir, slot |-> slots]
           mid == Resized(tb, slots[old])
           at == [q \in DOMAIN mid.at \cup {new} |->
                    IF q = new THEN <<Other(old)>> ELSE <<old>> \o tb.at[q]]
           split == [q \in {<<>>} \cup {<<old>> \o s : s \in DOMAIN mid.split} |->
                       IF q = <<>> THEN node ELSE mid.split[Tail(q)]]
           active == IF r.second THEN Cardinality(DOMAIN tb.at) ELSE 0
           tb2 == SplitTab(tb, r, new, shown, pty)
           told == Updated(mid.shown, One(new, shown))
           toldPty == Updated(mid.pty, One(new, pty))
<1>1. tb2 = IF mid.hung THEN mid
            ELSE [mid EXCEPT !.at = at, !.split = split, !.active = active,
                             !.shown = told, !.pty = toldPty]
  BY DEF SplitTab
<1>2. /\ GoodTab(mid) /\ mid.at = tb.at /\ mid.zoomed = tb.zoomed
      /\ mid.active = tb.active /\ DOMAIN mid.split = DOMAIN tb.split
  BY ResizedGood
<1> HIDE DEF mid
<1>3. /\ DOMAIN at = DOMAIN tb.at \cup {new} /\ at = [q \in DOMAIN at |-> at[q]]
      /\ at[new] = <<Other(old)>>
      /\ \A q \in DOMAIN tb.at : at[q] = Wrap(old, tb.at[q])
  BY <1>2 DEF Wrap
<1>4. /\ DOMAIN split = {<<>>} \cup {Wrap(old, s) : s \in DOMAIN mid.split}
      /\ split = [q \in DOMAIN split |-> split[q]]
      /\ \A q \in DOMAIN split : split[q] = IF q = <<>> THEN node ELSE mid.split[Tail(q)]
  BY DEF Wrap
<1>5. IsTree(mid.at, mid.split) /\ IsFiniteSet(DOMAIN tb.at) /\ DOMAIN tb.at \subseteq Panes
  BY <1>2 DEF GoodTab, GoodTree
<1>6. old \in Sides
  BY DEF Sides
<1>7. active \in Nat
  BY <1>5, FS_CardinalityType
<1>8. IsSplit(node)
  BY RequestType, NewSplit
<1> HIDE DEF node, active, at, split, tb2, old
<1>9. CASE mid.hung
  BY <1>1, <1>2, <1>9 DEF tb2
<1>10. CASE ~ mid.hung
  <2>1. /\ IsTab(tb2) /\ tb2.at = at /\ tb2.split = split /\ tb2.active = active
        /\ tb2.zoomed = mid.zoomed /\ tb2.hung = mid.hung
        /\ tb2.shown = told /\ tb2.pty = toldPty
    <3> HIDE DEF told, toldPty
    <3> QED BY <1>1, <1>2, <1>10 DEF GoodTab, IsTab, Fields
  <2>2. IsTree(at, split)
    <3>1. Wraps(mid.at, mid.split, new, old, at, split)
      BY <1>2, <1>3, <1>4, <1>6 DEF Wraps
    <3> QED BY <1>5, <3>1, WrapTree
  <2>3. IsFiniteSet(DOMAIN at) /\ DOMAIN at \subseteq Panes
    BY <1>3, <1>5, FS_AddElement
  <2>4. DOMAIN mid.split \subseteq Path
    BY <1>5, TreeIff
  <2>5. ASSUME NEW q \in DOMAIN split, q # <<>>
        PROVE  /\ Tail(q) \in DOMAIN mid.split /\ split[q] = mid.split[Tail(q)]
               /\ Len(Tail(q)) \in Nat /\ Len(q) = Len(Tail(q)) + 1
    <3>1. PICK s \in DOMAIN mid.split : q = Wrap(old, s)
      BY <1>4, <2>5
    <3>2. Tail(q) = s /\ Len(q) = Len(s) + 1 /\ Len(s) \in Nat
      BY <1>6, <2>4, <3>1, WrapType, PathType
    <3> QED BY <1>4, <2>5, <3>2
  <2>6. Shallow(split)
    <3>1. PICK n \in Nat : \A q \in DOMAIN mid.split : Len(q) <= n
      BY <1>2 DEF GoodTab, GoodTree, Shallow
    <3>2. \A q \in DOMAIN split : Len(q) <= n + 1
      <4> TAKE q \in DOMAIN split
      <4>1. CASE q = <<>>
        BY <4>1, RootType
      <4>2. CASE q # <<>>
        <5>1. Len(Tail(q)) <= n
          BY <2>5, <3>1, <4>2
        <5> QED BY <2>5, <4>2, <5>1
      <4> QED BY <4>1, <4>2
    <3>3. n + 1 \in Nat
      OBVIOUS
    <3> QED BY <3>2, <3>3 DEF Shallow
  <2>7. \A q \in DOMAIN split : IsSplit(split[q])
    <3>1. \A q \in DOMAIN mid.split : IsSplit(mid.split[q])
      BY <1>2 DEF GoodTab, GoodTree
    <3> QED BY <1>4, <1>8, <2>5, <3>1
  <2>8. GoodTree(at, split)
    BY <1>3, <1>4, <2>2, <2>3, <2>6, <2>7 DEF GoodTree
  <2>9. told = [q \in DOMAIN at |-> told[q]] /\ toldPty = [q \in DOMAIN at |-> toldPty[q]]
    <3> DEFINE a == One(new, shown)
               b == One(new, pty)
    <3>1. DOMAIN a = {new} /\ DOMAIN b = {new}
      BY OneDomain
    <3>2. DOMAIN mid.shown = DOMAIN tb.at /\ DOMAIN mid.pty = DOMAIN tb.at
      BY <1>2 DEF GoodTab
    <3> HIDE DEF a, b
    <3>3. DOMAIN mid.shown \cup DOMAIN a = DOMAIN at /\ DOMAIN mid.pty \cup DOMAIN b = DOMAIN at
      BY <1>3, <3>1, <3>2
    <3>4. /\ Updated(mid.shown, a) = [q \in DOMAIN mid.shown \cup DOMAIN a |-> Updated(mid.shown, a)[q]]
          /\ Updated(mid.pty, b) = [q \in DOMAIN mid.pty \cup DOMAIN b |-> Updated(mid.pty, b)[q]]
      BY UpdatedDomain
    <3> QED BY <3>3, <3>4 DEF a, b
  <2> HIDE DEF told, toldPty
  <2>10. tb2.zoomed \in DOMAIN at \cup {NoPane} /\ tb2.hung \in BOOLEAN
    BY <1>2, <1>3, <2>1 DEF GoodTab
  <2>11. GoodTab(tb2)
    BY <1>7, <2>1, <2>8, <2>9, <2>10 DEF GoodTab
  <2> QED BY <1>2, <1>3, <1>10, <2>1, <2>11 DEF tb2, active
<1> QED BY <1>9, <1>10

\* Either way the new pane is in the tree, once.
LEMMA InsertedGood ==
  ASSUME NEW tb, GoodTab(tb), NEW p \in DOMAIN tb.at, NEW r \in Requests,
         NEW new \in Panes, new \notin DOMAIN tb.at, NEW shown, NEW pty
  PROVE  GoodTab(Inserted(tb, p, r, new, shown, pty))
<1>1. GoodTab(SplitPane(tb, p, r, new))
  <2> DEFINE old == IF r.second THEN "left" ELSE "right"
             tb2 == SplitPane(tb, p, r, new)
  <2>1. old = (IF r.second THEN "left" ELSE "right") /\ tb2 = SplitPane(tb, p, r, new)
    OBVIOUS
  <2> HIDE DEF old, tb2
  <2>2. GoodTab(tb2)
    BY <2>1, SplitPaneGood
  <2> QED BY <2>2 DEF tb2
<1> QED BY <1>1, SplitTabGood DEF Inserted

(* Panes that change places. *)
LEMMA MovedGood ==
  ASSUME NEW tb, GoodTab(tb), NEW to \in [DOMAIN tb.at -> DOMAIN tb.at],
         \A p, q \in DOMAIN tb.at : to[p] = to[q] => p = q,
         \A p \in DOMAIN tb.at : \E q \in DOMAIN tb.at : to[q] = p
  PROVE  LET mid == [tb EXCEPT !.at = Moved(tb.at, to)]
             new == Told(mid, SlotsOf(mid))
         IN  /\ GoodTab(new) /\ new.at = Moved(tb.at, to) /\ DOMAIN new.at = DOMAIN tb.at
             /\ new.active = tb.active /\ new.zoomed = tb.zoomed /\ new.hung = tb.hung
             /\ new.split = tb.split
<1> DEFINE at == Moved(tb.at, to)
           mid == [tb EXCEPT !.at = at]
           new == Told(mid, SlotsOf(mid))
<1>1. IsTree(tb.at, tb.split)
  BY DEF GoodTab, GoodTree
<1>2. DOMAIN at = DOMAIN tb.at /\ IsTree(at, tb.split)
  <2> DEFINE at0 == tb.at
             split0 == tb.split
  <2>1. IsTree(at0, split0) /\ to \in [DOMAIN at0 -> DOMAIN at0]
    BY <1>1
  <2> HIDE DEF at0, split0
  <2>2. DOMAIN Moved(at0, to) = DOMAIN at0 /\ IsTree(Moved(at0, to), split0)
    BY <2>1, MovedTree DEF at0
  <2> QED BY <2>2 DEF at0, split0
<1>3. at = [p \in DOMAIN at |-> at[p]]
  BY DEF Moved
<1> HIDE DEF at
<1>4. /\ IsTab(mid) /\ mid.at = at /\ mid.split = tb.split /\ mid.active = tb.active
      /\ mid.zoomed = tb.zoomed /\ mid.hung = tb.hung /\ mid.shown = tb.shown /\ mid.pty = tb.pty
  BY DEF GoodTab, IsTab, Fields
<1> HIDE DEF mid
<1>5. GoodTree(at, tb.split)
  BY <1>2, <1>3 DEF GoodTab, GoodTree
<1>6. GoodTab(mid)
  BY <1>2, <1>4, <1>5 DEF GoodTab
<1> DEFINE sizes == SlotsOf(mid)
<1>7. DOMAIN sizes \subseteq DOMAIN mid.at
  BY SlotsDomain
<1>11. new = Told(mid, sizes)
  OBVIOUS
<1> HIDE DEF sizes, new
<1>8. GoodTab(new)
  BY <1>6, <1>7, <1>11, ToldGood
<1>9. /\ new.at = mid.at /\ new.active = mid.active /\ new.zoomed = mid.zoomed /\ new.hung = mid.hung
      /\ new.split = mid.split
  BY <1>4, <1>11, ToldFields
<1>10. /\ GoodTab(new) /\ new.at = at /\ DOMAIN new.at = DOMAIN tb.at
       /\ new.active = tb.active /\ new.zoomed = tb.zoomed /\ new.hung = tb.hung
       /\ new.split = tb.split
  BY <1>2, <1>4, <1>8, <1>9
<1> QED BY <1>10 DEF new, at, sizes, mid

\* Turning by one step and back.
LEMMA ModTurn ==
  ASSUME NEW n \in Nat, n > 0, NEW a \in Nat, a <= 2 * n
  PROVE  a % n = IF a < n THEN a ELSE IF a < 2 * n THEN a - n ELSE 0
<1> DEFINE q == a \div n
           r == a % n
<1>1. q \in Int /\ r \in 0..(n - 1) /\ a = n * q + r
  OBVIOUS
<1> HIDE DEF q, r
<1>2. q \in {0, 1, 2} \/ q >= 3 \/ q <= -1
  BY <1>1
<1>3. q >= 3 => n * q >= n * 3
  BY <1>1
<1>4. q <= -1 => n * q <= n * (-1)
  BY <1>1
<1>5. q \in {0, 1, 2}
  BY <1>1, <1>2, <1>3, <1>4
<1>6. r = IF a < n THEN a ELSE IF a < 2 * n THEN a - n ELSE 0
  BY <1>1, <1>5
<1> QED BY <1>6 DEF r

\* A rotation gives each index to one leaf.
LEMMA TurnedIndex ==
  ASSUME NEW n \in Nat, n > 0, NEW step \in {1, -1}, NEW i \in 0..(n - 1)
  PROVE  (i - step + n) % n = IF step = 1 THEN (IF i = 0 THEN n - 1 ELSE i - 1)
                                         ELSE (IF i = n - 1 THEN 0 ELSE i + 1)
<1> DEFINE a == i - step + n
<1>1. a \in Nat /\ a <= 2 * n
  OBVIOUS
<1>2. a = IF step = 1 THEN i - 1 + n ELSE i + 1 + n
  OBVIOUS
<1> HIDE DEF a
<1>3. a % n = IF a < n THEN a ELSE IF a < 2 * n THEN a - n ELSE 0
  BY <1>1, ModTurn
<1>4. a % n = IF step = 1 THEN (IF i = 0 THEN n - 1 ELSE i - 1)
                          ELSE (IF i = n - 1 THEN 0 ELSE i + 1)
  <2> DEFINE m == a % n
  <2> HIDE DEF m
  <2>1. m = IF a < n THEN a ELSE IF a < 2 * n THEN a - n ELSE 0
    BY <1>3 DEF m
  <2>2. m = IF step = 1 THEN (IF i = 0 THEN n - 1 ELSE i - 1)
                        ELSE (IF i = n - 1 THEN 0 ELSE i + 1)
    BY <1>2, <2>1
  <2> QED BY <2>2 DEF m
<1> QED BY <1>4 DEF a

\* rotate_clockwise and rotate_counter_clockwise permute the panes.
LEMMA Rotation ==
  ASSUME NEW at, NEW split, IsTree(at, split), IsFiniteSet(DOMAIN at), NEW step \in {1, -1},
         NEW n, n = Cardinality(DOMAIN at),
         NEW to, to = [p \in DOMAIN at |-> PaneAt(at, (Index(at, p) - step + n) % n)]
  PROVE  /\ to \in [DOMAIN at -> DOMAIN at]
         /\ \A p, q \in DOMAIN at : to[p] = to[q] => p = q
         /\ \A p \in DOMAIN at : \E q \in DOMAIN at : to[q] = p
<1> DEFINE I(p) == Index(at, p)
           N(i) == IF step = 1 THEN (IF i = 0 THEN n - 1 ELSE i - 1)
                               ELSE (IF i = n - 1 THEN 0 ELSE i + 1)
           B(i) == IF step = 1 THEN (IF i = n - 1 THEN 0 ELSE i + 1)
                               ELSE (IF i = 0 THEN n - 1 ELSE i - 1)
<1>1. n \in Nat
  BY FS_CardinalityType
<1>2. \A p \in DOMAIN at : I(p) \in 0..(n - 1)
  BY IndexType
<1>3. /\ \A i \in 0..(n - 1) : PaneAt(at, i) \in DOMAIN at /\ I(PaneAt(at, i)) = i
      /\ \A p \in DOMAIN at : PaneAt(at, I(p)) = p
  BY PaneAtIndex
<1>4. \A i \in 0..(n - 1) : N(i) \in 0..(n - 1) /\ B(i) \in 0..(n - 1) /\ N(B(i)) = i /\ B(N(i)) = i
  BY <1>1
<1>5. \A p \in DOMAIN at : (I(p) - step + n) % n = N(I(p))
  <2> TAKE p \in DOMAIN at
  <2> DEFINE i == I(p)
  <2>1. i \in 0..(n - 1) /\ n > 0
    BY <1>1, <1>2
  <2> HIDE DEF i
  <2>2. (i - step + n) % n = N(i)
    BY <1>1, <2>1, TurnedIndex
  <2> QED BY <2>2 DEF i
<1>6. \A p \in DOMAIN at : to[p] = PaneAt(at, (I(p) - step + n) % n)
  OBVIOUS
<1>7. DOMAIN to = DOMAIN at /\ to = [p \in DOMAIN to |-> to[p]]
  OBVIOUS
<1> HIDE DEF I, N, B
<1>8. \A p \in DOMAIN at : to[p] = PaneAt(at, N(I(p)))
  BY <1>5, <1>6
<1>9. \A p \in DOMAIN at : N(I(p)) \in 0..(n - 1)
  BY <1>2, <1>4
<1>10. \A p \in DOMAIN at : to[p] \in DOMAIN at /\ I(to[p]) = N(I(p))
  BY <1>3, <1>8, <1>9
<1>11. \A p, q \in DOMAIN at : to[p] = to[q] => p = q
  <2> TAKE p, q \in DOMAIN at
  <2>1. HAVE to[p] = to[q]
  <2>2. N(I(p)) = N(I(q))
    BY <1>10, <2>1
  <2>3. I(p) = I(q)
    BY <1>2, <1>4, <2>2
  <2> QED BY <1>3, <2>3
<1>12. \A p \in DOMAIN at : \E q \in DOMAIN at : to[q] = p
  <2> TAKE p \in DOMAIN at
  <2> DEFINE q == PaneAt(at, B(I(p)))
  <2>1. q \in DOMAIN at /\ I(q) = B(I(p))
    BY <1>2, <1>3, <1>4
  <2> HIDE DEF q
  <2>2. N(I(q)) = I(p)
    BY <1>2, <1>4, <2>1
  <2>3. to[q] = p
    BY <1>3, <1>8, <2>1, <2>2
  <2> QED BY <2>1, <2>3
<1> QED BY <1>7, <1>10, <1>11, <1>12

\* swap_active_with_index permutes them too.
LEMMA Swapping ==
  ASSUME NEW p \in InTab, NEW q \in InTab
  PROVE  /\ Swap(p, q) \in [InTab -> InTab]
         /\ \A a, b \in InTab : Swap(p, q)[a] = Swap(p, q)[b] => a = b
         /\ \A a \in InTab : \E b \in InTab : Swap(p, q)[b] = a
<1> DEFINE to == Swap(p, q)
<1>1. to \in [InTab -> InTab]
  BY DEF Swap
<1>2. \A a \in InTab : to[to[a]] = a
  BY DEF Swap
<1> HIDE DEF to
<1> QED BY <1>1, <1>2 DEF to

---------------------------------------------------------------------------
(* The actions keep the invariant.                                         *)

\* A new tab is good.
LEMMA InitGood == Init => IInv
<1> SUFFICES ASSUME Init PROVE IInv
  OBVIOUS
<1>1. PICK p \in Panes, s \in Sizes :
        tab = [at |-> One(p, <<>>), split |-> <<>>, size |-> s, before |-> NoSize,
               zoomed |-> NoPane, active |-> 0, shown |-> One(p, s), pty |-> One(p, s),
               hung |-> FALSE]
  BY DEF Init
<1>2. pending = NoSplit /\ moves = 0
  BY DEF Init
<1> DEFINE at == One(p, <<>>)
           sizes == One(p, s)
<1>3. DOMAIN at = {p} /\ at = [q \in {p} |-> at[q]] /\ at[p] = <<>>
  BY DEF One
<1>4. DOMAIN sizes = {p} /\ sizes = [q \in {p} |-> sizes[q]]
  BY DEF One
<1> HIDE DEF at, sizes
<1>5. /\ IsTab(tab) /\ tab.at = at /\ tab.split = <<>> /\ tab.zoomed = NoPane /\ tab.active = 0
      /\ tab.shown = sizes /\ tab.pty = sizes /\ tab.hung = FALSE
  BY <1>1 DEF IsTab, Fields, at, sizes
<1>6. DOMAIN tab.split = {} /\ tab.split = [q \in {} |-> tab.split[q]]
  BY <1>5
<1>7. IsTree(at, tab.split)
  <2>1. Positions(at, tab.split) = {<<>>}
    BY <1>3, <1>6 DEF Positions
  <2>2. \A q \in Path : IsPrefix(q, <<>>) => q = <<>>
    BY RootType, PrefixOrder
  <2>3. IsInjective(at)
    BY <1>3 DEF IsInjective
  <2> QED BY <1>3, <1>6, <2>1, <2>2, <2>3, RootType, TreeIff
<1>8. IsFiniteSet({p})
  BY FS_Singleton
<1>9. GoodTree(at, tab.split)
  <2>1. Shallow(tab.split)
    BY <1>6 DEF Shallow
  <2> QED BY <1>3, <1>6, <1>7, <1>8, <2>1 DEF GoodTree
<1>10. GoodTab(tab)
  <2>1. DOMAIN tab.at = {p} /\ GoodTree(tab.at, tab.split)
    BY <1>3, <1>5, <1>9
  <2>2. tab.shown = [q \in {p} |-> tab.shown[q]] /\ tab.pty = [q \in {p} |-> tab.pty[q]]
    BY <1>4, <1>5
  <2>3. /\ tab.shown = [q \in DOMAIN tab.at |-> tab.shown[q]]
        /\ tab.pty = [q \in DOMAIN tab.at |-> tab.pty[q]]
    BY <2>1, <2>2
  <2>4. IsTab(tab) /\ tab.zoomed \in DOMAIN tab.at \cup {NoPane} /\ tab.active \in Nat
    BY <1>5
  <2>5. tab.hung \in BOOLEAN
    BY <1>5, Zenon
  <2> QED BY <2>1, <2>3, <2>4, <2>5 DEF GoodTab
<1> QED BY <1>2, <1>10, TabAssumption DEF IInv

\* A whole split within the tab, of a pane that is in it.
LEMMA BeginSplitGood ==
  ASSUME GoodTab(tab), NEW p \in InTab, NEW r \in Requests, BeginSplit(p, r)
  PROVE  GoodTab(tab') /\ pending'.pane = p /\ pending'.request = r
  BY UnzoomedGood DEF BeginSplit

\* The end of Domain::split_pane.
LEMMA EndSplitGood ==
  ASSUME IInv, NEW new \in Panes, EndSplit(new)
  PROVE  GoodTab(tab') /\ pending' = NoSplit
<1> DEFINE p == pending.pane
           r == pending.request
<1>1. /\ pending' = NoSplit /\ new \notin InTab /\ r \in Requests
      /\ tab' = IF p \notin InTab \/ Refused(tab, p, r) THEN tab
                ELSE Inserted(tab, p, r, new, pending.size, pending.size)
  BY DEF EndSplit, IInv
<1>2. GoodTab(tab)
  BY DEF IInv
<1> HIDE DEF p, r
<1> QED BY <1>1, <1>2, InsertedGood DEF InTab

\* split_pane with a pane moved within the tab.
LEMMA MoveSplitGood ==
  ASSUME GoodTab(tab), NEW p \in InTab, NEW source \in InTab, NEW r \in Requests,
         MoveSplit(p, source, r)
  PROVE  GoodTab(tab')
<1> DEFINE open == IF r.top THEN tab ELSE Unzoomed(tab)
           kill == {source}
           cut == Removed(open, kill)
<1>1. GoodTab(open) /\ open.at = tab.at
  BY UnzoomedGood
<1>2. /\ p # source
      /\ tab' = IF open.hung THEN open ELSE IF Refused(cut, p, r) THEN cut
                ELSE Inserted(cut, p, r, source, tab.shown[source], tab.pty[source])
  BY DEF MoveSplit
<1> HIDE DEF open
<1>3. source \in DOMAIN open.at /\ p \in DOMAIN open.at /\ DOMAIN tab.at \subseteq Panes
  BY <1>1 DEF InTab, GoodTab, GoodTree
<1>4. GoodTab(cut) /\ DOMAIN cut.at = DOMAIN Walked(open, kill).tab.at
  <2>1. kill \subseteq DOMAIN open.at
    BY <1>3
  <2> HIDE DEF kill, cut
  <2>2. cut = Removed(open, kill)
    BY DEF cut
  <2>3. GoodTab(Removed(open, kill)) /\ Removed(open, kill).at = Walked(open, kill).tab.at
    BY <1>1, <2>1, RemovedGood, RemovedFields
  <2> QED BY <2>2, <2>3
<1>5. DOMAIN Walked(open, kill).tab.at = DOMAIN open.at \ {source}
  BY <1>1, <1>3, WalkedOne
<1> HIDE DEF cut, kill
<1>6. p \in DOMAIN cut.at /\ source \notin DOMAIN cut.at /\ source \in Panes
  BY <1>2, <1>3, <1>4, <1>5 DEF InTab
<1>7. GoodTab(Inserted(cut, p, r, source, tab.shown[source], tab.pty[source]))
  BY <1>4, <1>6, InsertedGood
<1> QED BY <1>1, <1>2, <1>4, <1>7

\* flush_pane_pty_sizes changes no place.
LEMMA FlushGood ==
  ASSUME GoodTab(tab), Flush
  PROVE  GoodTab(tab')
<1> DEFINE sizes == IF tab.zoomed # NoPane THEN One(tab.zoomed, tab.size) ELSE SlotsOf(tab)
<1>1. tab' = Told(tab, sizes)
  BY DEF Flush
<1>2. DOMAIN sizes \subseteq DOMAIN tab.at
  <2>1. CASE tab.zoomed # NoPane
    <3>1. tab.zoomed \in DOMAIN tab.at
      BY <2>1 DEF GoodTab
    <3>2. DOMAIN One(tab.zoomed, tab.size) = {tab.zoomed}
      BY OneDomain
    <3> QED BY <2>1, <3>1, <3>2
  <2>2. CASE tab.zoomed = NoPane
    BY <2>2, SlotsDomain
  <2> QED BY <2>1, <2>2
<1> HIDE DEF sizes
<1> QED BY <1>1, <1>2, ToldGood

\* A split given other sides, and the cascade that follows.
LEMMA ChangedSplitGood ==
  ASSUME NEW tb, GoodTab(tb), NEW path \in DOMAIN tb.split, NEW n, IsSplit(n),
         NEW new, new = [tb EXCEPT !.split = Cascaded([tb.split EXCEPT ![path] = n], path)]
  PROVE  /\ GoodTab(new) /\ new.at = tb.at /\ new.active = tb.active /\ new.zoomed = tb.zoomed
         /\ new.size = tb.size /\ new.before = tb.before /\ new.hung = tb.hung
         /\ new.shown = tb.shown /\ new.pty = tb.pty
         /\ new.split = Cascaded([tb.split EXCEPT ![path] = n], path)
         /\ DOMAIN new.split = DOMAIN tb.split
<1> DEFINE split == [tb.split EXCEPT ![path] = n]
           casc == Cascaded(split, path)
<1>1. GoodTree(tb.at, split)
  <2>1. /\ DOMAIN split = DOMAIN tb.split /\ split = [p \in DOMAIN split |-> split[p]]
        /\ \A p \in DOMAIN split : IsSplit(split[p])
    BY DEF GoodTab, GoodTree
  <2> HIDE DEF split
  <2>2. IsTree(tb.at, split)
    BY <2>1, TreeDomain DEF GoodTab, GoodTree
  <2>3. Shallow(split)
    BY <2>1 DEF GoodTab, GoodTree, Shallow
  <2> QED BY <2>1, <2>2, <2>3 DEF GoodTab, GoodTree
<1>2. DOMAIN split = DOMAIN tb.split
  BY DEF GoodTab, GoodTree
<1> HIDE DEF split
<1>3. GoodTree(tb.at, casc) /\ DOMAIN casc = DOMAIN tb.split
  BY <1>1, <1>2, CascadedGood
<1>4. new = [tb EXCEPT !.split = casc]
  BY DEF split
<1> HIDE DEF casc
<1>5. /\ IsTab(new) /\ new.split = casc /\ new.at = tb.at /\ new.active = tb.active
      /\ new.zoomed = tb.zoomed /\ new.size = tb.size /\ new.before = tb.before
      /\ new.hung = tb.hung /\ new.shown = tb.shown /\ new.pty = tb.pty
  BY <1>4 DEF GoodTab, IsTab, Fields
<1>6. GoodTab(new)
  BY <1>3, <1>5 DEF GoodTab
<1> QED BY <1>3, <1>5, <1>6 DEF casc, split

\* A divider moved stays a split.
LEMMA ShiftedSplit ==
  ASSUME NEW n, IsSplit(n), NEW delta
  PROVE  IsSplit([n EXCEPT !.slot = Shift(n.dir, n.slot, delta)])
<1> DEFINE sl == Shift(n.dir, n.slot, delta)
           slot == [side \in Sides |-> n.slot[side]]
           d == n.dir
           new == [n EXCEPT !.slot = sl]
<1>1. sl = [side \in Sides |-> sl[side]]
  BY DEF Shift, Sides
<1>2. n = [dir |-> d, slot |-> slot] /\ d \in Axes
  BY DEF IsSplit
<1> HIDE DEF sl, slot, d
<1>3. new = [dir |-> d, slot |-> sl]
  BY <1>2
<1>4. new.dir = d /\ new.slot = sl
  BY <1>3
<1> HIDE DEF new
<1>5. IsSplit(new)
  BY <1>1, <1>2, <1>3, <1>4 DEF IsSplit
<1> QED BY <1>5 DEF new, sl

\* And so do the splits its cascade fits.
LEMMA MoveDividerGood ==
  ASSUME NEW tb, GoodTab(tb), NEW path \in DOMAIN tb.split, NEW delta
  PROVE  LET new == MoveDivider(tb, path, delta)
             n == tb.split[path]
             m == [n EXCEPT !.slot = Shift(n.dir, n.slot, delta)]
         IN  /\ GoodTab(new) /\ new.at = tb.at /\ new.active = tb.active /\ new.zoomed = tb.zoomed
             /\ new.size = tb.size /\ new.before = tb.before /\ new.hung = tb.hung
             /\ new.shown = tb.shown /\ new.pty = tb.pty
             /\ new.split = Cascaded([tb.split EXCEPT ![path] = m], path)
             /\ DOMAIN new.split = DOMAIN tb.split
<1> DEFINE n == tb.split[path]
           m == [n EXCEPT !.slot = Shift(n.dir, n.slot, delta)]
           new == MoveDivider(tb, path, delta)
<1>1. IsSplit(n)
  BY DEF GoodTab, GoodTree
<1>2. [tb.split EXCEPT ![path].slot = Shift(n.dir, n.slot, delta)] = [tb.split EXCEPT ![path] = m]
  OBVIOUS
<1>3. new = [tb EXCEPT !.split = Cascaded([tb.split EXCEPT ![path] = m], path)]
  BY <1>2 DEF MoveDivider
<1>4. IsSplit(m)
  BY <1>1, ShiftedSplit
<1> HIDE DEF n, m, new
<1>5. /\ GoodTab(new) /\ new.at = tb.at /\ new.active = tb.active /\ new.zoomed = tb.zoomed
      /\ new.size = tb.size /\ new.before = tb.before /\ new.hung = tb.hung
      /\ new.shown = tb.shown /\ new.pty = tb.pty
      /\ new.split = Cascaded([tb.split EXCEPT ![path] = m], path)
      /\ DOMAIN new.split = DOMAIN tb.split
  BY <1>3, <1>4, ChangedSplitGood
<1> QED BY <1>5 DEF new, m, n

\* resize_split_by_visual: the tree and the ptys stay.
LEMMA DragGood ==
  ASSUME GoodTab(tab), NEW path \in DOMAIN tab.split, NEW d, Drag(path, d)
  PROVE  /\ GoodTab(tab') /\ tab'.at = tab.at /\ tab'.active = tab.active
         /\ tab'.size = tab.size /\ tab'.zoomed = tab.zoomed /\ tab.zoomed = NoPane
         /\ LET new == MoveDivider(tab, path, d)
            IN  /\ tab'.split = new.split
                /\ tab'.shown = Updated(tab.shown, CascadedSlots(new, path))
<1> DEFINE new == MoveDivider(tab, path, d)
           sizes == CascadedSlots(new, path)
<1>1. /\ GoodTab(new) /\ new.at = tab.at /\ new.active = tab.active /\ new.zoomed = tab.zoomed
      /\ new.size = tab.size /\ new.hung = tab.hung /\ new.shown = tab.shown /\ new.pty = tab.pty
  BY MoveDividerGood, ZenonT(60)
<1>2. tab' = [new EXCEPT !.shown = Updated(@, sizes)] /\ tab.zoomed = NoPane
  BY DEF Drag
<1>3. DOMAIN sizes \subseteq DOMAIN new.at
  BY SlotsDomain
<1> HIDE DEF new, sizes
<1>4. /\ IsTab(tab') /\ tab'.at = new.at /\ tab'.split = new.split /\ tab'.active = new.active
      /\ tab'.zoomed = new.zoomed /\ tab'.hung = new.hung /\ tab'.pty = new.pty
      /\ tab'.size = new.size /\ tab'.shown = Updated(new.shown, sizes)
  BY <1>1, <1>2 DEF GoodTab, IsTab, Fields
<1>5. Updated(new.shown, sizes) = [p \in DOMAIN new.at |-> Updated(new.shown, sizes)[p]]
  <2>1. DOMAIN new.shown = DOMAIN new.at
    BY <1>1 DEF GoodTab
  <2> QED BY <1>3, <2>1, UpdatedType
<1>6. GoodTab(tab')
  BY <1>1, <1>4, <1>5 DEF GoodTab
<1> QED BY <1>1, <1>2, <1>4, <1>6 DEF new, sizes

\* adjust_pane_size keeps the tree.
LEMMA AdjustPaneSizeGood ==
  ASSUME GoodTab(tab), NEW ax \in Axes, NEW d, AdjustPaneSize(ax, d)
  PROVE  GoodTab(tab') /\ tab'.at = tab.at /\ tab'.active = tab.active /\ tab'.zoomed = tab.zoomed
<1>1. PICK path \in DOMAIN tab.split :
        LET new == MoveDivider(tab, path, d)
        IN  tab' = Told(new, CascadedSlots(new, path))
  BY DEF AdjustPaneSize
<1> DEFINE new == MoveDivider(tab, path, d)
           sizes == CascadedSlots(new, path)
<1>2. /\ GoodTab(new) /\ new.at = tab.at /\ new.active = tab.active /\ new.zoomed = tab.zoomed
  BY MoveDividerGood
<1>3. DOMAIN sizes \subseteq DOMAIN new.at
  BY SlotsDomain
<1>4. tab' = Told(new, sizes)
  BY <1>1
<1> HIDE DEF new, sizes
<1>5. IsTab(new)
  BY <1>2 DEF GoodTab
<1> QED BY <1>2, <1>3, <1>4, <1>5, ToldGood, ToldFields

\* toggle_pane_split_direction keeps the tree.
LEMMA ToggleSplitDirectionGood ==
  ASSUME GoodTab(tab), ToggleSplitDirection
  PROVE  GoodTab(tab') /\ tab'.at = tab.at /\ tab'.active = tab.active /\ tab'.zoomed = tab.zoomed
<1> DEFINE path == Front(tab.at[ActivePane(tab)])
           n == tab.split[path]
           turned == IF CanTurn(n.dir, n.slot)
                     THEN [dir |-> Turned(n.dir), slot |-> Turn(n.dir, n.slot)] ELSE n
           new == [tab EXCEPT !.split = Cascaded([@ EXCEPT ![path] = turned], path)]
           sizes == CascadedSlots(new, path)
<1>1. path \in DOMAIN tab.split
  <2> DEFINE a == ActivePane(tab)
             x == tab.at[a]
  <2>1. a \in DOMAIN tab.at /\ <<>> \in DOMAIN tab.split
    BY ActivePaneType DEF ToggleSplitDirection
  <2>2. IsTree(tab.at, tab.split)
    BY DEF GoodTab, GoodTree
  <2> HIDE DEF a
  <2>3. x \in Path \ DOMAIN tab.split /\ x \in Positions(tab.at, tab.split)
    BY <2>1, <2>2, TreeIff DEF Positions
  <2> HIDE DEF x
  <2>4. x # <<>>
    BY <2>1, <2>3
  <2>5. Front(x) \in Path /\ Last(x) \in Sides /\ x = Append(Front(x), Last(x)) /\ Len(Front(x)) # Len(x)
    BY <2>3, <2>4, ParentType, PathType
  <2>6. IsPrefix(Front(x), x)
    BY <2>3, <2>5, ChildOrder
  <2> QED BY <2>2, <2>3, <2>5, <2>6, TreeIff DEF x, a
<1>2. tab' = Told(new, sizes)
  BY DEF ToggleSplitDirection
<1>3. IsSplit(turned)
  <2>1. IsSplit(n)
    BY <1>1 DEF GoodTab, GoodTree
  <2> DEFINE sl == Turn(n.dir, n.slot)
             d == Turned(n.dir)
             m == [dir |-> d, slot |-> sl]
  <2>2. sl = [side \in Sides |-> sl[side]] /\ d \in Axes
    BY DEF Turn, Sides, Turned, Axes
  <2> HIDE DEF sl, d
  <2>3. m.dir = d /\ m.slot = sl
    OBVIOUS
  <2>4. IsSplit(m)
    BY <2>2, <2>3 DEF IsSplit
  <2>5. turned = m \/ turned = n
    BY DEF m, d, sl
  <2> HIDE DEF turned, m, n
  <2> QED BY <2>1, <2>4, <2>5
<1>4. new = [tab EXCEPT !.split = Cascaded([tab.split EXCEPT ![path] = turned], path)]
  OBVIOUS
<1> HIDE DEF path, turned, new
<1>5. /\ GoodTab(new) /\ new.at = tab.at /\ new.active = tab.active /\ new.zoomed = tab.zoomed
  BY <1>1, <1>3, <1>4, ChangedSplitGood
<1>6. DOMAIN sizes \subseteq DOMAIN new.at
  BY SlotsDomain
<1> HIDE DEF sizes
<1>7. IsTab(new)
  BY <1>5 DEF GoodTab
<1> QED BY <1>2, <1>5, <1>6, <1>7, ToldGood, ToldFields

\* The rotations keep the tree.
LEMMA RotateGood ==
  ASSUME GoodTab(tab), NEW step \in {1, -1}, Rotate(step)
  PROVE  /\ GoodTab(tab') /\ DOMAIN tab'.at = DOMAIN tab.at /\ tab'.active = tab.active
         /\ tab'.zoomed = tab.zoomed
<1> DEFINE at == tab.at
           n == Cardinality(DOMAIN at)
           to == [p \in DOMAIN at |-> PaneAt(at, (Index(at, p) - step + n) % n)]
           mid == [tab EXCEPT !.at = Moved(tab.at, to)]
           new == Told(mid, SlotsOf(mid))
<1>1. tab' = new
  BY DEF Rotate, InTab
<1>2. IsTree(at, tab.split) /\ IsFiniteSet(DOMAIN at)
  BY DEF GoodTab, GoodTree
<1>3. n = Cardinality(DOMAIN at) /\ to = [p \in DOMAIN at |-> PaneAt(at, (Index(at, p) - step + n) % n)]
  OBVIOUS
<1> HIDE DEF at, n, to
<1>4. /\ to \in [DOMAIN at -> DOMAIN at]
      /\ \A p, q \in DOMAIN at : to[p] = to[q] => p = q
      /\ \A p \in DOMAIN at : \E q \in DOMAIN at : to[q] = p
  BY <1>2, <1>3, Rotation
<1>5. /\ to \in [DOMAIN tab.at -> DOMAIN tab.at]
      /\ \A p, q \in DOMAIN tab.at : to[p] = to[q] => p = q
      /\ \A p \in DOMAIN tab.at : \E q \in DOMAIN tab.at : to[q] = p
  BY <1>4 DEF at
<1>6. /\ GoodTab(new) /\ DOMAIN new.at = DOMAIN tab.at
      /\ new.active = tab.active /\ new.zoomed = tab.zoomed
  BY <1>5, MovedGood
<1> HIDE DEF new
<1> QED BY <1>1, <1>6

\* PaneSelector keeps the tree.
LEMMA PaneSelectGood ==
  ASSUME GoodTab(tab), NEW i \in 0..(Cardinality(InTab) - 1), NEW keep, PaneSelect(i, keep)
  PROVE  /\ GoodTab(tab') /\ DOMAIN tab'.at = DOMAIN tab.at
         /\ tab'.active \in {tab.active, i}
<1> DEFINE open == Unzoomed(tab)
           p == ActivePane(open)
           q == PaneAt(open.at, i)
           to == Swap(p, q)
           new == [open EXCEPT !.at = Moved(open.at, to)]
           told == Told(new, SlotsOf(new))
           swapped == IF p = NoPane THEN open
                      ELSE [told EXCEPT !.active = IF keep THEN i ELSE @]
<1>1. tab' = IF open.hung THEN open ELSE IF tab.zoomed = NoPane THEN swapped ELSE ZoomToggled(swapped)
  BY DEF PaneSelect, SwappedActive
<1>2. GoodTab(open) /\ open.at = tab.at /\ open.active = tab.active
  BY UnzoomedGood
<1>3. IsTree(open.at, open.split) /\ IsFiniteSet(DOMAIN open.at) /\ i \in Nat
  <2>1. Cardinality(InTab) \in Nat
    BY FS_CardinalityType DEF GoodTab, GoodTree, InTab
  <2> QED BY <1>2, <2>1 DEF GoodTab, GoodTree
<1> HIDE DEF open
<1>4. GoodTab(swapped) /\ DOMAIN swapped.at = DOMAIN tab.at /\ swapped.active \in {tab.active, i}
  <2>1. CASE p = NoPane
    BY <1>2, <2>1
  <2>2. CASE p # NoPane
    <3>1. p \in InTab
      BY <1>2, <2>2, ActivePaneType DEF InTab
    <3>2. q \in InTab
      <4>1. \A j \in 0..(Cardinality(DOMAIN open.at) - 1) : PaneAt(open.at, j) \in DOMAIN open.at
        BY <1>3, PaneAtIndex
      <4>2. i \in 0..(Cardinality(DOMAIN open.at) - 1)
        BY <1>2 DEF InTab
      <4> QED BY <1>2, <4>1, <4>2 DEF InTab
    <3> HIDE DEF p, q
    <3>3. /\ to \in [InTab -> InTab]
          /\ \A a, b \in InTab : to[a] = to[b] => a = b
          /\ \A a \in InTab : \E b \in InTab : to[b] = a
      BY <3>1, <3>2, Swapping
    <3> HIDE DEF to
    <3>4. DOMAIN open.at = InTab
      BY <1>2 DEF InTab
    <3>5. /\ to \in [DOMAIN open.at -> DOMAIN open.at]
          /\ \A a, b \in DOMAIN open.at : to[a] = to[b] => a = b
          /\ \A a \in DOMAIN open.at : \E b \in DOMAIN open.at : to[b] = a
      BY <3>3, <3>4
    <3>6. GoodTab(told) /\ DOMAIN told.at = DOMAIN open.at /\ told.active = open.active
      BY <1>2, <3>5, MovedGood
    <3> HIDE DEF told
    <3> DEFINE active == IF keep THEN i ELSE told.active
    <3>7. swapped = [told EXCEPT !.active = active]
      BY <2>2
    <3>8. active \in {tab.active, i} /\ active \in Nat
      BY <1>2, <1>3, <3>6 DEF GoodTab
    <3> HIDE DEF swapped, active
    <3>9. /\ IsTab(swapped) /\ swapped.at = told.at /\ swapped.split = told.split
          /\ swapped.active = active /\ swapped.zoomed = told.zoomed /\ swapped.hung = told.hung
          /\ swapped.shown = told.shown /\ swapped.pty = told.pty
      BY <3>6, <3>7 DEF GoodTab, IsTab, Fields
    <3>10. GoodTab(swapped)
      BY <3>6, <3>8, <3>9 DEF GoodTab
    <3> QED BY <3>4, <3>6, <3>8, <3>9, <3>10 DEF InTab
  <2> QED BY <2>1, <2>2
<1> HIDE DEF swapped
<1>5. /\ GoodTab(ZoomToggled(swapped)) /\ ZoomToggled(swapped).at = swapped.at
      /\ ZoomToggled(swapped).active = swapped.active
  BY <1>4, ZoomToggledGood
<1> QED BY <1>1, <1>2, <1>4, <1>5

\* Another active index is no other tree.
LEMMA ActiveGood ==
  ASSUME NEW tb, GoodTab(tb), NEW i \in Nat, NEW new, new = [tb EXCEPT !.active = i]
  PROVE  GoodTab(new) /\ new.at = tb.at /\ new.active = i /\ new.zoomed = tb.zoomed
<1>1. /\ IsTab(new) /\ new.at = tb.at /\ new.split = tb.split /\ new.active = i
      /\ new.zoomed = tb.zoomed /\ new.hung = tb.hung /\ new.shown = tb.shown /\ new.pty = tb.pty
  BY DEF GoodTab, IsTab, Fields
<1> QED BY <1>1 DEF GoodTab

\* set_active_pane keeps the tree.
LEMMA FocusPaneGood ==
  ASSUME GoodTab(tab), NEW p \in InTab, FocusPane(p)
  PROVE  /\ GoodTab(tab') /\ tab'.at = tab.at /\ tab'.active = Index(tab.at, p)
         /\ Index(tab.at, p) \in 0..(Cardinality(InTab) - 1)
<1> DEFINE open == Unzoomed(tab)
           i == Index(tab.at, p)
<1>1. tab' = [open EXCEPT !.active = i]
  BY DEF FocusPane
<1>2. GoodTab(open) /\ open.at = tab.at
  BY UnzoomedGood
<1>3. IsTree(tab.at, tab.split) /\ IsFiniteSet(DOMAIN tab.at) /\ p \in DOMAIN tab.at
  BY DEF GoodTab, GoodTree, InTab
<1>4. i \in 0..(Cardinality(InTab) - 1) /\ i \in Nat
  BY <1>3, IndexType DEF InTab
<1> HIDE DEF open, i
<1>5. GoodTab(tab') /\ tab'.at = open.at /\ tab'.active = i
  BY <1>1, <1>2, <1>4, ActiveGood
<1> QED BY <1>2, <1>4, <1>5 DEF i

\* No step other than a split breaks the tree or touches a pending split.
LEMMA MovesGood ==
  ASSUME IInv, Moves
  PROVE  GoodTab(tab') /\ pending' = pending
<1>1. GoodTab(tab)
  BY DEF IInv
<1>2. CASE \E p \in InTab, q \in InTab, r \in Requests : MoveSplit(p, q, r)
  BY <1>1, <1>2, MoveSplitGood DEF MoveSplit
<1>3. CASE \E kill \in (SUBSET InTab) \ {{}} : RemovePanes(kill)
  BY <1>1, <1>3, RemovedGood DEF RemovePanes, InTab
<1>4. CASE \E s \in Sizes : Resize(s) \/ ResizeVisual(s)
  BY <1>1, <1>4, ResizedGood, ReshapedGood DEF Resize, ResizeVisual
<1>5. CASE Flush
  BY <1>1, <1>5, FlushGood DEF Flush
<1>6. CASE \E path \in DOMAIN tab.split, d \in Deltas : Drag(path, d)
  BY <1>1, <1>6, DragGood DEF Drag
<1>7. CASE \E ax \in Axes, d \in Deltas : AdjustPaneSize(ax, d)
  BY <1>1, <1>7, AdjustPaneSizeGood DEF AdjustPaneSize
<1>8. CASE ToggleSplitDirection
  BY <1>1, <1>8, ToggleSplitDirectionGood DEF ToggleSplitDirection
<1>9. CASE \E step \in {1, -1} : Rotate(step)
  BY <1>1, <1>9, RotateGood DEF Rotate
<1>10. CASE \E i \in 0..Cardinality(InTab) - 1 : SetActiveIndex(i)
  <2>1. PICK i \in 0..Cardinality(InTab) - 1 : SetActiveIndex(i)
    BY <1>10
  <2>2. i \in Nat
    <3>1. Cardinality(InTab) \in Nat
      BY <1>1, FS_CardinalityType DEF GoodTab, GoodTree, InTab
    <3> QED BY <3>1
  <2>3. tab' = [tab EXCEPT !.active = i] /\ pending' = pending
    BY <2>1 DEF SetActiveIndex
  <2> QED BY <1>1, <2>2, <2>3, ActiveGood
<1>11. CASE ToggleZoom
  BY <1>1, <1>11, ZoomToggledGood DEF ToggleZoom
<1>12. CASE \E i \in 0..Cardinality(InTab) - 1, keep \in BOOLEAN : PaneSelect(i, keep)
  BY <1>1, <1>12, PaneSelectGood DEF PaneSelect
<1>13. CASE \E p \in InTab : FocusPane(p)
  BY <1>1, <1>13, FocusPaneGood DEF FocusPane
<1> QED BY <1>2, <1>3, <1>4, <1>5, <1>6, <1>7, <1>8, <1>9, <1>10, <1>11, <1>12, <1>13 DEF Moves, Focusing

(* The inductive invariant: whatever split_pane, remove_pane_if, the         *)
(* resizes, dividers, rotations, swaps, zooms and focus changes do, the tab  *)
(* is one binary tree of its panes and its records are of those panes alone. *)
THEOREM Invariant == Spec => []IInv
<1>1. Init => IInv
  BY InitGood
<1>2. ASSUME IInv, [Next]_vars PROVE IInv'
  <2>0. /\ GoodTab(tab) /\ moves \in 0..MaxMoves /\ MaxMoves \in Nat
        /\ pending # NoSplit => pending.pane \in Panes /\ pending.request \in Requests
    BY <1>2, TabAssumption DEF IInv
  <2>1. CASE UNCHANGED vars
    <3>1. GoodTab(tab') /\ pending' = pending /\ moves' = moves
      BY <2>0, <2>1 DEF vars
    <3> QED BY <2>0, <3>1 DEF IInv
  <2>2. CASE \E p \in InTab, r \in Requests : BeginSplit(p, r) /\ UNCHANGED moves
    <3>1. PICK p \in InTab, r \in Requests : BeginSplit(p, r) /\ UNCHANGED moves
      BY <2>2
    <3>2. GoodTab(tab') /\ pending'.pane = p /\ pending'.request = r
      BY <2>0, <3>1, BeginSplitGood
    <3>3. p \in Panes
      BY <2>0 DEF GoodTab, GoodTree, InTab
    <3> QED BY <2>0, <3>1, <3>2, <3>3 DEF IInv
  <2>3. CASE \E p \in Panes : EndSplit(p) /\ UNCHANGED moves
    <3>1. GoodTab(tab') /\ pending' = NoSplit /\ moves' = moves
      BY <1>2, <2>3, EndSplitGood
    <3> QED BY <2>0, <3>1 DEF IInv
  <2>4. CASE moves < MaxMoves /\ Moves /\ moves' = moves + 1
    <3>1. GoodTab(tab') /\ pending' = pending
      BY <1>2, <2>4, MovesGood
    <3>2. moves' \in 0..MaxMoves
      BY <2>0, <2>4
    <3> QED BY <2>0, <3>1, <3>2 DEF IInv
  <2> QED BY <1>2, <2>1, <2>2, <2>3, <2>4 DEF Next, Splits
<1> QED BY <1>1, <1>2, PTL DEF Spec

(* So the tab always is what TypeOK says: no step of TabInner gives a pane   *)
(* two leaves or two panes one, breaks the tree, keeps a pane zoomed that it *)
(* removed, or a size for one. Which panes are in the tab it does not say.   *)
THEOREM TypeCorrect == Spec => []TypeOK
<1>1. IInv => TypeOK
  <2> SUFFICES ASSUME IInv PROVE TypeOK
    OBVIOUS
  <2>1. \A p \in DOMAIN tab.split : tab.split[p].dir \in Axes
    BY DEF IInv, GoodTab, GoodTree, IsSplit
  <2>2. DOMAIN tab.shown = InTab /\ DOMAIN tab.pty = InTab
    BY DEF IInv, GoodTab, InTab
  <2>3. /\ InTab \subseteq Panes /\ IsFiniteSet(InTab) /\ IsTree(tab.at, tab.split)
        /\ tab.zoomed \in InTab \cup {NoPane} /\ tab.active \in Nat /\ tab.hung \in BOOLEAN
    BY DEF IInv, GoodTab, GoodTree, InTab
  <2>4. /\ pending # NoSplit => pending.pane \in Panes /\ pending.request \in Requests
        /\ moves \in 0..MaxMoves
    BY DEF IInv
  <2> QED BY <2>1, <2>2, <2>3, <2>4 DEF TypeOK
<1> QED BY <1>1, Invariant, PTL

---------------------------------------------------------------------------
(* The active index.                                                       *)

\* Where two positions part.
LEMMA BeforeWitness ==
  ASSUME NEW p \in Path, NEW q \in Path, NEW i \in 1..Len(p), i \in 1..Len(q),
         p[i] = "left", q[i] = "right", \A j \in 1..(i - 1) : p[j] = q[j]
  PROVE  Before(p, q)
  BY BeforeElements

\* Lifting keeps the order of what stays.
LEMMA LiftedBefore ==
  ASSUME NEW up \in Path, NEW side \in Sides, NEW x \in Path, NEW y \in Path,
         IsPrefix(Append(up, Other(side)), x) \/ ~ IsPrefix(up, x),
         IsPrefix(Append(up, Other(side)), y) \/ ~ IsPrefix(up, y),
         Before(x, y)
  PROVE  Before(Lifted(x, up, side), Lifted(y, up, side))
<1> DEFINE c == Append(up, Other(side))
           lx == Lifted(x, up, side)
           ly == Lifted(y, up, side)
           n == Len(up)
<1>1. /\ n \in Nat /\ Len(x) \in Nat /\ Len(y) \in Nat /\ c \in Path /\ Len(c) = n + 1
      /\ \A i \in 1..n : c[i] = up[i]
  BY PathType, OtherType, ChildType
<1>2. PICK i \in 1..Len(x) : /\ i \in 1..Len(y) /\ x[i] = "left" /\ y[i] = "right"
                             /\ \A j \in 1..(i - 1) : x[j] = y[j]
  BY BeforeElements
<1>3. ASSUME NEW z \in Path, IsPrefix(c, z)
      PROVE  /\ Lifted(z, up, side) \in Path /\ Len(Lifted(z, up, side)) = Len(z) - 1 /\ Len(z) >= n + 1
             /\ \A k \in 1..(Len(z) - 1) :
                  Lifted(z, up, side)[k] = IF k <= n THEN z[k] ELSE z[k + 1]
             /\ \A k \in 1..(n + 1) : z[k] = c[k]
  <2>1. /\ Lifted(z, up, side) \in Path /\ Len(Lifted(z, up, side)) = Len(z) - 1
        /\ \A k \in 1..(Len(z) - 1) :
             Lifted(z, up, side)[k] = IF k <= n THEN z[k] ELSE z[k + 1]
    BY <1>3, LiftedBelow
  <2>2. Len(c) <= Len(z) /\ \A k \in 1..Len(c) : c[k] = z[k]
    BY <1>1, <1>3, PrefixElements
  <2> QED BY <1>1, <2>1, <2>2
<1>4. ASSUME NEW z \in Path, ~ IsPrefix(up, z)
      PROVE  Lifted(z, up, side) = z
  BY <1>4, LiftedElsewhere
<1>5. ASSUME NEW z \in Path, ~ IsPrefix(up, z), NEW w \in Path, IsPrefix(c, w), NEW k \in 1..Len(z),
             k \in 1..Len(w), \A j \in 1..(k - 1) : z[j] = w[j]
      PROVE  k <= n
  <2> SUFFICES ASSUME k > n PROVE FALSE
    BY <1>1
  <2>1. \A j \in 1..n : z[j] = up[j]
    BY <1>1, <1>3, <1>5
  <2>2. Len(z) \in Nat /\ n <= Len(z)
    BY <1>1, PathType
  <2> QED BY <1>5, <2>1, <2>2, PrefixElements
<1> HIDE DEF c, lx, ly, n
<1>6. CASE IsPrefix(c, x) /\ IsPrefix(c, y)
  <2>1. /\ lx \in Path /\ Len(lx) = Len(x) - 1
        /\ \A k \in 1..(Len(x) - 1) : lx[k] = IF k <= n THEN x[k] ELSE x[k + 1]
        /\ \A k \in 1..(n + 1) : x[k] = c[k]
    BY <1>3, <1>6 DEF lx
  <2>2. /\ ly \in Path /\ Len(ly) = Len(y) - 1
        /\ \A k \in 1..(Len(y) - 1) : ly[k] = IF k <= n THEN y[k] ELSE y[k + 1]
        /\ \A k \in 1..(n + 1) : y[k] = c[k]
    BY <1>3, <1>6 DEF ly
  <2>3. i > n + 1
    BY <1>1, <1>2, <2>1, <2>2
  <2> DEFINE m == i - 1
  <2>4. m \in 1..Len(lx) /\ m \in 1..Len(ly) /\ m > n /\ i = m + 1
    BY <1>1, <1>2, <2>1, <2>2, <2>3
  <2> HIDE DEF m
  <2>5. lx[m] = "left" /\ ly[m] = "right"
    BY <1>1, <1>2, <2>1, <2>2, <2>4
  <2>6. \A j \in 1..(m - 1) : lx[j] = ly[j]
    <3> TAKE j \in 1..(m - 1)
    <3>0. j \in 1..(Len(x) - 1) /\ j \in 1..(Len(y) - 1) /\ j \in Nat
      BY <1>1, <2>1, <2>2, <2>4
    <3>1. CASE j <= n
      <4>1. lx[j] = x[j] /\ ly[j] = y[j]
        BY <2>1, <2>2, <3>0, <3>1
      <4>2. j \in 1..(n + 1)
        BY <1>1, <3>0, <3>1
      <4> QED BY <2>1, <2>2, <4>1, <4>2
    <3>2. CASE ~ (j <= n)
      <4>1. lx[j] = x[j + 1] /\ ly[j] = y[j + 1]
        BY <2>1, <2>2, <3>0, <3>2
      <4> DEFINE k == j + 1
      <4>2. k \in 1..(i - 1)
        BY <2>4, <3>0
      <4> HIDE DEF k
      <4>3. x[k] = y[k]
        BY <1>2, <4>2
      <4> QED BY <4>1, <4>3 DEF k
    <3> QED BY <3>1, <3>2
  <2>7. Before(lx, ly)
    BY <2>1, <2>2, <2>4, <2>5, <2>6, BeforeWitness
  <2> QED BY <2>7 DEF lx, ly
<1>7. CASE IsPrefix(c, x) /\ ~ IsPrefix(up, y)
  <2>1. /\ lx \in Path /\ Len(lx) = Len(x) - 1 /\ Len(x) >= n + 1
        /\ \A k \in 1..(Len(x) - 1) : lx[k] = IF k <= n THEN x[k] ELSE x[k + 1]
    BY <1>3, <1>7 DEF lx
  <2>2. ly = y
    BY <1>4, <1>7 DEF ly
  <2>3. i <= n
    BY <1>2, <1>5, <1>7
  <2>4. i \in 1..Len(lx) /\ lx[i] = x[i] /\ \A j \in 1..(i - 1) : lx[j] = x[j]
    BY <1>1, <1>2, <2>1, <2>3, SMTT(30)
  <2>5. Before(lx, ly)
    BY <1>2, <2>1, <2>2, <2>4, BeforeWitness
  <2> QED BY <2>5 DEF lx, ly
<1>8. CASE ~ IsPrefix(up, x) /\ IsPrefix(c, y)
  <2>1. /\ ly \in Path /\ Len(ly) = Len(y) - 1 /\ Len(y) >= n + 1
        /\ \A k \in 1..(Len(y) - 1) : ly[k] = IF k <= n THEN y[k] ELSE y[k + 1]
    BY <1>3, <1>8 DEF ly
  <2>2. lx = x
    BY <1>4, <1>8 DEF lx
  <2>3. i <= n
    BY <1>2, <1>5, <1>8
  <2>4. i \in 1..Len(ly) /\ ly[i] = y[i] /\ \A j \in 1..(i - 1) : ly[j] = y[j]
    BY <1>1, <1>2, <2>1, <2>3, SMTT(30)
  <2>5. Before(lx, ly)
    BY <1>2, <2>1, <2>2, <2>4, BeforeWitness
  <2> QED BY <2>5 DEF lx, ly
<1>9. CASE ~ IsPrefix(up, x) /\ ~ IsPrefix(up, y)
  <2>1. lx = x /\ ly = y
    BY <1>4, <1>9 DEF lx, ly
  <2> QED BY <2>1 DEF lx, ly
<1> QED BY <1>6, <1>7, <1>8, <1>9 DEF c

\* So the index of a pane that stays goes down by one if the removed one was before it.
LEMMA UnsplitIndex ==
  ASSUME NEW tb, GoodTab(tb), NEW p \in DOMAIN tb.at, tb.at[p] # <<>>,
         NEW q \in DOMAIN tb.at \ {p}
  PROVE  Index(UnsplitAt(tb, p), q) =
           IF Index(tb.at, p) < Index(tb.at, q) THEN Index(tb.at, q) - 1 ELSE Index(tb.at, q)
<1> DEFINE at == tb.at
           up == Front(at[p])
           side == Last(at[p])
           new == UnsplitAt(tb, p)
           B(r) == {s \in DOMAIN at : Before(at[s], at[r])}
           N(r) == {s \in DOMAIN new : Before(new[s], new[r])}
<1>1. IsTree(at, tb.split) /\ IsFiniteSet(DOMAIN at)
  BY DEF GoodTab, GoodTree
<1>2. DOMAIN new = DOMAIN at \ {p} /\ \A r \in DOMAIN new : new[r] = Lifted(at[r], up, side)
  BY DEF UnsplitAt
<1>3. IsTree(new, Sibling(tb, p))
  BY SiblingGood DEF GoodTree
<1>4. up \in DOMAIN tb.split /\ side \in Sides /\ up \in Path
  BY SiblingGood
<1>5. \A r \in DOMAIN at \ {p} :
        /\ at[r] \in Path
        /\ IsPrefix(Append(up, Other(side)), at[r]) \/ ~ IsPrefix(up, at[r])
  <2> TAKE r \in DOMAIN at \ {p}
  <2> DEFINE x == at[r]
  <2>1. x \in Positions(at, tb.split)
    BY DEF Positions
  <2>2. x # up
    BY <1>1, <1>4, TreeIff
  <2>3. x # at[p]
    BY <1>1 DEF IsTree, IsInjective
  <2>4. up = Front(at[p]) /\ side = Last(at[p])
    OBVIOUS
  <2> HIDE DEF x, up, side
  <2>5. x \in Path /\ (IsPrefix(Append(up, Other(side)), x) \/ ~ IsPrefix(up, x))
    BY <1>1, <2>1, <2>2, <2>3, <2>4, Survives
  <2> QED BY <2>5 DEF x
<1> HIDE DEF new, up, side
<1>6. \A r, s \in DOMAIN at \ {p} : Before(at[r], at[s]) => Before(new[r], new[s])
  BY <1>2, <1>4, <1>5, LiftedBefore
<1>7. \A r, s \in DOMAIN at \ {p} : Before(new[r], new[s]) => Before(at[r], at[s])
  <2> TAKE r, s \in DOMAIN at \ {p}
  <2>1. HAVE Before(new[r], new[s])
  <2>2. r # s /\ ~ Before(new[s], new[r])
    BY <1>2, <1>3, <2>1, LeavesOrdered
  <2>3. Before(at[r], at[s]) \/ Before(at[s], at[r])
    BY <1>1, <2>2, LeavesOrdered
  <2> QED BY <1>6, <2>2, <2>3
<1>8. N(q) = B(q) \ {p}
  BY <1>2, <1>6, <1>7
<1>9. Index(new, q) = Cardinality(N(q)) /\ Index(at, q) = Cardinality(B(q))
  BY DEF Index
<1>10. p \in B(q) <=> Index(at, p) < Index(at, q)
  BY <1>1, IndexOrder
<1>11. IsFiniteSet(B(q))
  BY <1>1, FS_Subset
<1> HIDE DEF N, B
<1>12. CASE p \in B(q)
  <2>1. Cardinality(B(q) \ {p}) = Cardinality(B(q)) - 1
    BY <1>11, <1>12, FS_RemoveElement
  <2> QED BY <1>8, <1>9, <1>10, <1>12, <2>1 DEF new
<1>13. CASE p \notin B(q)
  <2>1. B(q) \ {p} = B(q)
    BY <1>13
  <2> QED BY <1>8, <1>9, <1>10, <1>13, <2>1 DEF new
<1> QED BY <1>12, <1>13

\* One index removed lowers an active index at or above it.
LEMMA LessOne ==
  ASSUME NEW i \in Nat, NEW a \in Nat
  PROVE  Less(a, Cardinality({j \in {i} : j <= a})) =
           IF i <= a THEN (IF a = 0 THEN 0 ELSE a - 1) ELSE a
<1>1. CASE i <= a
  <2>1. {j \in {i} : j <= a} = {i}
    BY <1>1
  <2>2. Cardinality({i}) = 1
    BY FS_Singleton
  <2> QED BY <1>1, <2>1, <2>2 DEF Less, Larger
<1>2. CASE ~ (i <= a)
  <2>1. {j \in {i} : j <= a} = {}
    BY <1>2
  <2>2. Cardinality({}) = 0
    BY FS_EmptySet
  <2> QED BY <1>2, <2>1, <2>2 DEF Less, Larger
<1> QED BY <1>1, <1>2

\* A tab one pane of which goes.
LEMMA RemovedOne ==
  ASSUME NEW tb, GoodTab(tb), NEW p \in DOMAIN tb.at
  PROVE  LET new == Removed(tb, {p})
         IN  /\ GoodTab(new) /\ DOMAIN new.at = DOMAIN tb.at \ {p}
             /\ tb.at[p] # <<>> => new.at = UnsplitAt(tb, p)
             /\ new.active = IF Index(tb.at, p) <= tb.active
                             THEN (IF tb.active = 0 THEN 0 ELSE tb.active - 1) ELSE tb.active
             /\ tb.zoomed = NoPane => new.zoomed = NoPane
<1> DEFINE kill == {p}
           new == Removed(tb, kill)
           w == Walked(tb, kill)
<1>1. /\ w.removed = {Index(tb.at, p)}
      /\ DOMAIN w.tab.at = DOMAIN tb.at \ {p}
      /\ tb.at[p] # <<>> => w.tab = Unsplit(tb, p)
  BY WalkedOne
<1>2. kill \subseteq DOMAIN tb.at
  OBVIOUS
<1> HIDE DEF w, new, kill
<1>3. /\ WalkGood(w, tb, kill) /\ GoodTab(new)
      /\ new.at = w.tab.at /\ new.zoomed = w.tab.zoomed
      /\ new.active = Less(tb.active, Cardinality({i \in w.removed : i <= tb.active}))
  BY <1>2, RemovedFields, RemovedGood DEF w, new
<1>4. tb.at[p] # <<>> => new.at = UnsplitAt(tb, p)
  <2>1. tb.at[p] # <<>> => Unsplit(tb, p).at = UnsplitAt(tb, p)
    BY UnsplitFields
  <2> QED BY <1>1, <1>3, <2>1
<1>5. tb.active \in Nat /\ Index(tb.at, p) \in Nat
  <2>1. IsTree(tb.at, tb.split) /\ IsFiniteSet(DOMAIN tb.at) /\ tb.active \in Nat
    BY DEF GoodTab, GoodTree
  <2>2. Index(tb.at, p) \in 0..(Cardinality(DOMAIN tb.at) - 1)
    BY <2>1, IndexType
  <2> QED BY <2>1, <2>2
<1>6. new.active = IF Index(tb.at, p) <= tb.active
                   THEN (IF tb.active = 0 THEN 0 ELSE tb.active - 1) ELSE tb.active
  <2> DEFINE i == Index(tb.at, p)
             a == tb.active
  <2>1. new.active = Less(a, Cardinality({j \in {i} : j <= a})) /\ i \in Nat /\ a \in Nat
    BY <1>1, <1>3, <1>5
  <2> HIDE DEF i, a
  <2>2. new.active = IF i <= a THEN (IF a = 0 THEN 0 ELSE a - 1) ELSE a
    BY <2>1, LessOne
  <2> QED BY <2>2 DEF i, a
<1>7. tb.zoomed = NoPane => new.zoomed = NoPane
  BY <1>3 DEF WalkGood
<1> QED BY <1>1, <1>3, <1>4, <1>6, <1>7 DEF new, kill

\* The focused pane keeps the focus when another goes.
LEMMA OtherRemoved ==
  ASSUME NEW tb, GoodTab(tb), tb.zoomed = NoPane, NEW p \in DOMAIN tb.at, p # ActivePane(tb)
  PROVE  ActivePane(Removed(tb, {p})) = ActivePane(tb)
<1> DEFINE at == tb.at
           a == tb.active
           n == Cardinality(DOMAIN tb.at)
           new == Removed(tb, {p})
<1>1. /\ GoodTab(new) /\ DOMAIN new.at = DOMAIN at \ {p} /\ new.zoomed = NoPane
      /\ at[p] # <<>> => new.at = UnsplitAt(tb, p)
      /\ new.active = IF Index(at, p) <= a THEN (IF a = 0 THEN 0 ELSE a - 1) ELSE a
  BY RemovedOne
<1> HIDE DEF new
<1>2. /\ IsTree(at, tb.split) /\ IsFiniteSet(DOMAIN at) /\ a \in Nat
      /\ IsTree(new.at, new.split) /\ IsFiniteSet(DOMAIN new.at)
  BY <1>1 DEF GoodTab, GoodTree
<1>3. n \in Nat /\ Index(at, p) \in 0..(n - 1)
  BY <1>2, IndexType
<1>4. Cardinality(DOMAIN new.at) = n - 1
  BY <1>1, <1>2, FS_RemoveElement
<1>5. ActivePane(tb) = PaneAt(at, a) /\ ActivePane(new) = PaneAt(new.at, new.active)
  BY <1>1 DEF ActivePane
<1>6. CASE a >= n
  <2>1. PaneAt(at, a) = NoPane
    BY <1>2, <1>6, PaneAtIndex
  <2>2. new.active \in Nat /\ new.active >= Cardinality(DOMAIN new.at)
    BY <1>1, <1>2, <1>3, <1>4, <1>6
  <2>3. PaneAt(new.at, new.active) = NoPane
    BY <1>2, <2>2, PaneAtIndex
  <2> QED BY <1>5, <2>1, <2>3 DEF new
<1>7. CASE ~ (a >= n)
  <2> DEFINE f == PaneAt(at, a)
  <2>1. f \in DOMAIN at /\ Index(at, f) = a
    <3>1. a \in 0..(n - 1)
      BY <1>2, <1>3, <1>7
    <3> QED BY <1>2, <3>1, PaneAtIndex
  <2>2. f # p
    BY <1>5
  <2> HIDE DEF f
  <2>3. Index(at, p) # a
    BY <1>2, <2>1, <2>2, IndexOrder
  <2>4. at[p] # <<>>
    <3>1. at[p] = <<>> => DOMAIN at = {p}
      BY LastForgotGood
    <3> QED BY <2>1, <2>2, <3>1
  <2>5. Index(new.at, f) = IF Index(at, p) < a THEN a - 1 ELSE a
    <3>1. f \in DOMAIN tb.at \ {p}
      BY <2>1, <2>2
    <3>2. Index(UnsplitAt(tb, p), f) =
            IF Index(tb.at, p) < Index(tb.at, f) THEN Index(tb.at, f) - 1 ELSE Index(tb.at, f)
      BY <2>4, <3>1, UnsplitIndex
    <3> QED BY <1>1, <2>1, <2>4, <3>2
  <2>6. Index(new.at, f) = new.active
    BY <1>1, <1>2, <1>3, <2>3, <2>5
  <2>7. PaneAt(new.at, Index(new.at, f)) = f
    BY <1>1, <1>2, <2>1, <2>2, PaneAtIndex
  <2> QED BY <1>5, <2>6, <2>7 DEF f, new
<1> QED BY <1>6, <1>7

\* A walk that removes panes removes one; if it removes no other, it has
\* counted the index of that one alone.
LEMMA WalkedSome ==
  ASSUME NEW tb, GoodTab(tb), NEW kill, kill \subseteq DOMAIN tb.at, kill # {}
  PROVE  LET w == Walked(tb, kill)
         IN  \E p \in DOMAIN tb.at :
               /\ DOMAIN w.tab.at \subseteq DOMAIN tb.at \ {p}
               /\ DOMAIN w.tab.at = DOMAIN tb.at \ {p} => w.removed = {Index(tb.at, p)}
<1> DEFINE w0 == WalkStart(tb)
           w1 == RemoveNext(w0, kill)
           p == NextRemoved(w0, kill)
           c == Cardinality(kill)
           Only(w) == /\ DOMAIN w.tab.at \subseteq DOMAIN tb.at \ {p}
                      /\ DOMAIN w.tab.at = DOMAIN tb.at \ {p} => w.removed = {Index(tb.at, p)}
<1>1. c \in Nat /\ c # 0
  <2>1. IsFiniteSet(kill)
    BY FS_Subset DEF GoodTab, GoodTree
  <2> QED BY <2>1, FS_CardinalityType, FS_EmptySet
<1>2. /\ WalkGood(w0, tb, kill) /\ w0.rest = DOMAIN tb.at /\ w0.tab = tb /\ w0.count = 0
      /\ w0.removed = {}
  BY WalkStartGood DEF WalkStart
<1>3. w0 = WalkStart(tb) /\ w1 = RemoveNext(w0, kill) /\ p = NextRemoved(w0, kill) /\ c = Cardinality(kill)
  OBVIOUS
<1> HIDE DEF w0, w1, p, c
<1>4. w0.rest \cap kill # {}
  BY <1>2
<1>5. /\ p \in DOMAIN tb.at /\ CountedAt(w0, p) \in Nat
      /\ w1.removed = w0.removed \cup {CountedAt(w0, p)}
      /\ DOMAIN w1.tab.at = DOMAIN w0.tab.at \ {p}
  BY <1>2, <1>3, <1>4, RemoveNextIs
<1>6. CountedAt(w0, p) = Index(tb.at, p)
  <2> DEFINE n == Cardinality({q \in w0.rest : Before(w0.tab.at[q], w0.tab.at[p])})
  <2>1. n = Index(tb.at, p)
    BY <1>2 DEF Index
  <2>2. n \in Nat
    <3>1. IsTree(tb.at, tb.split) /\ IsFiniteSet(DOMAIN tb.at)
      BY DEF GoodTab, GoodTree
    <3>2. Index(tb.at, p) \in Nat
      BY <1>5, <3>1, IndexType
    <3> HIDE DEF n
    <3> QED BY <2>1, <3>2
  <2>3. CountedAt(w0, p) = w0.count + n
    BY DEF CountedAt
  <2> HIDE DEF n
  <2> QED BY <1>2, <2>1, <2>2, <2>3
<1>7. Only(w1)
  BY <1>2, <1>5, <1>6
<1>8. PICK walk : /\ walk[0] = w0
                  /\ \A n \in 1..c : walk[n] = RemoveNext(walk[n - 1], kill)
                  /\ Walked(tb, kill) = walk[c]
  BY <1>1, <1>3, WalkSteps
<1> HIDE DEF Only
<1> DEFINE T == {n \in 0..c : WalkGood(walk[n], tb, kill) /\ (n # 0 => Only(walk[n]))}
<1>9. 0 \in T
  BY <1>1, <1>2, <1>8
<1>10. ASSUME NEW n \in 1..c, n - 1 \in T PROVE n \in T
  <2> DEFINE w == walk[n - 1]
             new == RemoveNext(w, kill)
             q == NextRemoved(w, kill)
  <2>1. WalkGood(w, tb, kill) /\ (n - 1 # 0 => Only(w))
    BY <1>10
  <2>2. walk[n] = new /\ n \in 0..c /\ n # 0
    BY <1>8
  <2>3. WalkGood(new, tb, kill)
    BY <2>1, RemoveNextGood
  <2>4. Only(new)
    <3>1. CASE n - 1 = 0
      BY <1>3, <1>7, <1>8, <3>1
    <3>2. CASE n - 1 # 0 /\ w.rest \cap kill = {}
      <4>1. new = w
        BY <3>2 DEF RemoveNext
      <4> QED BY <2>1, <3>2, <4>1
    <3>3. CASE n - 1 # 0 /\ w.rest \cap kill # {}
      <4>1. q = NextRemoved(w, kill) /\ new = RemoveNext(w, kill)
        OBVIOUS
      <4> HIDE DEF q, new, w
      <4>2. q \in w.rest \cap kill /\ DOMAIN new.tab.at = DOMAIN w.tab.at \ {q}
        BY <2>1, <3>3, <4>1, RemoveNextIs
      <4>3. q \in DOMAIN w.tab.at /\ DOMAIN w.tab.at \subseteq DOMAIN tb.at \ {p}
        BY <2>1, <3>3, <4>2 DEF WalkGood, Only
      <4> QED BY <4>2, <4>3 DEF Only
    <3> QED BY <3>1, <3>2, <3>3
  <2> QED BY <2>2, <2>3, <2>4
<1>11. \A n \in 0..c : n \in T
  <2> HIDE DEF T
  <2> QED BY <1>1, <1>9, <1>10, SetInduction
<1>12. c \in 0..c
  BY <1>1
<1>13. Only(Walked(tb, kill))
  BY <1>1, <1>8, <1>11, <1>12
<1> QED BY <1>5, <1>13 DEF Only

\* A walk that takes at most one pane keeps the active index within the tab.
LEMMA RemovedActive ==
  ASSUME NEW tb, GoodTab(tb), tb.active < Cardinality(DOMAIN tb.at),
         NEW kill, kill \subseteq DOMAIN tb.at, kill # {}, NEW new, new = Removed(tb, kill),
         DOMAIN new.at # {}, Cardinality(DOMAIN tb.at \ DOMAIN new.at) <= 1
  PROVE  new.active < Cardinality(DOMAIN new.at)
<1> DEFINE S == DOMAIN tb.at
           w == Walked(tb, kill)
           a == tb.active
           n == Cardinality(S)
<1>1. /\ new.at = w.tab.at
      /\ new.active = Less(a, Cardinality({j \in w.removed : j <= a}))
  BY RemovedFields
<1>2. PICK p \in S : /\ DOMAIN w.tab.at \subseteq S \ {p}
                     /\ DOMAIN w.tab.at = S \ {p} => w.removed = {Index(tb.at, p)}
  BY WalkedSome
<1>3. IsFiniteSet(S) /\ IsTree(tb.at, tb.split) /\ a \in Nat
  BY DEF GoodTab, GoodTree
<1> HIDE DEF w
<1>4. DOMAIN new.at = S \ {p}
  <2> DEFINE R == S \ DOMAIN new.at
  <2>1. R \subseteq S /\ p \in R
    BY <1>1, <1>2
  <2>2. Cardinality(R) <= 1
    OBVIOUS
  <2> HIDE DEF R
  <2>3. IsFiniteSet(R)
    BY <1>3, <2>1, FS_Subset
  <2>4. /\ IsFiniteSet(R \ {p}) /\ Cardinality(R \ {p}) = Cardinality(R) - 1
        /\ Cardinality(R) \in Nat /\ Cardinality(R \ {p}) \in Nat
    BY <2>1, <2>3, FS_RemoveElement, FS_CardinalityType
  <2>5. Cardinality(R \ {p}) = 0
    BY <2>2, <2>4
  <2>6. R \ {p} = {}
    BY <2>4, <2>5, FS_EmptySet
  <2>7. R = {p}
    BY <2>1, <2>6
  <2> QED BY <1>1, <1>2, <2>7 DEF R
<1>5. n \in Nat /\ Cardinality(DOMAIN new.at) = n - 1 /\ Cardinality(DOMAIN new.at) # 0
  <2>1. n \in Nat /\ Cardinality(S \ {p}) = n - 1 /\ IsFiniteSet(S \ {p})
    BY <1>3, FS_RemoveElement, FS_CardinalityType
  <2>2. S \ {p} # {}
    BY <1>4
  <2>3. Cardinality(S \ {p}) # 0
    BY <2>1, <2>2, FS_EmptySet
  <2> QED BY <1>4, <2>1, <2>3
<1> DEFINE i == Index(tb.at, p)
<1>6. i \in 0..(n - 1)
  BY <1>3, IndexType
<1>7. w.removed = {i}
  BY <1>1, <1>2, <1>4
<1> HIDE DEF i
<1>8. i \in Nat /\ a < n
  BY <1>5, <1>6
<1> HIDE DEF S, a, n
<1>9. new.active = IF i <= a THEN (IF a = 0 THEN 0 ELSE a - 1) ELSE a
  BY <1>1, <1>3, <1>7, <1>8, LessOne
<1> QED BY <1>3, <1>5, <1>6, <1>8, <1>9

\* A new pane does too, with the focus or without.
LEMMA InsertedActive ==
  ASSUME NEW tb, GoodTab(tb), tb.active < Cardinality(DOMAIN tb.at),
         NEW p \in DOMAIN tb.at, NEW r \in Requests, NEW new \in Panes, new \notin DOMAIN tb.at,
         NEW shown, NEW pty, NEW tb2, tb2 = Inserted(tb, p, r, new, shown, pty)
  PROVE  tb2.active < Cardinality(DOMAIN tb2.at)
<1> DEFINE S == DOMAIN tb.at
           n == Cardinality(S)
<1>1. /\ IsFiniteSet(S) /\ IsTree(tb.at, tb.split) /\ n \in Nat /\ tb.active \in Nat
      /\ Cardinality(S \cup {new}) = n + 1
  BY FS_CardinalityType, FS_AddElement DEF GoodTab, GoodTree
<1>2. CASE tb2 = SplitTab(tb, r, new, shown, pty)
  <2>1. /\ tb2.hung \/ DOMAIN tb2.at = S \cup {new}
        /\ tb2.hung => DOMAIN tb2.at = S /\ tb2.active = tb.active
        /\ ~ tb2.hung => tb2.active = IF r.second THEN n ELSE 0
    BY <1>2, SplitTabGood
  <2>2. CASE tb2.hung
    BY <2>1, <2>2
  <2>3. CASE ~ tb2.hung
    BY <1>1, <2>1, <2>3
  <2> QED BY <2>2, <2>3
<1>3. CASE tb2 = SplitPane(tb, p, r, new)
  <2>1. /\ DOMAIN tb2.at = S \cup {new}
        /\ tb2.active = IF r.second THEN Index(tb.at, p) + 1 ELSE tb.active
    <3> DEFINE old == IF r.second THEN "left" ELSE "right"
    <3>1. old = IF r.second THEN "left" ELSE "right"
      OBVIOUS
    <3> HIDE DEF old
    <3> QED BY <1>3, <3>1, SplitPaneGood
  <2>2. Index(tb.at, p) \in 0..(n - 1)
    BY <1>1, IndexType
  <2> QED BY <1>1, <2>1, <2>2
<1> QED BY <1>2, <1>3 DEF Inserted

\* A step that keeps the panes and the index keeps the focus within the tab.
LEMMA SameActive ==
  ASSUME ActiveNamed, DOMAIN tab'.at = DOMAIN tab.at, tab'.active = tab.active
  PROVE  ActiveNamed'
  BY DEF ActiveNamed, InTab

\* A pane moved within the tab: removed, then inserted.
LEMMA MoveSplitActive ==
  ASSUME GoodTab(tab), ActiveNamed, NEW p \in InTab, NEW source \in InTab, NEW r \in Requests,
         MoveSplit(p, source, r)
  PROVE  ActiveNamed'
<1> DEFINE open == IF r.top THEN tab ELSE Unzoomed(tab)
           kill == {source}
           cut == Removed(open, kill)
<1>1. GoodTab(open) /\ open.at = tab.at /\ open.active = tab.active
  BY UnzoomedGood
<1>2. /\ p # source
      /\ tab' = IF open.hung THEN open ELSE IF Refused(cut, p, r) THEN cut
                ELSE Inserted(cut, p, r, source, tab.shown[source], tab.pty[source])
  BY DEF MoveSplit
<1> HIDE DEF open
<1>3. /\ source \in DOMAIN open.at /\ p \in DOMAIN open.at /\ DOMAIN tab.at \subseteq Panes
      /\ open.active < Cardinality(DOMAIN open.at)
  BY <1>1 DEF InTab, GoodTab, GoodTree, ActiveNamed
<1>4. GoodTab(cut) /\ DOMAIN cut.at = DOMAIN open.at \ {source}
  BY <1>1, <1>3, RemovedOne
<1>5. cut = Removed(open, kill) /\ kill \subseteq DOMAIN open.at /\ kill # {}
  BY <1>3
<1> HIDE DEF cut, kill
<1>6. p \in DOMAIN cut.at /\ source \notin DOMAIN cut.at /\ source \in Panes
  BY <1>2, <1>3, <1>4 DEF InTab
<1>7. cut.active < Cardinality(DOMAIN cut.at)
  <2>1. DOMAIN open.at \ DOMAIN cut.at = {source}
    BY <1>3, <1>4
  <2>2. Cardinality({source}) = 1
    BY FS_Singleton
  <2>3. Cardinality(DOMAIN open.at \ DOMAIN cut.at) <= 1 /\ DOMAIN cut.at # {}
    BY <1>6, <2>1, <2>2
  <2> QED BY <1>1, <1>3, <1>5, <2>3, RemovedActive
<1>8. tab'.active < Cardinality(DOMAIN tab'.at)
  <2>1. CASE tab' = open
    BY <1>3, <2>1
  <2>2. CASE tab' = cut
    BY <1>7, <2>2
  <2>3. CASE tab' = Inserted(cut, p, r, source, tab.shown[source], tab.pty[source])
    BY <1>4, <1>6, <1>7, <2>3, InsertedActive
  <2> QED BY <1>2, <2>1, <2>2, <2>3
<1> QED BY <1>8 DEF ActiveNamed, InTab

\* Every step other than a split keeps the focus, unless several panes go.
LEMMA MovesActive ==
  ASSUME IInv, Moves, ActiveNamed, InTab' # {}, Cardinality(InTab \ InTab') <= 1
  PROVE  ActiveNamed'
<1>1. GoodTab(tab) /\ IsTab(tab)
  BY DEF IInv, GoodTab
<1>0. Cardinality(InTab) \in Nat /\ tab.active < Cardinality(InTab)
  BY <1>1, FS_CardinalityType DEF GoodTab, GoodTree, InTab, ActiveNamed
<1>2. CASE \E p \in InTab, q \in InTab, r \in Requests : MoveSplit(p, q, r)
  BY <1>1, <1>2, MoveSplitActive
<1>3. CASE \E kill \in (SUBSET InTab) \ {{}} : RemovePanes(kill)
  <2>1. PICK kill \in (SUBSET InTab) \ {{}} : tab' = Removed(tab, kill)
    BY <1>3 DEF RemovePanes
  <2>2. tab'.active < Cardinality(DOMAIN tab'.at)
    BY <1>1, <2>1, RemovedActive DEF ActiveNamed, InTab
  <2> QED BY <2>2 DEF ActiveNamed, InTab
<1>4. CASE \E s \in Sizes : Resize(s) \/ ResizeVisual(s)
  BY <1>1, <1>4, ResizedGood, ReshapedGood, SameActive DEF Resize, ResizeVisual
<1>5. CASE Flush
  BY <1>1, <1>5, ToldFields, SameActive DEF Flush
<1>6. CASE \E path \in DOMAIN tab.split, d \in Deltas : Drag(path, d)
  BY <1>1, <1>6, DragGood, SameActive
<1>7. CASE \E ax \in Axes, d \in Deltas : AdjustPaneSize(ax, d)
  BY <1>1, <1>7, AdjustPaneSizeGood, SameActive
<1>8. CASE ToggleSplitDirection
  BY <1>1, <1>8, ToggleSplitDirectionGood, SameActive
<1>9. CASE \E step \in {1, -1} : Rotate(step)
  BY <1>1, <1>9, RotateGood, SameActive
<1>10. CASE \E i \in 0..Cardinality(InTab) - 1 : SetActiveIndex(i)
  <2>1. PICK i \in 0..Cardinality(InTab) - 1 : tab' = [tab EXCEPT !.active = i]
    BY <1>10 DEF SetActiveIndex
  <2>2. i \in Nat /\ i < Cardinality(InTab)
    BY <1>0
  <2>3. tab'.at = tab.at /\ tab'.active = i
    BY <1>1, <2>1, <2>2, ActiveGood
  <2> QED BY <2>2, <2>3 DEF ActiveNamed, InTab
<1>11. CASE ToggleZoom
  BY <1>1, <1>11, ZoomToggledGood, SameActive DEF ToggleZoom
<1>12. CASE \E i \in 0..Cardinality(InTab) - 1, keep \in BOOLEAN : PaneSelect(i, keep)
  <2>1. PICK i \in 0..Cardinality(InTab) - 1, keep \in BOOLEAN : PaneSelect(i, keep)
    BY <1>12
  <2>2. DOMAIN tab'.at = DOMAIN tab.at /\ tab'.active \in {tab.active, i}
    BY <1>1, <2>1, PaneSelectGood
  <2>3. i < Cardinality(InTab)
    BY <1>0
  <2> QED BY <1>0, <2>2, <2>3 DEF ActiveNamed, InTab
<1>13. CASE \E p \in InTab : FocusPane(p)
  <2>1. PICK p \in InTab : FocusPane(p)
    BY <1>13
  <2>2. tab'.at = tab.at /\ tab'.active \in 0..(Cardinality(InTab) - 1)
    BY <1>1, <2>1, FocusPaneGood
  <2> QED BY <1>0, <2>2 DEF ActiveNamed, InTab
<1> QED BY <1>2, <1>3, <1>4, <1>5, <1>6, <1>7, <1>8, <1>9, <1>10, <1>11, <1>12, <1>13 DEF Moves, Focusing

\* And so do the two halves of a split.
LEMMA SplitsActive ==
  ASSUME IInv, Splits, ActiveNamed
  PROVE  ActiveNamed'
<1>1. GoodTab(tab)
  BY DEF IInv
<1>2. CASE \E p \in InTab, r \in Requests : BeginSplit(p, r)
  BY <1>1, <1>2, UnzoomedGood, SameActive DEF BeginSplit
<1>3. CASE \E new \in Panes : EndSplit(new)
  <2> DEFINE p == pending.pane
             r == pending.request
  <2>1. PICK new \in Panes :
          /\ new \notin InTab /\ r \in Requests
          /\ tab' = IF p \notin InTab \/ Refused(tab, p, r) THEN tab
                    ELSE Inserted(tab, p, r, new, pending.size, pending.size)
    BY <1>3 DEF EndSplit, IInv
  <2> HIDE DEF p, r
  <2>2. tab'.active < Cardinality(DOMAIN tab'.at)
    BY <1>1, <2>1, InsertedActive DEF ActiveNamed, InTab
  <2> QED BY <2>2 DEF ActiveNamed, InTab
<1> QED BY <1>2, <1>3 DEF Splits

(* FocusKept holds for every tab: remove_pane_if moves the active index so   *)
(* that the focused pane keeps the focus when another one goes, and no step  *)
(* that takes at most one pane leaves an index past the last pane.           *)
THEOREM FocusIsKept == Spec => FocusKept
<1>1. ASSUME IInv, [Next]_vars,
             InTab' # InTab, tab.zoomed = NoPane,
             \E p \in InTab \ {ActivePane(tab)} : RemovePanes({p})
      PROVE  ActivePane(tab') = ActivePane(tab)
  BY <1>1, OtherRemoved DEF RemovePanes, InTab, IInv
<1>2. ASSUME IInv, [Next]_vars, ActiveNamed, InTab' # {}, Cardinality(InTab \ InTab') <= 1
      PROVE  ActiveNamed'
  <2>1. CASE UNCHANGED vars
    BY <1>2, <2>1, SameActive DEF vars
  <2>2. CASE Next
    BY <1>2, <2>2, SplitsActive, MovesActive DEF Next
  <2> QED BY <1>2, <2>1, <2>2
<1>3. IInv /\ [Next]_vars =>
        [/\ /\ InTab' # InTab /\ tab.zoomed = NoPane
            /\ \E p \in InTab \ {ActivePane(tab)} : RemovePanes({p})
            => ActivePane(tab') = ActivePane(tab)
         /\ /\ ActiveNamed /\ InTab' # {}
            /\ Cardinality(InTab \ InTab') <= 1
            => ActiveNamed']_vars
  BY <1>1, <1>2
<1> QED BY <1>3, Invariant, PTL DEF Spec, FocusKept

---------------------------------------------------------------------------
(* A divider that moves changes nothing outside its split.                 *)

\* Fitting a split to the space it already fills leaves it as it is.
LEMMA RefitSame ==
  ASSUME NEW dir \in Axes, NEW slots, slots = [side \in Sides |-> slots[side]],
         slots["left"] \in Size, slots["right"] \in Size,
         NEW sz, sz = Whole(dir, slots), \A ax \in Axes \ {dir} : slots["right"][ax] = sz[ax]
  PROVE  Refit(dir, slots, sz) = slots
<1> DEFINE l == slots["left"]
           r == slots["right"]
           g == Gutter(dir)
<1>1. g \in Nat /\ l[dir] \in Nat /\ r[dir] \in Nat
  BY GapAssumption DEF Gutter, Axes, Larger, Size
<1>2. sz = [ax \in Axes |-> IF ax = dir THEN l[dir] + r[dir] + g ELSE l[ax]]
  BY DEF Whole, With
<1>3. l = [ax \in Axes |-> l[ax]] /\ r = [ax \in Axes |-> r[ax]]
  BY DEF Size
<1> HIDE DEF l, r, g
<1>4. sz[dir] = l[dir] + r[dir] + g
  BY <1>2
<1>5. Less(sz[dir], g + l[dir]) = r[dir]
  BY <1>1, <1>4 DEF Less, Larger
<1>6. With(sz, dir, l[dir]) = l
  BY <1>2, <1>3 DEF With
<1>7. With(sz, dir, r[dir]) = r
  <2>1. \A ax \in Axes : r[ax] = IF ax = dir THEN r[dir] ELSE sz[ax]
    BY DEF r
  <2> QED BY <1>3, <2>1 DEF With
<1> DEFINE new == Refit(dir, slots, sz)
<1>8. new["left"] = l /\ new["right"] = r /\ new = [side \in Sides |-> new[side]]
  BY <1>5, <1>6, <1>7 DEF Refit, l, r, g, Sides
<1> HIDE DEF new
<1>9. \A side \in Sides : new[side] = slots[side]
  BY <1>8 DEF Sides, l, r
<1>10. new = slots
  BY <1>8, <1>9
<1> QED BY <1>10 DEF new

\* What Fits says of one split.
LEMMA FilledSplit ==
  ASSUME NEW at, NEW split, GoodTree(at, split), NEW size, Fills(at, split, size),
         NEW q \in DOMAIN split, NEW sz, sz = SlotAt(split, q, size)
  PROVE  /\ split[q].dir \in Axes
         /\ \A side \in Sides :
              /\ split[q].slot[side] \in Size
              /\ split[q].slot[side]["x"] > 0 /\ split[q].slot[side]["y"] > 0
         /\ Whole(split[q].dir, split[q].slot) = sz
         /\ \A ax \in Axes \ {split[q].dir} : split[q].slot["right"][ax] = sz[ax]
<1>1. split[q].dir \in Axes
  BY DEF GoodTree, IsSplit
<1>2. \A side \in Sides :
        /\ split[q].slot[side] \in Size
        /\ split[q].slot[side]["x"] > 0 /\ split[q].slot[side]["y"] > 0
  <2> TAKE side \in Sides
  <2> DEFINE c == Append(q, side)
  <2>1. q \in Path /\ c \in Positions(at, split)
    BY TreeIff DEF GoodTree, Sides
  <2>2. c # <<>> /\ Front(c) = q /\ Last(c) = side
    BY <2>1, ChildParent
  <2> HIDE DEF c
  <2>3. SlotAt(split, c, size) = split[q].slot[side]
    BY <2>2 DEF SlotAt
  <2> QED BY <2>1, <2>3 DEF Fills, Positions
<1>3. /\ Whole(split[q].dir, split[q].slot) = sz
      /\ \A ax \in Axes \ {split[q].dir} : split[q].slot["right"][ax] = sz[ax]
  BY DEF Fills, Total
<1> QED BY <1>1, <1>2, <1>3

\* The same of what the split records, by name.
LEMMA FilledSides ==
  ASSUME NEW at, NEW split, GoodTree(at, split), NEW size, Fills(at, split, size),
         NEW q \in DOMAIN split, NEW sz, sz = SlotAt(split, q, size),
         NEW dir, dir = split[q].dir, NEW slots, slots = split[q].slot
  PROVE  /\ dir \in Axes /\ slots["left"] \in Size /\ slots["right"] \in Size
         /\ Whole(dir, slots) = sz
         /\ \A ax \in Axes \ {dir} : slots["right"][ax] = sz[ax]
<1>1. "left" \in Sides /\ "right" \in Sides
  BY DEF Sides
<1> QED BY <1>1, FilledSplit

\* And of a tab.
LEMMA FilledTab ==
  ASSUME NEW tb, GoodTab(tb), NEW size, Fills(tb.at, tb.split, size),
         NEW q \in DOMAIN tb.split, NEW sz, sz = SlotAt(tb.split, q, size),
         NEW dir, dir = tb.split[q].dir, NEW slots, slots = tb.split[q].slot
  PROVE  /\ dir \in Axes /\ slots["left"] \in Size /\ slots["right"] \in Size
         /\ Whole(dir, slots) = sz
         /\ \A ax \in Axes \ {dir} : slots["right"][ax] = sz[ax]
<1>1. GoodTree(tb.at, tb.split)
  BY DEF GoodTab
<1> DEFINE at == tb.at
           split == tb.split
<1>2. /\ GoodTree(at, split) /\ Fills(at, split, size) /\ q \in DOMAIN split
      /\ sz = SlotAt(split, q, size) /\ dir = split[q].dir /\ slots = split[q].slot
  BY <1>1
<1> HIDE DEF at, split
<1> QED BY <1>2, FilledSides

\* So fitting a split of a sound tab to its space changes nothing.
LEMMA FilledStays ==
  ASSUME NEW at, NEW split, GoodTree(at, split), NEW size, Fills(at, split, size),
         NEW q \in DOMAIN split
  PROVE  Refit(split[q].dir, split[q].slot, SlotAt(split, q, size)) = split[q].slot
<1> DEFINE sz == SlotAt(split, q, size)
<1>0. sz = SlotAt(split, q, size)
  OBVIOUS
<1> HIDE DEF sz
<1>1. split[q].dir \in Axes /\ split[q].slot = [side \in Sides |-> split[q].slot[side]]
  <2>1. IsSplit(split[q])
    BY DEF GoodTree
  <2> DEFINE d == split[q].dir
             sl == [side \in Sides |-> split[q].slot[side]]
  <2>2. d \in Axes /\ split[q] = [dir |-> d, slot |-> sl]
    BY <2>1 DEF IsSplit
  <2> HIDE DEF sl, d
  <2>3. split[q].slot = sl /\ split[q].dir = d
    BY <2>2
  <2> QED BY <2>2, <2>3 DEF sl, d
<1>2. /\ Whole(split[q].dir, split[q].slot) = sz
      /\ \A ax \in Axes \ {split[q].dir} : split[q].slot["right"][ax] = sz[ax]
      /\ \A side \in Sides : split[q].slot[side] \in Size
  BY <1>0, FilledSplit
<1>4. split[q].slot["left"] \in Size /\ split[q].slot["right"] \in Size
  BY <1>2 DEF Sides
<1>5. Refit(split[q].dir, split[q].slot, sz) = split[q].slot
  <2> DEFINE d == split[q].dir
             sl == split[q].slot
  <2>1. /\ d \in Axes /\ sl = [side \in Sides |-> sl[side]] /\ sl["left"] \in Size /\ sl["right"] \in Size
        /\ sz = Whole(d, sl) /\ \A ax \in Axes \ {d} : sl["right"][ax] = sz[ax]
    BY <1>1, <1>2, <1>4
  <2> HIDE DEF d, sl
  <2>2. Refit(d, sl, sz) = sl
    BY <2>1, RefitSame
  <2> QED BY <2>2 DEF d, sl
<1> QED BY <1>5 DEF sz

\* Every position but the root has its parent among the splits.
LEMMA PositionParent ==
  ASSUME NEW at, NEW split, IsTree(at, split), NEW q \in Positions(at, split), q # <<>>
  PROVE  /\ q \in Path /\ Front(q) \in DOMAIN split /\ Front(q) \in Path
         /\ Last(q) \in Sides /\ q = Append(Front(q), Last(q))
         /\ Len(q) \in Nat /\ Len(q) >= 1 /\ Len(Front(q)) = Len(q) - 1
         /\ IsPrefix(Front(q), q) /\ Front(q) # q
<1>1. q \in Path
  BY TreeIff DEF Positions
<1>2. /\ Front(q) \in Path /\ Last(q) \in Sides /\ q = Append(Front(q), Last(q))
      /\ Len(q) \in Nat /\ Len(q) >= 1 /\ Len(Front(q)) = Len(q) - 1 /\ Front(q) # q
  BY <1>1, ParentType, PathType
<1>3. IsPrefix(Front(q), q)
  BY <1>1, <1>2, ChildOrder
<1>4. Front(q) \in DOMAIN split
  BY <1>2, <1>3, TreeIff
<1> QED BY <1>1, <1>2, <1>3, <1>4

\* So what is neither at a position nor inside it has a parent that is not either.
LEMMA ParentOutside ==
  ASSUME NEW at, NEW split, IsTree(at, split), NEW q \in Positions(at, split), q # <<>>,
         NEW path \in Path, ~ Inside(path, q)
  PROVE  Front(q) # path /\ ~ Inside(path, Front(q))
<1>1. q \in Path /\ Front(q) \in Path /\ IsPrefix(Front(q), q) /\ Front(q) # q
  BY PositionParent
<1>2. ASSUME IsPrefix(path, Front(q)) PROVE FALSE
  <2>1. IsPrefix(path, q)
    BY <1>1, <1>2, PrefixOrder
  <2>2. path # q
    BY <1>1, <1>2, PrefixOrder
  <2> QED BY <2>1, <2>2 DEF Inside, IsStrictPrefix
<1>3. IsPrefix(path, path)
  BY PrefixOrder
<1> QED BY <1>2, <1>3 DEF Inside, IsStrictPrefix

\* A cascade walks on through splits that fit already and leaves them so.
LEMMA CascadeElsewhere ==
  ASSUME NEW at, NEW mid, GoodTree(at, mid), NEW path \in Path, NEW size,
         \A q \in DOMAIN mid :
            q # path /\ ~ Inside(path, q) =>
              Refit(mid[q].dir, mid[q].slot, SlotAt(mid, q, size)) = mid[q].slot
  PROVE  \A q \in DOMAIN mid :
            q # path /\ ~ Inside(path, q) => Cascaded(mid, path)[q] = mid[q]
<1> DEFINE casc == Cascaded(mid, path)
           S == DOMAIN mid
           Out(q) == q # path /\ ~ Inside(path, q)
<1>1. IsTree(at, mid) /\ \A q \in S : IsSplit(mid[q])
  BY DEF GoodTree
<1>2. \A q \in S : q \in Path /\ q \in Positions(at, mid) /\ Len(q) \in Nat
  BY <1>1, TreeIff, PathType DEF Positions
<1>3. \A q \in S : casc[q] = CascadeStep(mid, path, casc, q)
  BY <1>1, <1>2, PositionParent, CascadedSteps DEF GoodTree
<1> HIDE DEF casc
<1>4. PICK n \in Nat : \A q \in S : Len(q) <= n
  BY DEF GoodTree, Shallow
<1> DEFINE T == {k \in 0..n : \A q \in S : Len(q) <= k /\ Out(q) => casc[q] = mid[q]}
<1>5. ASSUME NEW q \in S, Out(q), q # <<>> => casc[Front(q)] = mid[Front(q)]
      PROVE  casc[q] = mid[q]
  <2>1. CASE ~ After(path, q)
    BY <1>3, <2>1 DEF CascadeStep
  <2>2. CASE After(path, q)
    <3>1. q # <<>>
      BY <2>2, NotBeforeRoot
    <3> DEFINE m == mid[q]
               sz == mid[Front(q)].slot[Last(q)]
    <3>2. casc[q] = [m EXCEPT !.slot = Refit(m.dir, @, sz)]
      BY <1>3, <1>5, <2>2, <3>1 DEF CascadeStep
    <3>3. Refit(m.dir, m.slot, sz) = m.slot
      BY <1>5, <3>1 DEF SlotAt
    <3>4. IsSplit(m)
      BY <1>1
    <3> HIDE DEF m, sz
    <3> DEFINE d == m.dir
               sl == [side \in Sides |-> m.slot[side]]
    <3>5. m = [dir |-> d, slot |-> sl]
      BY <3>4 DEF IsSplit
    <3>6. casc[q] = [m EXCEPT !.slot = m.slot]
      BY <3>2, <3>3
    <3> HIDE DEF d, sl
    <3>7. casc[q] = m
      BY <3>5, <3>6
    <3> QED BY <3>7 DEF m
  <2> QED BY <2>1, <2>2
<1>6. 0 \in T
  <2> SUFFICES ASSUME NEW q \in S, Len(q) <= 0, Out(q) PROVE casc[q] = mid[q]
    BY <1>4
  <2>1. q = <<>>
    BY <1>2, RootOnly
  <2> QED BY <1>5, <2>1
<1>7. ASSUME NEW k \in 1..n, k - 1 \in T PROVE k \in T
  <2>0. k \in 0..n
    BY <1>4
  <2> SUFFICES ASSUME NEW q \in S, Len(q) <= k, Out(q) PROVE casc[q] = mid[q]
    BY <2>0
  <2>1. CASE q = <<>>
    BY <1>5, <2>1
  <2>2. CASE q # <<>>
    <3>1. Front(q) \in S /\ Len(Front(q)) = Len(q) - 1 /\ Len(q) \in Nat
      BY <1>1, <1>2, <2>2, PositionParent
    <3>2. Out(Front(q))
      BY <1>1, <1>2, <2>2, ParentOutside
    <3>3. Len(Front(q)) <= k - 1
      BY <3>1
    <3>4. casc[Front(q)] = mid[Front(q)]
      BY <1>7, <3>1, <3>2, <3>3
    <3> QED BY <1>5, <3>4
  <2> QED BY <2>1, <2>2
<1>8. \A k \in 0..n : k \in T
  <2> HIDE DEF T
  <2> QED BY <1>4, <1>6, <1>7, SetInduction
<1>9. n \in T
  <2> HIDE DEF T
  <2> QED BY <1>4, <1>8
<1> QED BY <1>4, <1>9 DEF casc

\* The space of a position outside is read off its parent, which stays.
LEMMA SlotElsewhere ==
  ASSUME NEW at, NEW split, IsTree(at, split), NEW new, NEW size, NEW path \in Path,
         \A q \in DOMAIN split : q # path /\ ~ Inside(path, q) => new[q] = split[q],
         NEW q \in Positions(at, split), ~ Inside(path, q)
  PROVE  SlotAt(new, q, size) = SlotAt(split, q, size)
<1>1. CASE q = <<>>
  BY <1>1 DEF SlotAt
<1>2. CASE q # <<>>
  <2>1. Front(q) \in DOMAIN split /\ Front(q) # path /\ ~ Inside(path, Front(q))
    BY <1>2, PositionParent, ParentOutside
  <2> QED BY <1>2, <2>1 DEF SlotAt
<1> QED BY <1>1, <1>2

\* A divider moved changes no space that is not inside its split.
LEMMA DragOutside ==
  ASSUME GoodTab(tab), NEW path \in DOMAIN tab.split, NEW d, Drag(path, d), Sound(tab),
         NEW p \in InTab, ~ Inside(path, tab.at[p])
  PROVE  SlotsOf(tab')[p] = SlotsOf(tab)[p] /\ tab'.shown[p] = tab.shown[p]
<1> DEFINE at == tab.at
           split == tab.split
           n == split[path]
           m == [n EXCEPT !.slot = Shift(n.dir, n.slot, d)]
           mid == [split EXCEPT ![path] = m]
           new == MoveDivider(tab, path, d)
           sizes == CascadedSlots(new, path)
<1>1. /\ tab'.at = at /\ tab'.size = tab.size /\ tab.zoomed = NoPane
      /\ tab'.split = new.split /\ tab'.shown = Updated(tab.shown, sizes)
  BY DragGood
<1>2. /\ new.at = at /\ new.size = tab.size /\ new.split = Cascaded(mid, path)
  BY MoveDividerGood
<1>3. GoodTree(at, split) /\ IsTree(at, split) /\ path \in Path /\ p \in DOMAIN at
  BY TreeIff DEF GoodTab, GoodTree, InTab
<1>4. Fills(at, split, tab.size) /\ tab.pty = SlotsOf(tab) /\ tab.shown = tab.pty
  BY <1>1 DEF Sound, Fits, Settled
<1>5. DOMAIN mid = DOMAIN split /\ \A q \in DOMAIN split : q # path => mid[q] = split[q]
  BY <1>3 DEF GoodTree
<1>6. GoodTree(at, mid)
  <2>1. IsSplit(m)
    BY <1>3, ShiftedSplit DEF GoodTree
  <2> HIDE DEF m
  <2>2. /\ mid = [q \in DOMAIN mid |-> mid[q]] /\ \A q \in DOMAIN mid : IsSplit(mid[q])
    BY <1>3, <2>1 DEF GoodTree
  <2> HIDE DEF mid, at, split
  <2>3. IsTree(at, mid)
    BY <1>3, <1>5, TreeDomain
  <2>4. Shallow(mid)
    BY <1>3, <1>5 DEF GoodTree, Shallow
  <2> QED BY <1>3, <2>2, <2>3, <2>4 DEF GoodTree
<1> HIDE DEF mid, m, n, new, at, split
<1>7. \A q \in Positions(at, split) : ~ Inside(path, q) =>
        SlotAt(mid, q, tab.size) = SlotAt(split, q, tab.size)
  BY <1>3, <1>5, SlotElsewhere
<1>8. \A q \in DOMAIN mid : q # path /\ ~ Inside(path, q) =>
        Refit(mid[q].dir, mid[q].slot, SlotAt(mid, q, tab.size)) = mid[q].slot
  <2> SUFFICES ASSUME NEW q \in DOMAIN split, q # path, ~ Inside(path, q)
               PROVE  Refit(split[q].dir, split[q].slot, SlotAt(split, q, tab.size)) = split[q].slot
    BY <1>5, <1>7 DEF Positions
  <2> QED BY <1>3, <1>4, FilledStays
<1>9. \A q \in DOMAIN split : q # path /\ ~ Inside(path, q) => new.split[q] = split[q]
  BY <1>2, <1>3, <1>5, <1>6, <1>8, CascadeElsewhere, SMTT(30)
<1>10. SlotAt(new.split, at[p], tab.size) = SlotAt(split, at[p], tab.size)
  <2>1. at[p] \in Positions(at, split) /\ ~ Inside(path, at[p])
    BY <1>3 DEF Positions, at
  <2> QED BY <1>3, <1>9, <2>1, SlotElsewhere
<1>11. SlotsOf(tab')[p] = SlotsOf(tab)[p]
  BY <1>1, <1>3, <1>10 DEF SlotsOf, at, split
<1>12. tab'.shown[p] = tab.shown[p]
  <2> DEFINE f == tab.shown
  <2>1. tab'.shown = Updated(f, sizes) /\ p \in DOMAIN f
    BY <1>1, <1>3 DEF GoodTab, at
  <2>2. p \in DOMAIN sizes => sizes[p] = f[p]
    <3> SUFFICES ASSUME p \in DOMAIN sizes PROVE sizes[p] = f[p]
      OBVIOUS
    <3>1. sizes[p] = SlotAt(new.split, at[p], tab.size)
      BY <1>2 DEF CascadedSlots, SlotsOf
    <3>2. f[p] = SlotAt(split, at[p], tab.size)
      BY <1>3, <1>4 DEF SlotsOf, at, split
    <3> QED BY <1>10, <3>1, <3>2
  <2> HIDE DEF f, sizes
  <2>3. Updated(f, sizes)[p] = f[p]
    BY <2>1, <2>2 DEF Updated
  <2> QED BY <2>1, <2>3 DEF f
<1> QED BY <1>11, <1>12

(* DragStaysInside holds for every tab: resize_split_by_visual changes no    *)
(* pane outside the split whose divider moves, since the splits that         *)
(* cascade_size_from_cursor walks on through already fill their spaces.      *)
THEOREM DragsStayInside == Spec => DragStaysInside
<1>1. ASSUME IInv, NEW path \in DOMAIN tab.split, NEW d \in Deltas, Sound(tab), Drag(path, d),
             NEW p \in InTab, ~ Inside(path, tab.at[p])
      PROVE  SlotsOf(tab')[p] = SlotsOf(tab)[p] /\ tab'.shown[p] = tab.shown[p]
  BY <1>1, DragOutside DEF IInv
<1>2. IInv /\ [Next]_vars =>
        [\A path \in DOMAIN tab.split, d \in Deltas :
           /\ tab'.split # tab.split /\ tab'.pty = tab.pty /\ tab'.size = tab.size
           /\ Sound(tab)
           /\ Drag(path, d)
           => \A p \in InTab :
                ~ Inside(path, tab.at[p]) =>
                  /\ SlotsOf(tab')[p] = SlotsOf(tab)[p]
                  /\ tab'.shown[p] = tab.shown[p]]_vars
  BY <1>1
<1> QED BY <1>2, Invariant, PTL DEF Spec, DragStaysInside

---------------------------------------------------------------------------
(* A split fills the space of the pane it takes.                           *)

\* The sides of a split that is not refused fill its space, and neither is empty.
LEMMA CutFits ==
  ASSUME NEW space \in Size, NEW r \in Requests, NEW cut, cut = Cut(space, r),
         NEW size, ~ NoRoom(cut, r.dir, size)
  PROVE  /\ Whole(r.dir, cut) = space
         /\ \A side \in Sides : cut[side] \in Size /\ cut[side]["x"] > 0 /\ cut[side]["y"] > 0
         /\ \A ax \in Axes \ {r.dir} : cut["right"][ax] = space[ax]
<1>1. r \in Request /\ r.dir \in Axes /\ r.cells \in Nat /\ r.second \in BOOLEAN
  BY TabAssumption DEF Request, Axes
<1> DEFINE target == Larger(IF r.cells = 0 THEN (space[r.dir] * 50) \div 100 ELSE r.cells, 1)
           rest == Less(space[r.dir], target + Gutter(r.dir))
           m == IF r.second THEN rest ELSE target
           n == IF r.second THEN target ELSE rest
<1>2. space[r.dir] \in Nat /\ Gutter(r.dir) \in Nat
  BY <1>1, GutterType DEF Size
<1>3. target \in Nat
  <2>1. (space[r.dir] * 50) \div 100 \in Int
    BY <1>2
  <2> QED BY <1>1, <2>1 DEF Larger
<1>4. rest \in Nat
  BY <1>2, <1>3 DEF Less, Larger
<1>5. cut["left"] = With(space, r.dir, m) /\ cut["right"] = With(space, r.dir, n)
  BY <1>1 DEF Cut
<1>6. m \in Nat /\ n \in Nat
  BY <1>3, <1>4
<1> HIDE DEF target, rest, m, n
<1>7. /\ cut["left"] \in Size /\ cut["right"] \in Size
      /\ \A ax \in Axes \ {r.dir} : cut["right"][ax] = space[ax]
  <2> DEFINE l == cut["left"]
             d == cut["right"]
             ax0 == r.dir
  <2>1. l = With(space, ax0, m) /\ d = With(space, ax0, n) /\ ax0 \in Axes
    BY <1>1, <1>5
  <2> HIDE DEF l, d, ax0
  <2>2. l \in Size
    BY <1>6, <2>1, WithSize
  <2>3. d \in Size /\ \A ax \in Axes \ {ax0} : d[ax] = space[ax]
    BY <1>6, <2>1, WithSize
  <2> QED BY <2>2, <2>3 DEF l, d, ax0
<1>8. \A ax \in Axes : cut["left"][ax] # 0 /\ cut["right"][ax] # 0
  BY DEF NoRoom
<1>9. \A side \in Sides : cut[side] \in Size /\ cut[side]["x"] > 0 /\ cut[side]["y"] > 0
  <2> TAKE side \in Sides
  <2>1. cut[side] \in Size /\ cut[side]["x"] # 0 /\ cut[side]["y"] # 0
    BY <1>7, <1>8 DEF Sides, Axes
  <2> QED BY <2>1 DEF Size, Axes
<1>10. Whole(r.dir, cut) = space
  BY <1>1, <1>8, CutFills
<1> QED BY <1>7, <1>9, <1>10

\* A pane that is split leaves a sound tab.
LEMMA SplitPaneSound ==
  ASSUME NEW tb, GoodTab(tb), Sound(tb), tb.zoomed = NoPane,
         NEW p \in DOMAIN tb.at, NEW r \in Requests, NEW new \in Panes, new \notin DOMAIN tb.at,
         ~ (r.top /\ <<>> \in DOMAIN tb.split),
         ~ NoRoom(SplitSlots(tb, p, r), r.dir, tb.size)
  PROVE  Sound(SplitPane(tb, p, r, new))
<1> DEFINE a == tb.at[p]
           space == SlotAt(tb.split, a, tb.size)
           old == IF r.second THEN "left" ELSE "right"
           slots == SplitSlots(tb, p, r)
           sizes == SideSizes(p, new, old, slots)
           tb2 == SplitPane(tb, p, r, new)
           at == tb2.at
           split == tb2.split
<1>0. /\ old = (IF r.second THEN "left" ELSE "right") /\ slots = SplitSlots(tb, p, r)
      /\ tb2 = SplitPane(tb, p, r, new) /\ old \in Sides
      /\ sizes = SideSizes(p, new, old, slots)
      /\ sizes[p] = slots[old] /\ sizes[new] = slots[Other(old)] /\ DOMAIN sizes = {p, new}
  BY DEF Sides, SideSizes
<1> HIDE DEF old, sizes, tb2, slots
<1>1. /\ GoodTab(tb2) /\ DOMAIN tb2.at = DOMAIN tb.at \cup {new}
      /\ tb2.at[p] = Append(tb.at[p], old) /\ tb2.at[new] = Append(tb.at[p], Other(old))
      /\ \A q \in DOMAIN tb.at \ {p} : tb2.at[q] = tb.at[q]
      /\ DOMAIN tb2.split = DOMAIN tb.split \cup {tb.at[p]}
      /\ tb2.split[tb.at[p]].dir = r.dir /\ tb2.split[tb.at[p]].slot = SplitSlots(tb, p, r)
      /\ \A q \in DOMAIN tb.split : tb2.split[q] = tb.split[q]
      /\ tb2.size = tb.size /\ tb2.zoomed = tb.zoomed
  BY <1>0, SplitPaneGood
<1>2. tb2.shown = Updated(tb.shown, sizes) /\ tb2.pty = Updated(tb.pty, sizes)
  <2>1. IsTab(tb)
    BY DEF GoodTab
  <2> QED BY <1>0, <2>1, SplitPaneSizes
<1>3. /\ GoodTree(tb.at, tb.split) /\ IsTree(tb.at, tb.split) /\ IsTree(at, split)
      /\ a \in Path /\ a \notin DOMAIN tb.split /\ a \in Positions(tb.at, tb.split)
  BY <1>1, TreeIff DEF GoodTab, GoodTree, Positions
<1>4. /\ Fills(tb.at, tb.split, tb.size) /\ tb.pty = SlotsOf(tb) /\ tb.shown = tb.pty
  BY DEF Sound, Fits, Settled
<1>5. space \in Size /\ space["x"] > 0 /\ space["y"] > 0
  BY <1>3, <1>4 DEF Fills, Positions
<1>6. slots = Cut(space, r)
  <2>1. CASE r.top
    <3>1. a = <<>>
      BY <1>3, <2>1, RootType, PrefixOrder, TreeIff
    <3>2. space = tb.size
      BY <3>1 DEF SlotAt
    <3> HIDE DEF space
    <3> QED BY <1>0, <2>1, <3>2 DEF SplitSlots
  <2>2. CASE ~ r.top
    <3>1. SlotsOf(tb)[p] = space
      BY DEF SlotsOf
    <3> HIDE DEF space
    <3> QED BY <1>0, <2>2, <3>1 DEF SplitSlots
  <2> QED BY <2>1, <2>2
<1> HIDE DEF space
<1>7. /\ Whole(r.dir, slots) = space
      /\ \A side \in Sides : slots[side] \in Size /\ slots[side]["x"] > 0 /\ slots[side]["y"] > 0
      /\ \A ax \in Axes \ {r.dir} : slots["right"][ax] = space[ax]
  <2>1. ~ NoRoom(slots, r.dir, tb.size)
    BY <1>0
  <2>2. space \in Size
    BY <1>5
  <2>3. slots = Cut(space, r)
    BY <1>6
  <2>4. Whole(r.dir, slots) = space
    BY <2>1, <2>2, <2>3, CutFits
  <2>5. \A side \in Sides : slots[side] \in Size /\ slots[side]["x"] > 0 /\ slots[side]["y"] > 0
    BY <2>1, <2>2, <2>3, CutFits
  <2>6. \A ax \in Axes \ {r.dir} : slots["right"][ax] = space[ax]
    BY <2>1, <2>2, <2>3, CutFits
  <2> QED BY <2>4, <2>5, <2>6
<1> HIDE DEF a, at, split
<1>8. \A q \in Positions(tb.at, tb.split) :
        SlotAt(split, q, tb.size) = SlotAt(tb.split, q, tb.size)
  <2> TAKE q \in Positions(tb.at, tb.split)
  <2>1. q # <<>> => Front(q) \in DOMAIN tb.split
    BY <1>3, PositionParent
  <2> QED BY <1>1, <2>1 DEF SlotAt, split
<1>9. \A side \in Sides : SlotAt(split, Append(a, side), tb.size) = slots[side]
  <2> TAKE side \in Sides
  <2> DEFINE c == Append(a, side)
  <2>1. c # <<>> /\ Front(c) = a /\ Last(c) = side
    BY <1>3, ChildType, ChildParent
  <2> HIDE DEF c
  <2>2. SlotAt(split, c, tb.size) = slots[side]
    BY <1>0, <1>1, <2>1 DEF SlotAt, split, a
  <2> QED BY <2>2 DEF c
<1>10. Positions(at, split) \subseteq
         Positions(tb.at, tb.split) \cup {Append(a, side) : side \in Sides}
  <2>1. Other(old) \in Sides
    BY <1>0, OtherType
  <2>2. DOMAIN split \subseteq Positions(tb.at, tb.split)
    BY <1>1, <1>3 DEF split, Positions, a
  <2>3. \A q \in DOMAIN at : at[q] \in Positions(tb.at, tb.split) \cup {Append(a, side) : side \in Sides}
    <3> TAKE q \in DOMAIN at
    <3>1. q = p => at[q] = Append(a, old)
      BY <1>1 DEF at, a
    <3>2. q = new => at[q] = Append(a, Other(old))
      BY <1>1 DEF at, a
    <3>3. q # p /\ q # new => q \in DOMAIN tb.at /\ at[q] = tb.at[q]
      BY <1>1 DEF at
    <3> QED BY <1>0, <2>1, <3>1, <3>2, <3>3 DEF Positions
  <2> QED BY <2>2, <2>3 DEF Positions
<1>11. Fills(at, split, tb.size)
  <2>1. \A q \in Positions(at, split) :
          LET sz == SlotAt(split, q, tb.size) IN sz \in Size /\ sz["x"] > 0 /\ sz["y"] > 0
    BY <1>4, <1>7, <1>8, <1>9, <1>10, ZenonT(60) DEF Fills, Positions
  <2>2. \A q \in DOMAIN split :
          /\ Total(split[q]) = SlotAt(split, q, tb.size)
          /\ \A ax \in Axes \ {split[q].dir} : split[q].slot["right"][ax] = SlotAt(split, q, tb.size)[ax]
    <3> TAKE q \in DOMAIN split
    <3>1. CASE q = a
      <4>1. SlotAt(split, q, tb.size) = space
        BY <1>3, <1>8, <3>1 DEF space
      <4>2. split[q].dir = r.dir /\ split[q].slot = slots
        BY <1>0, <1>1, <3>1 DEF split, a
      <4> QED BY <1>7, <4>1, <4>2 DEF Total
    <3>2. CASE q \in DOMAIN tb.split
      <4>1. SlotAt(split, q, tb.size) = SlotAt(tb.split, q, tb.size) /\ split[q] = tb.split[q]
        BY <1>1, <1>8, <3>2 DEF Positions, split
      <4> QED BY <1>4, <3>2, <4>1 DEF Fills
    <3> QED BY <1>1, <3>1, <3>2 DEF split, a
  <2> QED BY <2>1, <2>2 DEF Fills, Positions
<1>12. Updated(tb.pty, sizes) = SlotsOf(tb2)
  <2>1. DOMAIN tb.pty = DOMAIN tb.at
    BY DEF GoodTab
  <2> DEFINE f == Updated(tb.pty, sizes)
             g == SlotsOf(tb2)
  <2>2. /\ f = [q \in DOMAIN tb.pty \cup DOMAIN sizes |-> f[q]]
        /\ \A q \in DOMAIN tb.pty \cup DOMAIN sizes :
             f[q] = IF q \in DOMAIN sizes THEN sizes[q] ELSE tb.pty[q]
    BY DEF Updated
  <2>3. g = [q \in DOMAIN at |-> g[q]] /\ \A q \in DOMAIN at : g[q] = SlotAt(split, at[q], tb.size)
    BY <1>1 DEF SlotsOf, at, split
  <2>4. DOMAIN tb.pty \cup DOMAIN sizes = DOMAIN at
    BY <1>0, <1>1, <2>1 DEF at
  <2> HIDE DEF f, g
  <2>5. \A q \in DOMAIN at : f[q] = g[q]
    <3> TAKE q \in DOMAIN at
    <3>1. CASE q = p
      <4>1. f[q] = slots[old]
        BY <1>0, <2>2, <2>4, <3>1
      <4>2. g[q] = slots[old]
        <5>1. at[q] = Append(a, old) /\ g[q] = SlotAt(split, at[q], tb.size)
          BY <1>1, <2>3, <3>1 DEF at, a
        <5> QED BY <1>0, <1>9, <5>1
      <4> QED BY <4>1, <4>2
    <3>2. CASE q = new
      <4>0. Other(old) \in Sides
        BY <1>0, OtherType
      <4>1. f[q] = slots[Other(old)]
        BY <1>0, <2>2, <2>4, <3>2
      <4>2. g[q] = slots[Other(old)]
        BY <1>1, <1>9, <2>3, <3>2, <4>0 DEF at, a
      <4> QED BY <4>1, <4>2
    <3>3. CASE q # p /\ q # new
      <4>1. q \in DOMAIN tb.at \ {p}
        BY <1>1, <3>3 DEF at
      <4>2. f[q] = SlotAt(tb.split, tb.at[q], tb.size)
        BY <1>0, <1>4, <2>2, <2>4, <3>3, <4>1, ZenonT(60) DEF SlotsOf
      <4>3. g[q] = SlotAt(tb.split, tb.at[q], tb.size)
        BY <1>1, <1>8, <2>3, <4>1 DEF at, Positions
      <4> QED BY <4>2, <4>3
    <3> QED BY <3>1, <3>2, <3>3
  <2>6. f = g
    BY <2>2, <2>3, <2>4, <2>5
  <2> QED BY <2>6 DEF f, g
<1>13. Sound(tb2)
  BY <1>1, <1>2, <1>4, <1>11, <1>12 DEF Sound, Fits, Settled, at, split
<1> QED BY <1>13 DEF tb2

---------------------------------------------------------------------------
(* A removed pane gives its space to its sibling.                          *)

\* What is inside moves down together.
LEMMA SunkAppend ==
  ASSUME NEW up \in Path, NEW side \in Sides, NEW q \in Path, IsPrefix(up, q), NEW s \in Sides
  PROVE  Sunk(Append(q, s), up, side) = Append(Sunk(q, up, side), s)
<1> DEFINE c == Append(q, s)
           a == Sunk(c, up, side)
           t == Sunk(q, up, side)
           b == Append(t, s)
<1>0. Len(q) \in Nat /\ Len(up) \in Nat /\ Len(up) <= Len(q)
  BY PathType, PrefixElements
<1>1. c \in Path /\ Len(c) = Len(q) + 1 /\ (\A i \in 1..Len(q) : c[i] = q[i]) /\ c[Len(q) + 1] = s
  BY ChildType
<1>2. IsPrefix(up, c)
  BY ChildOrder
<1> HIDE DEF c
<1>3. /\ a \in Path /\ Len(a) = Len(c) + 1
      /\ \A i \in 1..(Len(c) + 1) : a[i] = IF i <= Len(up) THEN c[i]
                                          ELSE IF i = Len(up) + 1 THEN Other(side) ELSE c[i - 1]
  BY <1>1, <1>2, SunkBelow
<1>4. /\ t \in Path /\ Len(t) = Len(q) + 1
      /\ \A i \in 1..(Len(q) + 1) : t[i] = IF i <= Len(up) THEN q[i]
                                          ELSE IF i = Len(up) + 1 THEN Other(side) ELSE q[i - 1]
  BY SunkBelow
<1> HIDE DEF a, t
<1>5. b \in Path /\ Len(b) = Len(t) + 1 /\ (\A i \in 1..Len(t) : b[i] = t[i]) /\ b[Len(t) + 1] = s
  BY <1>4, ChildType
<1> HIDE DEF b
<1>6. \A i \in 1..Len(a) : a[i] = b[i]
  <2> TAKE i \in 1..Len(a)
  <2>1. i \in 1..(Len(c) + 1) /\ Len(c) + 1 = Len(q) + 2
    BY <1>0, <1>1, <1>3
  <2>2. CASE i <= Len(up)
    BY <1>0, <1>1, <1>3, <1>4, <1>5, <2>1, <2>2
  <2>3. CASE i = Len(up) + 1
    BY <1>0, <1>1, <1>3, <1>4, <1>5, <2>1, <2>3
  <2>4. CASE i > Len(up) + 1 /\ i <= Len(q) + 1
    <3>1. a[i] = c[i - 1] /\ b[i] = t[i] /\ t[i] = q[i - 1] /\ i - 1 \in 1..Len(q)
      BY <1>0, <1>1, <1>3, <1>4, <1>5, <2>1, <2>4
    <3> QED BY <1>1, <3>1
  <2>5. CASE i = Len(q) + 2
    <3>1. a[i] = c[i - 1] /\ i - 1 = Len(q) + 1 /\ i = Len(t) + 1
      BY <1>0, <1>1, <1>3, <1>4, <2>1, <2>5
    <3> QED BY <1>1, <1>5, <3>1
  <2> QED BY <1>0, <2>1, <2>2, <2>3, <2>4, <2>5
<1>7. Len(a) = Len(b)
  BY <1>0, <1>1, <1>3, <1>4, <1>5
<1>8. a = b
  BY <1>3, <1>5, <1>6, <1>7, PathEqual
<1> QED BY <1>8 DEF a, b, c, t

\* A split given more space than it fills gives each side at least what it had.
LEMMA RefitGrows ==
  ASSUME NEW dir \in Axes, NEW slots, slots["left"] \in Size, slots["right"] \in Size,
         \A ax \in Axes \ {dir} : slots["right"][ax] = Whole(dir, slots)[ax],
         NEW sz \in Size, \A ax \in Axes : sz[ax] >= Whole(dir, slots)[ax],
         NEW new, new = Refit(dir, slots, sz)
  PROVE  /\ Whole(dir, new) = sz
         /\ \A ax \in Axes \ {dir} : new["right"][ax] = sz[ax]
         /\ \A side \in Sides : /\ new[side] \in Size
                                /\ \A ax \in Axes : new[side][ax] >= slots[side][ax]
<1> DEFINE l == slots["left"]
           r == slots["right"]
           nl == new["left"]
           nr == new["right"]
           rest == Less(sz[dir], Gutter(dir) + l[dir])
           old == Whole(dir, slots)
           whole == Whole(dir, new)
<1>1. /\ old \in Size /\ old[dir] = l[dir] + r[dir] + Gutter(dir)
      /\ \A ax \in Axes \ {dir} : old[ax] = l[ax]
  BY WholeSize
<1>2. /\ Gutter(dir) \in Nat /\ l[dir] \in Nat /\ r[dir] \in Nat /\ sz[dir] \in Nat
      /\ sz[dir] >= old[dir] /\ \A ax \in Axes \ {dir} : sz[ax] >= old[ax] /\ r[ax] = old[ax]
  BY GutterType DEF Size
<1> HIDE DEF old
<1>3. rest \in Nat /\ l[dir] + rest + Gutter(dir) = sz[dir] /\ rest >= r[dir]
  BY <1>1, <1>2 DEF Less, Larger
<1>4. nl = With(sz, dir, l[dir]) /\ nr = With(sz, dir, rest)
  BY DEF Refit
<1> HIDE DEF rest, nl, nr, l, r
<1>5. nl \in Size /\ nl[dir] = l[dir] /\ \A ax \in Axes \ {dir} : nl[ax] = sz[ax]
  <2> DEFINE m == l[dir]
  <2>1. m \in Nat /\ nl = With(sz, dir, m)
    BY <1>2, <1>4
  <2> HIDE DEF m
  <2>2. nl \in Size /\ nl[dir] = m /\ \A ax \in Axes \ {dir} : nl[ax] = sz[ax]
    BY <2>1, WithSize
  <2> QED BY <2>2 DEF m
<1>6. nr \in Size /\ nr[dir] = rest /\ \A ax \in Axes \ {dir} : nr[ax] = sz[ax]
  BY <1>3, <1>4, WithSize
<1>7. /\ whole \in Size /\ whole[dir] = nl[dir] + nr[dir] + Gutter(dir)
      /\ \A ax \in Axes \ {dir} : whole[ax] = nl[ax]
  BY <1>5, <1>6, WholeSize DEF nl, nr
<1> HIDE DEF whole
<1>8. whole[dir] = sz[dir]
  BY <1>2, <1>3, <1>5, <1>6, <1>7
<1>9. whole = sz
  BY <1>5, <1>7, <1>8, SizeEqual
<1>10. \A ax \in Axes : nl[ax] >= l[ax] /\ nr[ax] >= r[ax]
  BY <1>1, <1>2, <1>3, <1>5, <1>6
<1> QED BY <1>5, <1>6, <1>9, <1>10 DEF whole, nl, nr, l, r, Sides

\* What the panes are told when a pane is removed.
LEMMA UnsplitSizes ==
  ASSUME NEW tb, GoodTab(tb), NEW p \in DOMAIN tb.at, tb.at[p] # <<>>,
         NEW up, up = Front(tb.at[p]), NEW new, new = Unsplit(tb, p),
         NEW q \in DOMAIN new.at
  PROVE  /\ new.at[q] = up => new.pty[q] = Total(tb.split[up]) /\ new.shown[q] = new.pty[q]
         /\ new.at[q] # up /\ After(up, new.at[q]) =>
              new.pty[q] = SlotAt(new.split, new.at[q], tb.size) /\ new.shown[q] = new.pty[q]
         /\ new.at[q] # up /\ ~ After(up, new.at[q]) =>
              new.pty[q] = tb.pty[q] /\ new.shown[q] = tb.shown[q]
<1> DEFINE side == Last(tb.at[p])
           whole == Total(tb.split[up])
           mid == Forgot(tb, p)
           at == [r \in DOMAIN mid.at |-> Lifted(mid.at[r], up, side)]
           split == Cascaded(Sibling(tb, p), up)
           fitted == [mid EXCEPT !.at = at, !.split = split]
           there == {r \in DOMAIN at : at[r] = up}
           casc == CascadedSlots(fitted, up)
           whl == [r \in there |-> whole]
           sizes == Updated(casc, whl)
<1>1. new = Told(fitted, sizes)
  BY DEF Unsplit, Sibling
<1>2. /\ IsTab(mid) /\ mid.size = tb.size
      /\ mid.at = Without(tb.at, p) /\ mid.shown = Without(tb.shown, p)
      /\ mid.pty = Without(tb.pty, p)
  BY ForgotFields DEF GoodTab
<1>3. DOMAIN mid.shown = DOMAIN mid.at /\ DOMAIN mid.pty = DOMAIN mid.at
  BY <1>2 DEF GoodTab, Without
<1> HIDE DEF mid
<1> HIDE DEF at, split
<1>4. /\ IsTab(fitted) /\ fitted.at = at /\ fitted.split = split /\ fitted.size = tb.size
      /\ fitted.shown = mid.shown /\ fitted.pty = mid.pty
  BY <1>2 DEF IsTab, Fields
<1> HIDE DEF fitted
<1>5. /\ new.at = at /\ new.split = split
      /\ new.shown = Updated(mid.shown, sizes) /\ new.pty = Updated(mid.pty, sizes)
  BY <1>1, <1>4, ToldFields
<1>6. /\ DOMAIN casc = {r \in DOMAIN at : After(up, at[r])}
      /\ \A r \in DOMAIN casc : casc[r] = SlotAt(split, at[r], tb.size)
  BY <1>4 DEF CascadedSlots, SlotsOf
<1>7. DOMAIN whl = there /\ \A r \in there : whl[r] = whole
  OBVIOUS
<1> HIDE DEF casc, whl
<1>8. /\ DOMAIN sizes = DOMAIN casc \cup there
      /\ \A r \in there : sizes[r] = whole
      /\ \A r \in DOMAIN casc \ there : sizes[r] = casc[r]
  BY <1>7 DEF Updated
<1> HIDE DEF sizes, whole
<1>9. DOMAIN mid.at = DOMAIN at /\ q \in DOMAIN at
  BY <1>5 DEF at
<1>10. /\ q \in DOMAIN sizes => new.pty[q] = sizes[q] /\ new.shown[q] = sizes[q]
       /\ q \notin DOMAIN sizes => new.pty[q] = mid.pty[q] /\ new.shown[q] = mid.shown[q]
  BY <1>3, <1>5, <1>9 DEF Updated
<1>11. q # p /\ mid.pty[q] = tb.pty[q] /\ mid.shown[q] = tb.shown[q]
  BY <1>2, <1>3, <1>9 DEF Without
<1>12. CASE at[q] = up
  BY <1>5, <1>8, <1>9, <1>10, <1>12 DEF whole
<1>13. CASE at[q] # up /\ After(up, at[q])
  BY <1>5, <1>6, <1>8, <1>9, <1>10, <1>13
<1>14. CASE at[q] # up /\ ~ After(up, at[q])
  BY <1>5, <1>6, <1>8, <1>9, <1>10, <1>11, <1>14
<1> QED BY <1>5, <1>12, <1>13, <1>14

\* What stays, moved back to where it was, is at a position of the old tree, and
\* the place of the parent is taken by the sibling.
LEMMA SunkPositions ==
  ASSUME NEW tb, GoodTab(tb), NEW p \in DOMAIN tb.at, tb.at[p] # <<>>,
         NEW up, up = Front(tb.at[p]), NEW side, side = Last(tb.at[p]),
         NEW at, at = UnsplitAt(tb, p), NEW sib, sib = Sibling(tb, p)
  PROVE  /\ \A q \in Positions(at, sib) :
              q \in Path /\ Sunk(q, up, side) \in Positions(tb.at, tb.split)
         /\ up \in Positions(at, sib)
         /\ Sunk(up, up, side) = Append(up, Other(side))
<1>0. /\ IsTree(tb.at, tb.split) /\ tb.at[p] \in Path /\ up \in Path /\ side \in Sides
      /\ tb.at[p] = Append(up, side) /\ up \in DOMAIN tb.split /\ Other(side) \in Sides
      /\ Other(side) # side /\ tb.at[p] \notin DOMAIN tb.split
  <2>1. IsTree(tb.at, tb.split) /\ tb.at[p] \in Path /\ tb.at[p] \notin DOMAIN tb.split
        /\ tb.at[p] \in Positions(tb.at, tb.split)
    BY TreeIff DEF GoodTab, GoodTree, Positions
  <2>2. up \in DOMAIN tb.split /\ up \in Path /\ side \in Sides /\ tb.at[p] = Append(up, side)
    BY <2>1, PositionParent
  <2> QED BY <2>1, <2>2, OtherType
<1>1. \A q \in DOMAIN sib : q \in Path /\ Sunk(q, up, side) \in DOMAIN tb.split
  BY SiblingGood
<1>2. DOMAIN at = DOMAIN tb.at \ {p} /\ \A q \in DOMAIN at : at[q] = Lifted(tb.at[q], up, side)
  BY DEF UnsplitAt
<1>3. \A q \in DOMAIN at : at[q] \in Path /\ Sunk(at[q], up, side) = tb.at[q]
  <2> TAKE q \in DOMAIN at
  <2> DEFINE x == tb.at[q]
  <2>1. x \in Positions(tb.at, tb.split) /\ x # up /\ x # tb.at[p]
    <3>1. x \notin DOMAIN tb.split
      BY <1>0, <1>2, TreeIff
    <3>2. x # tb.at[p]
      BY <1>0, <1>2, TreeIff DEF IsInjective
    <3> QED BY <1>0, <1>2, <3>1, <3>2 DEF Positions
  <2>2. at[q] = Lifted(x, up, side)
    BY <1>2
  <2> HIDE DEF x
  <2>3. Lifted(x, up, side) \in Path /\ Sunk(Lifted(x, up, side), up, side) = x
    <3>1. /\ IsTree(tb.at, tb.split) /\ x \in Positions(tb.at, tb.split) /\ x # up
          /\ x # tb.at[p] /\ up = Front(tb.at[p]) /\ side = Last(tb.at[p])
      BY <1>0, <2>1
    <3> QED BY <3>1, Survives
  <2> QED BY <2>2, <2>3 DEF x
<1>4. \A q \in Positions(at, sib) : q \in Path /\ Sunk(q, up, side) \in Positions(tb.at, tb.split)
  BY <1>1, <1>2, <1>3 DEF Positions
<1> DEFINE c == Append(up, Other(side))
           t == Sunk(up, up, side)
<1>5. IsPrefix(up, up)
  BY <1>0, PrefixOrder
<1>6. c \in Path /\ Len(c) = Len(up) + 1 /\ c # up /\ Len(up) \in Nat
  BY <1>0, ChildType, PathType
<1>7. /\ t \in Path /\ Len(t) = Len(up) + 1 /\ IsPrefix(c, t) /\ Lifted(t, up, side) = up
  BY <1>0, <1>5, SunkBelow, LiftedSunk
<1> HIDE DEF t
<1>8. t = c
  BY <1>6, <1>7, PrefixElements, PathEqual
<1>9. c # tb.at[p] /\ c \in Positions(tb.at, tb.split)
  <2>1. c # tb.at[p]
    <3> SUFFICES ASSUME c = Append(up, side) PROVE FALSE
      BY <1>0
    <3> QED BY <1>0, ChildParent
  <2>2. c \in Positions(tb.at, tb.split)
    BY <1>0, TreeIff DEF Sides
  <2> QED BY <2>1, <2>2
<1>10. up \in Positions(at, sib)
  <2>1. CASE c \in DOMAIN tb.split
    <3>1. DOMAIN sib = {Lifted(s, up, side) : s \in DOMAIN tb.split \ {up}}
      BY DEF Sibling
    <3> HIDE DEF c
    <3>2. c \in DOMAIN tb.split \ {up} /\ Lifted(c, up, side) = up
      BY <1>6, <1>7, <1>8, <2>1
    <3> QED BY <3>1, <3>2 DEF Positions
  <2>2. CASE c \notin DOMAIN tb.split
    <3>1. PICK q \in DOMAIN tb.at : tb.at[q] = c
      BY <1>9, <2>2 DEF Positions
    <3> HIDE DEF c
    <3>2. q \in DOMAIN at /\ at[q] = up
      BY <1>2, <1>7, <1>8, <1>9, <3>1
    <3> QED BY <3>2 DEF Positions
  <2> QED BY <2>1, <2>2
<1> QED BY <1>4, <1>8, <1>10 DEF t, c

\* Below a position is it, or what is inside it.
LEMMA InsideOrAt ==
  ASSUME NEW up \in Path, NEW q \in Path
  PROVE  /\ IsPrefix(up, q) <=> q = up \/ Inside(up, q)
         /\ ~ Inside(up, up)
         /\ ~ After(up, up)
<1>1. IsPrefix(up, up)
  BY PrefixOrder
<1>2. IsPrefix(up, q) <=> q = up \/ Inside(up, q)
  BY <1>1 DEF Inside, IsStrictPrefix
<1>3. ~ Inside(up, up)
  BY DEF Inside, IsStrictPrefix
<1>4. ~ Before(up, up)
  BY DEF Before
<1> QED BY <1>2, <1>3, <1>4 DEF After

\* What an unsplit does not move, and the place of the parent, have the spaces
\* they had.
LEMMA UnsplitOutside ==
  ASSUME NEW tb, GoodTab(tb), NEW p \in DOMAIN tb.at, tb.at[p] # <<>>,
         NEW size, Fills(tb.at, tb.split, size),
         NEW up, up = Front(tb.at[p]),
         NEW at, at = UnsplitAt(tb, p), NEW sib, sib = Sibling(tb, p),
         NEW new, new = Cascaded(sib, up)
  PROVE  /\ \A q \in DOMAIN sib : q \in Path /\ ~ IsPrefix(up, q) =>
              q \in DOMAIN tb.split /\ new[q] = tb.split[q]
         /\ \A q \in Positions(at, sib) : ~ Inside(up, q) =>
              SlotAt(new, q, size) = SlotAt(tb.split, q, size)
         /\ SlotAt(new, up, size) = Total(tb.split[up])
<1> DEFINE side == Last(tb.at[p])
<1>0. side = Last(tb.at[p])
  OBVIOUS
<1> HIDE DEF side
<1>1. /\ GoodTree(at, sib) /\ up \in DOMAIN tb.split /\ side \in Sides /\ up \in Path
      /\ \A q \in DOMAIN sib :
           /\ Sunk(q, up, side) \in DOMAIN tb.split \ {up}
           /\ q \in Path
           /\ q # up => sib[q] = tb.split[Sunk(q, up, side)]
  BY <1>0, SiblingGood
<1>2. up \in Positions(at, sib)
  BY <1>0, SunkPositions
<1>3. IsTree(at, sib) /\ GoodTree(tb.at, tb.split)
  BY <1>1 DEF GoodTree, GoodTab
<1>4. ASSUME NEW q \in DOMAIN sib, q # up, ~ Inside(up, q)
      PROVE  q \in DOMAIN tb.split /\ sib[q] = tb.split[q]
  <2>1. ~ IsPrefix(up, q) /\ q \in Path
    BY <1>1, <1>4, InsideOrAt
  <2>2. Sunk(q, up, side) = q
    BY <1>1, <2>1, LiftedElsewhere
  <2> QED BY <1>1, <1>4, <2>2
<1>5. \A q \in Positions(at, sib) : ~ Inside(up, q) => SlotAt(sib, q, size) = SlotAt(tb.split, q, size)
  <2> SUFFICES ASSUME NEW q \in Positions(at, sib), ~ Inside(up, q)
               PROVE  SlotAt(sib, q, size) = SlotAt(tb.split, q, size)
    OBVIOUS
  <2>1. CASE q = <<>>
    BY <2>1 DEF SlotAt
  <2>2. CASE q # <<>>
    <3>1. Front(q) \in DOMAIN sib /\ Front(q) # up /\ ~ Inside(up, Front(q))
      BY <1>1, <1>3, <2>2, PositionParent, ParentOutside
    <3> QED BY <1>4, <2>2, <3>1 DEF SlotAt
  <2> QED BY <2>1, <2>2
<1>6. \A q \in DOMAIN sib : q # up /\ ~ Inside(up, q) =>
        Refit(sib[q].dir, sib[q].slot, SlotAt(sib, q, size)) = sib[q].slot
  <2> SUFFICES ASSUME NEW q \in DOMAIN sib, q # up, ~ Inside(up, q)
               PROVE  Refit(sib[q].dir, sib[q].slot, SlotAt(sib, q, size)) = sib[q].slot
    OBVIOUS
  <2>1. q \in DOMAIN tb.split /\ sib[q] = tb.split[q]
    BY <1>4
  <2>2. SlotAt(sib, q, size) = SlotAt(tb.split, q, size)
    BY <1>5 DEF Positions
  <2>3. Refit(tb.split[q].dir, tb.split[q].slot, SlotAt(tb.split, q, size)) = tb.split[q].slot
    BY <1>3, <2>1, FilledStays
  <2> QED BY <2>1, <2>2, <2>3
<1>7. \A q \in DOMAIN sib : q # up /\ ~ Inside(up, q) => new[q] = sib[q]
  BY <1>1, <1>6, CascadeElsewhere
<1>8. \A q \in Positions(at, sib) : ~ Inside(up, q) => SlotAt(new, q, size) = SlotAt(sib, q, size)
  BY <1>1, <1>3, <1>7, SlotElsewhere
<1>9. \A q \in Positions(at, sib) : ~ Inside(up, q) => SlotAt(new, q, size) = SlotAt(tb.split, q, size)
  BY <1>5, <1>8
<1>10. SlotAt(new, up, size) = Total(tb.split[up])
  <2>1. SlotAt(new, up, size) = SlotAt(tb.split, up, size)
    BY <1>1, <1>2, <1>9, InsideOrAt
  <2> QED BY <1>1, <2>1 DEF Fills
<1>11. \A q \in DOMAIN sib : q \in Path /\ ~ IsPrefix(up, q) =>
              q \in DOMAIN tb.split /\ new[q] = tb.split[q]
  BY <1>1, <1>4, <1>7, InsideOrAt
<1> QED BY <1>9, <1>10, <1>11

\* A space at least as large on both axes.
Covers(s, t) == s \in Size /\ \A ax \in Axes : s[ax] >= t[ax]

\* Inside the parent's place, a split whose space has grown fills it, and
\* both its sides have grown.
LEMMA UnsplitStep ==
  ASSUME NEW tb, GoodTab(tb), NEW p \in DOMAIN tb.at, tb.at[p] # <<>>,
         NEW size, Fills(tb.at, tb.split, size),
         NEW up, up = Front(tb.at[p]), NEW side, side = Last(tb.at[p]),
         NEW sib, sib = Sibling(tb, p), NEW new, new = Cascaded(sib, up),
         NEW q \in DOMAIN sib, IsPrefix(up, q),
         NEW x, x = Sunk(q, up, side),
         Covers(SlotAt(new, q, size), SlotAt(tb.split, x, size))
  PROVE  /\ x \in DOMAIN tb.split
         /\ Total(new[q]) = SlotAt(new, q, size)
         /\ \A ax \in Axes \ {new[q].dir} : new[q].slot["right"][ax] = SlotAt(new, q, size)[ax]
         /\ \A s \in Sides : Covers(new[q].slot[s], tb.split[x].slot[s])
<1> DEFINE at == UnsplitAt(tb, p)
           dir == tb.split[x].dir
           slots == tb.split[x].slot
           sz == SlotAt(new, q, size)
<1>1. /\ GoodTree(at, sib) /\ up \in DOMAIN tb.split /\ side \in Sides /\ up \in Path
      /\ q \in Path /\ x \in DOMAIN tb.split
      /\ sib[q].dir = dir
      /\ q = up => sib[q].slot = Refit(sib[q].dir, slots, Total(tb.split[up]))
      /\ q # up => sib[q] = tb.split[x]
  BY SiblingGood
<1>2. SlotAt(new, up, size) = Total(tb.split[up])
  BY UnsplitOutside
<1>3. new[q] = CascadeStep(sib, up, new, q)
  <2>1. \A r \in DOMAIN sib : r \in Path /\ r \in Positions(at, sib)
    BY <1>1, TreeIff DEF GoodTree, Positions
  <2>2. \A r \in DOMAIN sib : r # <<>> => Front(r) \in DOMAIN sib
    BY <1>1, <2>1, PositionParent DEF GoodTree
  <2> QED BY <1>1, <2>1, <2>2, CascadedSteps DEF GoodTree
<1> HIDE DEF at
<1>4. new[q].dir = dir /\ new[q].slot = Refit(dir, slots, sz)
  <2>1. CASE q = up
    <3>1. new[q] = sib[q]
      BY <1>1, <1>3, <2>1, InsideOrAt DEF CascadeStep
    <3> QED BY <1>1, <1>2, <2>1, <3>1
  <2>2. CASE q # up
    <3>1. After(up, q) /\ q # <<>>
      BY <1>1, <2>2, InsideOrAt, NotBeforeRoot DEF After
    <3> DEFINE n == tb.split[x]
    <3>2. new[q] = [n EXCEPT !.slot = Refit(n.dir, @, sz)]
      BY <1>1, <1>3, <2>2, <3>1 DEF CascadeStep, SlotAt
    <3>3. IsSplit(n)
      BY <1>1 DEF GoodTab, GoodTree
    <3> HIDE DEF n, sz
    <3>4. new[q].dir = n.dir /\ new[q].slot = Refit(n.dir, n.slot, sz)
      BY <3>2, <3>3, RefittedSplit
    <3> QED BY <3>4 DEF n
  <2> QED BY <2>1, <2>2
<1>5. /\ dir \in Axes /\ slots["left"] \in Size /\ slots["right"] \in Size
      /\ Whole(dir, slots) = SlotAt(tb.split, x, size)
      /\ \A ax \in Axes \ {dir} : slots["right"][ax] = SlotAt(tb.split, x, size)[ax]
  <2>1. GoodTree(tb.at, tb.split) /\ Fills(tb.at, tb.split, size)
    BY DEF GoodTab
  <2>2. x \in DOMAIN tb.split
    BY <1>1
  <2> DEFINE old == SlotAt(tb.split, x, size)
  <2>3. old = SlotAt(tb.split, x, size) /\ dir = tb.split[x].dir /\ slots = tb.split[x].slot
    OBVIOUS
  <2> HIDE DEF old, dir, slots
  <2>4. /\ dir \in Axes /\ slots["left"] \in Size /\ slots["right"] \in Size
        /\ Whole(dir, slots) = old
        /\ \A ax \in Axes \ {dir} : slots["right"][ax] = old[ax]
    BY <2>1, <2>2, <2>3, FilledTab, SMTT(30)
  <2> QED BY <2>3, <2>4
<1>6. sz \in Size /\ \A ax \in Axes : sz[ax] >= Whole(dir, slots)[ax]
  BY <1>5 DEF Covers
<1> DEFINE fit == new[q].slot
<1>7. fit = Refit(dir, slots, sz)
  BY <1>4
<1>n. \A ax \in Axes \ {dir} : slots["right"][ax] = Whole(dir, slots)[ax]
  BY <1>5, ZenonT(60)
<1> HIDE DEF dir, slots, sz, fit
<1>8. /\ Whole(dir, fit) = sz
      /\ \A ax \in Axes \ {dir} : fit["right"][ax] = sz[ax]
      /\ \A s \in Sides : /\ fit[s] \in Size
                          /\ \A ax \in Axes : fit[s][ax] >= slots[s][ax]
  BY <1>5, <1>6, <1>7, <1>n, RefitGrows
<1> QED BY <1>1, <1>4, <1>8 DEF Total, Covers, dir, slots, sz, fit

\* So every space inside the parent's place covers the one it was.
LEMMA UnsplitGrows ==
  ASSUME NEW tb, GoodTab(tb), NEW p \in DOMAIN tb.at, tb.at[p] # <<>>,
         NEW size, Fills(tb.at, tb.split, size),
         NEW up, up = Front(tb.at[p]), NEW side, side = Last(tb.at[p]),
         NEW at, at = UnsplitAt(tb, p), NEW sib, sib = Sibling(tb, p),
         NEW new, new = Cascaded(sib, up)
  PROVE  \A q \in Positions(at, sib) : IsPrefix(up, q) =>
           Covers(SlotAt(new, q, size), SlotAt(tb.split, Sunk(q, up, side), size))
<1> DEFINE Grown(q) == Covers(SlotAt(new, q, size), SlotAt(tb.split, Sunk(q, up, side), size))
           P == Positions(at, sib)
           T(n) == {k \in 0..n : \A q \in P : IsPrefix(up, q) /\ Len(q) <= k => Grown(q)}
<1>1. /\ GoodTree(at, sib) /\ IsTree(at, sib) /\ up \in DOMAIN tb.split /\ up \in Path
      /\ side \in Sides /\ Other(side) \in Sides /\ Sunk(up, up, side) = Append(up, Other(side))
      /\ GoodTree(tb.at, tb.split)
  BY SiblingGood, SunkPositions, OtherType DEF GoodTree, GoodTab
<1>2. \A q \in P : q \in Path /\ Len(q) \in Nat
  BY SunkPositions, PathType
<1>3. Grown(up)
  <2> DEFINE c == Append(up, Other(side))
             n == tb.split[up]
  <2>1. c # <<>> /\ Front(c) = up /\ Last(c) = Other(side)
    BY <1>1, ChildType, ChildParent
  <2>2. SlotAt(tb.split, c, size) = n.slot[Other(side)]
    BY <2>1 DEF SlotAt
  <2>3. SlotAt(new, up, size) = Whole(n.dir, n.slot)
    <3>1. SlotAt(new, up, size) = Total(tb.split[up])
      BY UnsplitOutside
    <3> QED BY <3>1 DEF Total
  <2>4. /\ n.dir \in Axes /\ n.slot["left"] \in Size /\ n.slot["right"] \in Size
        /\ \A ax \in Axes \ {n.dir} : n.slot["right"][ax] = Whole(n.dir, n.slot)[ax]
    <3> DEFINE sz == SlotAt(tb.split, up, size)
               m == n.dir
               slots == n.slot
    <3>1. sz = SlotAt(tb.split, up, size) /\ m = tb.split[up].dir /\ slots = tb.split[up].slot
      OBVIOUS
    <3>2. up \in DOMAIN tb.split /\ GoodTree(tb.at, tb.split) /\ Fills(tb.at, tb.split, size)
      BY <1>1
    <3> HIDE DEF sz, m, slots
    <3>3. /\ m \in Axes /\ slots["left"] \in Size /\ slots["right"] \in Size
          /\ Whole(m, slots) = sz
          /\ \A ax \in Axes \ {m} : slots["right"][ax] = sz[ax]
      BY <3>1, <3>2, FilledTab
    <3>4. m = n.dir /\ slots = n.slot
      BY DEF m, slots
    <3> QED BY <3>3, <3>4
  <2> DEFINE dir == n.dir
             slots == n.slot
             whole == Whole(dir, slots)
  <2> HIDE DEF n, dir, slots, whole
  <2>5. /\ whole \in Size
        /\ whole[dir] = slots["left"][dir] + slots["right"][dir] + Gutter(dir)
        /\ \A ax \in Axes \ {dir} : whole[ax] = slots["left"][ax]
        /\ Gutter(dir) \in Nat
    BY <2>4, WholeSize, GutterType DEF dir, slots, whole
  <2>6. ASSUME NEW s \in Sides, NEW ax \in Axes PROVE whole[ax] >= slots[s][ax]
    <3>1. slots["left"][ax] \in Nat /\ slots["right"][ax] \in Nat
      BY <2>4 DEF Size, slots
    <3>2. CASE ax = dir
      BY <2>5, <3>1, <3>2 DEF Sides
    <3>3. CASE ax # dir
      BY <2>4, <2>5, <3>1, <3>3 DEF Sides, dir, slots, whole
    <3> QED BY <3>2, <3>3
  <2>7. Covers(whole, slots[Other(side)])
    BY <1>1, <2>5, <2>6 DEF Covers
  <2> HIDE DEF c
  <2>8. Sunk(up, up, side) = c
    BY <1>1 DEF c
  <2>9. SlotAt(new, up, size) = whole /\ SlotAt(tb.split, c, size) = slots[Other(side)]
    BY <2>2, <2>3 DEF whole, slots, dir
  <2> QED BY <2>7, <2>8, <2>9
<1>4. ASSUME NEW q \in P, IsPrefix(up, q), q # up,
             IsPrefix(up, Front(q)) => Grown(Front(q))
      PROVE  Grown(q)
  <2> DEFINE f == Front(q)
             s == Last(q)
             x == Sunk(f, up, side)
  <2>1. q # <<>> /\ q \in Path
    <3>1. q \in Path /\ Inside(up, q)
      BY <1>1, <1>2, <1>4, InsideOrAt
    <3> QED BY <3>1, NotBeforeRoot DEF After
  <2>2. f \in DOMAIN sib /\ f \in Path /\ s \in Sides /\ q = Append(f, s)
    BY <1>1, <2>1, PositionParent
  <2> HIDE DEF f, s
  <2>3. IsPrefix(up, f)
    BY <1>1, <1>4, <2>2, ChildOrder
  <2>4. Sunk(q, up, side) = Append(x, s)
    BY <1>1, <2>2, <2>3, SunkAppend
  <2>5. x \in DOMAIN tb.split /\ Covers(new[f].slot[s], tb.split[x].slot[s])
    <3>1. Covers(SlotAt(new, f, size), SlotAt(tb.split, x, size))
      BY <1>4, <2>3 DEF f
    <3>2. x = Sunk(f, up, side)
      OBVIOUS
    <3> HIDE DEF x
    <3>3. /\ x \in DOMAIN tb.split
          /\ \A r \in Sides : Covers(new[f].slot[r], tb.split[x].slot[r])
      <4>1. f \in DOMAIN sib
        BY <2>2
      <4> QED BY <2>3, <3>1, <3>2, <4>1, UnsplitStep
    <3> QED BY <2>2, <3>3
  <2>6. x \in Path
    BY <1>1, <2>5, TreeIff DEF GoodTree
  <2> HIDE DEF x
  <2> DEFINE d == Append(x, s)
  <2>7. d # <<>> /\ Front(d) = x /\ Last(d) = s
    BY <2>2, <2>6, ChildType, ChildParent
  <2> HIDE DEF d
  <2>8. SlotAt(tb.split, d, size) = tb.split[x].slot[s]
    BY <2>7 DEF SlotAt
  <2>9. SlotAt(new, q, size) = new[f].slot[s]
    BY <2>1 DEF SlotAt, f, s
  <2>10. Sunk(q, up, side) = d
    BY <2>4 DEF d
  <2> QED BY <2>5, <2>8, <2>9, <2>10
<1> HIDE DEF Grown
<1>5. ASSUME NEW n \in Nat PROVE n \in T(n)
  <2>1. 0 \in T(n)
    <3> SUFFICES ASSUME NEW q \in P, IsPrefix(up, q), Len(q) <= 0 PROVE Grown(q)
      OBVIOUS
    <3>1. q = <<>> /\ q \in Path
      BY <1>2, RootOnly
    <3>2. q = up
      BY <1>1, <3>1, InsideOrAt, NotBeforeRoot DEF After
    <3> QED BY <1>3, <3>2
  <2>2. ASSUME NEW k \in 1..n, k - 1 \in T(n) PROVE k \in T(n)
    <3> SUFFICES ASSUME NEW q \in P, IsPrefix(up, q), Len(q) <= k PROVE Grown(q)
      OBVIOUS
    <3>1. CASE q = up
      BY <1>3, <3>1
    <3>2. CASE q # up
      <4>1. q \in Path /\ q # <<>>
        BY <1>1, <1>2, <3>2, InsideOrAt, NotBeforeRoot DEF After
      <4>2. Front(q) \in DOMAIN sib /\ Len(Front(q)) = Len(q) - 1 /\ Len(q) \in Nat
        BY <1>1, <4>1, PositionParent
      <4>3. Front(q) \in P /\ Len(Front(q)) <= k - 1
        BY <4>2 DEF Positions
      <4>4. IsPrefix(up, Front(q)) => Grown(Front(q))
        BY <2>2, <4>3
      <4> QED BY <1>4, <3>2, <4>4
    <3> QED BY <3>1, <3>2
  <2>3. \A k \in 0..n : k \in T(n)
    <3> DEFINE U == T(n)
    <3>1. 0 \in U /\ \A k \in 1..n : k - 1 \in U => k \in U
      BY <2>1, <2>2
    <3> HIDE DEF U
    <3>2. \A k \in 0..n : k \in U
      BY <3>1, SetInduction
    <3> QED BY <3>2 DEF U
  <2>4. n \in 0..n
    OBVIOUS
  <2> HIDE DEF T
  <2> QED BY <2>3, <2>4
<1> SUFFICES ASSUME NEW q \in P, IsPrefix(up, q) PROVE Grown(q)
  BY DEF Grown
<1>6. Len(q) \in T(Len(q)) /\ Len(q) \in Nat
  BY <1>2, <1>5
<1> QED BY <1>6

\* An unsplit of a tab the splits fill leaves one they fill.
LEMMA UnsplitFills ==
  ASSUME NEW tb, GoodTab(tb), NEW p \in DOMAIN tb.at, tb.at[p] # <<>>,
         NEW size, Fills(tb.at, tb.split, size)
  PROVE  Fills(UnsplitAt(tb, p), UnsplitSplit(tb, p), size)
<1> DEFINE up == Front(tb.at[p])
           side == Last(tb.at[p])
           at == UnsplitAt(tb, p)
           sib == Sibling(tb, p)
           new == Cascaded(sib, up)
<1>0. /\ up = Front(tb.at[p]) /\ side = Last(tb.at[p]) /\ at = UnsplitAt(tb, p)
      /\ sib = Sibling(tb, p) /\ new = Cascaded(sib, up)
  OBVIOUS
<1>n. new = UnsplitSplit(tb, p)
  BY DEF UnsplitSplit
<1>1. GoodTree(at, sib) /\ side \in Sides /\ up \in Path
  BY SiblingGood
<1> HIDE DEF up, side, at, sib, new
<1>2. DOMAIN new = DOMAIN sib
  <2>1. DOMAIN Cascaded(sib, up) = DOMAIN sib
    BY <1>1, CascadedGood
  <2> QED BY <1>0, <2>1
<1>3. \A q \in Positions(at, sib) : q \in Path /\ Sunk(q, up, side) \in Positions(tb.at, tb.split)
  BY <1>0, SunkPositions
<1>4. \A q \in DOMAIN sib : q \in Path /\ ~ IsPrefix(up, q) =>
              q \in DOMAIN tb.split /\ new[q] = tb.split[q]
  BY <1>0, UnsplitOutside
<1>m. \A q \in Positions(at, sib) : ~ Inside(up, q) =>
              SlotAt(new, q, size) = SlotAt(tb.split, q, size)
  BY <1>0, UnsplitOutside
<1>5. \A q \in Positions(at, sib) : IsPrefix(up, q) =>
           Covers(SlotAt(new, q, size), SlotAt(tb.split, Sunk(q, up, side), size))
  BY <1>0, UnsplitGrows
<1>6. \A q \in Positions(tb.at, tb.split) :
        LET s == SlotAt(tb.split, q, size) IN s \in Size /\ s["x"] > 0 /\ s["y"] > 0
  BY DEF Fills, Positions
<1>7. ASSUME NEW q \in Positions(at, sib)
      PROVE  SlotAt(new, q, size) \in Size /\ SlotAt(new, q, size)["x"] > 0 /\ SlotAt(new, q, size)["y"] > 0
  <2>1. CASE IsPrefix(up, q)
    <3> DEFINE s == SlotAt(new, q, size)
               t == SlotAt(tb.split, Sunk(q, up, side), size)
    <3>1. Covers(s, t) /\ t \in Size /\ t["x"] > 0 /\ t["y"] > 0
      BY <1>3, <1>5, <1>6, <2>1
    <3> HIDE DEF s, t
    <3>2. s \in Size /\ s["x"] > 0 /\ s["y"] > 0
      BY <3>1 DEF Covers, Size, Axes
    <3> QED BY <3>2 DEF s
  <2>2. CASE ~ IsPrefix(up, q)
    <3>1. Sunk(q, up, side) = q /\ ~ Inside(up, q)
      BY <1>1, <1>3, <2>2, LiftedElsewhere, InsideOrAt
    <3> QED BY <1>3, <1>m, <1>6, <3>1
  <2> QED BY <2>1, <2>2
<1>8. ASSUME NEW q \in DOMAIN sib
      PROVE  /\ Total(new[q]) = SlotAt(new, q, size)
             /\ \A ax \in Axes \ {new[q].dir} : new[q].slot["right"][ax] = SlotAt(new, q, size)[ax]
  <2>0. q \in Positions(at, sib) /\ q \in Path
    BY <1>3 DEF Positions
  <2>1. CASE IsPrefix(up, q)
    <3> DEFINE x == Sunk(q, up, side)
    <3>1. Covers(SlotAt(new, q, size), SlotAt(tb.split, x, size)) /\ x = Sunk(q, up, side)
      BY <1>5, <2>0, <2>1
    <3> HIDE DEF x
    <3>2. Total(new[q]) = SlotAt(new, q, size)
      BY <1>0, <2>1, <3>1, UnsplitStep
    <3>3. \A ax \in Axes \ {new[q].dir} : new[q].slot["right"][ax] = SlotAt(new, q, size)[ax]
      BY <1>0, <2>1, <3>1, UnsplitStep, SMTT(30)
    <3> QED BY <3>2, <3>3
  <2>2. CASE ~ IsPrefix(up, q)
    <3>1. /\ q \in DOMAIN tb.split /\ new[q] = tb.split[q]
          /\ SlotAt(new, q, size) = SlotAt(tb.split, q, size)
      BY <1>1, <1>4, <1>m, <2>0, <2>2, InsideOrAt
    <3> QED BY <3>1 DEF Fills
  <2> QED BY <2>1, <2>2
<1>9. Fills(at, new, size)
  BY <1>2, <1>7, <1>8 DEF Fills, Positions
<1> QED BY <1>0, <1>n, <1>9

\* A pane removed from a sound tab leaves a sound one.
LEMMA UnsplitSound ==
  ASSUME NEW tb, GoodTab(tb), Sound(tb), tb.zoomed = NoPane,
         NEW p \in DOMAIN tb.at, tb.at[p] # <<>>
  PROVE  Sound(Unsplit(tb, p))
<1> DEFINE new == Unsplit(tb, p)
           up == Front(tb.at[p])
           side == Last(tb.at[p])
           sib == Sibling(tb, p)
           at == UnsplitAt(tb, p)
           split == UnsplitSplit(tb, p)
<1>0. /\ new = Unsplit(tb, p) /\ up = Front(tb.at[p]) /\ side = Last(tb.at[p])
      /\ sib = Sibling(tb, p) /\ at = UnsplitAt(tb, p) /\ split = Cascaded(sib, up)
  BY DEF UnsplitSplit
<1>1. /\ GoodTab(new) /\ DOMAIN new.at = DOMAIN tb.at \ {p} /\ new.at = at /\ new.split = split
      /\ new.size = tb.size /\ new.zoomed = NoPane
  BY UnsplitFields
<1>2. /\ Fills(tb.at, tb.split, tb.size) /\ tb.pty = SlotsOf(tb) /\ tb.shown = tb.pty
  BY DEF Sound, Fits, Settled
<1>3. GoodTree(at, sib) /\ side \in Sides /\ up \in Path
  BY SiblingGood
<1>4. Fills(at, split, tb.size)
  BY <1>2, UnsplitFills
<1> HIDE DEF new, up, side, sib, at, split
<1> DEFINE root == tb.size
<1>m. Fills(tb.at, tb.split, root)
  BY <1>2
<1> HIDE DEF root
<1>n. /\ \A q \in Positions(at, sib) : ~ Inside(up, q) =>
              SlotAt(split, q, root) = SlotAt(tb.split, q, root)
      /\ SlotAt(split, up, root) = Total(tb.split[up])
  <2>1. \A q \in Positions(at, sib) : ~ Inside(up, q) =>
          SlotAt(split, q, root) = SlotAt(tb.split, q, root)
    BY <1>0, <1>m, UnsplitOutside
  <2>2. SlotAt(split, up, root) = Total(tb.split[up])
    BY <1>0, <1>m, UnsplitOutside
  <2> QED BY <2>1, <2>2
<1>5. /\ \A q \in Positions(at, sib) : ~ Inside(up, q) =>
              SlotAt(split, q, tb.size) = SlotAt(tb.split, q, tb.size)
      /\ SlotAt(split, up, tb.size) = Total(tb.split[up])
  BY <1>n DEF root
<1>6. ASSUME NEW q \in DOMAIN new.at
      PROVE  new.pty[q] = SlotAt(split, at[q], tb.size) /\ new.shown[q] = new.pty[q]
  <2>1. CASE new.at[q] = up
    <3>1. new.pty[q] = Total(tb.split[up]) /\ new.shown[q] = new.pty[q]
      BY <1>0, <2>1, UnsplitSizes
    <3> QED BY <1>1, <1>5, <2>1, <3>1
  <2>2. CASE new.at[q] # up /\ After(up, new.at[q])
    <3>1. new.pty[q] = SlotAt(new.split, new.at[q], tb.size) /\ new.shown[q] = new.pty[q]
      BY <1>0, <2>2, UnsplitSizes
    <3> QED BY <1>1, <3>1
  <2>3. CASE new.at[q] # up /\ ~ After(up, new.at[q])
    <3>1. new.pty[q] = tb.pty[q] /\ new.shown[q] = tb.shown[q]
      BY <1>0, <2>3, UnsplitSizes
    <3>2. at[q] \in Positions(at, sib) /\ at[q] \in Path /\ ~ Inside(up, at[q])
      <4>1. at[q] \in Positions(at, sib)
        BY <1>1 DEF Positions
      <4> QED BY <1>0, <1>1, <2>3, <4>1, SunkPositions DEF After
    <3>3. at[q] = tb.at[q]
      <4> DEFINE x == tb.at[q]
      <4>1. x \in Path /\ q \in DOMAIN tb.at /\ at[q] = Lifted(x, up, side)
        BY <1>0, <1>1, TreeIff DEF GoodTab, GoodTree, UnsplitAt
      <4> HIDE DEF x
      <4>2. ~ IsPrefix(up, at[q])
        BY <1>1, <1>3, <2>3, <3>2, InsideOrAt
      <4>3. CASE IsPrefix(Append(up, Other(side)), x)
        BY <1>3, <4>1, <4>2, <4>3, SunkLifted
      <4>4. CASE ~ IsPrefix(Append(up, Other(side)), x)
        BY <4>1, <4>4 DEF Lifted, x
      <4> QED BY <4>3, <4>4
    <3>4. tb.pty[q] = SlotAt(tb.split, at[q], tb.size) /\ tb.shown[q] = tb.pty[q]
      BY <1>1, <1>2, <3>3 DEF SlotsOf
    <3> QED BY <1>5, <3>1, <3>2, <3>4
  <2> QED BY <2>1, <2>2, <2>3
<1>7. new.pty = SlotsOf(new) /\ new.shown = new.pty
  <2>1. /\ new.pty = [q \in DOMAIN new.at |-> new.pty[q]]
        /\ new.shown = [q \in DOMAIN new.at |-> new.shown[q]]
    BY <1>1 DEF GoodTab
  <2> DEFINE f == new.pty
             h == new.shown
             g == SlotsOf(new)
  <2>2. g = [q \in DOMAIN new.at |-> g[q]] /\ \A q \in DOMAIN new.at : g[q] = SlotAt(split, at[q], tb.size)
    BY <1>1 DEF SlotsOf
  <2> HIDE DEF f, g, h
  <2>3. /\ f = [q \in DOMAIN new.at |-> f[q]] /\ h = [q \in DOMAIN new.at |-> h[q]]
        /\ \A q \in DOMAIN new.at : f[q] = g[q] /\ h[q] = f[q]
    BY <1>6, <2>1, <2>2 DEF f, h
  <2>4. f = g /\ h = f
    BY <2>2, <2>3
  <2> QED BY <2>4 DEF f, g, h
<1>8. Sound(new)
  BY <1>1, <1>4, <1>7 DEF Sound, Fits, Settled
<1> QED BY <1>8 DEF new

\* So does the last pane: there is nothing left to fill.
LEMMA LastForgotSound ==
  ASSUME NEW tb, GoodTab(tb), Sound(tb), tb.zoomed = NoPane,
         NEW p \in DOMAIN tb.at, tb.at[p] = <<>>
  PROVE  Sound(Forgot(tb, p))
<1> DEFINE new == Forgot(tb, p)
<1>1. /\ new.split = tb.split /\ new.size = tb.size /\ new.zoomed = NoPane
      /\ GoodTab(new) /\ DOMAIN new.at = {} /\ DOMAIN tb.at = {p}
  BY ForgotFields, LastForgotGood DEF GoodTab
<1>2. DOMAIN tb.split = {}
  BY RootLeaf DEF GoodTab, GoodTree
<1> HIDE DEF new
<1>3. Fills(new.at, new.split, new.size)
  BY <1>1, <1>2 DEF Fills
<1>4. new.pty = SlotsOf(new) /\ new.shown = new.pty
  <2>1. new.pty = [q \in {} |-> new.pty[q]] /\ new.shown = [q \in {} |-> new.shown[q]]
    BY <1>1 DEF GoodTab
  <2> DEFINE f == new.pty
             h == new.shown
             g == SlotsOf(new)
  <2>2. g = [q \in {} |-> g[q]]
    BY <1>1 DEF SlotsOf
  <2> HIDE DEF f, g, h
  <2>3. f = g /\ h = f
    BY <2>1, <2>2 DEF f, h
  <2> QED BY <2>3 DEF f, g, h
<1>5. Sound(new)
  BY <1>1, <1>3, <1>4 DEF Sound, Fits, Settled
<1> QED BY <1>5 DEF new

\* Each step of the walk of a removal leaves a sound tab sound.
LEMMA RemoveNextSound ==
  ASSUME NEW tb, NEW kill, NEW w, WalkGood(w, tb, kill), Sound(w.tab), w.tab.zoomed = NoPane
  PROVE  Sound(RemoveNext(w, kill).tab) /\ RemoveNext(w, kill).tab.zoomed = NoPane
<1> DEFINE new == RemoveNext(w, kill)
           p == NextRemoved(w, kill)
<1>1. CASE w.rest \cap kill = {}
  BY <1>1 DEF RemoveNext
<1>2. CASE w.rest \cap kill # {}
  <2>0. new = RemoveNext(w, kill) /\ p = NextRemoved(w, kill)
    OBVIOUS
  <2> HIDE DEF new, p
  <2>1. /\ p \in w.rest \cap kill
        /\ w.tab.at[p] = <<>> => new.tab = Forgot(w.tab, p)
        /\ w.tab.at[p] # <<>> => new.tab = Unsplit(w.tab, p)
    BY <1>2, <2>0, RemoveNextIs
  <2>2. p \in DOMAIN w.tab.at /\ GoodTab(w.tab)
    BY <2>1 DEF WalkGood
  <2>3. CASE w.tab.at[p] = <<>>
    <3>1. Sound(Forgot(w.tab, p))
      BY <2>2, <2>3, LastForgotSound
    <3>2. Forgot(w.tab, p).zoomed = NoPane
      BY <2>2, ForgotFields DEF GoodTab
    <3> QED BY <2>0, <2>1, <2>3, <3>1, <3>2
  <2>4. CASE w.tab.at[p] # <<>>
    <3>1. Sound(Unsplit(w.tab, p))
      BY <2>2, <2>4, UnsplitSound
    <3>2. Unsplit(w.tab, p).zoomed = NoPane
      BY <2>2, <2>4, UnsplitFields
    <3> QED BY <2>0, <2>1, <2>4, <3>1, <3>2
  <2> QED BY <2>3, <2>4
<1> QED BY <1>1, <1>2

\* And so does the whole removal, whatever panes it takes.
LEMMA RemovedSound ==
  ASSUME NEW tb, GoodTab(tb), Sound(tb), tb.zoomed = NoPane,
         NEW kill, kill \subseteq DOMAIN tb.at
  PROVE  Sound(Removed(tb, kill))
<1>1. Cardinality(kill) \in Nat
  BY FS_Subset, FS_CardinalityType DEF GoodTab, GoodTree
<1>2. PICK walk : /\ walk[0] = WalkStart(tb)
                  /\ \A n \in 1..Cardinality(kill) : walk[n] = RemoveNext(walk[n - 1], kill)
                  /\ Walked(tb, kill) = walk[Cardinality(kill)]
  BY <1>1, WalkSteps
<1> DEFINE c == Cardinality(kill)
           WalkSound(w) == WalkGood(w, tb, kill) /\ Sound(w.tab) /\ w.tab.zoomed = NoPane
           T == {n \in 0..c : WalkSound(walk[n])}
<1>3. 0 \in T
  <2>1. WalkStart(tb).tab = tb
    BY DEF WalkStart
  <2>2. WalkSound(WalkStart(tb))
    BY <2>1, WalkStartGood
  <2> HIDE DEF WalkSound
  <2> QED BY <1>1, <1>2, <2>2
<1>4. ASSUME NEW n \in 1..c, n - 1 \in T PROVE n \in T
  <2> DEFINE w == walk[n - 1]
  <2>1. WalkGood(w, tb, kill) /\ Sound(w.tab) /\ w.tab.zoomed = NoPane /\ walk[n] = RemoveNext(w, kill)
    BY <1>2, <1>4
  <2> HIDE DEF w
  <2>2. WalkSound(RemoveNext(w, kill))
    BY <2>1, RemoveNextGood, RemoveNextSound
  <2> HIDE DEF WalkSound
  <2>3. WalkSound(walk[n]) /\ n \in 0..c
    BY <1>1, <2>1, <2>2
  <2> QED BY <2>3
<1>5. \A n \in 0..c : n \in T
  <2> HIDE DEF T
  <2> QED BY <1>1, <1>3, <1>4, SetInduction
<1>6. WalkSound(walk[c])
  <2>1. c \in 0..c
    BY <1>1
  <2> HIDE DEF WalkSound
  <2> QED BY <1>5, <2>1
<1> DEFINE w == Walked(tb, kill)
           new == Removed(tb, kill)
<1>7. Sound(w.tab)
  BY <1>2, <1>6
<1>8. /\ new.at = w.tab.at /\ new.split = w.tab.split /\ new.zoomed = w.tab.zoomed
      /\ new.size = w.tab.size /\ new.before = w.tab.before
      /\ new.shown = w.tab.shown /\ new.pty = w.tab.pty
  BY RemovedFields, ZenonT(60)
<1> HIDE DEF w, new
<1>9. Sound(new)
  BY <1>7, <1>8 DEF Sound, Fits, Settled, SlotsOf
<1> QED BY <1>9 DEF new

\* The end of a split, refused or not.
LEMMA EndSplitSound ==
  ASSUME IInv, NEW new \in Panes, EndSplit(new), Sound(tab),
         ~ (pending.request.top /\ <<>> \in DOMAIN tab.split)
  PROVE  Sound(tab')
<1> DEFINE p == pending.pane
           r == pending.request
<1>1. /\ new \notin InTab /\ r \in Requests /\ GoodTab(tab)
      /\ tab' = IF p \notin InTab \/ Refused(tab, p, r) THEN tab
                ELSE Inserted(tab, p, r, new, pending.size, pending.size)
      /\ ~ (r.top /\ <<>> \in DOMAIN tab.split)
  BY DEF EndSplit, IInv
<1> HIDE DEF p, r
<1>2. CASE p \notin InTab \/ Refused(tab, p, r)
  BY <1>1, <1>2
<1>3. CASE ~ (p \notin InTab \/ Refused(tab, p, r))
  <2>1. tab' = SplitPane(tab, p, r, new)
    BY <1>1, <1>3 DEF Inserted
  <2>2. tab.zoomed = NoPane /\ ~ NoRoom(SplitSlots(tab, p, r), r.dir, tab.size)
    BY <1>3 DEF Refused
  <2>3. p \in DOMAIN tab.at /\ new \notin DOMAIN tab.at
    BY <1>1, <1>3 DEF InTab
  <2> QED BY <1>1, <2>1, <2>2, <2>3, SplitPaneSound
<1> QED BY <1>2, <1>3

(* SplitKeepsLayout holds for every tab and request: what split_and_insert   *)
(* makes of one pane fills its space again and both panes know their sizes,  *)
(* whatever happened to the tab since split_pane computed the first size.    *)
THEOREM SplitsKeepTheLayout == Spec => SplitKeepsLayout
<1>1. ASSUME IInv, [Next]_vars, pending # NoSplit, pending' = NoSplit, Sound(tab),
             ~ (pending.request.top /\ <<>> \in DOMAIN tab.split)
      PROVE  Sound(tab')
  <2>1. CASE UNCHANGED vars
    BY <1>1, <2>1 DEF vars
  <2>2. CASE \E p \in InTab, r \in Requests : BeginSplit(p, r)
    BY <1>1, <2>2 DEF BeginSplit
  <2>3. CASE \E new \in Panes : EndSplit(new)
    BY <1>1, <2>3, EndSplitSound
  <2>4. CASE Moves
    BY <1>1, <2>4, MovesGood
  <2> QED BY <1>1, <2>1, <2>2, <2>3, <2>4 DEF Next, Splits
<1>2. IInv /\ [Next]_vars =>
        [/\ pending # NoSplit /\ pending' = NoSplit
         /\ ~ (pending.request.top /\ <<>> \in DOMAIN tab.split)
         /\ Sound(tab)
         => Sound(tab')]_vars
  BY <1>1
<1> QED BY <1>2, Invariant, PTL DEF Spec, SplitKeepsLayout

(* RemovalKeepsLayout holds for every tab and every set of panes:            *)
(* remove_pane_if leaves the splits filling the tab and the panes told, also *)
(* when its walk meets a split that it has fitted before.                    *)
THEOREM RemovalsKeepTheLayout == Spec => RemovalKeepsLayout
<1>1. ASSUME IInv, tab.zoomed = NoPane, Sound(tab),
             NEW kill \in SUBSET InTab, RemovePanes(kill)
      PROVE  Sound(tab')
  BY <1>1, RemovedSound DEF RemovePanes, InTab, IInv
<1>2. IInv /\ [Next]_vars =>
        [/\ InTab' # InTab /\ tab.zoomed = NoPane
         /\ \E kill \in SUBSET InTab : RemovePanes(kill)
         /\ Sound(tab)
         => Sound(tab')]_vars
  BY <1>1
<1> QED BY <1>2, Invariant, PTL DEF Spec, RemovalKeepsLayout

(* Both together, as the run of the panes states them: PanesKeepLayout.      *)
THEOREM PanesKeepTheLayout == Spec => PanesKeepLayout
<1> QED BY SplitsKeepTheLayout, RemovalsKeepTheLayout, PTL DEF PanesKeepLayout
=============================================================================
