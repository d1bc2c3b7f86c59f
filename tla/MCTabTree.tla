----------------------------- MODULE MCTabTree -----------------------------
(* Instances of TabTree small enough for TLC. *)
EXTENDS TabTree, TLC

MCSizes == {[x |-> 7, y |-> 3], [x |-> 5, y |-> 2]}

\* An even split to the right, and a row of one cell on top: of the tab's only
\* pane, or of the whole tab.
MCRequests == {[dir |-> "x", second |-> TRUE, top |-> FALSE, cells |-> 0],
               [dir |-> "y", second |-> FALSE, top |-> TRUE, cells |-> 1]}

MCDeltas == {1, -2}

MCSymmetry == Permutations(Panes)
=============================================================================
