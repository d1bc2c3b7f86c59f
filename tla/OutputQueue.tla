----------------------------- MODULE OutputQueue -----------------------------
(***************************************************************************)
(* What the two threads that pass on a pane's output (mux/src/lib.rs)      *)
(* promise together: one queue from the pty to the pane.  What is written  *)
(* gets in line; what is performed is taken from the front, all of it; and *)
(* when something is lost it is the end of the line, once for all that is  *)
(* still to come.  When the pane is gone only the alerts get out.          *)
(* PaneStream shows that the threads and the socketpair keep this promise. *)
(*                                                                         *)
(* That the queue moves at all is not promised here: what the socketpair   *)
(* holds when the parser is through stays in line for ever.                *)
(***************************************************************************)
EXTENDS Integers, Sequences

CONSTANTS Items,
          Disconnected,  \* the line that tells the user of a broken pty
          Alerts(_)      \* what a batch is worth without the pane

VARIABLES line,     \* written, and not yet performed, posted or lost
          open,     \* what is written still gets in line
          there,    \* the pane is
          shown,    \* performed on the pane
          posted    \* alerts that got out without it

vars == <<line, open, there, shown, posted>>

Init == line = <<>> /\ open = TRUE /\ there = TRUE /\ shown = <<>> /\ posted = <<>>

Write(x) ==
  /\ open
  /\ line' = Append(line, x)
  /\ UNCHANGED <<open, there, shown, posted>>

\* The first n leave.
Take(n) ==
  LET batch == SubSeq(line, 1, n)
  IN  /\ line' = SubSeq(line, n + 1, Len(line))
      /\ IF there THEN shown' = shown \o batch /\ UNCHANGED posted
                  ELSE posted' = posted \o Alerts(batch) /\ UNCHANGED shown
      /\ UNCHANGED <<open, there>>

\* All but the first n is lost.  The user is told once at most.
Break(n) ==
  /\ \/ line' = SubSeq(line, 1, n)
     \/ open /\ line' = Append(SubSeq(line, 1, n), Disconnected)
  /\ open' = FALSE
  /\ UNCHANGED <<there, shown, posted>>

PaneGoes ==
  /\ there /\ there' = FALSE
  /\ UNCHANGED <<line, open, shown, posted>>

Next ==
  \/ \E x \in Items : Write(x)
  \/ \E n \in 0..Len(line) : Take(n) \/ Break(n)
  \/ PaneGoes

Spec == Init /\ [][Next]_vars
=============================================================================
