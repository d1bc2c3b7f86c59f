---------------------------- MODULE MCSpawnQueue ----------------------------
(***************************************************************************)
(* SpawnQueue with two plain futures, one of them of low priority, one     *)
(* that awaits a promise and one whose result a thread computes, in bursts *)
(* of one, so that a burst leaves functions of both priorities behind.     *)
(***************************************************************************)
EXTENDS SpawnQueue

CONSTANTS a, l, w, th

MCTasks == {a, l, w, th}
MCLow == {l}
MCAwaiting == {w}
MCThreaded == {th}
=============================================================================
