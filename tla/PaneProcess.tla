---------------------------- MODULE PaneProcess ----------------------------
(***************************************************************************)
(* The life of the process behind a local pane: ProcessState of            *)
(* mux/src/localpane.rs and the three functions that change it (is_dead,   *)
(* kill, and the waiter thread of split_child, whose result is `status').  *)
(*                                                                         *)
(* These are operators on values, not actions: the module that owns a pane *)
(* applies them in the steps in which the code calls them.                 *)
(***************************************************************************)

\* config::ExitBehavior: what to do with a pane whose program has finished.
ExitBehaviors == {"Close", "CloseOnCleanExit", "Hold"}

\* ProcessState.  "running" and "pending" carry the flag `killed' of the
\* variants Running and DeadPendingClose.
ProcStates == {"running", "runningKilled", "pending", "pendingKilled", "dead"}

\* What the waiter thread has sent over the child_waiter channel: nothing yet,
\* or whether the exit status counts as a success (ExitStatus::success, or a
\* member of the option clean_exit_codes).
Statuses == {"none", "clean", "unclean"}

\* The match in is_dead: the state after the waiter's status has been received.
\* CloseOnCleanExit with an unclean status forgets `killed'; Hold looks at it.
AfterExit(behavior, status, p) ==
    IF \/ behavior = "CloseOnCleanExit" /\ status # "clean"
       \/ behavior = "Hold" /\ p # "runningKilled"
    THEN "pending" ELSE "dead"

\* The state LocalPane::is_dead leaves behind; the call returns TRUE exactly
\* when that state is "dead".
IsDead(behavior, status, p) ==
    IF p \in {"running", "runningKilled"} /\ status # "none"
    THEN AfterExit(behavior, status, p)
    ELSE IF p = "pendingKilled" THEN "dead" ELSE p

\* is_dead prints a message into the pane exactly when it parks the process.
PrintsMessage(behavior, status, p) ==
    /\ p \in {"running", "runningKilled"}
    /\ IsDead(behavior, status, p) = "pending"

KilledBug(p) == p   \* the signal is sent to nobody (see PaneLife)

\* The state LocalPane::kill leaves behind.
Killed(p) ==
    IF p = "running" THEN "runningKilled"
    ELSE IF p = "pending" THEN "pendingKilled" ELSE p
=============================================================================
