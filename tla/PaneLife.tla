------------------------------ MODULE PaneLife ------------------------------
(***************************************************************************)
(* How a local pane ends: the child exits, the pty breaks, the user closes *)
(* the pane; the reader thread and the waiter thread ask the main thread   *)
(* to look; the main thread takes the pane out of its tab and out of the   *)
(* mux and stops its threads.  mux/src/lib.rs (read_from_pane_pty after    *)
(* its loop, remove_pane, prune_dead_windows), mux/src/tab.rs              *)
(* (prune_dead_panes, kill_pane), mux/src/localpane.rs, mux/src/           *)
(* activity.rs.  What the pane shows meanwhile is in PaneStream.           *)
(*                                                                         *)
(* Tasks handed to the main thread with spawn_into_main_thread are a set:  *)
(* every order is allowed, and two waiting copies of a task are one, since *)
(* each is queued after the change it is to look at.  prune_dead_windows   *)
(* is assumed to get the lock it tries (windows.try_write).                *)
(*                                                                         *)
(* A definition whose name ends in Bug is no part of the model: it is what *)
(* the definition after it would be with a plausible bug, and a property   *)
(* below is known to fail with it in that definition's place.              *)
(***************************************************************************)
EXTENDS Naturals, PaneProcess

CONSTANTS
    Behaviors,      (* the exit behaviours considered                      *)
    MaxActivities   (* bound: Activities ever started                      *)

ASSUME BehaviorsAssumption == Behaviors \subseteq ExitBehaviors
ASSUME ActivityAssumption  == MaxActivities \in Nat

VARIABLES
    behavior,     (* exit_behavior, the same for reader and pane           *)
    child,        (* "alive", or how it exited                             *)
    hangup,       (* no process holds the pty's other end any more         *)
    ptyErr,       (* the pty fd was invalidated (EBADF or EIO)             *)
    status,       (* what the waiter thread has sent                       *)
    proc,         (* ProcessState                                          *)
    reader,       (* the reader thread: where it is after its loop         *)
    exitWhy,      (* why the reader left its loop                          *)
    dead,         (* the flag shared with the reader and parser threads    *)
    registered,   (* the pane is in Mux.panes                              *)
    inTab,        (* the pane is in the tree of its tab                    *)
    activity,     (* Activity::count()                                     *)
    begun,        (* Activities ever started                               *)
    tasks,        (* queued for the main thread                            *)
    userCloses    (* history: the user has closed the pane                 *)

vars == <<behavior, child, hangup, ptyErr, status, proc, reader, exitWhy, dead,
          registered, inTab, activity, begun, tasks, userCloses>>

childVars    == <<child, hangup, ptyErr>>
threadVars   == <<reader, exitWhy>>
mainVars     == <<registered, inTab>>
activityVars == <<activity, begun>>

Init ==
    /\ behavior \in Behaviors
    /\ child = "alive" /\ hangup = FALSE /\ ptyErr = FALSE
    /\ status = "none" /\ proc = "running"
    /\ reader = "reading" /\ exitWhy = "none" /\ dead = FALSE
    /\ registered = TRUE /\ inTab = TRUE
    /\ activity = 0 /\ begun = 0
    /\ tasks = {} /\ userCloses = FALSE

-----------------------------------------------------------------------------
(***************************************************************************)
(* The child, its pty, and the waiter thread of split_child.               *)
(***************************************************************************)
ChildExit ==
    /\ child = "alive"
    /\ child' \in {"clean", "unclean"}
    /\ UNCHANGED <<behavior, hangup, ptyErr, status, proc, threadVars, dead,
                   mainVars, activityVars, tasks, userCloses>>

\* Programs the child started may hold the pty open long after it.
Hangup ==
    /\ child # "alive" /\ ~hangup
    /\ hangup' = TRUE
    /\ UNCHANGED <<behavior, child, ptyErr, status, proc, threadVars, dead,
                   mainVars, activityVars, tasks, userCloses>>

PtyError ==
    /\ ~ptyErr
    /\ ptyErr' = TRUE
    /\ UNCHANGED <<behavior, child, hangup, status, proc, threadVars, dead,
                   mainVars, activityVars, tasks, userCloses>>

WaiterStatusBug ==   \* the exit status is not looked at
    /\ child # "alive" /\ status = "none"
    /\ status' = "clean"
    /\ tasks' = tasks \cup {"prune"}
    /\ UNCHANGED <<behavior, childVars, proc, threadVars, dead, mainVars,
                   activityVars, userCloses>>

Waiter ==
    /\ child # "alive" /\ status = "none"
    /\ status' = child
    /\ tasks' = tasks \cup {"prune"}
    /\ UNCHANGED <<behavior, childVars, proc, threadVars, dead, mainVars,
                   activityVars, userCloses>>

-----------------------------------------------------------------------------
(***************************************************************************)
(* The reader thread.                                                      *)
(***************************************************************************)
\* The pane is gone already, or no socketpair could be made: the thread prints
\* an error and returns, and neither sets the flag nor asks for anything.
ReaderNoStart ==
    /\ reader = "reading" /\ exitWhy = "none"
    /\ reader' = "done" /\ exitWhy' = "nostart"
    /\ tasks' = tasks \cup {"message"}
    /\ UNCHANGED <<behavior, childVars, status, proc, dead, mainVars,
                   activityVars, userCloses>>

\* The four ways out of the loop.  A write to the parser fails only when the
\* parser has returned, which it does only after it saw the flag.
ReaderStops(why) ==
    /\ reader = "reading"
    /\ why = "eof" => hangup /\ ~ptyErr
    /\ why = "fatal" => ptyErr
    /\ why \in {"dead", "write"} => dead
    /\ reader' = "exit" /\ exitWhy' = why
    /\ UNCHANGED <<behavior, childVars, status, proc, dead, mainVars,
                   activityVars, tasks, userCloses>>

RequestBug == "remove"   \* the exit behaviour is not consulted

\* A broken pty removes the pane under every behaviour; under Hold and
\* CloseOnCleanExit the reader can only ask for a look.
Request == IF exitWhy = "fatal" \/ behavior = "Close" THEN "remove" ELSE "prune"

ReaderSchedule ==
    /\ reader = "exit"
    /\ tasks' = tasks \cup {Request}
    /\ reader' = "signal"
    /\ UNCHANGED <<behavior, childVars, status, proc, exitWhy, dead, mainVars,
                   activityVars, userCloses>>

\* The flag, the end of the socketpair, the join of the parser.
ReaderSignal ==
    /\ reader = "signal"
    /\ dead' = TRUE
    /\ reader' = "done"
    /\ UNCHANGED <<behavior, childVars, status, proc, exitWhy, mainVars,
                   activityVars, tasks, userCloses>>

Reader ==
    \/ \E why \in {"eof", "fatal", "dead", "write"} : ReaderStops(why)
    \/ ReaderSchedule \/ ReaderSignal

-----------------------------------------------------------------------------
(***************************************************************************)
(* The main thread.                                                        *)
(***************************************************************************)
\* emit_output_for_pane, which does nothing for a pane the mux does not know.
OnMessage ==
    /\ "message" \in tasks
    /\ tasks' = tasks \ {"message"}
    /\ UNCHANGED <<behavior, childVars, status, proc, threadVars, dead,
                   mainVars, activityVars, userCloses>>

PruneBug(p, known, queue) ==   \* a pane the tab dropped stays in the mux
    IF activity > 0 \/ ~inTab
    THEN proc' = p /\ tasks' = queue /\ UNCHANGED inTab
    ELSE /\ proc' = IsDead(behavior, status, p)
         /\ inTab' = (known /\ proc' # "dead")
         /\ tasks' = queue \cup
                (IF PrintsMessage(behavior, status, p) THEN {"message"} ELSE {})

\* Mux::prune_dead_windows, for this pane: its process is in state p, `known'
\* tells whether the mux has the pane, `queue' the tasks that remain.  A pane
\* that leaves its tab is removed from the mux by a task.
Prune(p, known, queue) ==
    IF activity > 0 \/ ~inTab
    THEN proc' = p /\ tasks' = queue /\ UNCHANGED inTab
    ELSE /\ proc' = IsDead(behavior, status, p)
         /\ inTab' = (known /\ proc' # "dead")
         /\ tasks' = queue
                \cup (IF inTab' THEN {} ELSE {"remove"})
                \cup (IF PrintsMessage(behavior, status, p) THEN {"message"} ELSE {})

OnPrune ==
    /\ "prune" \in tasks
    /\ Prune(proc, registered, tasks \ {"prune"})
    /\ UNCHANGED <<behavior, childVars, status, threadVars, dead, registered,
                   activityVars, userCloses>>

\* Mux::remove_pane_internal: the flag is raised and taken out of its map, the
\* pane is taken out of the mux and killed by the call that finds it there.
RemovePaneInternal ==
    /\ dead' = TRUE
    /\ registered' = FALSE

\* Mux::remove_pane: remove_pane_internal, then prune_dead_windows.
OnRemove ==
    /\ "remove" \in tasks
    /\ RemovePaneInternal
    /\ Prune(IF registered THEN Killed(proc) ELSE proc, FALSE, tasks \ {"remove"})
    /\ UNCHANGED <<behavior, childVars, status, threadVars, activityVars,
                   userCloses>>

\* The user closes the pane: through its tab (Tab::kill_pane, the close
\* dialog), or straight from the mux (a client's KillPane).
KillPane ==
    /\ inTab /\ registered
    /\ inTab' \in BOOLEAN
    /\ tasks' = tasks \cup {"remove"}
    /\ userCloses' = TRUE
    /\ UNCHANGED <<behavior, childVars, status, proc, threadVars, dead,
                   registered, activityVars>>

\* Activity::new, and its drop, which asks for a prune.
BeginActivity ==
    /\ begun < MaxActivities
    /\ begun' = begun + 1 /\ activity' = activity + 1
    /\ UNCHANGED <<behavior, childVars, status, proc, threadVars, dead,
                   mainVars, tasks, userCloses>>

EndActivityBug ==   \* the postponed prune is not made up for
    /\ activity > 0
    /\ activity' = activity - 1
    /\ UNCHANGED <<behavior, childVars, status, proc, threadVars, dead,
                   mainVars, begun, tasks, userCloses>>

EndActivity ==
    /\ activity > 0
    /\ activity' = activity - 1
    /\ tasks' = tasks \cup {"prune"}
    /\ UNCHANGED <<behavior, childVars, status, proc, threadVars, dead,
                   mainVars, begun, userCloses>>

-----------------------------------------------------------------------------
Environment ==
    ChildExit \/ Hangup \/ PtyError \/ KillPane \/ BeginActivity \/ ReaderNoStart

Next ==
    \/ Environment \/ Waiter \/ Reader
    \/ OnMessage \/ OnPrune \/ OnRemove \/ EndActivity

Spec == Init /\ [][Next]_vars

\* The scheduler runs both threads and every queued task, and an Activity is
\* dropped when the operation it covers ends.  Nothing obliges the child to
\* exit (kill only sends a signal), the pty to hang up or to fail, the user to
\* close the pane, or an Activity to begin.
Fairness ==
    /\ WF_vars(Waiter) /\ WF_vars(Reader) /\ WF_vars(EndActivity)
    /\ WF_vars(OnMessage) /\ WF_vars(OnPrune) /\ WF_vars(OnRemove)

FairSpec == Spec /\ Fairness

-----------------------------------------------------------------------------
(***************************************************************************)
(* Properties.                                                             *)
(***************************************************************************)
TypeOK ==
    /\ behavior \in Behaviors
    /\ child \in {"alive", "clean", "unclean"}
    /\ hangup \in BOOLEAN /\ ptyErr \in BOOLEAN
    /\ status \in {"none", child} /\ proc \in ProcStates
    /\ reader \in {"reading", "exit", "signal", "done"}
    /\ exitWhy \in {"none", "nostart", "eof", "fatal", "dead", "write"}
    /\ dead \in BOOLEAN /\ registered \in BOOLEAN /\ inTab \in BOOLEAN
    /\ begun \in 0..MaxActivities /\ activity \in 0..begun
    /\ tasks \subseteq {"message", "prune", "remove"}
    /\ userCloses \in BOOLEAN

\* A pane the mux has let go of is being stopped on every side: its threads
\* are told (the flag), and its program was signalled or has exited.
RemovedIsStopped == ~registered => dead /\ proc # "running"

\* "Hold the pane until it is explicitly closed" (config.rs:3225), and
\* CloseOnCleanExit keeps a pane whose program failed: nobody takes such a pane
\* out of the tab or the mux, in whatever order waiter, reader and prune run,
\* unless the user closes it or its pty broke.
Kept == behavior = "Hold" \/ (behavior = "CloseOnCleanExit" /\ child # "clean")

HeldPaneStays ==
    Kept /\ ~userCloses /\ exitWhy # "fatal" => registered /\ inTab

\* A pane may be missing from only one of mux and tab while the task that
\* completes its removal is queued, or an Activity postpones the prune.
HalfRemovedIsPending ==
    registered # inTab =>
        \/ "remove" \in tasks
        \/ inTab /\ (activity > 0 \/ "prune" \in tasks)

\* A pane whose pty broke is removed under every exit behaviour, and under
\* Close a pane whose child exited is, although the pty may stay open.
\* And a removed pane is let go by its tab, although prune_dead_windows does
\* nothing while an Activity lasts, and its reader thread ends.
PaneReleased ==
    /\ exitWhy = "fatal" \/ (child # "alive" /\ behavior = "Close") ~> ~registered
    /\ ~registered ~> ~inTab /\ reader = "done"
=============================================================================
