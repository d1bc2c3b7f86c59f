--------------------------- MODULE PaneLifeProofs ---------------------------
(***************************************************************************)
(* Proofs of the safety of PaneLife, for every set of exit behaviours and  *)
(* any number of Activities.                                               *)
(*                                                                         *)
(* The state invariants of PaneLife follow from one inductive invariant,   *)
(* IInv.  Beyond what is to be shown it says three things: the waiter      *)
(* reports how the child exited and only after it did; the process is      *)
(* parked or dead only once that report has been received; and a reader    *)
(* still in its loop has no reason yet to have left it.  For a pane that   *)
(* is held it says more than that the pane stays: that nothing which would *)
(* remove it is under way.                                                 *)
(***************************************************************************)
EXTENDS PaneLife, TLAPS

\* The waiter reports how the child exited, and only then.
StatusFollowsChild == status # "none" => child # "alive" /\ status = child

\* ProcessState leaves Running only after the waiter's report.
ProcFollowsStatus == proc \in {"pending", "pendingKilled", "dead"} => status # "none"

\* A reader that reads has no reason to have stopped.
ReadingHasNoReason == reader = "reading" => exitWhy = "none"

\* Nothing is under way that would remove a pane the user wants to keep.
NothingThreatens ==
    Kept /\ ~userCloses /\ exitWhy # "fatal" =>
        /\ registered /\ inTab
        /\ "remove" \notin tasks
        /\ proc \in {"running", "pending"}

IInv ==
    /\ TypeOK
    /\ StatusFollowsChild
    /\ ProcFollowsStatus
    /\ ReadingHasNoReason
    /\ RemovedIsStopped
    /\ NothingThreatens
    /\ HalfRemovedIsPending

-----------------------------------------------------------------------------
(***************************************************************************)
(* What the functions of ProcessState return.                              *)
(***************************************************************************)
\* is_dead answers a process of some state with one of some state; it does not
\* make it run again, and without a report it changes no process that runs.
LEMMA IsDeadType ==
    ASSUME NEW b \in ExitBehaviors, NEW s \in Statuses, NEW p \in ProcStates
    PROVE  /\ IsDead(b, s, p) \in ProcStates
           /\ IsDead(b, s, p) = "running" => p = "running"
           /\ IsDead(b, s, p) \in {"pending", "pendingKilled", "dead"} =>
                 s # "none" \/ p \in {"pending", "pendingKilled", "dead"}
BY DEF IsDead, AfterExit, ExitBehaviors, Statuses, ProcStates

\* A process that was not signalled is parked, not dead, under Hold, and under
\* CloseOnCleanExit after any exit but a clean one.
LEMMA IsDeadKeeps ==
    ASSUME NEW b \in ExitBehaviors, NEW s \in Statuses, NEW p \in {"running", "pending"},
           b = "Hold" \/ (b = "CloseOnCleanExit" /\ s # "clean")
    PROVE  IsDead(b, s, p) \in {"running", "pending"}
BY DEF IsDead, AfterExit, ExitBehaviors, Statuses

\* kill signals a process that runs, and brings none back.
LEMMA KilledType ==
    ASSUME NEW p \in ProcStates
    PROVE  /\ Killed(p) \in ProcStates \ {"running"}
           /\ Killed(p) \in {"pending", "pendingKilled", "dead"} =>
                 p \in {"pending", "pendingKilled", "dead"}
BY DEF Killed, ProcStates

-----------------------------------------------------------------------------
(***************************************************************************)
(* The prune of prune_dead_windows, which OnPrune and OnRemove end with.   *)
(***************************************************************************)
\* A prune keeps types, starts no process, receives at most a report that the
\* waiter has sent, and leaves what it does not finish to a task.
LEMMA PruneStep ==
    ASSUME TypeOK, StatusFollowsChild, NEW p \in ProcStates, NEW known \in BOOLEAN,
           NEW queue \in SUBSET {"message", "prune", "remove"},
           Prune(p, known, queue)
    PROVE  /\ proc' \in ProcStates /\ inTab' \in BOOLEAN
           /\ tasks' \subseteq {"message", "prune", "remove"}
           /\ queue \subseteq tasks'
           /\ proc' = "running" => p = "running"
           /\ proc' \in {"pending", "pendingKilled", "dead"} =>
                 status # "none" \/ p \in {"pending", "pendingKilled", "dead"}
           /\ inTab' # known =>
                 \/ activity > 0 /\ inTab' = inTab
                 \/ "remove" \in tasks'
                 \/ ~inTab /\ ~inTab'
<1>1. behavior \in ExitBehaviors /\ status \in Statuses /\ inTab \in BOOLEAN
  BY BehaviorsAssumption DEF TypeOK, StatusFollowsChild, Statuses
<1>2. CASE activity > 0 \/ ~inTab
  BY <1>1, <1>2 DEF Prune
<1>3. CASE ~(activity > 0 \/ ~inTab)
  <2>1. /\ proc' = IsDead(behavior, status, p)
        /\ inTab' = (known /\ proc' # "dead")
        /\ tasks' = queue
               \cup (IF inTab' THEN {} ELSE {"remove"})
               \cup (IF PrintsMessage(behavior, status, p) THEN {"message"} ELSE {})
    BY <1>3 DEF Prune
  <2>2. /\ proc' \in ProcStates
        /\ proc' = "running" => p = "running"
        /\ proc' \in {"pending", "pendingKilled", "dead"} =>
              status # "none" \/ p \in {"pending", "pendingKilled", "dead"}
    BY <1>1, <2>1, IsDeadType
  <2>3. /\ inTab' \in BOOLEAN
        /\ tasks' \subseteq {"message", "prune", "remove"}
        /\ queue \subseteq tasks'
        /\ inTab' # known => "remove" \in tasks'
    BY <2>1
  <2>. QED BY <2>2, <2>3
<1>. QED BY <1>2, <1>3

-----------------------------------------------------------------------------
(***************************************************************************)
(* The inductive invariant.                                                *)
(***************************************************************************)
\* The initial states satisfy the inductive invariant.
LEMMA InitInvariant == Init => IInv
<1>. SUFFICES ASSUME Init PROVE IInv
  OBVIOUS
<1>1. TypeOK
  <2>1. begun \in 0..MaxActivities /\ activity \in 0..begun
    BY ActivityAssumption DEF Init
  <2>2. /\ hangup \in BOOLEAN /\ ptyErr \in BOOLEAN /\ dead \in BOOLEAN
        /\ registered \in BOOLEAN /\ inTab \in BOOLEAN /\ userCloses \in BOOLEAN
    BY DEF Init
  <2>. QED BY <2>1, <2>2 DEF Init, TypeOK, ProcStates
<1>2. StatusFollowsChild /\ ProcFollowsStatus /\ ReadingHasNoReason /\ RemovedIsStopped
  BY DEF Init, StatusFollowsChild, ProcFollowsStatus, ReadingHasNoReason, RemovedIsStopped
<1>3. NothingThreatens /\ HalfRemovedIsPending
  BY DEF Init, NothingThreatens, HalfRemovedIsPending
<1>. QED BY <1>1, <1>2, <1>3 DEF IInv

\* Every step keeps the inductive invariant.
LEMMA NextInvariant == IInv /\ [Next]_vars => IInv'
<1>. SUFFICES ASSUME IInv, [Next]_vars PROVE IInv'
  OBVIOUS
<1>. USE DEF IInv, TypeOK, ProcStates, StatusFollowsChild, ProcFollowsStatus,
             ReadingHasNoReason, RemovedIsStopped, NothingThreatens,
             HalfRemovedIsPending, Kept, childVars, threadVars, mainVars, activityVars
<1>1. CASE ChildExit
  BY <1>1 DEF ChildExit
<1>2. CASE Hangup
  BY <1>2 DEF Hangup
<1>3. CASE PtyError
  BY <1>3 DEF PtyError
<1>4. CASE KillPane
  BY <1>4 DEF KillPane
<1>5. CASE BeginActivity
  BY <1>5, ActivityAssumption DEF BeginActivity
<1>6. CASE ReaderNoStart
  BY <1>6 DEF ReaderNoStart
<1>7. CASE Waiter
  BY <1>7 DEF Waiter
<1>8. CASE Reader
  <2>1. ASSUME NEW why \in {"eof", "fatal", "dead", "write"}, ReaderStops(why)
        PROVE  IInv'
    BY <2>1 DEF ReaderStops
  <2>2. CASE ReaderSchedule
    BY <2>2 DEF ReaderSchedule, Request
  <2>3. CASE ReaderSignal
    BY <2>3 DEF ReaderSignal
  <2>. QED BY <1>8, <2>1, <2>2, <2>3 DEF Reader
<1>9. CASE OnMessage
  BY <1>9 DEF OnMessage
<1>10. CASE OnPrune
  <2>1. Prune(proc, registered, tasks \ {"prune"})
    BY <1>10 DEF OnPrune
  <2>2. NothingThreatens'
    BY <1>10, <2>1, IsDeadKeeps, BehaviorsAssumption DEF OnPrune, Prune, Statuses
  <2>3. (IInv /\ NothingThreatens') => HalfRemovedIsPending'
    BY <1>10, <2>1 DEF OnPrune, Prune
  <2>. QED BY <1>10, <2>1, <2>2, <2>3, PruneStep DEF OnPrune
<1>11. CASE OnRemove
  <2>. DEFINE p     == IF registered THEN Killed(proc) ELSE proc
              queue == tasks \ {"remove"}
  <2>1. /\ p \in ProcStates \ {"running"}
        /\ p \in {"pending", "pendingKilled", "dead"} => status # "none"
    BY KilledType
  <2>2. /\ "remove" \in tasks
        /\ dead' = TRUE /\ registered' = FALSE
        /\ Prune(p, FALSE, queue)
        /\ UNCHANGED <<behavior, childVars, status, threadVars, activityVars, userCloses>>
    BY <1>11 DEF OnRemove, RemovePaneInternal
  <2>3. queue \in SUBSET {"message", "prune", "remove"}
    OBVIOUS
  <2>. HIDE DEF p, queue
  <2>4. /\ proc' \in ProcStates \ {"running"} /\ inTab' \in BOOLEAN
        /\ tasks' \subseteq {"message", "prune", "remove"}
        /\ proc' \in {"pending", "pendingKilled", "dead"} => status # "none"
        /\ inTab' => "remove" \in tasks' \/ activity > 0
    <3>1. /\ proc' \in ProcStates /\ inTab' \in BOOLEAN
          /\ tasks' \subseteq {"message", "prune", "remove"}
          /\ proc' = "running" => p = "running"
          /\ proc' \in {"pending", "pendingKilled", "dead"} =>
                status # "none" \/ p \in {"pending", "pendingKilled", "dead"}
          /\ inTab' # FALSE =>
                \/ activity > 0 /\ inTab' = inTab
                \/ "remove" \in tasks'
                \/ ~inTab /\ ~inTab'
      <4>1. TypeOK /\ StatusFollowsChild /\ p \in ProcStates
        BY <2>1
      <4>. HIDE DEF TypeOK, StatusFollowsChild, ProcStates
      <4>. QED BY <2>2, <2>3, <4>1, PruneStep
    <3>. QED BY <2>1, <3>1
  <2>5. TypeOK'
    BY <2>2, <2>4
  <2>6. StatusFollowsChild' /\ ProcFollowsStatus' /\ ReadingHasNoReason'
    BY <2>2, <2>4
  <2>7. RemovedIsStopped' /\ HalfRemovedIsPending'
    BY <2>2, <2>4
  <2>8. NothingThreatens'
    BY <2>2
  <2>. QED BY <2>5, <2>6, <2>7, <2>8
<1>12. CASE EndActivity
  BY <1>12 DEF EndActivity
<1>13. CASE UNCHANGED vars
  BY <1>13 DEF vars
<1>. QED
  BY <1>1, <1>2, <1>3, <1>4, <1>5, <1>6, <1>7, <1>8, <1>9, <1>10, <1>11, <1>12, <1>13
  DEF Next, Environment

\* The inductive invariant holds in every state of every behaviour.
THEOREM Invariant == Spec => []IInv
BY InitInvariant, NextInvariant, PTL DEF Spec

-----------------------------------------------------------------------------
(***************************************************************************)
(* What follows.                                                           *)
(***************************************************************************)
\* The types, and that the waiter reports how the child really exited.
THEOREM TypeCorrect == Spec => []TypeOK
<1>1. IInv => TypeOK
  BY DEF IInv
<1>. QED BY Invariant, <1>1, PTL

\* Whatever order waiter, reader, prunes and removals run in: the mux lets go
\* of a pane only with its threads told and its program signalled or exited.
THEOREM RemovedIsStoppedAlways == Spec => []RemovedIsStopped
<1>1. IInv => RemovedIsStopped
  BY DEF IInv
<1>. QED BY Invariant, <1>1, PTL

\* exit_behavior is honoured in every interleaving: a pane to be held leaves
\* neither tab nor mux before the user closes it or its pty breaks.
THEOREM HeldPaneStaysAlways == Spec => []HeldPaneStays
<1>1. IInv => HeldPaneStays
  BY DEF IInv, NothingThreatens, HeldPaneStays
<1>. QED BY Invariant, <1>1, PTL

\* A pane that only the mux or only its tab knows is never forgotten: a task
\* that ends this is queued, or will be when the last Activity ends.
THEOREM HalfRemovedIsPendingAlways == Spec => []HalfRemovedIsPending
<1>1. IInv => HalfRemovedIsPending
  BY DEF IInv
<1>. QED BY Invariant, <1>1, PTL
=============================================================================
