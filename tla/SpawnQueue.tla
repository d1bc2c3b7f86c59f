----------------------------- MODULE SpawnQueue -----------------------------
(***************************************************************************)
(* The main thread's queue of the macOS GUI (window/src/spawn.rs), the run *)
(* loop that drains it in bursts, and the futures in it: plain ones, ones  *)
(* that await a promise::Future (crates/promise/src/lib.rs) and those of   *)
(* spawn_into_new_thread (crates/promise/src/spawn.rs).                    *)
(*                                                                         *)
(* Threads of the program, the run loop and the threads started here take  *)
(* their steps in any order. No queued function runs an event loop of its  *)
(* own: dialogs are opened from callbacks of the menu.                     *)
(*                                                                         *)
(* A definition whose name ends in Bug is no part of the model: it is what *)
(* a mutant puts in the place of the definition after it.                  *)
(***************************************************************************)
EXTENDS Integers, Sequences

CONSTANTS Tasks,     \* futures, each spawned once
          Low,       \* spawned with low priority
          Awaiting,  \* those that await a promise::Future
          Threaded,  \* PendingResult futures of spawn_into_new_thread
          Burst,     \* functions run in one turn of the run loop (64)
          Callers    \* bound: threads that are in spawn_impl at once

ASSUME SpawnAssumption ==
  /\ Low \subseteq Tasks
  /\ Awaiting \subseteq Tasks
  /\ Threaded \subseteq Tasks \ (Awaiting \cup Low)
  /\ Burst \in Nat \ {0} /\ Callers \in Nat \ {0}

VARIABLES queue,       \* spawned_funcs and spawned_funcs_low_pri
          batch,       \* functions taken from them and not yet run
          at,          \* where the run loop is
          observed,    \* the activity its observer was called for
          wakeup,      \* CFRunLoopWakeUp was called since the loop last woke
          unsignalled, \* calls of spawn_impl between queue_func and queue_wakeup
          task,        \* async_task's state of each future
          thread,      \* of a Threaded future
          waker,       \* futures whose waker the thread will find
          resolved,    \* futures whose promise has its result
          turn         \* changes with every poll; no part of the program

vars == <<queue, batch, at, observed, wakeup, unsignalled, task, thread, waker, resolved, turn>>

Priorities == {"normal", "low"}
PriorityOf(t) == IF t \in Low THEN "low" ELSE "normal"

Smaller(a, b) == IF a < b THEN a ELSE b

Init ==
  /\ queue = [p \in Priorities |-> <<>>]
  /\ batch = [p \in Priorities |-> <<>>]
  /\ at = "asleep"
  /\ observed = "before"
  /\ wakeup = FALSE
  /\ unsignalled = 0
  /\ task = [t \in Tasks |-> "new"]
  /\ thread = [t \in Threaded |-> "none"]
  /\ waker = {}
  /\ resolved = {}
  /\ turn = FALSE

---------------------------------------------------------------------------
(* Putting futures in line.                                                *)

Enters(t) ==
  /\ queue' = [queue EXCEPT ![PriorityOf(t)] = Append(@, t)]
  /\ task' = [task EXCEPT ![t] = "queued"]

\* The first half of spawn_impl, as async_task's schedule calls it.
QueueFunc(t) ==
  /\ unsignalled < Callers
  /\ unsignalled' = unsignalled + 1
  /\ Enters(t)

\* The second half: queue_wakeup.
Signal ==
  /\ unsignalled > 0
  /\ unsignalled' = unsignalled - 1
  /\ wakeup' = TRUE
  /\ UNCHANGED <<queue, batch, at, observed, task, thread, waker, resolved, turn>>

\* spawn, spawn_into_main_thread and the low priority ones. The thread of
\* spawn_into_new_thread is running before its future gets in line.
Spawn(t) ==
  /\ task[t] = "new"
  /\ t \in Threaded => thread[t] # "none"
  /\ QueueFunc(t)
  /\ UNCHANGED <<batch, at, observed, wakeup, thread, waker, resolved, turn>>

\* A timer, a channel or another future wakes one that waits for it.
Wake(t) ==
  /\ t \notin Awaiting \cup Threaded
  /\ task[t] = "idle"
  /\ QueueFunc(t)
  /\ UNCHANGED <<batch, at, observed, wakeup, thread, waker, resolved, turn>>

\* Promise::result: under one lock the result is stored and the waker taken.
Resolve(t) ==
  /\ t \in Awaiting \ resolved
  /\ resolved' = resolved \cup {t}
  /\ IF task[t] = "idle" THEN QueueFunc(t) ELSE UNCHANGED <<queue, task, unsignalled>>
  /\ UNCHANGED <<batch, at, observed, wakeup, thread, waker, turn>>

---------------------------------------------------------------------------
(* The thread of spawn_into_new_thread.                                    *)

StartThread(t) ==
  /\ thread[t] = "none"
  /\ thread' = [thread EXCEPT ![t] = "working"]
  /\ UNCHANGED <<queue, batch, at, observed, wakeup, unsignalled, task, waker, resolved, turn>>

\* tx.send, or a panic, which drops tx.
EndWork(t) ==
  /\ thread[t] = "working"
  /\ \E end \in {"sent", "panicked"} : thread' = [thread EXCEPT ![t] = end]
  /\ UNCHANGED <<queue, batch, at, observed, wakeup, unsignalled, task, waker, resolved, turn>>

\* The waker is taken from its holder, if one is there.
TakeWaker(t) ==
  /\ thread[t] = "sent"
  /\ thread' = [thread EXCEPT ![t] = "gone"]
  /\ waker' = waker \ {t}
  /\ IF t \in waker THEN QueueFunc(t) ELSE UNCHANGED <<queue, task, unsignalled>>
  /\ UNCHANGED <<batch, at, observed, wakeup, resolved, turn>>

---------------------------------------------------------------------------
(* The run loop. Its observer is called after the loop woke and again      *)
(* before it waits; each time it takes a burst from the queues, runs it    *)
(* and, if something is queued by then, asks to be woken.                  *)

\* The loop wakes: it was asked to, or an event came that is no business of
\* the queue.
Awake(asked) ==
  /\ at = "asleep"
  /\ asked => wakeup
  /\ wakeup' = (wakeup /\ ~ asked)
  /\ at' = "take normal"
  /\ observed' = "after"
  /\ UNCHANGED <<queue, batch, unsignalled, task, thread, waker, resolved, turn>>

TakeBug(p, n) ==   \* what was taken stays in the queue
  /\ batch' = [batch EXCEPT ![p] = SubSeq(queue[p], 1, n)]
  /\ UNCHANGED queue

Take(p, n) ==
  /\ batch' = [batch EXCEPT ![p] = SubSeq(queue[p], 1, n)]
  /\ queue' = [queue EXCEPT ![p] = SubSeq(@, n + 1, Len(@))]

TakeNormal ==
  /\ at = "take normal"
  /\ Take("normal", Smaller(Burst, Len(queue["normal"])))
  /\ at' = "take low"
  /\ UNCHANGED <<observed, wakeup, unsignalled, task, thread, waker, resolved, turn>>

TakeLow ==
  /\ at = "take low"
  /\ Take("low", Smaller(Burst - Len(batch["normal"]), Len(queue["low"])))
  /\ at' = "run"
  /\ UNCHANGED <<observed, wakeup, unsignalled, task, thread, waker, resolved, turn>>

\* The functions of the batch run in order, the normal ones first. A future
\* that is polled keeps its place until it has returned.
First(p, t) ==
  /\ at = "run"
  /\ p = IF batch["normal"] # <<>> THEN "normal" ELSE "low"
  /\ batch[p] # <<>>
  /\ t = Head(batch[p])

Returned(p) ==
  /\ batch' = [batch EXCEPT ![p] = Tail(@)]
  /\ turn' = ~ turn
  /\ UNCHANGED <<at, observed, unsignalled, thread, resolved>>

Ready(p, t) ==
  /\ First(p, t)
  /\ \/ t \notin Awaiting \cup Threaded
     \/ t \in resolved
     \/ t \in Threaded /\ task[t] = "queued" /\ thread[t] \in {"sent", "gone", "panicked"}
  /\ Returned(p)
  /\ task' = [task EXCEPT ![t] = "done"]
  /\ UNCHANGED <<queue, wakeup, waker>>

Pending(p, t) ==
  /\ First(p, t)
  /\ t \notin Threaded
  /\ t \in Awaiting => t \notin resolved
  /\ Returned(p)
  /\ task' = [task EXCEPT ![t] = "idle"]
  /\ UNCHANGED <<queue, wakeup, waker>>

\* A future that woke itself while it was polled: async_task schedules it when
\* the poll has returned, on this thread, which is awake.
Yielded(p, t) ==
  /\ First(p, t)
  /\ t \notin Awaiting \cup Threaded
  /\ Returned(p)
  /\ Enters(t)
  /\ wakeup' = TRUE
  /\ UNCHANGED waker

\* PendingResult::poll looks for the result
LookForResult(p, t) ==
  /\ First(p, t)
  /\ t \in Threaded /\ task[t] = "queued" /\ thread[t] = "working"
  /\ task' = [task EXCEPT ![t] = "polling"]
  /\ UNCHANGED <<queue, batch, at, observed, wakeup, unsignalled, thread, waker, resolved, turn>>

\* and, having found none, leaves its waker.
LeaveWaker(p, t) ==
  /\ First(p, t)
  /\ task[t] = "polling"
  /\ Returned(p)
  /\ waker' = waker \cup {t}
  /\ task' = [task EXCEPT ![t] = "idle"]
  /\ UNCHANGED <<queue, wakeup>>

BatchDone ==
  /\ at = "run"
  /\ \A p \in Priorities : batch[p] = <<>>
  /\ at' = "check"
  /\ UNCHANGED <<queue, batch, observed, wakeup, unsignalled, task, thread, waker, resolved, turn>>

HasAnyQueued == \E p \in Priorities : queue[p] # <<>>

CheckBug ==   \* what a burst leaves behind is not looked at
  /\ at = "check"
  /\ IF observed = "after" THEN at' = "take normal" /\ observed' = "before"
                           ELSE at' = "asleep" /\ UNCHANGED observed
  /\ UNCHANGED <<queue, batch, wakeup, unsignalled, task, thread, waker, resolved, turn>>

Check ==
  /\ at = "check"
  /\ wakeup' = (wakeup \/ HasAnyQueued)
  /\ IF observed = "after" THEN at' = "take normal" /\ observed' = "before"
                           ELSE at' = "asleep" /\ UNCHANGED observed
  /\ UNCHANGED <<queue, batch, unsignalled, task, thread, waker, resolved, turn>>

RunLoop ==
  \/ Awake(TRUE)
  \/ TakeNormal \/ TakeLow
  \/ \E p \in Priorities, t \in Tasks :
       \/ Ready(p, t) \/ Pending(p, t) \/ Yielded(p, t)
       \/ LookForResult(p, t) \/ LeaveWaker(p, t)
  \/ BatchDone
  \/ Check

Next ==
  \/ RunLoop
  \/ Awake(FALSE)
  \/ Signal
  \/ \E t \in Tasks : Spawn(t) \/ Wake(t) \/ Resolve(t)
  \/ \E t \in Threaded : StartThread(t) \/ EndWork(t) \/ TakeWaker(t)

\* The run loop goes on while it is awake or was asked to wake, and a thread
\* that has queued a function goes on to signal it. Nothing else must happen:
\* no event need come, no thread end and no promise be kept.
Fairness == WF_vars(RunLoop) /\ WF_vars(Signal)

Spec == Init /\ [][Next]_vars /\ Fairness

---------------------------------------------------------------------------
(* Properties.                                                             *)

Times(t, s) == {i \in DOMAIN s : s[i] = t}
InLine(t) == {<<"batch", i>> : i \in Times(t, batch[PriorityOf(t)])}
               \cup {<<"queue", i>> : i \in Times(t, queue[PriorityOf(t)])}

\* A future is in line exactly once while it is to be polled and not at all
\* otherwise, whoever wakes it and whenever; what is taken at once is no more
\* than a burst.
TypeOK ==
  /\ queue \in [Priorities -> Seq(Tasks)] /\ batch \in [Priorities -> Seq(Tasks)]
  /\ Len(batch["normal"]) + Len(batch["low"]) <= Burst
  /\ at \in {"asleep", "take normal", "take low", "run", "check"}
  /\ observed \in {"before", "after"}
  /\ wakeup \in BOOLEAN /\ unsignalled \in 0..Callers /\ turn \in BOOLEAN
  /\ task \in [Tasks -> {"new", "queued", "polling", "idle", "done"}]
  /\ thread \in [Threaded -> {"none", "working", "sent", "panicked", "gone"}]
  /\ waker \subseteq Threaded /\ resolved \subseteq Awaiting
  /\ \A t \in Tasks :
       IF task[t] \in {"queued", "polling"} THEN \E x \in InLine(t) : InLine(t) = {x}
                                            ELSE InLine(t) = {}

\* The queue keeps the promise of MainThread: what is in the batch is in line
\* before what is in the queue.
Promise == INSTANCE MainThread
             WITH line <- [p \in Priorities |-> batch[p] \o queue[p]],
                  state <- [t \in Tasks |-> CASE task[t] \in {"queued", "polling"} -> "ready"
                                              [] task[t] = "idle" -> "waiting"
                                              [] OTHER -> task[t]]

Implements == Promise!Spec

\* "If someone polled the thread before we got here, they will have populated
\* the waker" (crates/promise/src/spawn.rs:81-82): when the thread is gone the
\* future is no longer waiting for its result.
ResultIsFetched == \A t \in Threaded : thread[t] = "gone" => task[t] # "idle"
=============================================================================
