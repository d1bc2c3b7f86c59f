----------------------------- MODULE MainThread -----------------------------
(***************************************************************************)
(* What spawn_into_main_thread and its relatives promise to the rest of    *)
(* the program (crates/promise/src/spawn.rs): a future put in line on the  *)
(* main thread is polled in its turn among those of its priority, once for *)
(* every time it was put there, and normal futures are polled for ever     *)
(* while there are any. SpawnQueue shows that the queue of the GUI keeps   *)
(* this promise.                                                           *)
(*                                                                         *)
(* Of the low priority it promises the order alone.                        *)
(***************************************************************************)
EXTENDS Sequences

CONSTANTS Tasks,    \* futures, each spawned once
          Low,      \* those spawned with low priority
          Awaiting  \* those that await a promise::Future and are done after it

VARIABLES line,     \* the futures to be polled, by priority
          state,    \* of each future
          resolved, \* futures whose promise has its result
          turn      \* changes with every poll

vars == <<line, state, resolved, turn>>

Priorities == {"normal", "low"}
PriorityOf(t) == IF t \in Low THEN "low" ELSE "normal"

Init ==
  /\ line = [p \in Priorities |-> <<>>]
  /\ state = [t \in Tasks |-> "new"]
  /\ resolved = {}
  /\ turn = FALSE

Enters(t) ==
  /\ line' = [line EXCEPT ![PriorityOf(t)] = Append(@, t)]
  /\ state' = [state EXCEPT ![t] = "ready"]

Spawn(t) ==
  /\ state[t] = "new"
  /\ Enters(t)
  /\ UNCHANGED <<resolved, turn>>

\* Whatever a future waits for wakes it: it gets in line again.
Wake(t) ==
  /\ state[t] = "waiting"
  /\ t \notin Awaiting
  /\ Enters(t)
  /\ UNCHANGED <<resolved, turn>>

\* Promise::result.
Resolve(t) ==
  /\ t \in Awaiting \ resolved
  /\ resolved' = resolved \cup {t}
  /\ IF state[t] = "waiting" THEN Enters(t) ELSE UNCHANGED <<line, state>>
  /\ UNCHANGED turn

\* The first in line is polled. One that awaits a promise is done exactly when
\* the result is there.
Poll(p) ==
  /\ line[p] # <<>>
  /\ turn' = ~ turn
  /\ UNCHANGED resolved
  /\ LET t == Head(line[p])
         rest == [line EXCEPT ![p] = Tail(@)]
     IN  \/ /\ t \in Awaiting => t \in resolved
            /\ line' = rest
            /\ state' = [state EXCEPT ![t] = "done"]
         \/ /\ t \in Awaiting => t \notin resolved
            /\ line' = rest
            /\ state' = [state EXCEPT ![t] = "waiting"]
         \/ /\ t \notin Awaiting
            /\ line' = [line EXCEPT ![p] = Append(Tail(@), t)]
            /\ UNCHANGED state

Next ==
  \/ \E t \in Tasks : Spawn(t) \/ Wake(t) \/ Resolve(t)
  \/ \E p \in Priorities : Poll(p)

\* Weak fairness of Poll("normal"), what enables it being spelled out.
Progress == []<>(line["normal"] = <<>>) \/ []<><<Poll("normal")>>_vars

Spec == Init /\ [][Next]_vars /\ Progress
=============================================================================
