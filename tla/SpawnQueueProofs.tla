-------------------------- MODULE SpawnQueueProofs --------------------------
(***************************************************************************)
(* Proofs about SpawnQueue, for any futures, any length of a burst and any *)
(* number of threads: a future is in line exactly once while it is to be   *)
(* polled, and every step is one that MainThread promises.                 *)
(*                                                                         *)
(* The batch and the queue are two halves of one line, and moving          *)
(* functions from one to the other is no step of it. That holds only since *)
(* a batch is taken when the last one is used up, the normal half first    *)
(* (BatchUsedUp), and a thread's wake-up is one that was waited for only   *)
(* since a waker left behind belongs to an idle future (WakersWait).       *)
(***************************************************************************)
EXTENDS SpawnQueue, SequenceTheorems, TLAPS

\* What the substitution of Promise puts for the variables of MainThread.
Line == [p \in Priorities |-> batch[p] \o queue[p]]
Shown(s) == CASE s \in {"queued", "polling"} -> "ready"
              [] s = "idle" -> "waiting"
              [] OTHER -> s
State == [t \in Tasks |-> Shown(task[t])]
InTurn == {t \in Tasks : task[t] \in {"queued", "polling"}}

Types ==
  /\ queue \in [Priorities -> Seq(Tasks)] /\ batch \in [Priorities -> Seq(Tasks)]
  /\ at \in {"asleep", "take normal", "take low", "run", "check"}
  /\ observed \in {"before", "after"}
  /\ wakeup \in BOOLEAN /\ unsignalled \in 0..Callers /\ turn \in BOOLEAN
  /\ task \in [Tasks -> {"new", "queued", "polling", "idle", "done"}]
  /\ thread \in [Threaded -> {"none", "working", "sent", "panicked", "gone"}]
  /\ waker \subseteq Threaded /\ resolved \subseteq Awaiting

\* A batch is taken when there is none.
BatchUsedUp ==
  /\ at \in {"asleep", "take normal", "check"} => batch["normal"] = <<>>
  /\ at \in {"asleep", "take normal", "take low", "check"} => batch["low"] = <<>>
  /\ Len(batch["normal"]) + Len(batch["low"]) <= Burst

\* Whoever left a waker waits, and only threaded futures stop in a poll.
WakersWait ==
  /\ \A t \in waker : task[t] = "idle"
  /\ \A t \in Tasks : task[t] = "polling" => t \in Threaded

\* The lines L hold each of R once, among those of its priority, and no more.
InOrder(L, R) ==
  /\ L \in [Priorities -> Seq(Tasks)]
  /\ \A p \in Priorities : \A i \in 1..Len(L[p]) : L[p][i] \in R /\ PriorityOf(L[p][i]) = p
  /\ \A p \in Priorities : \A i, j \in 1..Len(L[p]) : L[p][i] = L[p][j] => i = j
  /\ \A t \in R : \E i \in 1..Len(L[PriorityOf(t)]) : L[PriorityOf(t)][i] = t

IInv == Types /\ BatchUsedUp /\ WakersWait /\ InOrder(Line, InTurn)

---------------------------------------------------------------------------
(* Sequences.                                                              *)

\* What is appended to the second half is appended to the whole.
LEMMA AppendToLine ==
  \A b, q \in Seq(Tasks) : \A e \in Tasks : b \o Append(q, e) = Append(b \o q, e)
<1> SUFFICES ASSUME NEW b \in Seq(Tasks), NEW q \in Seq(Tasks), NEW e \in Tasks
             PROVE  b \o Append(q, e) = Append(b \o q, e)
  OBVIOUS
<1>1. <<e>> \in Seq(Tasks)
  OBVIOUS
<1>2. Append(q, e) = q \o <<e>> /\ Append(b \o q, e) = (b \o q) \o <<e>>
  BY AppendIsConcat, ConcatProperties
<1> QED BY <1>1, <1>2, ConcatAssociative

\* The first of the first half is the first of the whole.
LEMMA HeadOfLine ==
  ASSUME NEW S, NEW b \in Seq(S), NEW q \in Seq(S), b # <<>>
  PROVE  /\ b \o q \in Seq(S) /\ b \o q # <<>>
         /\ Head(b \o q) = Head(b) /\ Tail(b \o q) = Tail(b) \o q
<1>1. /\ Len(b) \in Nat \ {0} /\ Len(q) \in Nat
      /\ b \o q \in Seq(S) /\ Len(b \o q) = Len(b) + Len(q)
      /\ \A i \in 1..Len(b) + Len(q) : (b \o q)[i] = IF i <= Len(b) THEN b[i] ELSE q[i - Len(b)]
  BY EmptySeq, LenProperties, ConcatProperties
<1>2. b \o q # <<>>
  BY <1>1
<1>3. Head(b \o q) = Head(b)
  BY <1>1, <1>2
<1>4. /\ Tail(b) \in Seq(S) /\ Len(Tail(b)) = Len(b) - 1
      /\ \A i \in 1..Len(Tail(b)) : Tail(b)[i] = b[i + 1]
  BY HeadTailProperties
<1>5. /\ Tail(b \o q) \in Seq(S) /\ Len(Tail(b \o q)) = Len(b) + Len(q) - 1
      /\ \A i \in 1..Len(Tail(b \o q)) : Tail(b \o q)[i] = (b \o q)[i + 1]
  BY <1>1, <1>2, HeadTailProperties
<1>6. /\ Tail(b) \o q \in Seq(S) /\ Len(Tail(b) \o q) = Len(b) + Len(q) - 1
      /\ \A i \in 1..Len(Tail(b)) + Len(q) :
           (Tail(b) \o q)[i] = IF i <= Len(Tail(b)) THEN Tail(b)[i] ELSE q[i - Len(Tail(b))]
  BY <1>1, <1>4, ConcatProperties
<1>7. ASSUME NEW i \in 1..Len(Tail(b \o q))
      PROVE  Tail(b \o q)[i] = (Tail(b) \o q)[i]
  <2>1. CASE i <= Len(b) - 1
    BY <2>1, <1>1, <1>4, <1>5, <1>6
  <2>2. CASE i > Len(b) - 1
    <3>1. Tail(b \o q)[i] = q[i + 1 - Len(b)]
      BY <2>2, <1>1, <1>5
    <3>2. (Tail(b) \o q)[i] = q[i - (Len(b) - 1)]
      BY <2>2, <1>1, <1>4, <1>5, <1>6
    <3> QED BY <3>1, <3>2, <1>1
  <2> QED BY <2>1, <2>2, <1>1
<1> QED BY <1>2, <1>1, <1>3, <1>5, <1>6, <1>7, SeqEqual

\* A sequence is what is taken from it and what is left.
LEMMA TakenAndLeft ==
  ASSUME NEW S, NEW q \in Seq(S), NEW n \in 0..Len(q)
  PROVE  /\ SubSeq(q, 1, n) \in Seq(S) /\ Len(SubSeq(q, 1, n)) = n
         /\ SubSeq(q, n + 1, Len(q)) \in Seq(S)
         /\ SubSeq(q, 1, n) \o SubSeq(q, n + 1, Len(q)) = q
<1>1. Len(q) \in Nat /\ \A i \in 1..Len(q) : q[i] \in S
  BY LenProperties, ElementOfSeq
<1>2. SubSeq(q, 1, n) \o SubSeq(q, n + 1, Len(q)) = SubSeq(q, 1, Len(q))
  <2>1. 1 \in 1..Len(q) + 1 /\ n \in 1 - 1..Len(q) /\ Len(q) \in n..Len(q)
    BY <1>1
  <2> QED BY ONLY <2>1, q \in Seq(S), ConcatAdjacentSubSeq
<1>3. SubSeq(q, 1, Len(q)) = q
  BY SubSeqFull
<1>4. SubSeq(q, 1, n) \in Seq(S) /\ Len(SubSeq(q, 1, n)) = n
  BY <1>1, SubSeqProperties
<1>5. SubSeq(q, n + 1, Len(q)) \in Seq(S)
  <2>1. \A i \in n + 1..Len(q) : q[i] \in S
    BY <1>1
  <2> QED BY <2>1, <1>1, SubSeqProperties
<1> QED BY <1>2, <1>3, <1>4, <1>5

---------------------------------------------------------------------------
(* Lines.                                                                  *)

\* One that is not in line gets in at the end.
LEMMA EnterKeepsOrder ==
  ASSUME NEW L, NEW R, InOrder(L, R), NEW t \in Tasks, t \notin R
  PROVE  InOrder([L EXCEPT ![PriorityOf(t)] = Append(@, t)], R \cup {t})
<1> DEFINE q == PriorityOf(t)
           M == [L EXCEPT ![q] = Append(@, t)]
<1>1. q \in Priorities
  BY DEF PriorityOf, Priorities
<1>2. /\ L \in [Priorities -> Seq(Tasks)] /\ Len(L[q]) \in Nat
      /\ M \in [Priorities -> Seq(Tasks)]
      /\ Len(M[q]) = Len(L[q]) + 1 /\ M[q][Len(L[q]) + 1] = t
      /\ \A i \in 1..Len(L[q]) : M[q][i] = L[q][i]
      /\ \A p \in Priorities \ {q} : M[p] = L[p]
  <2>1. L \in [Priorities -> Seq(Tasks)] /\ L[q] \in Seq(Tasks)
    BY <1>1 DEF InOrder
  <2>2. M[q] = Append(L[q], t) /\ \A p \in Priorities \ {q} : M[p] = L[p]
    BY <2>1, <1>1
  <2> HIDE DEF M, q
  <2>3. /\ Append(L[q], t) \in Seq(Tasks) /\ Len(Append(L[q], t)) = Len(L[q]) + 1
        /\ Append(L[q], t)[Len(L[q]) + 1] = t
        /\ \A i \in 1..Len(L[q]) : Append(L[q], t)[i] = L[q][i]
    BY <2>1, AppendProperties
  <2>4. M \in [Priorities -> Seq(Tasks)]
    BY <2>1, <2>3 DEF M
  <2>5. Len(L[q]) \in Nat
    BY <2>1, LenProperties
  <2> QED BY <2>1, <2>2, <2>3, <2>4, <2>5
<1>3. \A p \in Priorities : \A i \in 1..Len(M[p]) :
        M[p][i] \in R \cup {t} /\ PriorityOf(M[p][i]) = p
  <2> SUFFICES ASSUME NEW p \in Priorities, NEW i \in 1..Len(M[p])
               PROVE  M[p][i] \in R \cup {t} /\ PriorityOf(M[p][i]) = p
    OBVIOUS
  <2> HIDE DEF M
  <2>1. CASE p # q
    BY <2>1, <1>2 DEF InOrder
  <2>2. CASE p = q /\ i <= Len(L[q])
    BY <2>2, <1>2 DEF InOrder
  <2>3. CASE p = q /\ i = Len(L[q]) + 1
    BY <2>3, <1>2
  <2> QED BY <2>1, <2>2, <2>3, <1>2
<1>4. \A p \in Priorities : \A i, j \in 1..Len(M[p]) : M[p][i] = M[p][j] => i = j
  <2> SUFFICES ASSUME NEW p \in Priorities, NEW i \in 1..Len(M[p]), NEW j \in 1..Len(M[p]),
                      M[p][i] = M[p][j]
               PROVE  i = j
    OBVIOUS
  <2> HIDE DEF M, q
  <2>1. \A k \in 1..Len(L[q]) : L[q][k] # t
    BY <1>1 DEF InOrder
  <2>2. CASE p # q
    BY <2>2, <1>2 DEF InOrder
  <2>3. CASE p = q /\ i <= Len(L[q]) /\ j <= Len(L[q])
    BY <2>3, <1>2 DEF InOrder
  <2>4. CASE p = q /\ (i = Len(L[q]) + 1 \/ j = Len(L[q]) + 1)
    BY <2>4, <2>1, <1>2
  <2> QED BY <2>2, <2>3, <2>4, <1>2
<1>5. \A u \in R \cup {t} : \E i \in 1..Len(M[PriorityOf(u)]) : M[PriorityOf(u)][i] = u
  <2> SUFFICES ASSUME NEW u \in R \cup {t}
               PROVE  \E i \in 1..Len(M[PriorityOf(u)]) : M[PriorityOf(u)][i] = u
    OBVIOUS
  <2>1. PriorityOf(u) \in Priorities
    BY DEF PriorityOf, Priorities
  <2> HIDE DEF M
  <2>2. CASE u = t
    BY <2>2, <1>2
  <2>3. CASE u # t
    <3> HIDE DEF q
    <3>1. PICK i \in 1..Len(L[PriorityOf(u)]) : L[PriorityOf(u)][i] = u
      BY <2>3 DEF InOrder
    <3>2. M[PriorityOf(u)][i] = u /\ i \in 1..Len(M[PriorityOf(u)])
      BY <3>1, <2>1, <1>2
    <3> QED BY <3>2
  <2> QED BY <2>2, <2>3
<1> QED BY <1>2, <1>3, <1>4, <1>5 DEF InOrder

\* The first in line leaves.
LEMMA LeaveKeepsOrder ==
  ASSUME NEW L, NEW R, InOrder(L, R), NEW q \in Priorities, L[q] # <<>>
  PROVE  /\ InOrder([L EXCEPT ![q] = Tail(@)], R \ {Head(L[q])})
         /\ Head(L[q]) \in R /\ PriorityOf(Head(L[q])) = q
<1> DEFINE t == Head(L[q])
           M == [L EXCEPT ![q] = Tail(@)]
<1>1. /\ L \in [Priorities -> Seq(Tasks)] /\ Len(L[q]) \in Nat \ {0} /\ t = L[q][1]
      /\ M \in [Priorities -> Seq(Tasks)] /\ Len(M[q]) = Len(L[q]) - 1
      /\ \A i \in 1..Len(M[q]) : M[q][i] = L[q][i + 1]
      /\ \A p \in Priorities \ {q} : M[p] = L[p]
  <2>1. L \in [Priorities -> Seq(Tasks)] /\ L[q] \in Seq(Tasks)
    BY DEF InOrder
  <2>2. M[q] = Tail(L[q]) /\ \A p \in Priorities \ {q} : M[p] = L[p]
    BY <2>1
  <2>3. t = L[q][1]
    BY <2>1
  <2> HIDE DEF M
  <2>4. /\ Tail(L[q]) \in Seq(Tasks) /\ Len(Tail(L[q])) = Len(L[q]) - 1
        /\ \A i \in 1..Len(Tail(L[q])) : Tail(L[q])[i] = L[q][i + 1]
    BY <2>1, HeadTailProperties
  <2>5. M \in [Priorities -> Seq(Tasks)]
    BY <2>1, <2>4 DEF M
  <2>6. Len(L[q]) \in Nat \ {0}
    BY <2>1, EmptySeq
  <2> QED BY <2>1, <2>2, <2>3, <2>4, <2>5, <2>6
<1> HIDE DEF M, t
<1>2. t \in R /\ PriorityOf(t) = q
  BY <1>1 DEF InOrder
<1>3. \A p \in Priorities : \A i \in 1..Len(M[p]) :
        M[p][i] \in R \ {t} /\ PriorityOf(M[p][i]) = p
  <2> SUFFICES ASSUME NEW p \in Priorities, NEW i \in 1..Len(M[p])
               PROVE  M[p][i] \in R \ {t} /\ PriorityOf(M[p][i]) = p
    OBVIOUS
  <2>1. CASE p # q
    BY <2>1, <1>1, <1>2 DEF InOrder
  <2>2. CASE p = q
    <3>1. i + 1 \in 1..Len(L[q]) /\ i + 1 # 1 /\ 1 \in 1..Len(L[q])
      BY <2>2, <1>1
    <3>2. M[p][i] = L[q][i + 1]
      BY <2>2, <1>1
    <3> QED BY <3>1, <3>2, <2>2, <1>1 DEF InOrder
  <2> QED BY <2>1, <2>2
<1>4. \A p \in Priorities : \A i, j \in 1..Len(M[p]) : M[p][i] = M[p][j] => i = j
  <2> SUFFICES ASSUME NEW p \in Priorities, NEW i \in 1..Len(M[p]), NEW j \in 1..Len(M[p]),
                      M[p][i] = M[p][j]
               PROVE  i = j
    OBVIOUS
  <2>1. CASE p # q
    BY <2>1, <1>1 DEF InOrder
  <2>2. CASE p = q
    <3>1. i + 1 \in 1..Len(L[q]) /\ j + 1 \in 1..Len(L[q]) /\ L[q][i + 1] = L[q][j + 1]
      BY <2>2, <1>1
    <3>2. i + 1 = j + 1
      BY <3>1 DEF InOrder
    <3> QED BY <3>2
  <2> QED BY <2>1, <2>2
<1>5. \A u \in R \ {t} : \E i \in 1..Len(M[PriorityOf(u)]) : M[PriorityOf(u)][i] = u
  <2> SUFFICES ASSUME NEW u \in R \ {t}
               PROVE  \E i \in 1..Len(M[PriorityOf(u)]) : M[PriorityOf(u)][i] = u
    OBVIOUS
  <2>1. PriorityOf(u) \in Priorities
    BY DEF PriorityOf, Priorities
  <2>2. PICK i \in 1..Len(L[PriorityOf(u)]) : L[PriorityOf(u)][i] = u
    BY DEF InOrder
  <2>3. CASE PriorityOf(u) # q
    BY <2>1, <2>2, <2>3, <1>1
  <2>4. CASE PriorityOf(u) = q
    <3>1. i # 1
      BY <2>2, <2>4, <1>1
    <3>2. i - 1 \in 1..Len(M[q]) /\ M[q][i - 1] = L[q][i]
      BY <3>1, <2>2, <2>4, <1>1
    <3> QED BY <3>2, <2>2, <2>4
  <2> QED BY <2>3, <2>4
<1> QED BY <1>1, <1>2, <1>3, <1>4, <1>5 DEF InOrder, M, t

---------------------------------------------------------------------------
(* What the actions do to the lines and to the states that MainThread sees. *)

LEMMA PriorityOfType == \A t : PriorityOf(t) \in Priorities
BY DEF PriorityOf, Priorities

LEMMA TurnIsReady ==
  ASSUME Types
  PROVE  InTurn = {t \in Tasks : State[t] = "ready"}
BY DEF Types, InTurn, State, Shown

\* A future gets in line.
LEMMA EntersLine ==
  ASSUME Types, NEW t \in Tasks, Enters(t), UNCHANGED batch
  PROVE  /\ Line' = [Line EXCEPT ![PriorityOf(t)] = Append(@, t)]
         /\ State' = [State EXCEPT ![t] = "ready"]
         /\ InTurn' = InTurn \cup {t}
         /\ queue' \in [Priorities -> Seq(Tasks)]
         /\ task' = [task EXCEPT ![t] = "queued"]
<1> DEFINE q == PriorityOf(t)
<1>1. q \in Priorities
  BY PriorityOfType
<1>2. queue[q] \in Seq(Tasks) /\ batch[q] \in Seq(Tasks)
  BY <1>1 DEF Types
<1>3. queue' = [queue EXCEPT ![q] = Append(@, t)] /\ task' = [task EXCEPT ![t] = "queued"]
  BY DEF Enters
<1> HIDE DEF q
<1>4. batch[q] \o Append(queue[q], t) = Append(batch[q] \o queue[q], t)
  BY <1>2, AppendToLine, Zenon
<1>5. Append(queue[q], t) \in Seq(Tasks)
  BY <1>2, AppendProperties
<1>6. queue' \in [Priorities -> Seq(Tasks)]
  BY <1>1, <1>3, <1>5 DEF Types
<1>7. Line' = [Line EXCEPT ![q] = Append(@, t)]
  <2>1. \A p \in Priorities : queue'[p] = IF p = q THEN Append(queue[q], t) ELSE queue[p]
    BY <1>3 DEF Types
  <2> QED BY <2>1, <1>1, <1>4 DEF Line
<1>8. State' = [State EXCEPT ![t] = "ready"]
  BY <1>3 DEF Types, State, Shown
<1>9. InTurn' = InTurn \cup {t}
  BY <1>3 DEF Types, InTurn
<1> QED BY <1>3, <1>6, <1>7, <1>8, <1>9 DEF q

\* The first of the batch is the first in line.
LEMMA FirstInLine ==
  ASSUME Types, NEW p \in Priorities, NEW t \in Tasks, First(p, t)
  PROVE  /\ Line[p] # <<>> /\ Head(Line[p]) = t
         /\ Tail(Line[p]) = Tail(batch[p]) \o queue[p]
         /\ Tail(batch[p]) \in Seq(Tasks) /\ Len(Tail(batch[p])) = Len(batch[p]) - 1
<1>1. batch[p] \in Seq(Tasks) /\ queue[p] \in Seq(Tasks) /\ batch[p] # <<>> /\ t = Head(batch[p])
  BY DEF Types, First
<1>2. Line[p] = batch[p] \o queue[p]
  BY DEF Line
<1>3. /\ batch[p] \o queue[p] # <<>> /\ Head(batch[p] \o queue[p]) = Head(batch[p])
      /\ Tail(batch[p] \o queue[p]) = Tail(batch[p]) \o queue[p]
  BY <1>1, HeadOfLine, Zenon
<1>4. Tail(batch[p]) \in Seq(Tasks) /\ Len(Tail(batch[p])) = Len(batch[p]) - 1
  BY <1>1, HeadTailProperties, Zenon
<1> QED BY <1>1, <1>2, <1>3, <1>4

\* It leaves
LEMMA ReturnedLine ==
  ASSUME Types, NEW p \in Priorities, NEW t \in Tasks, First(p, t), Returned(p), UNCHANGED queue
  PROVE  /\ Line' = [Line EXCEPT ![p] = Tail(@)]
         /\ batch' \in [Priorities -> Seq(Tasks)] /\ batch' = [batch EXCEPT ![p] = Tail(@)]
<1>1. batch' = [batch EXCEPT ![p] = Tail(@)]
  BY DEF Returned
<1>2. batch' \in [Priorities -> Seq(Tasks)]
  BY <1>1, FirstInLine DEF Types
<1>3. \A q \in Priorities : batch'[q] = IF q = p THEN Tail(batch[p]) ELSE batch[q]
  BY <1>1 DEF Types
<1>4. Line' = [Line EXCEPT ![p] = Tail(@)]
  BY <1>3, FirstInLine DEF Line
<1> QED BY <1>1, <1>2, <1>4

\* or, having woken itself, goes to the end.
LEMMA YieldedLine ==
  ASSUME Types, NEW p \in Priorities, NEW t \in Tasks, First(p, t), Returned(p), Enters(t),
         PriorityOf(t) = p
  PROVE  /\ Line' = [Line EXCEPT ![p] = Append(Tail(@), t)]
         /\ batch' \in [Priorities -> Seq(Tasks)] /\ batch' = [batch EXCEPT ![p] = Tail(@)]
         /\ queue' \in [Priorities -> Seq(Tasks)]
<1>1. batch' = [batch EXCEPT ![p] = Tail(@)] /\ queue' = [queue EXCEPT ![p] = Append(@, t)]
  BY DEF Returned, Enters
<1>2. Tail(batch[p]) \in Seq(Tasks) /\ queue[p] \in Seq(Tasks)
  BY FirstInLine DEF Types
<1>3. Append(queue[p], t) \in Seq(Tasks)
  BY <1>2, AppendProperties
<1>4. batch' \in [Priorities -> Seq(Tasks)] /\ queue' \in [Priorities -> Seq(Tasks)]
  BY <1>1, <1>2, <1>3 DEF Types
<1>5. Tail(batch[p]) \o Append(queue[p], t) = Append(Tail(Line[p]), t)
  <2>1. Tail(batch[p]) \o Append(queue[p], t) = Append(Tail(batch[p]) \o queue[p], t)
    BY <1>2, AppendToLine, Zenon
  <2> QED BY <2>1, FirstInLine
<1>6. \A q \in Priorities : /\ batch'[q] = IF q = p THEN Tail(batch[p]) ELSE batch[q]
                            /\ queue'[q] = IF q = p THEN Append(queue[p], t) ELSE queue[q]
  BY <1>1 DEF Types
<1>7. Line' = [Line EXCEPT ![p] = Append(Tail(@), t)]
  BY <1>5, <1>6 DEF Line
<1> QED BY <1>1, <1>4, <1>7

\* A batch is the beginning of the line.
LEMMA TakeLine ==
  ASSUME Types, NEW p \in Priorities, NEW n \in 0..Len(queue[p]), batch[p] = <<>>, Take(p, n)
  PROVE  /\ Line' = Line
         /\ batch' \in [Priorities -> Seq(Tasks)] /\ queue' \in [Priorities -> Seq(Tasks)]
         /\ Len(batch'[p]) = n /\ \A q \in Priorities \ {p} : batch'[q] = batch[q]
<1> DEFINE taken == SubSeq(queue[p], 1, n)
           left  == SubSeq(queue[p], n + 1, Len(queue[p]))
<1>1. batch' = [batch EXCEPT ![p] = taken] /\ queue' = [queue EXCEPT ![p] = left]
  BY DEF Take
<1>2. /\ taken \in Seq(Tasks) /\ Len(taken) = n
      /\ left \in Seq(Tasks) /\ taken \o left = queue[p]
  <2>1. queue[p] \in Seq(Tasks)
    BY DEF Types
  <2>2. \A s \in Seq(Tasks) : \A k \in 0..Len(s) :
          /\ SubSeq(s, 1, k) \in Seq(Tasks) /\ Len(SubSeq(s, 1, k)) = k
          /\ SubSeq(s, k + 1, Len(s)) \in Seq(Tasks)
          /\ SubSeq(s, 1, k) \o SubSeq(s, k + 1, Len(s)) = s
    BY TakenAndLeft
  <2> QED BY <2>1, <2>2, Zenon
<1> HIDE DEF taken, left
<1>3. batch' \in [Priorities -> Seq(Tasks)] /\ queue' \in [Priorities -> Seq(Tasks)]
  BY <1>1, <1>2 DEF Types
<1>4. \A q \in Priorities : /\ batch'[q] = IF q = p THEN taken ELSE batch[q]
                            /\ queue'[q] = IF q = p THEN left ELSE queue[q]
  BY <1>1 DEF Types
<1>5. <<>> \o queue[p] = queue[p]
  BY ConcatEmptySeq DEF Types
<1>6. Line' = Line
  BY <1>2, <1>4, <1>5 DEF Line
<1> QED BY <1>2, <1>3, <1>4, <1>6

\* A step that changes no line and no state is none of MainThread.
LEMMA Stutters ==
  ASSUME Line' = Line, State' = State, UNCHANGED <<resolved, turn>>
  PROVE  UNCHANGED Promise!vars
BY DEF Promise!vars, Promise!Priorities, Priorities, Line, State, Shown

LEMMA PromisedEnters ==
  ASSUME NEW t, Line' = [Line EXCEPT ![PriorityOf(t)] = Append(@, t)],
         State' = [State EXCEPT ![t] = "ready"]
  PROVE  Promise!Enters(t)
BY DEF Promise!Enters, Promise!PriorityOf, PriorityOf, Line, State, Shown

---------------------------------------------------------------------------
(* The invariant and the promise, one action after the other.              *)

Kept == IInv' /\ (Promise!Next \/ UNCHANGED Promise!vars)

\* The line of MainThread, as its own actions name it.
LEMMA PromisedPoll ==
  ASSUME NEW p \in Priorities, Line[p] # <<>>, turn' = ~ turn, UNCHANGED resolved,
         LET t == Head(Line[p])
             rest == [Line EXCEPT ![p] = Tail(@)]
         IN  \/ /\ t \in Awaiting => t \in resolved
                /\ Line' = rest /\ State' = [State EXCEPT ![t] = "done"]
             \/ /\ t \in Awaiting => t \notin resolved
                /\ Line' = rest /\ State' = [State EXCEPT ![t] = "waiting"]
             \/ /\ t \notin Awaiting
                /\ Line' = [Line EXCEPT ![p] = Append(Tail(@), t)] /\ UNCHANGED State
  PROVE  Promise!Next
<1>1. Promise!Poll(p)
  BY DEF Promise!Poll, Promise!Priorities, Priorities, Line, State, Shown
<1> QED BY <1>1 DEF Promise!Next, Promise!Priorities, Priorities

\* Steps that leave the lines and what MainThread sees of a future as they are.
LEMMA QuietStep ==
  ASSUME IInv, Types', BatchUsedUp', WakersWait', Line' = Line, State' = State,
         UNCHANGED <<resolved, turn>>
  PROVE  Kept
<1>1. InTurn' = InTurn
  <2>1. InTurn = {t \in Tasks : State[t] = "ready"}
    BY TurnIsReady DEF IInv
  <2>2. InTurn' = {t \in Tasks : State'[t] = "ready"}
    BY DEF Types, InTurn, State, Shown
  <2> QED BY <2>1, <2>2
<1>2. InOrder(Line, InTurn)'
  BY <1>1 DEF IInv, InOrder
<1> QED BY <1>2, Stutters DEF Kept, IInv

LEMMA LoopStep ==
  ASSUME IInv, \/ Signal \/ \E asked \in BOOLEAN : Awake(asked) \/ BatchDone \/ Check
  PROVE  Kept
<1>1. UNCHANGED <<queue, batch, unsignalled, task, thread, waker, resolved, turn>> \/ Signal
  BY DEF Awake, BatchDone, Check
<1>2. UNCHANGED <<queue, batch, task, thread, waker, resolved, turn>>
  BY <1>1 DEF Signal
<1>3. Types'
  <2>1. unsignalled' \in 0..Callers
    <3>1. CASE Signal
      <4>1. Callers \in Nat /\ unsignalled \in 0..Callers
        BY SpawnAssumption DEF IInv, Types
      <4> QED BY <3>1, <4>1 DEF Signal
    <3> QED BY <1>1, <3>1 DEF IInv, Types
  <2>2. wakeup' \in BOOLEAN
    <3>1. (wakeup \/ HasAnyQueued) \in BOOLEAN
      BY DEF IInv, Types, HasAnyQueued
    <3>2. \A asked \in BOOLEAN : (wakeup /\ ~ asked) \in BOOLEAN
      OBVIOUS
    <3> QED BY <3>1, <3>2 DEF IInv, Types, Signal, Awake, BatchDone, Check
  <2>3. /\ at' \in {"asleep", "take normal", "take low", "run", "check"}
        /\ observed' \in {"before", "after"}
    BY DEF IInv, Types, Signal, Awake, BatchDone, Check
  <2> QED BY <1>2, <2>1, <2>2, <2>3 DEF IInv, Types
<1>4. BatchUsedUp'
  <2>1. CASE Signal
    BY <2>1 DEF IInv, BatchUsedUp, Signal
  <2>2. ASSUME NEW asked \in BOOLEAN, Awake(asked) PROVE BatchUsedUp'
    BY <2>2 DEF IInv, BatchUsedUp, Awake
  <2>3. CASE BatchDone
    BY <2>3 DEF IInv, BatchUsedUp, BatchDone, Priorities
  <2>4. CASE Check
    BY <2>4 DEF IInv, BatchUsedUp, Check
  <2> QED BY <2>1, <2>2, <2>3, <2>4
<1>5. WakersWait'
  BY <1>2 DEF IInv, WakersWait
<1>6. Line' = Line /\ State' = State
  BY <1>2 DEF Line, State
<1> QED BY <1>2, <1>3, <1>4, <1>5, <1>6, QuietStep

LEMMA ThreadStep ==
  ASSUME IInv, NEW t \in Threaded, StartThread(t) \/ EndWork(t)
  PROVE  Kept
<1>1. UNCHANGED <<queue, batch, at, observed, wakeup, unsignalled, task, waker, resolved, turn>>
  BY DEF StartThread, EndWork
<1>2. Types'
  BY <1>1 DEF IInv, Types, StartThread, EndWork
<1>3. BatchUsedUp' /\ WakersWait'
  BY <1>1 DEF IInv, BatchUsedUp, WakersWait
<1>4. Line' = Line /\ State' = State
  BY <1>1 DEF Line, State
<1> QED BY <1>1, <1>2, <1>3, <1>4, QuietStep

LEMMA RoomLeft == \A n, B \in Nat : n <= B => B - n \in Nat
OBVIOUS

LEMMA HalfFits == \A n, m, B \in Nat : n + m <= B => n <= B /\ m + n <= B
OBVIOUS

LEMMA SmallerFits == \A k, m \in Nat : Smaller(k, m) \in 0..m /\ Smaller(k, m) <= k
BY DEF Smaller

\* One half of a batch is taken, the other being n long.
LEMMA TakeHalf ==
  ASSUME IInv, NEW p \in Priorities, NEW n \in Nat, n <= Burst, batch[p] = <<>>,
         Take(p, Smaller(Burst - n, Len(queue[p]))),
         UNCHANGED <<observed, wakeup, unsignalled, task, thread, waker, resolved, turn>>,
         at' \in {"take low", "run"}, BatchUsedUp'
  PROVE  Kept
<1> DEFINE k == Smaller(Burst - n, Len(queue[p]))
<1>1. k \in 0..Len(queue[p])
  <2>1. Len(queue[p]) \in Nat
    BY LenProperties DEF IInv, Types
  <2>2. Burst \in Nat
    BY SpawnAssumption
  <2>3. Burst - n \in Nat
    BY <2>2, RoomLeft, Zenon
  <2> QED BY <2>1, <2>3, SmallerFits
<1> HIDE DEF k
<1>2. Take(p, k)
  BY DEF k
<1>3. /\ Line' = Line
      /\ batch' \in [Priorities -> Seq(Tasks)] /\ queue' \in [Priorities -> Seq(Tasks)]
  BY <1>1, <1>2, TakeLine DEF IInv
<1>4. Types'
  BY <1>3 DEF IInv, Types
<1>5. WakersWait' /\ State' = State
  BY DEF IInv, WakersWait, State
<1> QED BY <1>3, <1>4, <1>5, QuietStep

\* What is taken is as long as it was to be, and the other half stays.
LEMMA HalfTaken ==
  ASSUME IInv, NEW p \in Priorities, NEW n \in Nat, n <= Burst, batch[p] = <<>>,
         Take(p, Smaller(Burst - n, Len(queue[p])))
  PROVE  /\ Len(batch'[p]) \in Nat /\ Len(batch'[p]) + n <= Burst
         /\ \A q \in Priorities \ {p} : batch'[q] = batch[q]
<1> DEFINE k == Smaller(Burst - n, Len(queue[p]))
<1>1. k \in 0..Len(queue[p]) /\ k \in Nat /\ k + n <= Burst
  <2>1. Len(queue[p]) \in Nat
    BY LenProperties DEF IInv, Types
  <2>2. Burst - n \in Nat /\ Burst \in Nat
    BY SpawnAssumption
  <2>3. k \in 0..Len(queue[p]) /\ k <= Burst - n
    BY <2>1, <2>2, SmallerFits
  <2> HIDE DEF k
  <2> QED BY <2>1, <2>2, <2>3
<1> HIDE DEF k
<1>2. Take(p, k)
  BY DEF k
<1>3. Len(batch'[p]) = k /\ \A q \in Priorities \ {p} : batch'[q] = batch[q]
  BY <1>1, <1>2, TakeLine DEF IInv
<1> QED BY <1>1, <1>3

LEMMA TakeStep ==
  ASSUME IInv, TakeNormal \/ TakeLow
  PROVE  Kept
<1>1. /\ "normal" \in Priorities /\ "low" \in Priorities
      /\ Burst \in Nat /\ 0 \in Nat /\ 0 <= Burst /\ Burst - 0 = Burst
      /\ Len(batch["normal"]) \in Nat /\ Len(batch["normal"]) <= Burst
  <2>1. "normal" \in Priorities /\ "low" \in Priorities
    BY DEF Priorities
  <2>2. Len(batch["normal"]) \in Nat /\ Len(batch["low"]) \in Nat
    BY <2>1, LenProperties DEF IInv, Types
  <2>3. Len(batch["normal"]) + Len(batch["low"]) <= Burst
    BY DEF IInv, BatchUsedUp
  <2>4. Burst \in Nat
    BY SpawnAssumption
  <2>5. Len(batch["normal"]) <= Burst
    BY <2>2, <2>3, <2>4, HalfFits, Zenon
  <2>6. 0 \in Nat /\ 0 <= Burst /\ Burst - 0 = Burst
    BY ONLY <2>4
  <2> QED BY <2>1, <2>2, <2>4, <2>5, <2>6, Zenon
<1>2. CASE TakeNormal
  <2>1. /\ batch["normal"] = <<>> /\ batch["low"] = <<>> /\ at' = "take low"
        /\ Take("normal", Smaller(Burst - 0, Len(queue["normal"])))
        /\ UNCHANGED <<observed, wakeup, unsignalled, task, thread, waker, resolved, turn>>
    BY <1>1, <1>2 DEF TakeNormal, IInv, BatchUsedUp
  <2>2. /\ Len(batch'["normal"]) \in Nat /\ Len(batch'["normal"]) + 0 <= Burst
        /\ batch'["low"] = batch["low"]
    BY <1>1, <2>1, HalfTaken DEF Priorities
  <2>3. BatchUsedUp'
    <3>1. batch'["low"] = <<>>
      BY <2>1, <2>2, Zenon
    <3>2. Len(batch'["low"]) = 0
      BY <3>1, Len(<<>>) = 0, Zenon
    <3>3. Len(batch'["normal"]) + Len(batch'["low"]) <= Burst
      BY <2>2, <3>2, Zenon
    <3> QED BY <2>1, <3>1, <3>3 DEF BatchUsedUp
  <2> QED BY <1>1, <2>1, <2>3, TakeHalf
<1>3. CASE TakeLow
  <2> DEFINE n == Len(batch["normal"])
  <2>1. /\ batch["low"] = <<>> /\ at' = "run"
        /\ Take("low", Smaller(Burst - n, Len(queue["low"])))
        /\ UNCHANGED <<observed, wakeup, unsignalled, task, thread, waker, resolved, turn>>
    BY <1>3 DEF TakeLow, IInv, BatchUsedUp
  <2>2. n \in Nat /\ n <= Burst
    BY <1>1
  <2>3. batch'["normal"] = batch["normal"] /\ "normal" \in Priorities \ {"low"}
        /\ Len(batch'["low"]) \in Nat /\ Len(batch'["low"]) + n <= Burst
    <3>1. "normal" \in Priorities \ {"low"}
      BY DEF Priorities
    <3> HIDE DEF n
    <3> QED BY <1>1, <2>1, <2>2, <3>1, HalfTaken
  <2>4. BatchUsedUp'
    <3>1. Len(batch'["normal"]) + Len(batch'["low"]) <= Burst
      BY <1>1, <2>2, <2>3, HalfFits, Zenon
    <3> QED BY <2>1, <3>1 DEF BatchUsedUp
  <2> HIDE DEF n
  <2> QED BY <1>1, <2>1, <2>2, <2>4, TakeHalf
<1> QED BY <1>2, <1>3

\* A future that is not in line gets there.
LEMMA EntersKeepsOrder ==
  ASSUME IInv, NEW t \in Tasks, task[t] \in {"new", "idle"}, QueueFunc(t), UNCHANGED batch
  PROVE  /\ InOrder(Line, InTurn)'
         /\ queue' \in [Priorities -> Seq(Tasks)] /\ task' = [task EXCEPT ![t] = "queued"]
         /\ unsignalled' \in 0..Callers
         /\ Promise!Enters(t)
<1>1. Enters(t) /\ unsignalled' \in 0..Callers
  <2>1. Callers \in Nat /\ unsignalled \in 0..Callers
    BY SpawnAssumption DEF IInv, Types
  <2> QED BY <2>1 DEF QueueFunc
<1>2. t \notin InTurn
  BY DEF InTurn
<1>3. /\ Line' = [Line EXCEPT ![PriorityOf(t)] = Append(@, t)]
      /\ State' = [State EXCEPT ![t] = "ready"] /\ InTurn' = InTurn \cup {t}
      /\ queue' \in [Priorities -> Seq(Tasks)] /\ task' = [task EXCEPT ![t] = "queued"]
  BY <1>1, EntersLine DEF IInv
<1>4. InOrder([Line EXCEPT ![PriorityOf(t)] = Append(@, t)], InTurn \cup {t})
  BY <1>2, EnterKeepsOrder DEF IInv
<1>5. InOrder(Line, InTurn)'
  BY <1>3, <1>4 DEF InOrder
<1> QED BY <1>1, <1>3, <1>5, PromisedEnters

\* One that left no waker behind may get in line, whoever else has left one.
LEMMA WakersStillWait ==
  ASSUME IInv, NEW t \in Tasks, task' = [task EXCEPT ![t] = "queued"],
         waker' \subseteq waker \ {t}
  PROVE  WakersWait'
<1>1. \A u \in Tasks : task'[u] = IF u = t THEN "queued" ELSE task[u]
  BY DEF IInv, Types
<1>2. waker \subseteq Tasks
  BY SpawnAssumption DEF IInv, Types
<1> QED BY <1>1, <1>2 DEF IInv, WakersWait

LEMMA SpawnStep ==
  ASSUME IInv, NEW t \in Tasks, Spawn(t) \/ Wake(t)
  PROVE  Kept
<1>1. /\ task[t] \in {"new", "idle"} /\ QueueFunc(t)
      /\ UNCHANGED <<batch, at, observed, wakeup, thread, waker, resolved, turn>>
  BY DEF Spawn, Wake
<1>2. /\ InOrder(Line, InTurn)'
      /\ queue' \in [Priorities -> Seq(Tasks)] /\ task' = [task EXCEPT ![t] = "queued"]
      /\ unsignalled' \in 0..Callers /\ Promise!Enters(t)
  BY <1>1, EntersKeepsOrder
<1>3. Types'
  BY <1>1, <1>2 DEF IInv, Types
<1>4. BatchUsedUp'
  BY <1>1 DEF IInv, BatchUsedUp
<1>5. WakersWait'
  <2>1. t \notin waker
    BY DEF Spawn, Wake, IInv, Types, WakersWait
  <2> QED BY <1>1, <1>2, <2>1, WakersStillWait
<1>6. Promise!Spawn(t) \/ Promise!Wake(t)
  BY <1>1, <1>2 DEF Spawn, Wake, Promise!Spawn, Promise!Wake
<1> QED BY <1>2, <1>3, <1>4, <1>5, <1>6 DEF Kept, IInv, Promise!Next

LEMMA ResolveStep ==
  ASSUME IInv, NEW t \in Tasks, Resolve(t)
  PROVE  Kept
<1>1. /\ t \in Awaiting \ resolved /\ resolved' = resolved \cup {t}
      /\ UNCHANGED <<batch, at, observed, wakeup, thread, waker, turn>>
  BY DEF Resolve
<1>2. BatchUsedUp'
  BY <1>1 DEF IInv, BatchUsedUp
<1>3. CASE task[t] = "idle"
  <2>1. QueueFunc(t)
    BY <1>3 DEF Resolve
  <2>2. /\ InOrder(Line, InTurn)'
        /\ queue' \in [Priorities -> Seq(Tasks)] /\ task' = [task EXCEPT ![t] = "queued"]
        /\ unsignalled' \in 0..Callers /\ Promise!Enters(t)
    BY <1>1, <1>3, <2>1, EntersKeepsOrder
  <2>3. Types'
    BY <1>1, <2>2 DEF IInv, Types
  <2>4. t \notin waker
    BY <1>1, SpawnAssumption DEF IInv, Types
  <2>5. WakersWait'
    BY <1>1, <2>2, <2>4, WakersStillWait
  <2>6. Promise!Resolve(t)
    BY <1>1, <1>3, <2>2 DEF Promise!Resolve
  <2> QED BY <1>2, <2>2, <2>3, <2>5, <2>6 DEF Kept, IInv, Promise!Next
<1>4. CASE task[t] # "idle"
  <2>1. UNCHANGED <<queue, task, unsignalled>>
    BY <1>4 DEF Resolve
  <2>2. Types' /\ WakersWait'
    BY <1>1, <2>1 DEF IInv, Types, WakersWait
  <2>3. Line' = Line /\ State' = State /\ InTurn' = InTurn
    BY <1>1, <2>1 DEF Line, State, InTurn
  <2>4. InOrder(Line, InTurn)'
    BY <2>3 DEF IInv, InOrder
  <2>5. State[t] # "waiting"
    BY <1>4 DEF IInv, Types, State, Shown
  <2>6. Promise!Resolve(t)
    BY <1>1, <2>3, <2>5
       DEF Promise!Resolve, Promise!Priorities, Priorities, Line, State, Shown
  <2> QED BY <1>2, <2>2, <2>4, <2>6 DEF Kept, IInv, Promise!Next
<1> QED BY <1>3, <1>4

LEMMA TakeWakerStep ==
  ASSUME IInv, NEW t \in Threaded, TakeWaker(t)
  PROVE  Kept
<1>1. /\ t \in Tasks \ Awaiting /\ thread' = [thread EXCEPT ![t] = "gone"]
      /\ waker' = waker \ {t}
      /\ UNCHANGED <<batch, at, observed, wakeup, resolved, turn>>
  BY SpawnAssumption DEF TakeWaker
<1>2. BatchUsedUp'
  BY <1>1 DEF IInv, BatchUsedUp
<1>3. CASE t \in waker
  <2>1. task[t] = "idle" /\ QueueFunc(t)
    BY <1>3 DEF TakeWaker, IInv, WakersWait
  <2>2. /\ InOrder(Line, InTurn)'
        /\ queue' \in [Priorities -> Seq(Tasks)] /\ task' = [task EXCEPT ![t] = "queued"]
        /\ unsignalled' \in 0..Callers /\ Promise!Enters(t)
    BY <1>1, <2>1, EntersKeepsOrder
  <2>3. Types'
    BY <1>1, <2>2 DEF IInv, Types
  <2>4. WakersWait'
    BY <1>1, <2>2, WakersStillWait
  <2>5. Promise!Wake(t)
    BY <1>1, <2>1, <2>2 DEF Promise!Wake
  <2> QED BY <1>1, <1>2, <2>2, <2>3, <2>4, <2>5 DEF Kept, IInv, Promise!Next
<1>4. CASE t \notin waker
  <2>1. UNCHANGED <<queue, task, unsignalled>>
    BY <1>4 DEF TakeWaker
  <2>2. Types' /\ WakersWait'
    BY <1>1, <2>1 DEF IInv, Types, WakersWait
  <2>3. Line' = Line /\ State' = State
    BY <1>1, <2>1 DEF Line, State
  <2> QED BY <1>1, <1>2, <2>2, <2>3, QuietStep
<1> QED BY <1>3, <1>4

LEMMA OrderMoves ==
  ASSUME NEW L, NEW R, InOrder(L, R), Line' = L, InTurn' = R
  PROVE  InOrder(Line, InTurn)'
BY DEF InOrder

\* The first in line is in line, and left no waker.
LEMMA FirstWaits ==
  ASSUME IInv, NEW p \in Priorities, NEW t \in Tasks, First(p, t)
  PROVE  /\ Line[p] # <<>> /\ Head(Line[p]) = t /\ PriorityOf(t) = p
         /\ task[t] \in {"queued", "polling"} /\ t \notin waker /\ State[t] = "ready"
         /\ InOrder([Line EXCEPT ![p] = Tail(@)], InTurn \ {t})
<1>1. Line[p] # <<>> /\ Head(Line[p]) = t
  BY FirstInLine DEF IInv
<1>2. /\ InOrder([Line EXCEPT ![p] = Tail(@)], InTurn \ {t})
      /\ t \in InTurn /\ PriorityOf(t) = p
  BY <1>1, LeaveKeepsOrder DEF IInv
<1>3. task[t] \in {"queued", "polling"} /\ State[t] = "ready"
  BY <1>2 DEF InTurn, State, Shown
<1>4. t \notin waker
  BY <1>3 DEF IInv, WakersWait
<1> QED BY <1>1, <1>2, <1>3, <1>4

LEMMA OneLess == \A n, m, B \in Nat : n + m <= B => /\ (n - 1) + m <= B
                                                     /\ n + (m - 1) <= B
OBVIOUS

\* A batch gets shorter.
LEMMA BatchShrinks ==
  ASSUME IInv, NEW p \in Priorities, NEW t \in Tasks, First(p, t), Returned(p)
  PROVE  BatchUsedUp'
<1>1. at' = "run"
  BY DEF First, Returned
<1>2. batch' = [batch EXCEPT ![p] = Tail(batch[p])] /\ batch \in [Priorities -> Seq(Tasks)]
  BY DEF Returned, IInv, Types
<1>3. /\ Len(Tail(batch[p])) = Len(batch[p]) - 1
      /\ \A q \in Priorities : batch'[q] = IF q = p THEN Tail(batch[p]) ELSE batch[q]
  BY <1>2, FirstInLine DEF IInv
<1>4. Len(batch["normal"]) \in Nat /\ Len(batch["low"]) \in Nat /\ Burst \in Nat
  <2>1. Burst \in Nat
    BY SpawnAssumption
  <2> QED BY <1>2, <2>1, LenProperties DEF Priorities
<1>5. Len(batch["normal"]) + Len(batch["low"]) <= Burst
  BY DEF IInv, BatchUsedUp
<1>6. Len(batch'["normal"]) + Len(batch'["low"]) <= Burst
  <2>1. CASE p = "normal"
    <3>1. /\ Len(batch'["normal"]) = Len(batch["normal"]) - 1
          /\ Len(batch'["low"]) = Len(batch["low"])
      BY <2>1, <1>3 DEF Priorities
    <3> QED BY <1>4, <1>5, <3>1, OneLess, Zenon
  <2>2. CASE p = "low"
    <3>1. /\ Len(batch'["normal"]) = Len(batch["normal"])
          /\ Len(batch'["low"]) = Len(batch["low"]) - 1
      BY <2>2, <1>3 DEF Priorities
    <3> QED BY <1>4, <1>5, <3>1, OneLess, Zenon
  <2> QED BY <2>1, <2>2 DEF Priorities
<1> QED BY <1>1, <1>6 DEF BatchUsedUp

\* A future that was polled leaves the line.
LEMMA ReturnedKeepsOrder ==
  ASSUME IInv, NEW p \in Priorities, NEW t \in Tasks, First(p, t), Returned(p),
         NEW s \in {"idle", "done"}, task' = [task EXCEPT ![t] = s], UNCHANGED <<queue, wakeup>>,
         waker' \subseteq waker \cup {u \in {t} : s = "idle" /\ u \in Threaded}
  PROVE  /\ IInv'
         /\ Line[p] # <<>> /\ Head(Line[p]) = t
         /\ Line' = [Line EXCEPT ![p] = Tail(@)] /\ State' = [State EXCEPT ![t] = Shown(s)]
         /\ turn' = ~ turn /\ UNCHANGED resolved
<1>1. UNCHANGED <<at, observed, unsignalled, thread, resolved>> /\ turn' = ~ turn
  BY DEF Returned
<1>2. /\ Line[p] # <<>> /\ Head(Line[p]) = t /\ t \notin waker
      /\ InOrder([Line EXCEPT ![p] = Tail(@)], InTurn \ {t})
  BY FirstWaits
<1>3. Line' = [Line EXCEPT ![p] = Tail(@)] /\ batch' \in [Priorities -> Seq(Tasks)]
  BY ReturnedLine DEF IInv
<1>4. \A u \in Tasks : task'[u] = IF u = t THEN s ELSE task[u]
  BY DEF IInv, Types
<1>5. InTurn' = InTurn \ {t}
  BY <1>4 DEF InTurn
<1>6. State' = [State EXCEPT ![t] = Shown(s)]
  <2>1. \A u \in Tasks : Shown(task'[u]) = IF u = t THEN Shown(s) ELSE Shown(task[u])
    BY <1>4
  <2> QED BY <2>1 DEF State
<1>7. InOrder(Line, InTurn)'
  BY <1>2, <1>3, <1>5, OrderMoves
<1>8. Types'
  <2>1. turn' \in BOOLEAN
    BY <1>1 DEF IInv, Types
  <2>2. task' \in [Tasks -> {"new", "queued", "polling", "idle", "done"}]
    BY DEF IInv, Types
  <2> QED BY <1>1, <1>3, <2>1, <2>2 DEF IInv, Types
<1>9. WakersWait'
  <2>1. \A u \in waker' : u \in waker \/ (u = t /\ s = "idle")
    OBVIOUS
  <2>2. waker \subseteq Tasks
    BY SpawnAssumption DEF IInv, Types
  <2>3. \A u \in waker' : task'[u] = "idle"
    BY <1>2, <1>4, <2>1, <2>2 DEF IInv, WakersWait
  <2>4. \A u \in Tasks : task'[u] = "polling" => u \in Threaded
    BY <1>4 DEF IInv, WakersWait
  <2> QED BY <2>3, <2>4 DEF WakersWait
<1> QED BY <1>1, <1>2, <1>3, <1>6, <1>7, <1>8, <1>9, BatchShrinks DEF IInv

LEMMA ReadyStep ==
  ASSUME IInv, NEW p \in Priorities, NEW t \in Tasks, Ready(p, t)
  PROVE  Kept
<1>1. /\ First(p, t) /\ Returned(p) /\ task' = [task EXCEPT ![t] = "done"]
      /\ UNCHANGED <<queue, wakeup, waker>>
  BY DEF Ready
<1>2. /\ IInv' /\ Line[p] # <<>> /\ Head(Line[p]) = t
      /\ Line' = [Line EXCEPT ![p] = Tail(@)] /\ State' = [State EXCEPT ![t] = Shown("done")]
      /\ turn' = ~ turn /\ UNCHANGED resolved
  BY <1>1, ReturnedKeepsOrder
<1>3. t \in Awaiting => t \in resolved
  BY SpawnAssumption DEF Ready
<1>4. Shown("done") = "done"
  BY DEF Shown
<1>5. Promise!Next
  BY <1>2, <1>3, <1>4, PromisedPoll
<1> QED BY <1>2, <1>5 DEF Kept

\* A future that was not done waits, whether or not it leaves a waker for a
\* thread.
LEMMA PendingStep ==
  ASSUME IInv, NEW p \in Priorities, NEW t \in Tasks, Pending(p, t) \/ LeaveWaker(p, t)
  PROVE  Kept
<1>1. /\ First(p, t) /\ Returned(p) /\ task' = [task EXCEPT ![t] = "idle"]
      /\ UNCHANGED <<queue, wakeup>>
  BY DEF Pending, LeaveWaker
<1>2. waker' \subseteq waker \cup {u \in {t} : "idle" = "idle" /\ u \in Threaded}
  BY DEF Pending, LeaveWaker, IInv, WakersWait
<1>3. t \in Awaiting => t \notin resolved
  BY SpawnAssumption DEF Pending, LeaveWaker, IInv, WakersWait
<1>4. /\ IInv' /\ Line[p] # <<>> /\ Head(Line[p]) = t
      /\ Line' = [Line EXCEPT ![p] = Tail(@)] /\ State' = [State EXCEPT ![t] = Shown("idle")]
      /\ turn' = ~ turn /\ UNCHANGED resolved
  BY <1>1, <1>2, ReturnedKeepsOrder
<1>5. Shown("idle") = "waiting"
  BY DEF Shown
<1>6. Promise!Next
  BY <1>3, <1>4, <1>5, PromisedPoll
<1> QED BY <1>4, <1>6 DEF Kept

LEMMA YieldedStep ==
  ASSUME IInv, NEW p \in Priorities, NEW t \in Tasks, Yielded(p, t)
  PROVE  Kept
<1>1. /\ First(p, t) /\ Returned(p) /\ Enters(t) /\ t \notin Awaiting \cup Threaded
      /\ wakeup' = TRUE /\ UNCHANGED waker
  BY DEF Yielded
<1>2. UNCHANGED <<at, observed, unsignalled, thread, resolved>> /\ turn' = ~ turn
  BY <1>1 DEF Returned
<1>3. /\ Line[p] # <<>> /\ Head(Line[p]) = t /\ PriorityOf(t) = p
      /\ task[t] \in {"queued", "polling"} /\ t \notin waker
      /\ InOrder([Line EXCEPT ![p] = Tail(@)], InTurn \ {t})
  BY <1>1, FirstWaits
<1>4. /\ Line' = [Line EXCEPT ![p] = Append(Tail(@), t)]
      /\ batch' \in [Priorities -> Seq(Tasks)] /\ queue' \in [Priorities -> Seq(Tasks)]
  BY <1>1, <1>3, YieldedLine DEF IInv
<1>5. \A u \in Tasks : task'[u] = IF u = t THEN "queued" ELSE task[u]
  BY <1>1 DEF Enters, IInv, Types
<1>6. InTurn' = InTurn /\ State' = State /\ t \in InTurn
  BY <1>3, <1>5 DEF InTurn, State, Shown
<1>7. InOrder(Line, InTurn)'
  <2> DEFINE M == [Line EXCEPT ![p] = Tail(@)]
  <2>1. InOrder(M, InTurn \ {t}) /\ t \notin InTurn \ {t}
    BY <1>3
  <2>2. Line' = [M EXCEPT ![p] = Append(@, t)]
    BY <1>4 DEF Line
  <2> HIDE DEF M
  <2>3. InOrder([M EXCEPT ![PriorityOf(t)] = Append(@, t)], (InTurn \ {t}) \cup {t})
    BY <2>1, EnterKeepsOrder
  <2>4. (InTurn \ {t}) \cup {t} = InTurn'
    BY <1>6
  <2>5. Line' = [M EXCEPT ![PriorityOf(t)] = Append(@, t)]
    BY <1>3, <2>2, Zenon
  <2> QED BY <2>3, <2>4, <2>5, OrderMoves
<1>8. Types'
  <2>1. turn' \in BOOLEAN
    BY <1>2 DEF IInv, Types
  <2>2. task' \in [Tasks -> {"new", "queued", "polling", "idle", "done"}]
    BY <1>1 DEF Enters, IInv, Types
  <2> QED BY <1>1, <1>2, <1>4, <2>1, <2>2 DEF IInv, Types
<1>9. WakersWait'
  BY <1>1, <1>3, <1>5, SpawnAssumption DEF IInv, Types, WakersWait
<1>10. Promise!Next
  BY <1>1, <1>2, <1>3, <1>4, <1>6, PromisedPoll
<1> QED BY <1>1, <1>7, <1>8, <1>9, <1>10, BatchShrinks DEF Kept, IInv

LEMMA LookStep ==
  ASSUME IInv, NEW p \in Priorities, NEW t \in Tasks, LookForResult(p, t)
  PROVE  Kept
<1>1. /\ t \in Threaded /\ task[t] = "queued" /\ task' = [task EXCEPT ![t] = "polling"]
      /\ UNCHANGED <<queue, batch, at, observed, wakeup, unsignalled, thread, waker, resolved, turn>>
  BY DEF LookForResult
<1>2. \A u \in Tasks : task'[u] = IF u = t THEN "polling" ELSE task[u]
  BY <1>1 DEF IInv, Types
<1>3. Types'
  BY <1>1 DEF IInv, Types
<1>4. BatchUsedUp'
  BY <1>1 DEF IInv, BatchUsedUp
<1>5. WakersWait'
  <2>1. waker \subseteq Tasks
    BY SpawnAssumption DEF IInv, Types
  <2> QED BY <1>1, <1>2, <2>1 DEF IInv, WakersWait
<1>6. Line' = Line /\ State' = State
  BY <1>1, <1>2 DEF Line, State, Shown
<1> QED BY <1>1, <1>3, <1>4, <1>5, <1>6, QuietStep

---------------------------------------------------------------------------
(* All together.                                                           *)

LEMMA InitKept == Init => IInv /\ Promise!Init
<1> SUFFICES ASSUME Init PROVE IInv /\ Promise!Init
  OBVIOUS
<1>1. \A p \in Priorities : Line[p] = <<>>
  <2>1. <<>> \in Seq(Tasks) /\ <<>> \o <<>> = <<>>
    BY ConcatEmptySeq
  <2> QED BY <2>1 DEF Init, Line
<1>2. InTurn = {} /\ \A t \in Tasks : State[t] = "new"
  BY DEF Init, InTurn, State, Shown
<1>3. Types
  <2>1. unsignalled \in 0..Callers
    BY SpawnAssumption DEF Init
  <2>2. <<>> \in Seq(Tasks)
    BY EmptySeq
  <2>3. queue \in [Priorities -> Seq(Tasks)] /\ batch \in [Priorities -> Seq(Tasks)]
    BY <2>2 DEF Init
  <2>4. /\ task \in [Tasks -> {"new", "queued", "polling", "idle", "done"}]
        /\ thread \in [Threaded -> {"none", "working", "sent", "panicked", "gone"}]
    BY DEF Init
  <2> QED BY <2>1, <2>3, <2>4 DEF Init, Types
<1>4. BatchUsedUp
  <2>1. batch["normal"] = <<>> /\ batch["low"] = <<>>
    BY DEF Init, Priorities
  <2>2. Len(<<>>) + Len(<<>>) <= Burst
    BY SpawnAssumption
  <2> QED BY <2>1, <2>2 DEF BatchUsedUp
<1>5. WakersWait
  BY DEF Init, WakersWait
<1>6. InOrder(Line, InTurn)
  <2>1. Line \in [Priorities -> Seq(Tasks)]
    <3>1. <<>> \in Seq(Tasks)
      BY EmptySeq
    <3>2. Line = [p \in Priorities |-> Line[p]]
      BY DEF Line
    <3> HIDE DEF Line
    <3> QED BY <1>1, <3>1, <3>2
  <2>2. \A p \in Priorities : 1..Len(Line[p]) = {}
    BY <1>1
  <2> QED BY <1>2, <2>1, <2>2 DEF InOrder
<1>7. Promise!Init
  BY <1>1, <1>2
     DEF Init, Promise!Init, Promise!Priorities, Priorities, Line, State, Shown
<1> QED BY <1>3, <1>4, <1>5, <1>6, <1>7 DEF IInv

LEMMA NextKept == IInv /\ [Next]_vars => Kept
<1> SUFFICES ASSUME IInv, [Next]_vars PROVE Kept
  OBVIOUS
<1>1. CASE Signal \/ BatchDone \/ Check \/ Awake(TRUE) \/ Awake(FALSE)
  BY <1>1, LoopStep
<1>2. CASE TakeNormal \/ TakeLow
  BY <1>2, TakeStep
<1>3. ASSUME NEW p \in Priorities, NEW t \in Tasks,
             \/ Ready(p, t) \/ Pending(p, t) \/ Yielded(p, t)
             \/ LookForResult(p, t) \/ LeaveWaker(p, t)
      PROVE  Kept
  BY <1>3, ReadyStep, PendingStep, YieldedStep, LookStep
<1>4. ASSUME NEW t \in Tasks, Spawn(t) \/ Wake(t) \/ Resolve(t) PROVE Kept
  BY <1>4, SpawnStep, ResolveStep
<1>5. ASSUME NEW t \in Threaded, StartThread(t) \/ EndWork(t) \/ TakeWaker(t) PROVE Kept
  BY <1>5, ThreadStep, TakeWakerStep
<1>6. CASE UNCHANGED vars
  <2>1. Types' /\ BatchUsedUp' /\ WakersWait'
    BY <1>6 DEF vars, IInv, Types, BatchUsedUp, WakersWait
  <2>2. Line' = Line /\ State' = State /\ UNCHANGED <<resolved, turn>>
    BY <1>6 DEF vars, Line, State
  <2> QED BY <2>1, <2>2, QuietStep
<1> QED BY <1>1, <1>2, <1>3, <1>4, <1>5, <1>6 DEF Next, RunLoop

LEMMA InvTypeOK == IInv => TypeOK
<1> SUFFICES ASSUME IInv PROVE TypeOK
  OBVIOUS
<1>1. ASSUME NEW t \in Tasks
      PROVE  IF task[t] \in {"queued", "polling"} THEN \E x \in InLine(t) : InLine(t) = {x}
                                                   ELSE InLine(t) = {}
  <2> DEFINE b == batch[PriorityOf(t)]
             q == queue[PriorityOf(t)]
  <2>1. b \in Seq(Tasks) /\ q \in Seq(Tasks) /\ Line[PriorityOf(t)] = b \o q
    BY PriorityOfType DEF IInv, Types, Line
  <2>2. InLine(t) = {<<"batch", i>> : i \in {i \in DOMAIN b : b[i] = t}}
                      \cup {<<"queue", i>> : i \in {i \in DOMAIN q : q[i] = t}}
    BY DEF InLine, Times
  <2>3. /\ \A i \in 1..Len(b \o q) : (b \o q)[i] \in InTurn
        /\ \A i, j \in 1..Len(b \o q) : (b \o q)[i] = (b \o q)[j] => i = j
        /\ t \in InTurn => \E i \in 1..Len(b \o q) : (b \o q)[i] = t
    <3> HIDE DEF b, q
    <3> QED BY <2>1, PriorityOfType DEF IInv, InOrder
  <2> HIDE DEF b, q
  <2>4. /\ Len(b) \in Nat /\ Len(q) \in Nat /\ Len(b \o q) = Len(b) + Len(q)
        /\ DOMAIN b = 1..Len(b) /\ DOMAIN q = 1..Len(q)
        /\ \A i \in 1..Len(b) : (b \o q)[i] = b[i]
        /\ \A i \in 1..Len(q) : (b \o q)[Len(b) + i] = q[i]
    <3>1. /\ Len(b) \in Nat /\ Len(q) \in Nat /\ Len(b \o q) = Len(b) + Len(q)
          /\ DOMAIN b = 1..Len(b) /\ DOMAIN q = 1..Len(q)
          /\ \A i \in 1..Len(b) + Len(q) :
               (b \o q)[i] = IF i <= Len(b) THEN b[i] ELSE q[i - Len(b)]
      BY <2>1, LenProperties, ConcatProperties
    <3> QED BY <3>1
  <2>5. CASE t \in InTurn
    <3>1. PICK k \in 1..Len(b \o q) : (b \o q)[k] = t
      BY <2>3, <2>5
    <3>2. CASE k <= Len(b)
      <4>1. k \in DOMAIN b /\ b[k] = t
        BY <2>4, <3>1, <3>2
      <4>2. \A i \in DOMAIN b : b[i] = t => i = k
        BY <2>3, <2>4, <3>1
      <4>3. \A i \in DOMAIN q : q[i] # t
        BY <2>3, <2>4, <3>1, <3>2
      <4>4. <<"batch", k>> \in InLine(t) /\ InLine(t) = {<<"batch", k>>}
        BY <2>2, <4>1, <4>2, <4>3, Zenon
      <4> QED BY <2>5, <4>4 DEF InTurn
    <3>3. CASE k > Len(b)
      <4> DEFINE j == k - Len(b)
      <4>1. j \in DOMAIN q /\ q[j] = t
        BY <2>4, <3>1, <3>3
      <4>2. \A i \in DOMAIN q : q[i] = t => i = j
        <5> SUFFICES ASSUME NEW i \in DOMAIN q, q[i] = t PROVE i = j
          OBVIOUS
        <5>1. Len(b) + i \in 1..Len(b \o q) /\ (b \o q)[Len(b) + i] = t
          BY <2>4
        <5>2. Len(b) + i = k
          BY <2>3, <3>1, <5>1
        <5>3. i \in Nat /\ k \in Nat /\ Len(b) \in Nat
          BY <2>4, <3>1
        <5> QED BY ONLY <5>2, <5>3
      <4>3. \A i \in DOMAIN b : b[i] # t
        BY <2>3, <2>4, <3>1, <3>3
      <4> HIDE DEF j
      <4>4. <<"queue", j>> \in InLine(t) /\ InLine(t) = {<<"queue", j>>}
        BY <2>2, <4>1, <4>2, <4>3, Zenon
      <4> QED BY <2>5, <4>4 DEF InTurn
    <3> QED BY <2>4, <3>1, <3>2, <3>3
  <2>6. CASE t \notin InTurn
    <3>1. \A i \in DOMAIN b : b[i] # t
      <4> SUFFICES ASSUME NEW i \in DOMAIN b PROVE b[i] # t
        OBVIOUS
      <4>1. i \in 1..Len(b \o q)
        BY <2>4
      <4> QED BY <2>3, <2>4, <2>6, <4>1
    <3>2. \A i \in DOMAIN q : q[i] # t
      <4> SUFFICES ASSUME NEW i \in DOMAIN q PROVE q[i] # t
        OBVIOUS
      <4>1. Len(b) + i \in 1..Len(b \o q)
        BY <2>4
      <4> QED BY <2>3, <2>4, <2>6, <4>1
    <3>3. InLine(t) = {}
      BY <2>2, <3>1, <3>2, Zenon
    <3> QED BY <2>6, <3>3 DEF InTurn
  <2> QED BY <2>5, <2>6
<1> QED BY <1>1 DEF IInv, Types, BatchUsedUp, TypeOK

\* A future is in line exactly once while it is to be polled, whoever wakes
\* it, and no more than a burst is taken at once (spawn_impl and
\* run_impl_burst of window/src/spawn.rs).
THEOREM TypeCorrect == Spec => []TypeOK
<1>1. Init => IInv
  BY InitKept
<1>2. IInv /\ [Next]_vars => IInv'
  BY NextKept DEF Kept
<1>3. IInv => TypeOK
  BY InvTypeOK
<1> QED BY <1>1, <1>2, <1>3, PTL DEF Spec

\* The queue keeps MainThread's promise in every step: futures are polled in
\* the order in which they got in line, whatever the length of a burst.
THEOREM KeepsThePromise == Spec => Promise!Init /\ [][Promise!Next]_(Promise!vars)
<1>1. Init => IInv /\ Promise!Init
  BY InitKept
<1>2. IInv /\ [Next]_vars => IInv' /\ [Promise!Next]_(Promise!vars)
  BY NextKept DEF Kept
<1> QED BY <1>1, <1>2, PTL DEF Spec
=============================================================================
