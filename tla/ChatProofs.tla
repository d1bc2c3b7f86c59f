----------------------------- MODULE ChatProofs -----------------------------
(***************************************************************************)
(* Proofs of the safety of the AI chat (AgentLoop and ChatOverlay), for    *)
(* any number of turns, rounds and tool calls in a reply.                  *)
(*                                                                         *)
(* None of the properties is inductive as it stands.  That every call has  *)
(* its answer when the model is asked rests on what the conversation holds *)
(* in the middle of a round (Answered); that consent is to this very call  *)
(* on where the thread stands between the two (Consented); that no thread  *)
(* is left to itself on what the end of a stream says about its thread     *)
(* (Attended).                                                             *)
(***************************************************************************)
EXTENDS ChatOverlay, SequenceTheorems, FiniteSetTheorems, TLAPS

Working == {"calls", "consent", "begin", "tool"}

\* Where the thread of turn n stands fits what it holds.
Placed(n) ==
  /\ n > turn => agent[n] = "none"
  /\ agent[n] = "ask" => round[n] \in 1..Rounds[n]
  /\ agent[n] \in Working =>
       /\ round[n] \in 1..Rounds[n]
       /\ \E cs \in CallLists[n] : Len(calls[n]) = Len(cs)
  /\ agent[n] \in {"consent", "begin", "tool"} => next[n] <= Len(calls[n])

\* There is a turn for whatever the chat has of one.
TurnGiven == listening \/ streaming \/ ending # NotEnding => turn \in Turns

\* What the conversation of turn n holds: every call of the rounds before has its
\* answer, and of this round those before the one it is at; of none a second.
Answered(n) ==
  /\ agent[n] \in {"none", "over"} =>
       asked[n] = {} /\ \A c \in Calls : results[n][c] = 0
  /\ \A c \in asked[n] : c[1] <= round[n]
  /\ \A c \in Calls : c[1] > round[n] => results[n][c] = 0
  /\ agent[n] = "top" /\ ~ flag[n] => \A c \in asked[n] : results[n][c] = 1
  /\ agent[n] = "ask" =>
       /\ \A c \in asked[n] : c[1] < round[n] /\ results[n][c] = 1
       /\ \A c \in Calls : c[1] = round[n] => results[n][c] = 0
  /\ agent[n] \in Working =>
       \A c \in asked[n] :
         /\ c[1] = round[n] => c[2] <= Len(calls[n])
         /\ results[n][c] = IF c[1] = round[n] /\ c[2] >= next[n] THEN 0 ELSE 1

\* Behind the question the call is one that needs none or has its consent.
Consented(n) ==
  agent[n] \in {"begin", "tool"} /\ KindOf(n) = "guarded" => Current(n) \in consent[n]

\* The one tool that began after the flag was set, and the thread on its way out.
Bound(n) ==
  \/ late[n] = {}
  \/ flag[n] /\ agent[n] \in {"tool", "calls", "top"} /\ \E c \in Calls : late[n] = {c}

Ends(m) == m.k \in {"done", "error"}

\* A stream that has its end belongs to a thread that is over.
Attended ==
  /\ turn \in Turns /\ Running(turn) =>
       /\ \A i \in 1..Len(stream) : ~ Ends(stream[i])
       /\ ending = NotEnding
       /\ open /\ ~ streaming => flag[turn]
  /\ \A n \in Turns : open /\ Running(n) => flag[n] \/ (n = turn /\ listening)

IInv ==
  /\ TypeOK /\ TurnGiven
  /\ \A n \in Turns : Placed(n) /\ Answered(n) /\ Consented(n) /\ Bound(n)
  /\ Attended

-----------------------------------------------------------------------------
(***************************************************************************)
(* Tool calls.                                                             *)
(***************************************************************************)
\* Places in rounds, and nothing else, are calls.
LEMMA CallsArePairs ==
  \A c \in Calls : c = <<c[1], c[2]>> /\ c[1] \in Nat /\ c[2] \in Nat
<1>. SUFFICES ASSUME NEW c \in Calls
     PROVE  c = <<c[1], c[2]>> /\ c[1] \in Nat /\ c[2] \in Nat
  OBVIOUS
<1>1. PICK n \in Turns : c \in (1..Rounds[n]) \X UNION {1..Len(cs) : cs \in CallLists[n]}
  BY DEF Calls
<1>2. PICK cs \in CallLists[n] : c[2] \in 1..Len(cs)
  BY <1>1
<1>3. Rounds[n] \in Nat /\ cs \in Seq(Kinds)
  BY <1>1, <1>2, AgentAssumption DEF Turns
<1>. QED BY <1>1, <1>2, <1>3

\* The calls of a reply are such places.
LEMMA CallsOfReply ==
  ASSUME NEW n \in Turns, NEW r \in 1..Rounds[n], NEW cs \in CallLists[n], NEW i \in 1..Len(cs)
  PROVE  <<r, i>> \in Calls
<1>1. i \in UNION {1..Len(ds) : ds \in CallLists[n]}
  OBVIOUS
<1>2. <<r, i>> \in (1..Rounds[n]) \X UNION {1..Len(ds) : ds \in CallLists[n]}
  BY <1>1
<1>. QED BY <1>2 DEF Calls

\* A thread at a call is at one of these.
LEMMA CurrentIsCall ==
  ASSUME NEW n \in Turns, TypeOK, Placed(n), agent[n] \in Working, next[n] <= Len(calls[n])
  PROVE  Current(n) \in Calls
<1>1. PICK cs \in CallLists[n] : Len(calls[n]) = Len(cs)
  BY DEF Placed
<1>2. cs \in Seq(Kinds) /\ next[n] \in Nat \ {0}
  BY AgentAssumption DEF Turns, TypeOK
<1>3. next[n] \in 1..Len(cs)
  BY <1>1, <1>2
<1>. QED BY <1>3, CallsOfReply DEF Current, Placed

-----------------------------------------------------------------------------
(***************************************************************************)
(* What may happen to one thread.                                          *)
(***************************************************************************)
\* The part of the types that is about threads.
ThreadTypes ==
  /\ agent \in [Turns -> {"none", "top", "ask", "calls", "consent", "begin", "tool", "over"}]
  /\ round \in [Turns -> Nat]
  /\ calls \in [Turns -> Seq(Kinds)] /\ next \in [Turns -> Nat \ {0}]
  /\ tools \in [Turns -> BOOLEAN] /\ flag \in [Turns -> BOOLEAN]
  /\ started \in [Turns -> BOOLEAN]
  /\ asked \in [Turns -> SUBSET Calls] /\ results \in [Turns -> [Calls -> Nat]]
  /\ consent \in [Turns -> SUBSET Calls] /\ late \in [Turns -> SUBSET Calls]

Same(n) ==
  /\ agent'[n] = agent[n] /\ round'[n] = round[n]
  /\ calls'[n] = calls[n] /\ next'[n] = next[n]
  /\ asked'[n] = asked[n] /\ results'[n] = results[n]
  /\ consent'[n] = consent[n] /\ late'[n] = late[n]

FlagKept(n) == flag[n] => flag'[n]

Begun(n) ==
  /\ n = turn + 1 /\ agent'[n] = "top" /\ flag'[n] = flag[n]
  /\ UNCHANGED <<round, calls, next, asked, results, consent, late>>

\* The user said yes to the call the thread waits for, or no.
Allowed(n) ==
  /\ At(n, "consent") /\ GoTo(n, "begin")
  /\ consent' = [consent EXCEPT ![n] = @ \cup {Current(n)}]
  /\ UNCHANGED <<flag, round, calls, next, asked, results, late>>

Denied(n) ==
  /\ At(n, "consent") /\ Record(n)
  /\ UNCHANGED <<flag, round, calls, asked, consent, late>>

LEMMA TypesOfThreads == TypeOK => ThreadTypes
BY DEF TypeOK, ThreadTypes

\* A thread leaves the others as they are.
LEMMA OthersStay ==
  ASSUME ThreadTypes, NEW n \in Turns, Step(n), NEW m \in Turns, m # n
  PROVE  Same(m) /\ FlagKept(m)
<1>. USE DEF ThreadTypes, Same, FlagKept, GoTo
<1>1. CASE End(n) /\ UNCHANGED flag
  BY <1>1 DEF End
<1>2. CASE Record(n) /\ UNCHANGED <<flag, round, calls, asked, consent, late>>
  BY <1>2 DEF Record
<1>3. CASE GoTo(n, agent'[n]) /\ UNCHANGED <<flag, round, callVars, consent, late>>
  BY <1>3 DEF callVars
<1>4. CASE Request(n)
  BY <1>4 DEF Request, callVars
<1>5. ASSUME NEW cs \in CallLists[n], CallTools(n, cs)
      PROVE  Same(m) /\ FlagKept(m)
  BY <1>5 DEF CallTools
<1>6. CASE Begin(n)
  BY <1>6 DEF Begin, callVars
<1>7. CASE LoopEnds(n) \/ Answer(n) \/ Fail(n) \/ Panic(n)
  BY <1>7, <1>1 DEF LoopEnds, Answer, Fail, Panic
<1>8. CASE Refuse(n) \/ GiveUp(n) \/ Finish(n)
  BY <1>8, <1>2 DEF Refuse, GiveUp, Finish
<1>9. CASE Speak(n)
  BY <1>9 DEF Speak, callVars
<1>10. CASE RoundEnds(n) \/ BreakOff(n) \/ SkipConsent(n) \/ AskConsent(n)
  BY <1>10 DEF RoundEnds, BreakOff, SkipConsent, AskConsent, callVars
<1>. QED
  BY <1>4, <1>5, <1>6, <1>7, <1>8, <1>9, <1>10 DEF Step

\* Whatever happens, to one thread it is a step of its own, its beginning, the
\* user's reply, or nothing but that its flag may be set.
LEMMA ThreadChanges ==
  ASSUME TypeOK, TurnGiven, [Next]_vars, NEW n \in Turns
  PROVE  \/ Step(n) /\ UNCHANGED turn
         \/ Same(n) /\ FlagKept(n)
         \/ Begun(n) /\ turn' = turn + 1
         \/ Allowed(n) /\ UNCHANGED turn
         \/ Denied(n) /\ UNCHANGED turn
<1>. USE TypesOfThreads DEF Same, FlagKept
<1>1. CASE Agents
  <2>1. PICK m \in Turns : Step(m)
    BY <1>1 DEF Agents
  <2>2. UNCHANGED turn
    BY <2>1 DEF Step, Request, LoopEnds, Speak, Answer, Fail, CallTools, RoundEnds, BreakOff,
            Refuse, SkipConsent, AskConsent, GiveUp, Begin, Finish, Panic
  <2>. QED BY <2>1, <2>2, OthersStay
<1>2. CASE UNCHANGED <<flag, agentVars>>
  BY <1>2 DEF agentVars, callVars
<1>3. CASE Overlay
  <2>1. UNCHANGED <<flag, agentVars>>
    BY <1>3 DEF Overlay, DrainStart, DrainConsent, DrainEnd, DrainGone, Pace, EndTurn, loopVars
  <2>. QED BY <2>1, <1>2
<1>4. ASSUME NEW yes \in BOOLEAN, Decide(yes)
      PROVE  \/ Same(n) /\ FlagKept(n)
             \/ Allowed(n) /\ UNCHANGED turn
             \/ Denied(n) /\ UNCHANGED turn
  <2>1. pending.turn \in Turns
    BY <1>4 DEF Decide, TypeOK, Questions
  <2>2. UNCHANGED <<turn, flag, round, calls, asked, late>>
    BY <1>4 DEF Decide
  <2>3. \/ Waits(pending.turn, pending.call) /\ GoTo(pending.turn, "begin")
           /\ consent' = [consent EXCEPT ![pending.turn] = @ \cup {Current(pending.turn)}]
           /\ UNCHANGED <<next, results>>
        \/ Waits(pending.turn, pending.call) /\ Record(pending.turn) /\ UNCHANGED consent
        \/ UNCHANGED <<agent, consent, next, results>>
    BY <1>4 DEF Decide, Reply, Waits
  <2>4. CASE n = pending.turn
    BY <2>2, <2>3, <2>4 DEF Allowed, Denied, Waits
  <2>5. CASE n # pending.turn
    <3>1. CASE Record(pending.turn) /\ UNCHANGED consent
      BY <2>2, <2>5, <3>1 DEF ThreadTypes, GoTo, Record
    <3>2. CASE /\ GoTo(pending.turn, "begin") /\ UNCHANGED <<next, results>>
               /\ consent' = [consent EXCEPT ![pending.turn] = @ \cup {Current(pending.turn)}]
      BY <2>2, <2>5, <3>2 DEF ThreadTypes, GoTo
    <3>. QED BY <2>2, <2>3, <3>1, <3>2
  <2>. QED BY <2>4, <2>5
<1>5. CASE Cancel
  <2>1. flag' = [flag EXCEPT ![turn] = TRUE] /\ UNCHANGED agentVars
    BY <1>5 DEF Cancel, CancelStream
  <2>. QED BY <2>1 DEF agentVars, callVars, ThreadTypes
<1>6. CASE Submit \/ SubmitSide
  <2>1. /\ turn < MaxTurns /\ turn' = turn + 1 /\ turn \in Nat
        /\ agent' = [agent EXCEPT ![turn + 1] = "top"]
        /\ UNCHANGED <<round, calls, next, asked, results, consent, late>>
    BY <1>6, AgentAssumption DEF Submit, SubmitSide, StartTurn, callVars, TypeOK
  <2>2. flag' = [flag EXCEPT ![turn] = TRUE] \/ UNCHANGED flag
    BY <1>6 DEF Submit, SubmitSide, Interrupt
  <2>3. CASE n = turn + 1
    BY <2>1, <2>2, <2>3 DEF Begun, ThreadTypes
  <2>4. CASE n # turn + 1
    BY <2>1, <2>2, <2>4 DEF ThreadTypes
  <2>. QED BY <2>1, <2>3, <2>4
<1>7. CASE Quit \/ Close
  BY <1>2, <1>7 DEF Quit, Close, Vanish
<1>8. CASE UNCHANGED vars
  BY <1>2, <1>8 DEF vars, loopVars
<1>. QED
  BY <1>1, <1>3, <1>4, <1>5, <1>6, <1>7, <1>8 DEF Next, User

-----------------------------------------------------------------------------
(***************************************************************************)
(* What holds of one thread stays.                                         *)
(***************************************************************************)
LEMMA PlacedStays ==
  ASSUME TypeOK, TurnGiven, [Next]_vars, NEW n \in Turns, Placed(n)
  PROVE  Placed(n)'
<1>. USE TypesOfThreads DEF Placed, ThreadTypes, Working, GoTo
<1>0. turn \in Nat /\ Rounds[n] \in Nat /\ CallLists[n] \subseteq Seq(Kinds)
  BY AgentAssumption DEF TypeOK, Turns
<1>1. CASE End(n) /\ UNCHANGED turn /\ agent[n] # "none"
  BY <1>1 DEF End
<1>2. CASE Record(n) /\ UNCHANGED <<turn, round, calls>> /\ agent[n] \in Working
  BY <1>2 DEF Record
<1>3. CASE Step(n) /\ UNCHANGED turn
  <2>1. CASE LoopEnds(n) \/ Answer(n) \/ Fail(n) \/ Panic(n)
    BY <1>1, <1>3, <2>1 DEF LoopEnds, Answer, Fail, Panic, At
  <2>2. CASE Refuse(n) \/ GiveUp(n) \/ Finish(n)
    BY <1>2, <1>3, <2>2 DEF Refuse, GiveUp, Finish, At, Left
  <2>3. CASE Request(n)
    <3>1. round[n] + 1 \in 1..Rounds[n]
      BY <1>0, <2>3 DEF Request, TypeOK
    <3>. QED BY <1>3, <2>3, <3>1 DEF Request, At, callVars
  <2>4. ASSUME NEW cs \in CallLists[n], CallTools(n, cs)
        PROVE  Placed(n)'
    <3>1. Len(calls'[n]) = Len(cs) /\ agent'[n] = "calls" /\ round'[n] = round[n]
      BY <1>0, <2>4 DEF CallTools
    <3>. QED BY <1>3, <2>4, <3>1 DEF CallTools, At
  <2>5. CASE Speak(n) \/ RoundEnds(n) \/ BreakOff(n) \/ SkipConsent(n) \/ AskConsent(n) \/ Begin(n)
    BY <1>3, <2>5 DEF Speak, RoundEnds, BreakOff, SkipConsent, AskConsent, Begin, At, Left, callVars
  <2>. QED BY <1>3, <2>1, <2>2, <2>3, <2>4, <2>5 DEF Step
<1>4. CASE Same(n)
  <2>1. turn' >= turn /\ turn' \in Nat
    <3>1. turn' = turn \/ turn' = turn + 1
      BY DEF Next, vars, Agents, Overlay, User, Step, Request, LoopEnds, Speak, Answer, Fail,
             CallTools, RoundEnds, BreakOff, Refuse, SkipConsent, AskConsent, GiveUp, Begin,
             Finish, Panic, DrainStart, DrainConsent, DrainEnd, DrainGone, Pace, EndTurn,
             Decide, Cancel, Submit, SubmitSide, StartTurn, Quit, Close, Vanish, loopVars
    <3>. QED BY <1>0, <3>1
  <2>. QED BY <1>0, <1>4, <2>1 DEF Same, Turns
<1>5. CASE Begun(n) /\ turn' = turn + 1
  BY <1>0, <1>5 DEF Begun
<1>6. CASE Allowed(n) /\ UNCHANGED turn
  BY <1>6 DEF Allowed, At
<1>7. CASE Denied(n) /\ UNCHANGED turn
  BY <1>2, <1>7 DEF Denied, At
<1>. QED BY <1>3, <1>4, <1>5, <1>6, <1>7, ThreadChanges

\* The answer that is recorded is the one that is missing.
LEMMA RecordAnswers ==
  ASSUME ThreadTypes, NEW n \in Turns, Placed(n), Answered(n),
         agent[n] \in Working, next[n] <= Len(calls[n]),
         Record(n), UNCHANGED <<round, calls, asked>>
  PROVE  Answered(n)'
<1>. DEFINE cur == Current(n)
<1>1. /\ agent'[n] = "calls" /\ next'[n] = next[n] + 1 /\ next[n] \in Nat /\ round[n] \in Nat
      /\ results'[n] = [results[n] EXCEPT ![cur] = @ + 1]
      /\ results[n] \in [Calls -> Nat] /\ asked[n] \subseteq Calls
  BY DEF Record, GoTo, ThreadTypes
<1>2. \A c \in Calls : c # cur => results'[n][c] = results[n][c]
  BY <1>1
<1>3. cur \in asked[n] => results'[n][cur] = 1
  <2>1. cur[1] = round[n] /\ cur[2] = next[n]
    BY DEF Current
  <2>. QED BY <1>1, <2>1 DEF Answered
<1>4. \A c \in Calls : c[1] > round[n] => results'[n][c] = 0
  BY <1>1, <1>2 DEF Answered, Current
<1>5. ASSUME NEW c \in asked[n]
      PROVE  /\ c[1] = round[n] => c[2] <= Len(calls[n])
             /\ results'[n][c] = IF c[1] = round[n] /\ c[2] >= next[n] + 1 THEN 0 ELSE 1
  <2>1. c = <<c[1], c[2]>> /\ c[1] \in Nat /\ c[2] \in Nat /\ c \in Calls
    BY <1>1, CallsArePairs
  <2>2. CASE c = cur
    BY <1>1, <1>3, <1>5, <2>1, <2>2 DEF Answered, Current
  <2>3. CASE c # cur
    <3>1. ~ (c[1] = round[n] /\ c[2] = next[n])
      BY <2>1, <2>3 DEF Current
    <3>2. (c[2] >= next[n]) <=> (c[2] >= next[n] + 1 \/ c[2] = next[n])
      BY <1>1, <2>1
    <3>. QED BY <1>1, <1>2, <1>5, <2>1, <2>3, <3>1, <3>2 DEF Answered
  <2>. QED BY <2>2, <2>3
<1>. QED BY <1>1, <1>4, <1>5 DEF Answered, Working

LEMMA EndAnswers ==
  ASSUME ThreadTypes, NEW n \in Turns, End(n)
  PROVE  Answered(n)' /\ agent'[n] = "over" /\ late'[n] = {}
<1>1. /\ agent'[n] = "over" /\ asked'[n] = {} /\ results'[n] = [c \in Calls |-> 0]
      /\ late'[n] = {}
  BY DEF End, GoTo, ThreadTypes
<1>. QED BY <1>1 DEF Answered, Working

\* The calls of a reply are new to the conversation.
LEMMA CallToolsAnswers ==
  ASSUME ThreadTypes, NEW n \in Turns, Placed(n), Answered(n),
         NEW cs \in CallLists[n], CallTools(n, cs)
  PROVE  Answered(n)'
<1>1. cs \in Seq(Kinds) /\ round[n] \in 1..Rounds[n] /\ Rounds[n] \in Nat
  BY AgentAssumption DEF Turns, Placed, CallTools, At
<1>2. /\ agent'[n] = "calls" /\ agent[n] = "ask" /\ Len(calls'[n]) = Len(cs)
      /\ next'[n] = 1 /\ round'[n] = round[n] /\ results' = results
      /\ asked'[n] = asked[n] \cup {<<round[n], i>> : i \in 1..Len(cs)}
  BY <1>1 DEF CallTools, At, GoTo, ThreadTypes
<1>3. ASSUME NEW c \in asked'[n]
      PROVE  /\ c[1] <= round[n]
             /\ c[1] = round[n] => c[2] <= Len(cs)
             /\ results[n][c] = IF c[1] = round[n] /\ c[2] >= 1 THEN 0 ELSE 1
  <2>1. CASE c \in asked[n]
    <3>1. c[1] \in Nat /\ c[1] < round[n] /\ results[n][c] = 1
      BY <1>2, <2>1, CallsArePairs DEF Answered, ThreadTypes
    <3>. QED BY <1>1, <3>1
  <2>2. ASSUME NEW i \in 1..Len(cs), c = <<round[n], i>>
        PROVE  c[1] = round[n] /\ c[2] \in 1..Len(cs) /\ results[n][c] = 0
    <3>1. c \in Calls
      BY <1>1, <2>2, CallsOfReply
    <3>. QED BY <1>2, <2>2, <3>1 DEF Answered
  <2>. QED BY <1>1, <1>2, <2>1, <2>2
<1>. QED BY <1>1, <1>2, <1>3 DEF Answered, Working

LEMMA AnsweredStays ==
  ASSUME TypeOK, TurnGiven, [Next]_vars, NEW n \in Turns, Placed(n), Answered(n)
  PROVE  Answered(n)'
<1>0. ThreadTypes
  BY TypesOfThreads
<1>1. CASE Step(n)
  <2>1. CASE LoopEnds(n) \/ Answer(n) \/ Fail(n) \/ Panic(n)
    BY <1>0, <2>1, EndAnswers DEF LoopEnds, Answer, Fail, Panic
  <2>2. CASE Refuse(n) \/ GiveUp(n) \/ Finish(n)
    BY <1>0, <2>2, RecordAnswers DEF Refuse, GiveUp, Finish, At, Left, Placed, Working
  <2>3. CASE Request(n)
    <3>1. /\ agent[n] = "top" /\ ~ flag[n] /\ agent'[n] = "ask"
          /\ round'[n] = round[n] + 1 /\ round[n] \in Nat
          /\ asked' = asked /\ results' = results /\ asked[n] \subseteq Calls
      BY <1>0, <2>3 DEF Request, At, GoTo, ThreadTypes, callVars
    <3>2. \A c \in Calls : c[1] \in Nat
      BY CallsArePairs
    <3>3. \A c \in asked[n] : c[1] < round[n] + 1 /\ c[1] <= round[n] + 1 /\ results[n][c] = 1
      BY <3>1, <3>2 DEF Answered
    <3>4. \A c \in Calls : c[1] >= round[n] + 1 => results[n][c] = 0
      BY <3>1, <3>2 DEF Answered
    <3>. QED BY <3>1, <3>2, <3>3, <3>4 DEF Answered, Working
  <2>4. ASSUME NEW cs \in CallLists[n], CallTools(n, cs)
        PROVE  Answered(n)'
    BY <1>0, <2>4, CallToolsAnswers
  <2>5. CASE RoundEnds(n)
    <3>1. /\ agent[n] = "calls" /\ agent'[n] = "top" /\ next[n] > Len(calls[n])
          /\ UNCHANGED <<round, asked, results>>
      BY <1>0, <2>5 DEF RoundEnds, At, GoTo, ThreadTypes, callVars
    <3>2. \A c \in asked[n] : c[2] \in Nat
      BY <1>0, CallsArePairs DEF ThreadTypes
    <3>3. next[n] \in Nat /\ Len(calls[n]) \in Nat
      BY <1>0 DEF ThreadTypes
    <3>4. \A c \in asked[n] : results[n][c] = 1
      BY <3>1, <3>2, <3>3 DEF Answered, Working
    <3>. QED BY <3>1, <3>4 DEF Answered, Working
  <2>6. CASE BreakOff(n)
    <3>1. /\ agent[n] = "calls" /\ agent'[n] = "top" /\ flag'[n]
          /\ UNCHANGED <<round, asked, results>>
      BY <1>0, <2>6 DEF BreakOff, Left, At, GoTo, ThreadTypes, callVars
    <3>. QED BY <3>1 DEF Answered, Working
  <2>7. CASE Speak(n)
    BY <2>7 DEF Speak, Answered, callVars
  <2>8. CASE SkipConsent(n) \/ AskConsent(n) \/ Begin(n)
    <3>1. /\ agent[n] \in Working /\ agent'[n] \in Working
          /\ UNCHANGED <<round, calls, next, asked, results, flag>>
      BY <1>0, <2>8 DEF SkipConsent, AskConsent, Begin, Left, At, GoTo, ThreadTypes, callVars,
         Working
    <3>. QED BY <3>1 DEF Answered, Working
  <2>. QED BY <1>1, <2>1, <2>2, <2>3, <2>4, <2>5, <2>6, <2>7, <2>8 DEF Step
<1>2. CASE Same(n) /\ FlagKept(n)
  BY <1>0, <1>2 DEF Same, FlagKept, Answered, ThreadTypes
<1>3. CASE Begun(n)
  <2>1. agent[n] = "none"
    BY <1>3, AgentAssumption DEF Begun, Placed, TypeOK
  <2>. QED BY <1>3, <2>1 DEF Begun, Answered, Working
<1>4. CASE Allowed(n)
  <2>1. /\ agent[n] \in Working /\ agent'[n] \in Working
        /\ UNCHANGED <<round, calls, next, asked, results, flag>>
    BY <1>0, <1>4 DEF Allowed, At, GoTo, ThreadTypes, Working
  <2>. QED BY <2>1 DEF Answered, Working
<1>5. CASE Denied(n)
  BY <1>0, <1>5, RecordAnswers DEF Denied, At, Placed, Working
<1>. QED BY <1>1, <1>2, <1>3, <1>4, <1>5, ThreadChanges

\* Only the way by the user leads past a question.
LEMMA ConsentedStays ==
  ASSUME TypeOK, TurnGiven, [Next]_vars, NEW n \in Turns, Consented(n)
  PROVE  Consented(n)'
<1>. USE TypesOfThreads DEF ThreadTypes, Consented, KindOf, Current, GoTo, At
<1>1. CASE Step(n)
  <2>1. CASE agent'[n] \notin {"begin", "tool"}
    BY <2>1
  <2>2. CASE Begin(n) \/ Speak(n)
    BY <2>2 DEF Begin, Speak, callVars
  <2>3. CASE SkipConsent(n)
    BY <2>3 DEF SkipConsent, callVars
  <2>4. Begin(n) \/ Speak(n) \/ SkipConsent(n) \/ agent'[n] \notin {"begin", "tool"}
    BY <1>1 DEF Step, Request, LoopEnds, Answer, Fail, CallTools, RoundEnds, BreakOff, Refuse,
       AskConsent, GiveUp, Finish, Panic, End, Record
  <2>. QED BY <2>1, <2>2, <2>3, <2>4
<1>2. CASE Same(n)
  BY <1>2 DEF Same
<1>3. CASE Begun(n)
  BY <1>3 DEF Begun
<1>4. CASE Allowed(n)
  BY <1>4 DEF Allowed
<1>5. CASE Denied(n)
  BY <1>5 DEF Denied, Record
<1>. QED BY <1>1, <1>2, <1>3, <1>4, <1>5, ThreadChanges

\* Behind a tool that began too late there is no way but out.
LEMMA BoundStays ==
  ASSUME TypeOK, TurnGiven, [Next]_vars, NEW n \in Turns, Placed(n), Bound(n)
  PROVE  Bound(n)'
<1>0. ThreadTypes
  BY TypesOfThreads
<1>1. CASE Step(n)
  <2>1. CASE LoopEnds(n) \/ Answer(n) \/ Fail(n) \/ Panic(n)
    BY <1>0, <2>1, EndAnswers DEF LoopEnds, Answer, Fail, Panic, Bound
  <2>2. CASE Begin(n)
    <3>1. late[n] = {} /\ agent'[n] = "tool" /\ flag' = flag
      BY <1>0, <2>2 DEF Begin, At, GoTo, Bound, ThreadTypes
    <3>2. CASE flag[n]
      <4>1. late'[n] = {Current(n)}
        BY <1>0, <2>2, <3>1, <3>2 DEF Begin, ThreadTypes
      <4>2. Current(n) \in Calls
        BY <2>2, CurrentIsCall DEF Begin, At, Placed, Working
      <4>. QED BY <3>1, <3>2, <4>1, <4>2 DEF Bound
    <3>3. CASE ~ flag[n]
      BY <2>2, <3>1, <3>3 DEF Begin, Bound
    <3>. QED BY <3>2, <3>3
  <2>3. CASE /\ UNCHANGED <<flag, late>>
             /\ agent[n] \in {"tool", "calls", "top"} /\ flag[n] =>
                  agent'[n] \in {"tool", "calls", "top"}
    BY <2>3 DEF Bound
  <2>4. CASE ~ (LoopEnds(n) \/ Answer(n) \/ Fail(n) \/ Panic(n) \/ Begin(n))
    <3>1. /\ UNCHANGED <<flag, late>>
          /\ agent[n] \in {"tool", "calls", "top"} /\ flag[n] =>
               agent'[n] \in {"tool", "calls", "top"}
      BY <1>0, <1>1, <2>4 DEF Step, Request, Speak, CallTools, RoundEnds, BreakOff, Refuse,
         SkipConsent, AskConsent, GiveUp, Finish, Record, GoTo, At, Left, ThreadTypes
    <3>. QED BY <2>3, <3>1
  <2>. QED BY <2>1, <2>2, <2>4
<1>2. CASE Same(n) /\ FlagKept(n)
  BY <1>2 DEF Same, FlagKept, Bound
<1>3. CASE Begun(n)
  <2>1. agent[n] = "none"
    BY <1>3, AgentAssumption DEF Begun, Placed, TypeOK
  <2>. QED BY <1>3, <2>1 DEF Begun, Bound
<1>4. CASE Allowed(n) \/ Denied(n)
  BY <1>0, <1>4 DEF Allowed, Denied, At, Bound
<1>. QED BY <1>1, <1>2, <1>3, <1>4, ThreadChanges

-----------------------------------------------------------------------------
(***************************************************************************)
(* What holds of the chat around the threads stays.                        *)
(***************************************************************************)
LEMMA TurnGivenStays ==
  ASSUME TypeOK, TurnGiven, [Next]_vars
  PROVE  TurnGiven'
<1>0. turn \in Nat /\ MaxTurns \in Nat /\ (stream # <<>> => listening)
  BY AgentAssumption DEF TypeOK
<1>1. CASE UNCHANGED <<turn, listening, streaming, ending>>
  BY <1>1 DEF TurnGiven
<1>2. CASE Agents
  <2>1. UNCHANGED <<turn, listening, streaming, ending>>
    BY <1>2 DEF Agents, Step, Request, LoopEnds, Speak, Answer, Fail, CallTools, RoundEnds, BreakOff,
       Refuse, SkipConsent, AskConsent, GiveUp, Begin, Finish, Panic, overlayVars, displayVars,
       channelVars
  <2>. QED BY <1>1, <2>1
<1>3. CASE Overlay
  BY <1>0, <1>3 DEF Overlay, DrainStart, DrainConsent, DrainEnd, DrainGone, Pace, EndTurn,
     Drain, StopListening, loopVars, channelVars, TurnGiven
<1>4. CASE Submit \/ SubmitSide
  BY <1>0, <1>4 DEF Submit, SubmitSide, StartTurn, TurnGiven, Turns
<1>5. CASE Cancel \/ Quit \/ Close \/ \E yes \in BOOLEAN : Decide(yes)
  BY <1>5 DEF Cancel, CancelStream, Quit, Close, Vanish, StopListening, Decide, channelVars,
     TurnGiven
<1>6. CASE UNCHANGED vars
  BY <1>1, <1>6 DEF vars, loopVars, channelVars, overlayVars, displayVars
<1>. QED BY <1>2, <1>3, <1>4, <1>5, <1>6 DEF Next, User

\* A thread tells of its end only at its end.
LEMMA StepTells ==
  ASSUME TypeOK, NEW n \in Turns, Placed(n), Step(n), n = turn => Running(n)'
  PROVE  \/ stream' = stream
         \/ \E m \in Messages : ~ Ends(m) /\ listening /\ stream' = Append(stream, m)
<1>. USE DEF Send, Ends
<1>0. stream \in Seq(Messages)
  BY DEF TypeOK
<1>1. CASE n # turn
  BY <1>1 DEF Step, Request, LoopEnds, Speak, Answer, Fail, CallTools, RoundEnds, BreakOff,
     Refuse, SkipConsent, AskConsent, GiveUp, Begin, Finish, Panic, channelVars
<1>2. CASE Speak(n)
  <2>1. Start(round[n]) \in Messages /\ ~ Ends(Start(round[n]))
    BY DEF Start, Messages, TypeOK
  <2>2. stream \o <<Start(round[n])>> = Append(stream, Start(round[n]))
    BY <1>0, <2>1
  <2>3. stream' = IF listening /\ n = turn THEN stream \o <<Start(round[n])>> ELSE stream
    BY <1>2 DEF Speak
  <2>. QED BY <2>1, <2>2, <2>3
<1>3. CASE AskConsent(n)
  <2>1. Current(n) \in Calls
    BY <1>3, CurrentIsCall DEF AskConsent, Left, At, Working
  <2>2. Consent(n) \in Messages /\ ~ Ends(Consent(n))
    BY <2>1 DEF Consent, Messages
  <2>3. stream \o <<Consent(n)>> = Append(stream, Consent(n))
    BY <1>0, <2>2
  <2>4. stream' = IF listening /\ n = turn THEN stream \o <<Consent(n)>> ELSE stream
    BY <1>3 DEF AskConsent
  <2>. QED BY <2>2, <2>3, <2>4
<1>4. CASE LoopEnds(n) \/ Answer(n) \/ Fail(n) \/ Panic(n)
  <2>1. ~ Running(n)'
    BY <1>4 DEF LoopEnds, Answer, Fail, Panic, End, GoTo, Running, TypeOK
  <2>. QED BY <1>1, <2>1
<1>5. CASE \/ Request(n) \/ RoundEnds(n) \/ BreakOff(n) \/ Refuse(n) \/ SkipConsent(n)
           \/ GiveUp(n) \/ Begin(n) \/ Finish(n)
           \/ \E cs \in CallLists[n] : CallTools(n, cs)
  BY <1>5 DEF Request, RoundEnds, BreakOff, Refuse, SkipConsent, GiveUp, Begin, Finish, CallTools,
     channelVars
<1>. QED BY <1>2, <1>3, <1>4, <1>5 DEF Step

\* A step of a thread changes the chat no further.
LEMMA StepLeavesChat ==
  ASSUME TypeOK, NEW n \in Turns, Step(n)
  PROVE  /\ UNCHANGED <<turn, flag, listening>> /\ Running(n)
         /\ \A m \in Turns : Running(m)' => Running(m)
<1>1. UNCHANGED <<turn, flag, listening>> /\ Running(n)
  BY DEF Step, Request, LoopEnds, Speak, Answer, Fail, CallTools, RoundEnds, BreakOff,
     Refuse, SkipConsent, AskConsent, GiveUp, Begin, Finish, Panic, channelVars, Running, At, Left
<1>2. \A m \in Turns \ {n} : agent'[m] = agent[m]
  BY OthersStay, TypesOfThreads DEF Same
<1>. QED BY <1>1, <1>2 DEF Running

LEMMA AttendedByAgents ==
  ASSUME TypeOK, Attended, NEW n \in Turns, Placed(n), Step(n), UNCHANGED overlayVars
  PROVE  Attended'
<1>0. /\ UNCHANGED <<turn, flag, listening, open, streaming, ending>> /\ stream \in Seq(Messages)
      /\ \A m \in Turns : Running(m)' => Running(m)
  BY StepLeavesChat DEF overlayVars, displayVars, TypeOK
<1>1. ASSUME turn \in Turns, Running(turn)', NEW i \in 1..Len(stream')
      PROVE  ~ Ends(stream'[i])
  <2>1. \A j \in 1..Len(stream) : ~ Ends(stream[j])
    BY <1>0, <1>1 DEF Attended
  <2>2. CASE stream' = stream
    BY <1>1, <2>1, <2>2
  <2>3. ASSUME NEW m \in Messages, ~ Ends(m), stream' = Append(stream, m)
        PROVE  ~ Ends(stream'[i])
    <3>1. Len(stream') = Len(stream) + 1 /\ Len(stream) \in Nat
      BY <1>0, <2>3
    <3>2. stream'[i] = IF i = Len(stream) + 1 THEN m ELSE stream[i]
      BY <1>0, <1>1, <2>3, <3>1
    <3>3. i = Len(stream) + 1 \/ i \in 1..Len(stream)
      BY <1>1, <3>1
    <3>. QED BY <2>1, <2>3, <3>1, <3>2, <3>3
  <2>4. n = turn => Running(n)'
    BY <1>0, <1>1 DEF Running
  <2>. QED BY <2>2, <2>3, <2>4, StepTells
<1>. QED BY <1>0, <1>1 DEF Attended

LEMMA AttendedStays ==
  ASSUME TypeOK, TurnGiven, Attended, \A n \in Turns : Placed(n), [Next]_vars
  PROVE  Attended'
<1>0. /\ turn \in 0..MaxTurns /\ MaxTurns \in Nat /\ stream \in Seq(Messages)
      /\ flag \in [Turns -> BOOLEAN] /\ (stream # <<>> => listening)
      /\ agent \in [Turns -> {"none", "top", "ask", "calls", "consent", "begin", "tool", "over"}]
  BY AgentAssumption DEF TypeOK
<1>1. CASE Agents
  BY <1>1, AttendedByAgents DEF Agents
<1>2. CASE UNCHANGED <<turn, agent, flag, listening, stream, open, streaming, ending>>
  BY <1>2 DEF Attended, Running
<1>3. CASE DrainStart \/ DrainConsent
  <2>1. /\ UNCHANGED <<turn, agent, flag, listening, open, streaming, ending>>
        /\ stream # <<>> /\ stream' = Tail(stream)
    BY <1>3 DEF DrainStart, DrainConsent, Drain, agentVars
  <2>2. ASSUME NEW i \in 1..Len(stream')
        PROVE  i + 1 \in 1..Len(stream) /\ stream'[i] = stream[i + 1]
    BY <1>0, <2>1, <2>2
  <2>. QED BY <2>1, <2>2 DEF Attended, Running
<1>4. CASE DrainEnd \/ DrainGone
  <2>1. /\ UNCHANGED <<turn, agent, flag, open, streaming>>
        /\ listening /\ listening' = FALSE /\ stream' = <<>>
    BY <1>4 DEF DrainEnd, DrainGone, Drain, StopListening, agentVars
  <2>2. turn \in Turns
    BY <2>1 DEF TurnGiven
  <2>3. ~ Running(turn)
    <3>1. CASE DrainGone
      BY <3>1 DEF DrainGone, Running
    <3>2. CASE DrainEnd
      <4>1. stream # <<>> /\ Ends(Head(stream))
        BY <3>2 DEF DrainEnd, Drain, Ends
      <4>2. 1 \in 1..Len(stream) /\ Ends(stream[1])
        BY <1>0, <4>1
      <4>. QED BY <2>2, <4>2 DEF Attended
    <3>. QED BY <1>4, <3>1, <3>2
  <2>. QED BY <2>1, <2>2, <2>3 DEF Attended, Running
<1>5. CASE EndTurn
  <2>1. /\ UNCHANGED <<turn, agent, flag, listening, stream, open>>
        /\ ending # NotEnding /\ ending' = NotEnding
    BY <1>5 DEF EndTurn, Ended, loopVars, agentVars, channelVars
  <2>2. turn \in Turns => ~ Running(turn)
    BY <2>1 DEF Attended
  <2>. QED BY <2>1, <2>2 DEF Attended, Running
<1>6. ASSUME NEW yes \in BOOLEAN, Decide(yes)
      PROVE  Attended'
  <2>1. /\ UNCHANGED <<turn, flag, listening, stream, open, streaming, ending>>
        /\ pending.turn \in Turns
    BY <1>6 DEF Decide, channelVars, TypeOK, Questions
  <2>2. \A m \in Turns : Running(m)' => Running(m)
    BY <1>0, <1>6, <2>1 DEF Decide, Reply, Waits, Record, GoTo, At, Running
  <2>. QED BY <2>1, <2>2 DEF Attended
<1>7. CASE Cancel
  <2>1. /\ turn \in Turns /\ streaming /\ UNCHANGED <<turn, agent, open>>
        /\ flag' = [flag EXCEPT ![turn] = TRUE] /\ ending' = NotEnding
        /\ listening' = FALSE /\ stream' = <<>> /\ streaming' = FALSE
    BY <1>7 DEF Cancel, CancelStream, StopListening, agentVars, TurnGiven
  <2>2. \A n \in Turns : flag'[n] <=> flag[n] \/ n = turn
    BY <1>0, <2>1
  <2>. QED BY <2>1, <2>2 DEF Attended, Running
<1>8. CASE Submit \/ SubmitSide
  <2>1. /\ turn < MaxTurns /\ turn' = turn + 1 /\ UNCHANGED open
        /\ agent' = [agent EXCEPT ![turn + 1] = "top"]
        /\ listening' = TRUE /\ stream' = <<>> /\ streaming' = TRUE /\ ending' = NotEnding
        /\ flag' = IF streaming THEN [flag EXCEPT ![turn] = TRUE] ELSE flag
    BY <1>8 DEF Submit, SubmitSide, StartTurn, Interrupt
  <2>2. ASSUME NEW n \in Turns, open, n # turn + 1, Running(n)'
        PROVE  flag'[n]
    <3>1. Running(n)
      BY <1>0, <2>1, <2>2 DEF Running
    <3>2. CASE n # turn
      BY <1>0, <2>1, <2>2, <3>1, <3>2 DEF Attended
    <3>3. CASE n = turn
      BY <1>0, <2>1, <2>2, <3>1, <3>3 DEF Attended
    <3>. QED BY <3>2, <3>3
  <2>. QED BY <2>1, <2>2 DEF Attended
<1>9. CASE Quit \/ Close
  BY <1>9 DEF Quit, Close, Vanish, StopListening, Attended
<1>10. CASE Pace \/ UNCHANGED vars
  BY <1>2, <1>10 DEF Pace, vars, loopVars, agentVars, channelVars, overlayVars, displayVars
<1>. QED
  BY <1>1, <1>3, <1>4, <1>5, <1>6, <1>7, <1>8, <1>9, <1>10 DEF Next, Overlay, User

-----------------------------------------------------------------------------
(***************************************************************************)
(* The types stay.                                                         *)
(***************************************************************************)
LEMMA RecordTypes ==
  ASSUME ThreadTypes, NEW n \in Turns, Record(n), Current(n) \in Calls,
         UNCHANGED <<tools, flag, round, calls, asked, started, consent, late>>
  PROVE  ThreadTypes'
<1>1. agent' \in [Turns -> {"none", "top", "ask", "calls", "consent", "begin", "tool", "over"}]
  BY DEF ThreadTypes, Record, GoTo
<1>2. next' \in [Turns -> Nat \ {0}]
  BY DEF ThreadTypes, Record
<1>3. results' \in [Turns -> [Calls -> Nat]]
  <2>1. \A f \in [Calls -> Nat], c \in Calls : [f EXCEPT ![c] = @ + 1] \in [Calls -> Nat]
    OBVIOUS
  <2>2. results' = [results EXCEPT ![n] = [results[n] EXCEPT ![Current(n)] = @ + 1]]
    BY DEF Record
  <2>3. [results[n] EXCEPT ![Current(n)] = @ + 1] \in [Calls -> Nat]
    BY <2>1 DEF ThreadTypes
  <2>. QED BY <2>2, <2>3 DEF ThreadTypes
<1>. QED BY <1>1, <1>2, <1>3 DEF ThreadTypes

LEMMA StepTypes ==
  ASSUME TypeOK, NEW n \in Turns, Placed(n), Step(n)
  PROVE  ThreadTypes'
<1>. USE TypesOfThreads DEF ThreadTypes, GoTo
<1>1. CASE End(n) /\ UNCHANGED flag
  BY <1>1 DEF End
<1>2. CASE /\ Record(n) /\ Current(n) \in Calls
           /\ UNCHANGED <<tools, flag, round, calls, asked, started, consent, late>>
  BY <1>2, RecordTypes
<1>3. CASE /\ \E pc \in {"top", "begin", "consent"} : GoTo(n, pc)
           /\ UNCHANGED <<tools, flag, round, callVars, started, consent, late>>
  BY <1>3 DEF callVars
<1>4. CASE Request(n)
  BY <1>4 DEF Request, callVars
<1>5. ASSUME NEW cs \in CallLists[n], CallTools(n, cs)
      PROVE  ThreadTypes'
  <2>1. cs \in Seq(Kinds) /\ round[n] \in 1..Rounds[n]
    BY <1>5, AgentAssumption DEF CallTools, At, Placed, Turns
  <2>2. {<<round[n], i>> : i \in 1..Len(cs)} \subseteq Calls
    BY <2>1, CallsOfReply
  <2>3. [i \in 1..Len(cs) |-> "bad"] \in Seq(Kinds)
    BY <2>1 DEF Kinds
  <2>. QED BY <1>5, <2>1, <2>2, <2>3 DEF CallTools
<1>6. CASE Begin(n)
  <2>1. Current(n) \in Calls
    BY <1>6, CurrentIsCall DEF Begin, At, Placed, Working
  <2>. QED BY <1>6, <2>1 DEF Begin, callVars
<1>7. CASE LoopEnds(n) \/ Answer(n) \/ Fail(n) \/ Panic(n)
  BY <1>7, <1>1 DEF LoopEnds, Answer, Fail, Panic
<1>8. CASE Refuse(n) \/ GiveUp(n) \/ Finish(n)
  <2>1. Current(n) \in Calls
    BY <1>8, CurrentIsCall DEF Refuse, GiveUp, Finish, Left, At, Placed, Working
  <2>. QED BY <1>8, <2>1, <1>2 DEF Refuse, GiveUp, Finish
<1>9. CASE Speak(n)
  BY <1>9 DEF Speak, callVars
<1>10. CASE RoundEnds(n) \/ BreakOff(n) \/ SkipConsent(n) \/ AskConsent(n)
  BY <1>3, <1>10 DEF RoundEnds, BreakOff, SkipConsent, AskConsent
<1>. QED BY <1>4, <1>5, <1>6, <1>7, <1>8, <1>9, <1>10 DEF Step

LEMMA ThreadTypesStay ==
  ASSUME TypeOK, TurnGiven, \A n \in Turns : Placed(n), [Next]_vars
  PROVE  ThreadTypes'
<1>. USE TypesOfThreads DEF ThreadTypes
<1>1. CASE Agents
  BY <1>1, StepTypes DEF Agents
<1>2. CASE UNCHANGED <<agentVars, tools, flag>>
  BY <1>2 DEF agentVars, callVars
<1>3. CASE Overlay
  BY <1>2, <1>3 DEF Overlay, DrainStart, DrainConsent, DrainEnd, DrainGone, Pace, EndTurn, loopVars
<1>4. ASSUME NEW yes \in BOOLEAN, Decide(yes)
      PROVE  ThreadTypes'
  <2>1. /\ UNCHANGED <<tools, flag, round, calls, asked, started, late>>
        /\ pending.turn \in Turns /\ pending.call \in Calls
    BY <1>4 DEF Decide, TypeOK, Questions
  <2>2. \/ /\ GoTo(pending.turn, "begin") /\ UNCHANGED <<next, results>>
           /\ consent' = [consent EXCEPT ![pending.turn] = @ \cup {pending.call}]
        \/ Record(pending.turn) /\ pending.call = Current(pending.turn) /\ UNCHANGED consent
        \/ UNCHANGED <<agent, consent, next, results>>
    BY <1>4 DEF Decide, Reply, Waits
  <2>3. CASE Record(pending.turn) /\ pending.call = Current(pending.turn) /\ UNCHANGED consent
    BY <2>1, <2>3, RecordTypes
  <2>4. CASE /\ GoTo(pending.turn, "begin") /\ UNCHANGED <<next, results>>
             /\ consent' = [consent EXCEPT ![pending.turn] = @ \cup {pending.call}]
    BY <2>1, <2>4 DEF GoTo
  <2>. QED BY <2>1, <2>2, <2>3, <2>4
<1>5. CASE Cancel
  BY <1>5 DEF Cancel, CancelStream, agentVars, callVars
<1>6. CASE Submit \/ SubmitSide
  <2>1. UNCHANGED <<round, calls, next, asked, results, started, consent, late>>
    BY <1>6 DEF Submit, SubmitSide, callVars
  <2>2. /\ agent' = [agent EXCEPT ![turn + 1] = "top"]
        /\ \E t \in BOOLEAN : tools' = [tools EXCEPT ![turn + 1] = t]
        /\ flag' = IF streaming THEN [flag EXCEPT ![turn] = TRUE] ELSE flag
    BY <1>6 DEF Submit, SubmitSide, StartTurn, Interrupt, TypeOK
  <2>. QED BY <2>1, <2>2
<1>7. CASE Quit \/ Close
  BY <1>2, <1>7 DEF Quit, Close, Vanish
<1>8. CASE UNCHANGED vars
  BY <1>2, <1>8 DEF vars, loopVars
<1>. QED BY <1>1, <1>3, <1>4, <1>5, <1>6, <1>7, <1>8 DEF Next, User

LEMMA RoundsStayBounded ==
  ASSUME TypeOK, TurnGiven, [Next]_vars, NEW n \in Turns
  PROVE  round'[n] <= Rounds[n]
<1>0. round[n] \in Nat /\ Rounds[n] \in Nat /\ round[n] <= Rounds[n]
  BY AgentAssumption DEF TypeOK, Turns
<1>1. CASE Step(n)
  <2>1. round'[n] = round[n] \/ round'[n] = 0 \/ (round'[n] = round[n] + 1 /\ round[n] < Rounds[n])
    BY <1>1, TypesOfThreads DEF ThreadTypes, Step, Request, LoopEnds, Speak, Answer, Fail, CallTools,
       RoundEnds, BreakOff, Refuse, SkipConsent, AskConsent, GiveUp, Begin, Finish, Panic, End
  <2>. QED BY <1>0, <2>1
<1>2. CASE Same(n) \/ Begun(n) \/ Allowed(n) \/ Denied(n)
  BY <1>0, <1>2 DEF Same, Begun, Allowed, Denied
<1>. QED BY <1>1, <1>2, ThreadChanges

ChannelTypes ==
  /\ turn \in 0..MaxTurns
  /\ listening \in BOOLEAN /\ stream \in Seq(Messages) /\ (stream # <<>> => listening)

Lines == [turn : Turns, round : Nat, context : BOOLEAN, complete : BOOLEAN]
Endings == {NotEnding, Done} \cup [k : {"error"}, round : Nat]

OverlayTypes ==
  /\ open \in BOOLEAN /\ streaming \in BOOLEAN /\ queue \in BOOLEAN
  /\ transient \in BOOLEAN /\ context \in BOOLEAN
  /\ kind \in [Turns -> {"none", "question", "side"}]
  /\ ending \in Endings
  /\ pending \in {NoQuestion} \cup Questions
  /\ shown \subseteq Lines
  /\ saved \subseteq Turns /\ finished \subseteq Turns

LEMMA TypesAreParts ==
  TypeOK <=> /\ ThreadTypes /\ ChannelTypes /\ OverlayTypes
             /\ \A n \in Turns : round[n] <= Rounds[n]
BY DEF TypeOK, ThreadTypes, ChannelTypes, OverlayTypes, Lines, Endings

LEMMA StepChannelTypes ==
  ASSUME TypeOK, NEW n \in Turns, Placed(n), Step(n)
  PROVE  ChannelTypes'
<1>0. UNCHANGED <<turn, listening>>
  BY StepLeavesChat
<1>1. /\ stream \in Seq(Messages) /\ (stream # <<>> => listening) /\ listening \in BOOLEAN
      /\ turn \in 0..MaxTurns
  BY DEF TypeOK
<1>2. CASE stream' = stream
  BY <1>0, <1>1, <1>2 DEF ChannelTypes
<1>3. ASSUME NEW ms \in Seq(Messages), Send(n, ms)
      PROVE  ChannelTypes'
  <2>1. stream \o ms \in Seq(Messages)
    BY <1>1
  <2>. QED BY <1>0, <1>1, <1>3, <2>1 DEF ChannelTypes, Send
<1>4. CASE n = turn => Running(n)'
  <2>1. ASSUME NEW m \in Messages, listening, stream' = Append(stream, m)
        PROVE  ChannelTypes'
    BY <1>0, <1>1, <2>1 DEF ChannelTypes
  <2>. QED BY <1>2, <1>4, <2>1, StepTells
<1>5. CASE LoopEnds(n) \/ Answer(n) \/ Fail(n) \/ Panic(n)
  <2>1. Done \in Messages /\ \A r \in Nat : Start(r) \in Messages /\ Error(r) \in Messages
    BY DEF Messages, Start, Error
  <2>2. round[n] \in Nat
    BY DEF TypeOK
  <2>3. \/ \E m \in Messages : Send(n, <<m>>)
        \/ \E m1, m2 \in Messages : Send(n, <<m1, m2>>)
        \/ stream' = stream
    BY <1>5, <2>1, <2>2 DEF LoopEnds, Answer, Fail, Panic, channelVars
  <2>4. \A m1, m2 \in Messages : <<m1>> \in Seq(Messages) /\ <<m1, m2>> \in Seq(Messages)
    OBVIOUS
  <2>. QED BY <1>2, <1>3, <2>3, <2>4
<1>6. (n = turn => Running(n)') \/ LoopEnds(n) \/ Answer(n) \/ Fail(n) \/ Panic(n)
  BY DEF Step, Request, Speak, CallTools, RoundEnds, BreakOff, Refuse, SkipConsent, AskConsent,
     GiveUp, Begin, Finish, Record, GoTo, Running, TypeOK, At, Left
<1>. QED BY <1>4, <1>5, <1>6

LEMMA ChannelTypesStay ==
  ASSUME TypeOK, TurnGiven, \A n \in Turns : Placed(n), [Next]_vars
  PROVE  ChannelTypes'
<1>0. ChannelTypes /\ MaxTurns \in Nat /\ <<>> \in Seq(Messages)
  BY TypesAreParts, AgentAssumption, EmptySeq
<1>1. CASE Agents
  BY <1>1, StepChannelTypes DEF Agents
<1>2. CASE UNCHANGED <<turn, listening, stream>>
  BY <1>0, <1>2 DEF ChannelTypes
<1>3. CASE DrainStart \/ DrainConsent
  <2>1. UNCHANGED <<turn, listening>> /\ listening /\ stream # <<>> /\ stream' = Tail(stream)
    BY <1>3 DEF DrainStart, DrainConsent, Drain
  <2>. QED BY <1>0, <2>1 DEF ChannelTypes
<1>4. CASE DrainEnd \/ DrainGone \/ Cancel \/ Quit \/ Close
  <2>1. UNCHANGED turn /\ listening' = FALSE /\ stream' = <<>>
    BY <1>4 DEF DrainEnd, DrainGone, Cancel, CancelStream, Quit, Close, Vanish, StopListening
  <2>. QED BY <1>0, <2>1 DEF ChannelTypes
<1>5. CASE Submit \/ SubmitSide
  <2>1. turn < MaxTurns /\ turn' = turn + 1 /\ listening' = TRUE /\ stream' = <<>>
    BY <1>5 DEF Submit, SubmitSide, StartTurn
  <2>. QED BY <1>0, <2>1 DEF ChannelTypes
<1>6. CASE Pace \/ EndTurn \/ (\E yes \in BOOLEAN : Decide(yes)) \/ UNCHANGED vars
  BY <1>2, <1>6 DEF Pace, EndTurn, Decide, vars, loopVars, channelVars
<1>. QED BY <1>1, <1>3, <1>4, <1>5, <1>6 DEF Next, Overlay, User

LEMMA DrainTypes ==
  ASSUME TypeOK, TurnGiven, DrainStart \/ DrainConsent \/ DrainEnd \/ DrainGone
  PROVE  OverlayTypes'
<1>. USE DEF OverlayTypes, Lines, Endings
<1>0. OverlayTypes /\ stream \in Seq(Messages) /\ (listening => turn \in Turns)
  BY TypesAreParts DEF TypeOK, TurnGiven
<1>1. stream # <<>> => Head(stream) \in Messages
  BY <1>0, HeadTailProperties
<1>2. CASE DrainStart
  <2>1. Head(stream) \in Messages /\ Head(stream).k = "start" /\ turn \in Turns
    BY <1>0, <1>1, <1>2 DEF DrainStart, Drain
  <2>2. Head(stream).round \in Nat
    BY <2>1 DEF Messages, Done
  <2>3. [turn |-> turn, round |-> Head(stream).round, context |-> context, complete |-> FALSE]
           \in Lines
    BY <1>0, <2>1, <2>2
  <2>. QED BY <1>0, <1>2, <2>3 DEF DrainStart
<1>3. CASE DrainConsent
  <2>1. Head(stream) \in Messages /\ Head(stream).k = "consent"
    BY <1>1, <1>3 DEF DrainConsent, Drain
  <2>2. Head(stream) \in Questions
    BY <2>1 DEF Messages, Done, Questions
  <2>. QED BY <1>0, <1>3, <2>2 DEF DrainConsent
<1>4. CASE DrainEnd
  <2>1. Head(stream) \in Messages /\ Head(stream).k \in {"done", "error"}
    BY <1>1, <1>4 DEF DrainEnd, Drain
  <2>2. Head(stream) \in Endings
    BY <2>1 DEF Messages, Done
  <2>. QED BY <1>0, <1>4, <2>2 DEF DrainEnd
<1>5. CASE DrainGone
  BY <1>0, <1>5 DEF DrainGone
<1>. QED BY <1>2, <1>3, <1>4, <1>5

LEMMA OverlayTypesStay ==
  ASSUME TypeOK, TurnGiven, [Next]_vars
  PROVE  OverlayTypes'
<1>. USE DEF OverlayTypes
<1>0. OverlayTypes /\ turn \in 0..MaxTurns /\ MaxTurns \in Nat
  BY TypesAreParts, AgentAssumption DEF TypeOK
<1>1. CASE UNCHANGED overlayVars
  BY <1>0, <1>1 DEF overlayVars, displayVars
<1>2. CASE Pace
  BY <1>0, <1>2 DEF Pace
<1>3. CASE EndTurn
  <2>1. /\ turn \in Turns /\ shown' = {Completed(m) : m \in shown}
        /\ (saved' = saved \/ saved' = History(shown'))
        /\ (finished' = finished \/ finished' = finished \cup {turn})
    BY <1>3 DEF EndTurn, Ended, TurnGiven
  <2>2. \A m \in Lines : Completed(m) \in Lines
    BY DEF Completed, Lines
  <2>3. shown' \subseteq Lines
    BY <1>0, <2>1, <2>2
  <2>4. History(shown') \subseteq Turns
    BY <2>3 DEF History, Lines
  <2>. QED BY <1>0, <1>3, <2>1, <2>3, <2>4 DEF EndTurn, Endings
<1>4. CASE Submit \/ SubmitSide
  <2>1. /\ turn' = turn + 1 /\ turn < MaxTurns /\ UNCHANGED <<open, pending, saved, finished>>
        /\ streaming' = TRUE /\ queue' = FALSE /\ ending' = NotEnding
        /\ shown' = Interrupted \/ UNCHANGED shown
        /\ \E k \in {"question", "side"} : kind' = [kind EXCEPT ![turn'] = k]
        /\ transient' \in BOOLEAN /\ context' \in BOOLEAN
    BY <1>0, <1>4 DEF Submit, SubmitSide, StartTurn, Interrupt
  <2>2. Interrupted \subseteq Lines
    BY <1>0 DEF Interrupted, Lines
  <2>. QED BY <1>0, <2>1, <2>2 DEF Endings
<1>5. CASE Cancel \/ \E yes \in BOOLEAN : Decide(yes)
  BY <1>0, <1>5 DEF Cancel, CancelStream, Decide, Endings
<1>6. CASE Quit \/ Close
  <2>1. Interrupted \subseteq Lines
    BY <1>0 DEF Interrupted, Lines
  <2>2. \A ms \in SUBSET Lines : History(ms) \subseteq Turns
    BY DEF History, Lines
  <2>3. History(IF streaming THEN Interrupted ELSE shown) \subseteq Turns
    BY <1>0, <2>1, <2>2
  <2>. QED BY <1>0, <1>6, <2>3 DEF Quit, Close, Vanish, Endings
<1>. QED
  BY <1>1, <1>2, <1>3, <1>4, <1>5, <1>6, DrainTypes DEF Next, Agents, Overlay, User, vars

-----------------------------------------------------------------------------
(***************************************************************************)
(* The theorems.                                                           *)
(***************************************************************************)
LEMMA InitInvariant == Init => IInv
<1>. SUFFICES ASSUME Init PROVE IInv
  OBVIOUS
<1>1. MaxTurns \in Nat /\ \A n \in Turns : Rounds[n] \in Nat
  BY AgentAssumption DEF Turns
<1>2. ThreadTypes /\ ChannelTypes /\ OverlayTypes
  <2>1. ThreadTypes
    BY EmptySeq DEF Init, LoopInit, ThreadTypes
  <2>2. ChannelTypes
    <3>1. <<>> \in Seq(Messages) /\ 0 \in 0..MaxTurns
      BY <1>1, EmptySeq
    <3>. QED BY <3>1 DEF Init, LoopInit, ChannelTypes
  <2>3. OverlayTypes
    BY DEF Init, OverlayTypes, Endings
  <2>. QED BY <2>1, <2>2, <2>3
<1>3. TypeOK
  BY <1>1, <1>2, TypesAreParts DEF Init, LoopInit
<1>4. TurnGiven /\ Attended
  BY DEF Init, LoopInit, TurnGiven, Attended, Running, Turns
<1>5. ASSUME NEW n \in Turns
      PROVE  Placed(n) /\ Answered(n) /\ Consented(n) /\ Bound(n)
  BY DEF Init, LoopInit, Placed, Answered, Consented, Bound, Working
<1>. QED BY <1>3, <1>4, <1>5 DEF IInv

LEMMA Invariant == Spec => []IInv
<1>1. IInv /\ [Next]_vars => IInv'
  <2>. SUFFICES ASSUME IInv, [Next]_vars PROVE IInv'
    OBVIOUS
  <2>. USE DEF IInv
  <2>1. TypeOK'
    <3>1. ThreadTypes' /\ ChannelTypes' /\ OverlayTypes'
      BY ThreadTypesStay, ChannelTypesStay, OverlayTypesStay
    <3>2. \A n \in Turns : round'[n] <= Rounds[n]
      BY RoundsStayBounded
    <3>. QED
      BY <3>1, <3>2 DEF TypeOK, ThreadTypes, ChannelTypes, OverlayTypes, Lines, Endings
  <2>2. TurnGiven' /\ Attended'
    BY TurnGivenStays, AttendedStays
  <2>3. ASSUME NEW n \in Turns
        PROVE  (Placed(n) /\ Answered(n) /\ Consented(n) /\ Bound(n))'
    BY PlacedStays, AnsweredStays, ConsentedStays, BoundStays
  <2>. QED BY <2>1, <2>2, <2>3
<1>. QED BY <1>1, InitInvariant, PTL DEF Spec

\* The types, and no turn asks the model more often than it may.
THEOREM TypeCorrect == Spec => []TypeOK
<1>1. IInv => TypeOK
  BY DEF IInv
<1>. QED BY <1>1, Invariant, PTL

\* Whenever run_agent asks the model, each tool call in the conversation has one
\* answer.
THEOREM EveryCallAnswered == Spec => []CallsAnswered
<1>1. IInv => CallsAnswered
  BY DEF IInv, Answered, CallsAnswered
<1>. QED BY <1>1, Invariant, PTL

\* A tool that may do harm runs only with the user's consent to this very call.
THEOREM ConsentToThisCall == Spec => []ConsentGiven
<1>1. IInv => ConsentGiven
  BY DEF IInv, Consented, ConsentGiven, KindOf
<1>. QED BY <1>1, Invariant, PTL

\* Of a cancelled turn one tool at most still begins.
THEOREM OneToolAfterCancel == Spec => []CancelBinds
<1>1. ASSUME IInv, NEW n \in Turns
      PROVE  Cardinality(late[n]) <= 1
  <2>1. CASE late[n] = {}
    BY <2>1, FS_EmptySet
  <2>2. ASSUME NEW c \in Calls, late[n] = {c}
        PROVE  Cardinality(late[n]) <= 1
    BY <2>2, FS_Singleton
  <2>. QED BY <1>1, <2>1, <2>2 DEF IInv, Bound
<1>2. IInv => CancelBinds
  BY <1>1 DEF CancelBinds
<1>. QED BY <1>2, Invariant, PTL

\* While the chat is open, a thread that nobody listens to has been told to stop.
THEOREM NoThreadUnattended == Spec => []NoneUnattended
<1>1. IInv => NoneUnattended
  BY DEF IInv, Attended, NoneUnattended
<1>. QED BY <1>1, Invariant, PTL
=============================================================================
