----------------------------- MODULE AgentLoop -----------------------------
(***************************************************************************)
(* The threads that answer the user's messages in the AI chat (run_agent,  *)
(* manda-gui/src/ai_chat_engine/mod.rs): one thread to each turn of the    *)
(* chat.  It asks the model, runs the tools that the model calls for, tells *)
(* the model what came of them and asks again, until the model calls for   *)
(* no more tools, the user cancels or it has asked too often.              *)
(*                                                                         *)
(* What a turn needs of the chat: its cancel flag, the channel on which it *)
(* tells how it is getting on, and for a tool that may do harm the user's  *)
(* consent, over a rendezvous channel of its own.  The channel is          *)
(* unbounded and has one reader, which listens to the latest turn or to    *)
(* none: what other threads tell is heard by nobody.  ChatOverlay is the   *)
(* chat around these threads.                                              *)
(*                                                                         *)
(* Of what is told, tool rows of the display are left out, and of a text   *)
(* all but its beginning.  So is the shortening of long conversations.     *)
(***************************************************************************)
EXTENDS Naturals, Sequences, FiniteSets

CONSTANTS MaxTurns,   \* bound: messages the user sends
          Rounds,     \* MAX_AGENT_ROUNDS (25); bound: of each turn its own
          CallLists   \* bound: the tool calls that a reply in a turn may hold

\* A call that needs no consent; one that does (approval_summary_in_cwd); and
\* one that cannot run: unknown, with bad arguments, or of a path to be refused.
Kinds == {"plain", "guarded", "bad"}

ASSUME AgentAssumption ==
  /\ MaxTurns \in Nat
  /\ Rounds \in [1..MaxTurns -> Nat]
  /\ CallLists \in [1..MaxTurns -> SUBSET (Seq(Kinds) \ {<<>>})]

Turns == 1..MaxTurns

\* A tool call: the round and its place in it.
Calls == UNION {(1..Rounds[n]) \X UNION {1..Len(cs) : cs \in CallLists[n]} : n \in Turns}

VARIABLES turn,       \* the latest; 0 before the first
          agent,      \* where the thread of each turn is
          round,      \* rounds it has begun
          calls,      \* tool calls of the round
          next,       \* the one it is at
          tools,      \* tools were advertised
          flag,       \* its cancel flag
          started,    \* sent_start
          asked,      \* tool calls in its conversation
          results,    \* how often each is answered in its conversation
          listening,  \* the latest turn's channel has a receiver
          stream,     \* what is on it
          consent,    \* ghost: calls that the user has said yes to
          late        \* ghost: calls begun after the flag was set

channelVars == <<listening, stream>>
callVars    == <<calls, next, asked, results>>
agentVars   == <<agent, round, callVars, started, consent, late>>
loopVars    == <<turn, tools, flag, agentVars, channelVars>>

Running(n) == agent[n] \notin {"none", "over"}
Current(n) == <<round[n], next[n]>>

Start(r) == [k |-> "start", round |-> r]
Done     == [k |-> "done"]
Error(r) == [k |-> "error", round |-> r]
Consent(n) == [k |-> "consent", turn |-> n, call |-> Current(n)]
Messages ==
  {Done} \cup [k : {"start"}, round : Nat] \cup [k : {"error"}, round : Nat]
         \cup [k : {"consent"}, turn : Turns, call : Calls]

LoopInit ==
  /\ turn = 0
  /\ agent = [n \in Turns |-> "none"]
  /\ round = [n \in Turns |-> 0]
  /\ calls = [n \in Turns |-> <<>>] /\ next = [n \in Turns |-> 1]
  /\ tools = [n \in Turns |-> FALSE]
  /\ flag = [n \in Turns |-> FALSE]
  /\ started = [n \in Turns |-> FALSE]
  /\ asked = [n \in Turns |-> {}]
  /\ results = [n \in Turns |-> [c \in Calls |-> 0]]
  /\ listening = FALSE /\ stream = <<>>
  /\ consent = [n \in Turns |-> {}] /\ late = [n \in Turns |-> {}]

At(n, pc)    == agent[n] = pc
GoTo(n, pc)  == agent' = [agent EXCEPT ![n] = pc]
Send(n, ms)  == stream' = IF listening /\ n = turn THEN stream \o ms ELSE stream

\* The thread ends, and what it knew is gone.
End(n) ==
  /\ GoTo(n, "over")
  /\ round' = [round EXCEPT ![n] = 0] /\ started' = [started EXCEPT ![n] = FALSE]
  /\ calls' = [calls EXCEPT ![n] = <<>>] /\ next' = [next EXCEPT ![n] = 1]
  /\ asked' = [asked EXCEPT ![n] = {}] /\ tools' = [tools EXCEPT ![n] = FALSE]
  /\ results' = [results EXCEPT ![n] = [c \in Calls |-> 0]]
  /\ consent' = [consent EXCEPT ![n] = {}] /\ late' = [late EXCEPT ![n] = {}]

---------------------------------------------------------------------------
(* A round.                                                                *)

RequestBug(n) ==   \* no limit
  /\ At(n, "top") /\ ~ flag[n]
  /\ GoTo(n, "ask")
  /\ round' = [round EXCEPT ![n] = @ + 1]
  /\ started' = [started EXCEPT ![n] = FALSE]
  /\ UNCHANGED <<turn, tools, flag, callVars, consent, late, channelVars>>

\* The model is asked, with all that was said.
Request(n) ==
  /\ At(n, "top") /\ ~ flag[n] /\ round[n] < Rounds[n]
  /\ GoTo(n, "ask")
  /\ round' = [round EXCEPT ![n] = @ + 1]
  /\ started' = [started EXCEPT ![n] = FALSE]
  /\ UNCHANGED <<turn, tools, flag, callVars, consent, late, channelVars>>

\* The loop is over: what it tells is an error, also when it was cancelled, and
\* then Done, which nobody reads after an error.
LoopEnds(n) ==
  /\ At(n, "top") /\ (flag[n] \/ round[n] = Rounds[n])
  /\ End(n)
  /\ Send(n, <<Error(0)>>)
  /\ UNCHANGED <<turn, flag, listening>>

\* The first of the text.
Speak(n) ==
  /\ At(n, "ask") /\ ~ started[n]
  /\ started' = [started EXCEPT ![n] = TRUE]
  /\ Send(n, <<Start(round[n])>>)
  /\ UNCHANGED <<turn, tools, flag, agent, round, callVars, consent, late, listening>>

\* No tool calls: the turn is answered, or chat_step saw the flag.
Answer(n) ==
  /\ At(n, "ask")
  /\ End(n)
  /\ Send(n, <<Done>>)
  /\ UNCHANGED <<turn, flag, listening>>

\* The request failed, or more was said than may be.
Fail(n) ==
  /\ At(n, "ask")
  /\ End(n)
  /\ \/ Send(n, <<Error(round[n])>>)
     \/ ~ started[n] /\ Send(n, <<Start(round[n]), Error(round[n])>>)
  /\ UNCHANGED <<turn, flag, listening>>

\* The model calls for tools; none was advertised to a turn without tools.
CallTools(n, cs) ==
  /\ At(n, "ask")
  /\ GoTo(n, "calls")
  /\ calls' = [calls EXCEPT ![n] = IF tools[n] THEN cs ELSE [i \in 1..Len(cs) |-> "bad"]]
  /\ next' = [next EXCEPT ![n] = 1]
  /\ asked' = [asked EXCEPT ![n] = @ \cup {<<round[n], i>> : i \in 1..Len(cs)}]
  /\ UNCHANGED <<turn, tools, flag, round, results, started, consent, late, channelVars>>

---------------------------------------------------------------------------
(* The tool calls of a round, one after the other.                         *)

Left(n)    == At(n, "calls") /\ next[n] <= Len(calls[n])
KindOf(n)  == calls[n][next[n]]

\* record_tool_result, and on to the next call.
Record(n) ==
  /\ results' = [results EXCEPT ![n][Current(n)] = @ + 1]
  /\ next' = [next EXCEPT ![n] = @ + 1]
  /\ GoTo(n, "calls")

RoundEnds(n) ==
  /\ At(n, "calls") /\ next[n] > Len(calls[n])
  /\ GoTo(n, "top")
  /\ UNCHANGED <<turn, tools, flag, round, callVars, started, consent, late, channelVars>>

\* The flag is looked at before each call. The calls that are left have no
\* answer then; the flag ends the loop before the model could see that.
BreakOff(n) ==
  /\ Left(n) /\ flag[n]
  /\ GoTo(n, "top")
  /\ UNCHANGED <<turn, tools, flag, round, callVars, started, consent, late, channelVars>>

Refuse(n) ==
  /\ Left(n) /\ ~ flag[n] /\ KindOf(n) = "bad"
  /\ Record(n)
  /\ UNCHANGED <<turn, tools, flag, round, calls, asked, started, consent, late, channelVars>>

SkipConsentBug(n) ==   \* the flag is not looked at
  /\ Left(n) /\ KindOf(n) = "plain"
  /\ GoTo(n, "begin")
  /\ UNCHANGED <<turn, tools, flag, round, callVars, started, consent, late, channelVars>>

SkipConsent(n) ==
  /\ Left(n) /\ ~ flag[n] /\ KindOf(n) = "plain"
  /\ GoTo(n, "begin")
  /\ UNCHANGED <<turn, tools, flag, round, callVars, started, consent, late, channelVars>>

AskConsent(n) ==
  /\ Left(n) /\ ~ flag[n] /\ KindOf(n) = "guarded"
  /\ GoTo(n, "consent")
  /\ Send(n, <<Consent(n)>>)
  /\ UNCHANGED <<turn, tools, flag, round, callVars, started, consent, late, listening>>

GiveUpBug(n) ==   \* the call goes unanswered
  /\ At(n, "consent")
  /\ next' = [next EXCEPT ![n] = @ + 1]
  /\ GoTo(n, "calls")
  /\ UNCHANGED <<turn, tools, flag, round, calls, asked, results, started, consent, late,
                 channelVars>>

\* recv_timeout fails: 10 minutes have passed or nobody can reply any more.
GiveUp(n) ==
  /\ At(n, "consent")
  /\ Record(n)
  /\ UNCHANGED <<turn, tools, flag, round, calls, asked, started, consent, late, channelVars>>

\* The tool is run. No look at the flag comes between the consent and this.
Begin(n) ==
  /\ At(n, "begin")
  /\ GoTo(n, "tool")
  /\ late' = IF flag[n] THEN [late EXCEPT ![n] = @ \cup {Current(n)}] ELSE late
  /\ UNCHANGED <<turn, tools, flag, round, callVars, started, consent, channelVars>>

Finish(n) ==
  /\ At(n, "tool")
  /\ Record(n)
  /\ UNCHANGED <<turn, tools, flag, round, calls, asked, started, consent, late, channelVars>>

\* A panic ends the thread and with it the channel.
Panic(n) ==
  /\ agent[n] \in {"ask", "tool"}
  /\ End(n)
  /\ UNCHANGED <<turn, flag, channelVars>>

Step(n) ==
  \/ Request(n) \/ LoopEnds(n)
  \/ Speak(n) \/ Answer(n) \/ Fail(n) \/ \E cs \in CallLists[n] : CallTools(n, cs)
  \/ RoundEnds(n) \/ BreakOff(n)
  \/ Refuse(n) \/ SkipConsent(n) \/ AskConsent(n) \/ GiveUp(n)
  \/ Begin(n) \/ Finish(n)
  \/ Panic(n)

---------------------------------------------------------------------------
(* What the chat does to a thread.                                         *)

\* A new turn, on a thread of its own, with a flag of its own.
StartTurn(withTools) ==
  /\ turn < MaxTurns
  /\ turn' = turn + 1
  /\ agent' = [agent EXCEPT ![turn + 1] = "top"]
  /\ tools' = [tools EXCEPT ![turn + 1] = withTools]
  /\ listening' = TRUE /\ stream' = <<>>

\* The receiver is dropped, with what is on the channel.
StopListening == listening' = FALSE /\ stream' = <<>>

\* The user's reply to the question about call c of turn n, which the thread
\* hears only if it still waits for this one.
Waits(n, c) == At(n, "consent") /\ c = Current(n)

ReplyBug(n, c, yes) ==   \* the channel is shared by all questions of a turn
  IF At(n, "consent") /\ yes
  THEN /\ GoTo(n, "begin")
       /\ consent' = [consent EXCEPT ![n] = @ \cup {c}]
       /\ UNCHANGED <<next, results>>
  ELSE IF At(n, "consent")
  THEN Record(n) /\ UNCHANGED consent
  ELSE UNCHANGED <<agent, consent, next, results>>

Reply(n, c, yes) ==
  IF Waits(n, c) /\ yes
  THEN /\ GoTo(n, "begin")
       /\ consent' = [consent EXCEPT ![n] = @ \cup {c}]
       /\ UNCHANGED <<next, results>>
  ELSE IF Waits(n, c)
  THEN Record(n) /\ UNCHANGED consent
  ELSE UNCHANGED <<agent, consent, next, results>>
=============================================================================
