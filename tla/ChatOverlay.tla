---------------------------- MODULE ChatOverlay ----------------------------
(***************************************************************************)
(* The AI chat overlay (manda-gui/src/overlay/ai_chat): the loop that      *)
(* drains what the thread of the latest turn tells, paces its text, asks   *)
(* the user for consent and takes the user's keys, around the threads of   *)
(* AgentLoop.                                                              *)
(*                                                                         *)
(* A turn is a question or a side question (/btw), which is to stay out of *)
(* the history.  Left out: attachments, models and modes, /new, /clear and *)
(* /resume, which drop the messages after they have cancelled, and the     *)
(* rows that show tools and errors.                                        *)
(*                                                                         *)
(* A definition whose name ends in Bug is no part of the model: it is what *)
(* a mutant puts in the place of the definition after it.                  *)
(***************************************************************************)
EXTENDS AgentLoop

VARIABLES open,       \* the overlay is
          kind,       \* of each turn: "none" yet, "question" or "side"
          streaming,  \* is_streaming
          ending,     \* stream_pending_done and _err, with the round of an error
          queue,      \* grapheme_queue is not empty
          transient,  \* stream_is_transient
          context,    \* next_assistant_is_context
          pending,    \* pending_approval: the question shown
          shown,      \* the assistant's messages
          saved,      \* turns with an answer in the history file
          finished    \* ghost: turns that came to their end

displayVars == <<ending, queue, transient, context, pending, shown>>
overlayVars == <<open, kind, streaming, displayVars, saved, finished>>
vars == <<loopVars, overlayVars>>

NotEnding == [k |-> "no"]
NoQuestion == [k |-> "none"]

Init ==
  /\ LoopInit
  /\ open = TRUE
  /\ kind = [n \in Turns |-> "none"]
  /\ streaming = FALSE /\ ending = NotEnding /\ queue = FALSE
  /\ transient = FALSE /\ context = FALSE
  /\ pending = NoQuestion
  /\ shown = {} /\ saved = {} /\ finished = {}

---------------------------------------------------------------------------
(* drain_tokens.                                                           *)

\* It ends the turn as soon as there is nothing left to pace, before a key.
Ended == ending # NotEnding /\ ~ queue

Drain(k) ==
  /\ open /\ listening /\ stream # <<>> /\ Head(stream).k = k

DrainStart ==
  /\ Drain("start")
  /\ shown' = shown \cup {[turn |-> turn, round |-> Head(stream).round,
                           context |-> context, complete |-> FALSE]}
  /\ context' = FALSE
  /\ queue' = TRUE
  /\ stream' = Tail(stream)
  /\ UNCHANGED <<turn, tools, flag, agentVars, listening, open, kind, streaming, ending,
                 transient, pending, saved, finished>>

\* The question replaces one that was not answered in time.
DrainConsent ==
  /\ Drain("consent")
  /\ pending' = Head(stream)
  /\ stream' = Tail(stream)
  /\ UNCHANGED <<turn, tools, flag, agentVars, listening, open, kind, streaming, ending,
                 queue, transient, context, shown, saved, finished>>

DrainEnd ==
  /\ Drain("done") \/ Drain("error")
  /\ ending' = Head(stream)
  /\ StopListening
  /\ UNCHANGED <<turn, tools, flag, agentVars, open, kind, streaming, queue, transient,
                 context, pending, shown, saved, finished>>

DrainGoneBug == FALSE   \* a channel that is closed reads as an empty one

\* The thread is gone without a word: taken for Done.
DrainGone ==
  /\ open /\ listening /\ stream = <<>> /\ agent[turn] = "over"
  /\ ending' = Done
  /\ StopListening
  /\ UNCHANGED <<turn, tools, flag, agentVars, open, kind, streaming, queue, transient,
                 context, pending, shown, saved, finished>>

Pace ==
  /\ open /\ queue
  /\ queue' = FALSE
  /\ UNCHANGED <<loopVars, open, kind, streaming, ending, transient, context, pending, shown,
                 saved, finished>>

\* save_history writes the messages that are complete and no context.
History(ms) == {m.turn : m \in {x \in ms : x.complete /\ ~ x.context}}

\* The message that the end completes: the last one, if it is of the round that
\* failed; or all there are.
Completed(m) ==
  [m EXCEPT !.complete = \/ @ \/ ending = Done
                         \/ ending.k = "error" /\ m.turn = turn /\ m.round = ending.round]

EndTurn ==
  /\ open /\ Ended
  /\ shown' = {Completed(m) : m \in shown}
  /\ ending' = NotEnding
  /\ streaming' = FALSE
  /\ transient' = FALSE
  /\ saved' = IF transient THEN saved ELSE History(shown')
  /\ finished' = IF ending = Done THEN finished \cup {turn} ELSE finished
  /\ UNCHANGED <<loopVars, open, kind, queue, context, pending>>

---------------------------------------------------------------------------
(* The user's keys.                                                        *)

Key == open /\ ~ Ended

\* Enter and Escape while a question is shown; other keys are ignored.
Decide(yes) ==
  /\ Key /\ pending # NoQuestion
  /\ Reply(pending.turn, pending.call, yes)
  /\ pending' = NoQuestion
  /\ UNCHANGED <<turn, tools, flag, round, calls, asked, started, late, channelVars,
                 open, kind, streaming, ending, queue, transient, context, shown, saved,
                 finished>>

FreeKey == Key /\ pending = NoQuestion

\* cancel_stream.
CancelStream ==
  /\ flag' = [flag EXCEPT ![turn] = TRUE]
  /\ StopListening
  /\ streaming' = FALSE /\ queue' = FALSE /\ ending' = NotEnding

Cancel ==
  /\ FreeKey /\ streaming
  /\ CancelStream
  /\ UNCHANGED <<turn, tools, agentVars, open, kind, transient, context, pending, shown,
                 saved, finished>>

\* The last message that is not complete is taken for complete when the user
\* goes on before it is.
Incomplete == {m \in shown : ~ m.complete}
Later(m, o) == m.turn > o.turn \/ (m.turn = o.turn /\ m.round >= o.round)
Interrupted ==
  {[m EXCEPT !.complete = @ \/ \A o \in Incomplete : Later(m, o)] : m \in shown}

InterruptBug ==   \* the turn before goes on
  UNCHANGED <<flag, shown>>

\* A turn that is under way is cancelled first.
Interrupt ==
  IF streaming THEN /\ flag' = [flag EXCEPT ![turn] = TRUE]
                    /\ shown' = Interrupted
               ELSE UNCHANGED <<flag, shown>>

\* submit: with a question of 'stream_is_transient' as it is found.
Submit ==
  /\ FreeKey
  /\ Interrupt
  /\ \E advertised \in BOOLEAN : StartTurn(advertised /\ ~ transient)
  /\ kind' = [kind EXCEPT ![turn'] = "question"]
  /\ streaming' = TRUE /\ queue' = FALSE /\ ending' = NotEnding
  /\ UNCHANGED <<round, callVars, started, consent, late, open, transient, context, pending,
                 saved, finished>>

\* submit_btw.
SubmitSide ==
  /\ FreeKey
  /\ Interrupt
  /\ StartTurn(FALSE)
  /\ kind' = [kind EXCEPT ![turn'] = "side"]
  /\ streaming' = TRUE /\ queue' = FALSE /\ ending' = NotEnding
  /\ transient' = TRUE /\ context' = TRUE
  /\ UNCHANGED <<round, callVars, started, consent, late, open, pending, saved, finished>>

\* The overlay and all it showed is gone; no flag is set.
Vanish ==
  /\ open' = FALSE
  /\ StopListening
  /\ streaming' = FALSE /\ ending' = NotEnding /\ queue' = FALSE
  /\ transient' = FALSE /\ context' = FALSE
  /\ pending' = NoQuestion /\ shown' = {}
  /\ UNCHANGED <<turn, tools, flag, agentVars, kind, finished>>

\* Escape when nothing is streaming, or Cmd+W at any time: the message under way
\* is taken for complete, and saved.
Quit ==
  /\ FreeKey
  /\ saved' = History(IF streaming THEN Interrupted ELSE shown)
  /\ Vanish

\* The pane is closed: poll_input fails, and nothing is saved.
Close ==
  /\ Key
  /\ Vanish
  /\ UNCHANGED saved

---------------------------------------------------------------------------

Overlay == DrainStart \/ DrainConsent \/ DrainEnd \/ DrainGone \/ Pace \/ EndTurn

User == (\E yes \in BOOLEAN : Decide(yes)) \/ Cancel \/ Submit \/ SubmitSide \/ Quit \/ Close

Agents == \E n \in Turns : Step(n) /\ UNCHANGED overlayVars

Next == Agents \/ Overlay \/ User

\* The overlay polls every 30 ms while something is streaming, requests have
\* timeouts, and a thread gives up waiting for the user.  Nothing obliges a tool
\* to end: shell_exec kills the shell after a minute, but then waits for whoever
\* still holds its pipes, and web_fetch_script has no limit at all.
Fairness ==
  /\ WF_vars(Overlay)
  /\ \A n \in Turns : WF_vars(~ At(n, "tool") /\ Step(n) /\ UNCHANGED overlayVars)

Spec == Init /\ [][Next]_vars /\ Fairness

---------------------------------------------------------------------------
(* Properties.                                                             *)

Questions == [k : {"consent"}, turn : Turns, call : Calls]

TypeOK ==
  /\ turn \in 0..MaxTurns
  /\ agent \in [Turns -> {"none", "top", "ask", "calls", "consent", "begin", "tool", "over"}]
  /\ round \in [Turns -> Nat] /\ \A n \in Turns : round[n] <= Rounds[n]
  /\ calls \in [Turns -> Seq(Kinds)] /\ next \in [Turns -> Nat \ {0}]
  /\ tools \in [Turns -> BOOLEAN] /\ flag \in [Turns -> BOOLEAN]
  /\ started \in [Turns -> BOOLEAN]
  /\ asked \in [Turns -> SUBSET Calls] /\ results \in [Turns -> [Calls -> Nat]]
  /\ listening \in BOOLEAN /\ stream \in Seq(Messages) /\ (stream # <<>> => listening)
  /\ consent \in [Turns -> SUBSET Calls] /\ late \in [Turns -> SUBSET Calls]
  /\ open \in BOOLEAN /\ streaming \in BOOLEAN /\ queue \in BOOLEAN
  /\ transient \in BOOLEAN /\ context \in BOOLEAN
  /\ kind \in [Turns -> {"none", "question", "side"}]
  /\ ending \in {NotEnding, Done} \cup [k : {"error"}, round : Nat]
  /\ pending \in {NoQuestion} \cup Questions
  /\ shown \subseteq [turn : Turns, round : Nat, context : BOOLEAN, complete : BOOLEAN]
  /\ saved \subseteq Turns /\ finished \subseteq Turns

\* Whenever the model is asked, each tool call it has made in this conversation
\* has one answer (a model refuses a conversation where one is missing),
\* whether tools fail, are refused, time out waiting for the user or the turn is
\* cancelled in the middle of a round.
CallsAnswered ==
  \A n \in Turns : agent[n] = "ask" => \A c \in asked[n] : results[n][c] = 1

\* A tool that may do harm runs only after the user has said yes to this very
\* call, though questions time out while they are shown and others take their
\* place.
ConsentGiven ==
  \A n \in Turns :
    agent[n] = "tool" /\ calls[n][next[n]] = "guarded" => Current(n) \in consent[n]

\* Of a cancelled turn one tool at most still begins, which was about to.
CancelBinds == \A n \in Turns : Cardinality(late[n]) <= 1

\* While the chat is open, a thread that nobody listens to has been told to
\* stop.
NoneUnattended ==
  \A n \in Turns : open /\ Running(n) => flag[n] \/ (n = turn /\ listening)

\* However a turn ends (answered, failed, out of rounds, in a panic), the chat
\* notices and is ready for the next.  Only a tool that never ends keeps a turn
\* going, and that until the user cancels it.
StreamEnds ==
  \A n \in Turns :
    streaming /\ turn = n ~> ~ (streaming /\ turn = n) \/ [](streaming /\ At(n, "tool"))

\* "When true, the current stream is a /btw transient query: its messages are
\* not persisted" (state.rs:733), and "/btw: Ask a side question (not saved to
\* history)" (docs/features.md:56): the answer to any other question that came
\* to its end is saved.
AnswersSaved ==
  \A n \in finished :
    kind[n] = "question" /\ (\E m \in shown : m.turn = n) => n \in saved
=============================================================================
