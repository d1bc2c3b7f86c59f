--------------------------- MODULE RemoteSession ---------------------------
(***************************************************************************)
(* One session of a phone with the remote access server                    *)
(* (crates/manda-remote/src/lib.rs): a WebSocket of the local network, for *)
(* one pane, or a session of the tunnel through the relay.                 *)
(*                                                                         *)
(*   phone --> receive loop --> threads that chat (manda-gui/ai_remote.rs) *)
(*                                  |                                      *)
(*                                  v events                               *)
(*   phone <-- send task <----------+-------- broadcast <-- main thread    *)
(*                                             of screens                  *)
(*                                                                         *)
(* Sessions share the senders and the throttle of their panes and nothing  *)
(* else; what other sessions do to those is in the free choice of whether  *)
(* an update is throttled. The tunnel sends every pane's screens; one pane *)
(* is looked at. Its next session, 5 s after the last, is one that begins  *)
(* anew. Tokens and tool calls of a chat pass through the send task as its *)
(* end does and change nothing there; they are left out, as are input and  *)
(* scrolling.                                                              *)
(*                                                                         *)
(* A definition whose name ends in Bug is no part of the model: it is what *)
(* a mutant puts in the place of the definition after it.                  *)
(***************************************************************************)
EXTENDS Integers, Sequences, FiniteSets

CONSTANTS Chats,        \* requests the phone may send, each once
          Ids,          \* conversation ids
          Conversation, \* the id that each request carries
          None,
          MaxInflight,  \* MAX_INFLIGHT_AI (4)
          Backlog,      \* what a broadcast channel keeps (64, 128 in a tunnel)
          MaxFrames,    \* bound: changes of the screen
          Limits        \* bound: which requests and how many changes go together

ASSUME RemoteAssumption ==
  /\ Conversation \in [Chats -> Ids]
  /\ None \notin Chats
  /\ MaxInflight \in Nat \ {0} /\ Backlog \in Nat \ {0} /\ MaxFrames \in Nat
  /\ Limits \subseteq [chats : SUBSET Chats, frames : 0..MaxFrames]

VARIABLES limit,     \* of this behaviour, one of Limits
          kind,      \* "local" or "tunnel"
          link,      \* the phone is connected
          receiver,  \* where the receive loop is, from the subscription on
          sender,    \* where the send task is
          out,       \* what is being sent: a chat whose end it is, a screen
          chat,      \* of each request
          inFlight,  \* in_flight
          handles,   \* cancel_handles
          flagged,   \* running chats whose cancel flag is set
          events,    \* ai_rx: chats whose end is to be told
          content,   \* of the pane's screen, counted
          notice,    \* PaneOutput is to be told to the subscriber
          pane,      \* the pane is in the mux
          channel,   \* of its screens: "none" yet, "open" or "closed"
          ring,      \* screens broadcast and not yet received
          lagged,    \* some were overwritten
          answered,  \* how often the phone was told of a chat's end
          shown,     \* the screen the phone shows
          owed,      \* ghost: the screen at the last update not throttled
          cancelled, \* ghost: running chats that the phone has cancelled
          shared     \* ghost: running chats that overlapped with one of their id

linkVars    == <<limit, kind, link>>
chatVars    == <<chat, inFlight, handles, flagged, cancelled, shared>>
screenVars  == <<content, notice, pane, channel, owed>>
channelVars == <<ring, lagged>>
phoneVars   == <<answered, shown>>
vars == <<linkVars, receiver, sender, out, chatVars, events, screenVars, channelVars, phoneVars>>

Nothing   == [k |-> "nothing"]
EndOf(c)  == [k |-> "end", chat |-> c]
Screen(n) == [k |-> "screen", n |-> n]
Things == {Nothing} \cup {EndOf(c) : c \in Chats} \cup {Screen(n) : n \in 0..MaxFrames}

\* The channel has a receiver.
Subscribed == receiver \in {"capture", "greet"} \/ sender \in {"select", "send"}

Init ==
  /\ limit \in Limits
  /\ kind \in {"local", "tunnel"}
  /\ link = TRUE
  /\ receiver = "new" /\ sender = "none" /\ out = Nothing
  /\ chat = [c \in Chats |-> "none"]
  /\ inFlight = 0
  /\ handles = [i \in Ids |-> None]
  /\ flagged = {} /\ cancelled = {} /\ shared = {}
  /\ events = <<>>
  /\ content = 0 /\ notice = FALSE /\ pane = TRUE /\ channel = "none" /\ owed = 0
  /\ ring = <<>> /\ lagged = FALSE
  /\ answered = [c \in Chats |-> 0]
  /\ shown = -1

---------------------------------------------------------------------------
(* The pane and the subscriber of its notifications, on the main thread.   *)

Output ==
  /\ pane /\ content < limit.frames
  /\ content' = content + 1
  /\ notice' = TRUE
  /\ UNCHANGED <<linkVars, receiver, sender, out, chatVars, events, pane, channel, owed,
                 channelVars, phoneVars>>

\* on_pane_output, and the subscriber of start_tunnel: nothing without a
\* receiver, nothing within 16 ms of the last update.
OnPaneOutput ==
  /\ notice
  /\ notice' = FALSE
  /\ \E throttled \in BOOLEAN :
       IF ~ Subscribed \/ throttled \/ ~ pane
       THEN UNCHANGED <<ring, lagged, owed>>
       ELSE /\ owed' = content
            /\ lagged' = (lagged \/ Len(ring) = Backlog)
            /\ ring' = Append(IF Len(ring) = Backlog THEN Tail(ring) ELSE ring, content)
  /\ UNCHANGED <<linkVars, receiver, sender, out, chatVars, events, content, pane, channel,
                 phoneVars>>

\* PaneRemoved: the sender of the pane is dropped, which closes its channel.
\* The tunnel keeps its own.
OnPaneRemoved ==
  /\ pane
  /\ pane' = FALSE
  /\ channel' = IF channel = "open" /\ kind = "local" THEN "closed" ELSE channel
  /\ UNCHANGED <<linkVars, receiver, sender, out, chatVars, events, content, notice, owed,
                 channelVars, phoneVars>>

---------------------------------------------------------------------------
(* The beginning of a session.                                             *)

\* route_ws and start_tunnel subscribe first; route_ws makes a sender for a
\* pane that has none, be it removed.
Subscribe ==
  /\ receiver = "new"
  /\ receiver' = "capture"
  /\ channel' = "open"
  /\ owed' = content
  /\ UNCHANGED <<linkVars, sender, out, chatVars, events, content, notice, pane,
                 channelVars, phoneVars>>

\* Then the pane, if it is there, is captured
Capture ==
  /\ receiver = "capture"
  /\ IF pane THEN receiver' = "greet" /\ out' = Screen(content) /\ UNCHANGED sender
             ELSE receiver' = "open" /\ sender' = "select" /\ UNCHANGED out
  /\ UNCHANGED <<linkVars, chatVars, events, screenVars, channelVars, phoneVars>>

\* and sent, and only then does the send task begin.
Greet ==
  /\ receiver = "greet" /\ link
  /\ shown' = out.n /\ out' = Nothing
  /\ receiver' = "open" /\ sender' = "select"
  /\ UNCHANGED <<linkVars, chatVars, events, screenVars, channelVars, answered>>

GreetFails ==
  /\ receiver = "greet" /\ ~ link
  /\ out' = Nothing /\ receiver' = "over" /\ ring' = <<>> /\ lagged' = FALSE
  /\ UNCHANGED <<linkVars, sender, chatVars, events, screenVars, phoneVars>>

---------------------------------------------------------------------------
(* The receive loop.                                                       *)

\* Who listens to the chats: nobody once the send task is over.
Tell(c) == IF sender = "over" THEN UNCHANGED events ELSE events' = Append(events, c)

\* A chat of this conversation is under way, or its end yet to be told.
UnderWay(c) == chat[c] = "running" \/ \E i \in 1..Len(events) : events[i] = c

Overlaps(c) ==
  LET others == {d \in Chats \ {c} : Conversation[d] = Conversation[c] /\ UnderWay(d)}
  IN  shared' = IF others = {} THEN shared
                               ELSE shared \cup {d \in others \cup {c} : chat'[d] = "running"}

RefuseBug(c) ==   \* the refusal does not return
  /\ receiver = "open" /\ link
  /\ chat[c] = "none" /\ inFlight >= MaxInflight
  /\ chat' = [chat EXCEPT ![c] = "running"]
  /\ handles' = [handles EXCEPT ![Conversation[c]] = c]
  /\ Tell(c)
  /\ Overlaps(c)
  /\ UNCHANGED <<linkVars, receiver, sender, out, inFlight, flagged, cancelled, screenVars,
                 channelVars, phoneVars>>

\* dispatch_ai_chat when too many are in flight: the counter goes up and down
\* again, which nobody else reads, and the refusal is told.
Refuse(c) ==
  /\ receiver = "open" /\ link
  /\ chat[c] = "none" /\ inFlight >= MaxInflight
  /\ chat' = [chat EXCEPT ![c] = "refused"]
  /\ Tell(c)
  /\ Overlaps(c)
  /\ UNCHANGED <<linkVars, receiver, sender, out, inFlight, handles, flagged, cancelled,
                 screenVars, channelVars, phoneVars>>

InsertBug(c) ==   \* entry().or_insert
  handles' = [handles EXCEPT ![Conversation[c]] = IF @ = None THEN c ELSE @]

Insert(c) == handles' = [handles EXCEPT ![Conversation[c]] = c]

\* dispatch_ai_chat and the handler, which starts a thread.
Dispatch(c) ==
  /\ receiver = "open" /\ link
  /\ chat[c] = "none" /\ inFlight < MaxInflight
  /\ inFlight' = inFlight + 1
  /\ Insert(c)
  /\ chat' = [chat EXCEPT ![c] = "running"]
  /\ Overlaps(c)
  /\ UNCHANGED <<linkVars, receiver, sender, out, flagged, cancelled, events,
                 screenVars, channelVars, phoneVars>>

NoThreadBug(c) ==   \* the slot is not given back
  /\ receiver = "open" /\ link
  /\ chat[c] = "none" /\ inFlight < MaxInflight
  /\ inFlight' = inFlight + 1
  /\ Insert(c)
  /\ chat' = [chat EXCEPT ![c] = "refused"]
  /\ Tell(c)
  /\ Overlaps(c)
  /\ UNCHANGED <<linkVars, receiver, sender, out, flagged, cancelled, screenVars,
                 channelVars, phoneVars>>

\* No handler is registered, or no thread can be started: the slot is given
\* back and an error told.
NoThread(c) ==
  /\ receiver = "open" /\ link
  /\ chat[c] = "none" /\ inFlight < MaxInflight
  /\ Insert(c)
  /\ chat' = [chat EXCEPT ![c] = "refused"]
  /\ Tell(c)
  /\ Overlaps(c)
  /\ UNCHANGED <<linkVars, receiver, sender, out, inFlight, flagged, cancelled, screenVars,
                 channelVars, phoneVars>>

\* AiCancel: the handle is removed and its flag set.
Cancel(i) ==
  /\ receiver = "open" /\ link
  /\ flagged' = flagged \cup {c \in Chats : c = handles[i] /\ chat[c] = "running"}
  /\ handles' = [handles EXCEPT ![i] = None]
  /\ cancelled' = cancelled \cup {c \in Chats : Conversation[c] = i /\ chat[c] = "running"}
  /\ UNCHANGED <<linkVars, receiver, sender, out, chat, inFlight, shared, events,
                 screenVars, channelVars, phoneVars>>

PhoneGone ==
  /\ link
  /\ link' = FALSE
  /\ UNCHANGED <<limit, kind, receiver, sender, out, chatVars, events, screenVars, channelVars, phoneVars>>

\* The loop ends and aborts the send task, which drops what it was about.
ReceiveEnd ==
  /\ receiver = "open" /\ ~ link
  /\ receiver' = "over" /\ sender' = "over"
  /\ out' = Nothing /\ events' = <<>> /\ ring' = <<>> /\ lagged' = FALSE
  /\ UNCHANGED <<linkVars, chatVars, screenVars, phoneVars>>

\* An error of the tunnel's socket returns at once: the send task goes on.
ReceiveError ==
  /\ receiver = "open" /\ ~ link /\ kind = "tunnel"
  /\ receiver' = "over"
  /\ UNCHANGED <<linkVars, sender, out, chatVars, events, screenVars, channelVars, phoneVars>>

---------------------------------------------------------------------------
(* The thread of a chat.                                                   *)

\* Its flag is of no use any more.
Over(c, end) ==
  /\ chat[c] = "running"
  /\ chat' = [chat EXCEPT ![c] = end]
  /\ flagged' = flagged \ {c} /\ cancelled' = cancelled \ {c} /\ shared' = shared \ {c}

\* run_chat has its result or its error, and tells.
Reply(c) ==
  /\ Over(c, "replied")
  /\ Tell(c)
  /\ UNCHANGED <<linkVars, receiver, sender, out, inFlight, handles, screenVars, channelVars,
                 phoneVars>>

\* The guard gives the slot back, after a reply
Release(c) ==
  /\ chat[c] = "replied"
  /\ chat' = [chat EXCEPT ![c] = "ended"]
  /\ inFlight' = inFlight - 1
  /\ UNCHANGED <<linkVars, receiver, sender, out, handles, flagged, cancelled, shared, events,
                 screenVars, channelVars, phoneVars>>

\* or after a panic, of which nothing is told.
Panic(c) ==
  /\ Over(c, "panicked")
  /\ inFlight' = inFlight - 1
  /\ UNCHANGED <<linkVars, receiver, sender, out, handles, events, screenVars, channelVars,
                 phoneVars>>

---------------------------------------------------------------------------
(* The send task. The events of chats come first.                          *)

SenderStops ==
  /\ sender' = "over" /\ out' = Nothing
  /\ events' = <<>> /\ ring' = <<>> /\ lagged' = FALSE

\* The end of a chat: the handle of its conversation goes before it is told.
TakeEnd ==
  /\ sender = "select" /\ events # <<>>
  /\ handles' = [handles EXCEPT ![Conversation[Head(events)]] = None]
  /\ out' = EndOf(Head(events)) /\ events' = Tail(events)
  /\ sender' = "send"
  /\ UNCHANGED <<linkVars, receiver, chat, inFlight, flagged, cancelled, shared, screenVars,
                 channelVars, phoneVars>>

\* Every clone of ai_tx is dropped: the receive loop's and the chats'.
NobodyTells ==
  /\ events = <<>> /\ receiver = "over"
  /\ \A c \in Chats : chat[c] \notin {"running", "replied"}

TakeNoneBug ==   \* a closed channel is no reason to end
  /\ sender = "select" /\ NobodyTells
  /\ UNCHANGED vars

TakeNone ==
  /\ sender = "select" /\ NobodyTells
  /\ SenderStops
  /\ UNCHANGED <<linkVars, receiver, chatVars, screenVars, phoneVars>>

\* A screen, the oldest that is kept.
TakeScreen ==
  /\ sender = "select" /\ events = <<>> /\ ~ NobodyTells
  /\ ~ lagged /\ ring # <<>>
  /\ out' = Screen(Head(ring)) /\ ring' = Tail(ring)
  /\ sender' = "send"
  /\ UNCHANGED <<linkVars, receiver, chatVars, events, screenVars, lagged, phoneVars>>

TakeLaggedBug ==   \* having lagged ends the task
  /\ sender = "select" /\ events = <<>> /\ ~ NobodyTells
  /\ lagged
  /\ SenderStops
  /\ UNCHANGED <<linkVars, receiver, chatVars, screenVars, phoneVars>>

\* Some were missed: on to those that are kept.
TakeLagged ==
  /\ sender = "select" /\ events = <<>> /\ ~ NobodyTells
  /\ lagged
  /\ lagged' = FALSE
  /\ UNCHANGED <<linkVars, receiver, sender, out, chatVars, events, screenVars, ring, phoneVars>>

\* The channel is closed, since the pane was removed.
TakeClosed ==
  /\ sender = "select" /\ events = <<>> /\ ~ NobodyTells
  /\ ~ lagged /\ ring = <<>> /\ channel = "closed"
  /\ SenderStops
  /\ UNCHANGED <<linkVars, receiver, chatVars, screenVars, phoneVars>>

Deliver ==
  /\ sender = "send" /\ link
  /\ \/ out.k = "end" /\ answered' = [answered EXCEPT ![out.chat] = @ + 1] /\ UNCHANGED shown
     \/ out.k = "screen" /\ shown' = out.n /\ UNCHANGED answered
  /\ sender' = "select" /\ out' = Nothing
  /\ UNCHANGED <<linkVars, receiver, chatVars, events, screenVars, channelVars>>

SendFails ==
  /\ sender = "send" /\ ~ link
  /\ SenderStops
  /\ UNCHANGED <<linkVars, receiver, chatVars, screenVars, phoneVars>>

Sender ==
  \/ TakeEnd \/ TakeNone \/ TakeScreen \/ TakeLagged \/ TakeClosed
  \/ Deliver \/ SendFails

Opening == Capture \/ Greet \/ GreetFails

Next ==
  \/ Output \/ OnPaneOutput \/ OnPaneRemoved
  \/ Subscribe \/ Opening
  \/ \E c \in limit.chats : Refuse(c) \/ Dispatch(c) \/ NoThread(c)
  \/ \E i \in Ids : Cancel(i)
  \/ PhoneGone \/ ReceiveEnd \/ ReceiveError
  \/ \E c \in Chats : Reply(c) \/ Release(c) \/ Panic(c)
  \/ Sender

\* The tasks of the session go on, a send to a phone that
\* is connected gets through, and a chat ends once its flag is set: chat_step
\* looks at it between two lines and between two attempts, and no request is
\* without a timeout. Of another chat nothing is assumed.
Fairness ==
  /\ WF_vars(Opening) /\ WF_vars(Sender)
  /\ \A c \in Chats : WF_vars(c \in flagged /\ (Reply(c) \/ Panic(c)))

Spec == Init /\ [][Next]_vars /\ Fairness

---------------------------------------------------------------------------
(* Properties.                                                             *)

\* A slot is held by each chat that runs or has not yet let go of it, and by
\* nothing else, however chats are refused, fail to start or end.
TypeOK ==
  /\ limit \in Limits /\ kind \in {"local", "tunnel"} /\ link \in BOOLEAN
  /\ receiver \in {"new", "capture", "greet", "open", "over"}
  /\ sender \in {"none", "select", "send", "over"} /\ out \in Things
  /\ chat \in [Chats -> {"none", "running", "replied", "ended", "panicked", "refused"}]
  /\ inFlight \in 0..MaxInflight
  /\ inFlight = Cardinality({c \in Chats : chat[c] \in {"running", "replied"}})
  /\ handles \in [Ids -> Chats \cup {None}]
  /\ flagged \subseteq Chats /\ cancelled \subseteq Chats /\ shared \subseteq Chats
  /\ events \in Seq(Chats)
  /\ content \in 0..MaxFrames /\ notice \in BOOLEAN /\ pane \in BOOLEAN
  /\ channel \in {"none", "open", "closed"}
  /\ ring \in Seq(0..MaxFrames) /\ Len(ring) <= Backlog /\ lagged \in BOOLEAN
  /\ answered \in [Chats -> Nat] /\ shown \in -1..MaxFrames /\ owed \in 0..MaxFrames

\* As long as somebody sends, every request of the phone is told an end once,
\* whether refused, failed or answered, and none before it has ended; only a
\* panic goes untold.
ToldOnce ==
  \A c \in Chats :
    LET told == answered[c] + Cardinality({i \in 1..Len(events) : events[i] = c})
                            + IF out = EndOf(c) THEN 1 ELSE 0
    IN  /\ told <= 1
        /\ chat[c] \in {"none", "running", "panicked"} => told = 0
        /\ chat[c] \in {"replied", "ended", "refused"} /\ sender # "over" => told = 1

\* "so a later AiCancel can abort" (lib.rs:133): a chat that was running when
\* the phone cancelled its conversation ends, whatever became of other chats;
\* unless it overlapped with one of the same conversation, whose start or end
\* takes its handle away.
CancelEnds == \A c \in Chats : c \in cancelled \ shared ~> chat[c] # "running"

\* However a session ends, its send task ends when its chats have: nothing of
\* it stays.
SenderEnds ==
  receiver = "over" /\ sender # "none" /\ (\A c \in Chats : chat[c] \notin {"running", "replied"})
    ~> sender = "over"

\* The phone sees each screen that was broadcast, or a later one, in spite of
\* what was overwritten, while it is connected and the pane is there.
ScreenCatchesUp ==
  \A n \in 0..MaxFrames : owed = n /\ receiver # "new" ~> shown >= n \/ ~ link \/ ~ pane
=============================================================================
