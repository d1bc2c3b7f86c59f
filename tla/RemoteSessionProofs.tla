------------------------ MODULE RemoteSessionProofs ------------------------
(***************************************************************************)
(* Proofs about RemoteSession, for any requests, conversations, number of  *)
(* slots and length of the channel: a slot is held by each chat under way  *)
(* and by nothing else, and each request is told its end once.             *)
(*                                                                         *)
(* Neither is inductive alone. That an end is told once needs that nothing *)
(* is being sent when the send task takes something or begins, which is a  *)
(* matter of where the two tasks of a session may be (TasksAgree).         *)
(***************************************************************************)
EXTENDS RemoteSession, FiniteSetTheorems, SequenceTheorems, TLAPS

\* The chats that hold a slot.
Held == {c \in Chats : chat[c] \in {"running", "replied"}}

Types ==
  /\ limit \in Limits /\ kind \in {"local", "tunnel"} /\ link \in BOOLEAN
  /\ receiver \in {"new", "capture", "greet", "open", "over"}
  /\ sender \in {"none", "select", "send", "over"} /\ out \in Things
  /\ chat \in [Chats -> {"none", "running", "replied", "ended", "panicked", "refused"}]
  /\ inFlight \in 0..MaxInflight
  /\ handles \in [Ids -> Chats \cup {None}]
  /\ flagged \subseteq Chats /\ cancelled \subseteq Chats /\ shared \subseteq Chats
  /\ events \in Seq(Chats)
  /\ content \in 0..MaxFrames /\ notice \in BOOLEAN /\ pane \in BOOLEAN
  /\ channel \in {"none", "open", "closed"}
  /\ ring \in Seq(0..MaxFrames) /\ Len(ring) <= Backlog /\ lagged \in BOOLEAN
  /\ answered \in [Chats -> Nat] /\ shown \in -1..MaxFrames /\ owed \in 0..MaxFrames

Slots == IsFiniteSet(Held) /\ inFlight = Cardinality(Held)

\* The send task begins when the first screen is sent or there is none, and
\* what is being sent is known by where the tasks are.
TasksAgree ==
  /\ receiver \in {"new", "capture", "greet"} => sender = "none"
  /\ receiver \in {"new", "capture"} => out = Nothing
  /\ receiver = "greet" => out.k = "screen"
  /\ sender = "none" => out.k # "end"
  /\ sender = "select" => out = Nothing
  /\ sender = "send" => out.k \in {"end", "screen"}

\* Where chat c is in what was told, is to be told and is being told.
Places(s, c) == {i \in 1..Len(s) : s[i] = c}
Sending(c) == IF out = EndOf(c) THEN 1 ELSE 0
Told(c) == answered[c] + Cardinality(Places(events, c)) + Sending(c)

ToldWell(c) ==
  /\ Told(c) <= 1
  /\ chat[c] \in {"none", "running", "panicked"} => Told(c) = 0
  /\ chat[c] \in {"replied", "ended", "refused"} /\ sender # "over" => Told(c) = 1

IInv == Types /\ Slots /\ TasksAgree /\ \A c \in Chats : ToldWell(c)

LEMMA IInvImplies == IInv => TypeOK /\ ToldOnce
<1>1. IInv => TypeOK
  BY DEF IInv, Types, Slots, Held, TypeOK
<1>2. IInv => ToldOnce
  BY DEF IInv, ToldWell, Told, Places, Sending, ToldOnce
<1> QED BY <1>1, <1>2

---------------------------------------------------------------------------
(* Counting in a sequence.                                                 *)

LEMMA PlacesFinite ==
  ASSUME NEW S, NEW s \in Seq(S), NEW c
  PROVE  /\ IsFiniteSet(Places(s, c)) /\ Cardinality(Places(s, c)) \in Nat
         /\ Len(s) \in Nat
<1>1. Len(s) \in Nat
  BY LenProperties
<1>2. IsFiniteSet(1..Len(s))
  BY <1>1, FS_Interval
<1>3. Places(s, c) \subseteq 1..Len(s)
  BY DEF Places
<1>4. IsFiniteSet(Places(s, c))
  BY <1>2, <1>3, FS_Subset
<1> QED BY <1>1, <1>4, FS_CardinalityType

LEMMA PlacesEmpty == ASSUME NEW c PROVE Cardinality(Places(<<>>, c)) = 0
<1>1. Places(<<>>, c) = {}
  BY DEF Places
<1> QED BY <1>1, FS_EmptySet

LEMMA PlacesAppend ==
  ASSUME NEW S, NEW s \in Seq(S), NEW e \in S, NEW c
  PROVE  Cardinality(Places(Append(s, e), c)) =
           Cardinality(Places(s, c)) + IF e = c THEN 1 ELSE 0
<1> DEFINE n == Len(s)
<1>1. /\ n \in Nat /\ Len(Append(s, e)) = n + 1 /\ Append(s, e)[n + 1] = e
      /\ \A i \in 1..n : Append(s, e)[i] = s[i]
  BY LenProperties, AppendProperties
<1>2. n + 1 \notin Places(s, c)
  BY <1>1 DEF Places
<1>3. CASE e = c
  <2>1. Places(Append(s, e), c) = Places(s, c) \cup {n + 1}
    BY <1>1, <1>3 DEF Places
  <2>2. Cardinality(Places(s, c) \cup {n + 1}) = Cardinality(Places(s, c)) + 1
    BY <1>2, PlacesFinite, FS_AddElement
  <2> QED BY <2>1, <2>2, <1>3
<1>4. CASE e # c
  <2>1. Places(Append(s, e), c) = Places(s, c)
    BY <1>1, <1>4 DEF Places
  <2> QED BY <2>1, <1>4, PlacesFinite
<1> QED BY <1>3, <1>4

LEMMA PlacesTail ==
  ASSUME NEW S, NEW s \in Seq(S), s # <<>>, NEW c
  PROVE  Cardinality(Places(s, c)) =
           Cardinality(Places(Tail(s), c)) + IF Head(s) = c THEN 1 ELSE 0
<1> DEFINE rest == Places(s, c) \ {1}
           down == [i \in rest |-> i - 1]
<1>1. /\ Len(s) \in Nat \ {0} /\ Head(s) = s[1]
      /\ Tail(s) \in Seq(S) /\ Len(Tail(s)) = Len(s) - 1
      /\ \A i \in 1..Len(Tail(s)) : Tail(s)[i] = s[i + 1]
  BY EmptySeq, LenProperties, HeadTailProperties
<1>2. /\ IsFiniteSet(Places(s, c)) /\ IsFiniteSet(rest)
      /\ Cardinality(Places(s, c)) \in Nat
  BY PlacesFinite, FS_RemoveElement
<1>3. down \in Bijection(rest, Places(Tail(s), c))
  <2>1. down \in [rest -> Places(Tail(s), c)]
    <3>1. ASSUME NEW i \in rest PROVE i - 1 \in Places(Tail(s), c)
      BY <1>1 DEF Places
    <3> QED BY <3>1
  <2>2. \A i, j \in rest : down[i] = down[j] => i = j
    BY <1>1 DEF Places
  <2>3. \A j \in Places(Tail(s), c) : \E i \in rest : down[i] = j
    <3>1. ASSUME NEW j \in Places(Tail(s), c) PROVE j + 1 \in rest /\ down[j + 1] = j
      BY <1>1 DEF Places
    <3> QED BY <3>1
  <2> HIDE DEF down, rest
  <2> QED BY <2>1, <2>2, <2>3 DEF Bijection, Injection, Surjection, IsInjective
<1>4. Cardinality(Places(Tail(s), c)) = Cardinality(rest)
  <2>1. ExistsBijection(rest, Places(Tail(s), c))
    BY <1>3 DEF ExistsBijection
  <2> HIDE DEF rest
  <2> QED BY <2>1, <1>2, FS_Bijection
<1>5. CASE Head(s) = c
  <2>1. 1 \in Places(s, c)
    BY <1>1, <1>5 DEF Places
  <2>2. Cardinality(rest) = Cardinality(Places(s, c)) - 1
    BY <2>1, <1>2, FS_RemoveElement
  <2> QED BY <2>2, <1>2, <1>4, <1>5
<1>6. CASE Head(s) # c
  <2>1. rest = Places(s, c)
    BY <1>1, <1>6 DEF Places
  <2>2. Cardinality(Places(Tail(s), c)) = Cardinality(Places(s, c))
    BY <2>1, <1>4
  <2> HIDE DEF rest
  <2> QED BY <2>2, <1>2, <1>6
<1> QED BY <1>5, <1>6
---------------------------------------------------------------------------
(* What the steps do to each part of the invariant.                        *)

\* Slots: a chat takes one, one gives it back, or the holders stay the same.
LEMMA SlotsKept ==
  ASSUME Slots, Held' = Held, inFlight' = inFlight
  PROVE  Slots'
BY DEF Slots

LEMMA SlotTaken ==
  ASSUME Types, Slots, NEW c \in Chats, chat[c] = "none", inFlight' = inFlight + 1,
         chat' = [chat EXCEPT ![c] = "running"]
  PROVE  Slots'
<1>1. c \notin Held
  BY DEF Held
<1>2. Held' = Held \cup {c}
  BY DEF Held, Types
<1>3. IsFiniteSet(Held \cup {c}) /\ Cardinality(Held \cup {c}) = Cardinality(Held) + 1
  BY <1>1, FS_AddElement DEF Slots
<1> QED BY <1>2, <1>3 DEF Slots

LEMMA SlotGivenBack ==
  ASSUME Types, Slots, NEW c \in Chats, c \in Held, inFlight' = inFlight - 1,
         NEW end \in {"ended", "panicked"}, chat' = [chat EXCEPT ![c] = end]
  PROVE  Slots' /\ inFlight > 0
<1>1. Held' = Held \ {c}
  BY DEF Held, Types
<1>2. IsFiniteSet(Held \ {c}) /\ Cardinality(Held \ {c}) = Cardinality(Held) - 1
  BY FS_RemoveElement DEF Slots
<1>3. Cardinality(Held \ {c}) \in Nat /\ Cardinality(Held) \in Nat
  BY <1>2, FS_CardinalityType DEF Slots
<1> QED BY <1>1, <1>2, <1>3 DEF Slots

\* The count of what a chat was told is a number.
LEMMA ToldType ==
  ASSUME Types, NEW c \in Chats
  PROVE  /\ answered[c] \in Nat /\ Cardinality(Places(events, c)) \in Nat
         /\ Sending(c) \in Nat /\ Told(c) \in Nat
<1>1. answered[c] \in Nat /\ Sending(c) \in Nat
  BY DEF Types, Sending
<1>2. Cardinality(Places(events, c)) \in Nat
  BY PlacesFinite DEF Types
<1> QED BY <1>1, <1>2 DEF Told

\* Ends are told as they were while nothing of them changes.
LEMMA ToldKept ==
  ASSUME NEW c \in Chats, ToldWell(c), chat'[c] = chat[c], Told(c)' = Told(c),
         sender' # "over" => sender # "over"
  PROVE  ToldWell(c)'
BY DEF ToldWell

\* When the send task stops, what was to be told is not.
LEMMA ToldNoMore ==
  ASSUME Types, NEW c \in Chats, ToldWell(c), UNCHANGED <<chat, answered>>,
         sender' = "over", out' = Nothing, events' = <<>>
  PROVE  ToldWell(c)'
<1>1. Cardinality(Places(events, c))' = 0
  BY PlacesEmpty
<1>2. Sending(c)' = 0
  BY DEF Sending, EndOf, Nothing
<1>3. Told(c)' = answered[c] /\ Told(c)' <= Told(c)
  BY <1>1, <1>2, ToldType DEF Told
<1> QED BY <1>3, ToldType DEF ToldWell

\* A chat that has not ended ends, and tells.
LEMMA ToldByTell ==
  ASSUME Types, NEW d \in Chats, chat[d] \in {"none", "running"},
         NEW end \in {"refused", "replied"}, chat' = [chat EXCEPT ![d] = end],
         Tell(d), UNCHANGED <<answered, out, sender>>,
         NEW c \in Chats, ToldWell(c)
  PROVE  ToldWell(c)'
<1>1. Sending(c)' = Sending(c)
  BY DEF Sending
<1>2. /\ chat[d] \in {"none", "running"} /\ chat'[d] = end
      /\ c # d => chat'[c] = chat[c]
  BY DEF Types
<1>3. CASE sender = "over"
  <2>1. events' = events
    BY <1>3 DEF Tell
  <2>2. Told(c)' = Told(c)
    BY <2>1, <1>1 DEF Told
  <2> QED BY <1>2, <1>3, <2>2, ToldType DEF ToldWell
<1>4. CASE sender # "over"
  <2>1. events' = Append(events, d)
    BY <1>4 DEF Tell
  <2>2. Cardinality(Places(events, c))' = Cardinality(Places(events, c)) + IF d = c THEN 1 ELSE 0
    BY <2>1, PlacesAppend DEF Types
  <2>3. Told(c)' = Told(c) + IF d = c THEN 1 ELSE 0
    BY <2>2, <1>1, ToldType DEF Told
  <2> QED BY <1>2, <2>3, ToldType DEF ToldWell
<1> QED BY <1>3, <1>4

\* A chat moves on without a word, having told its end or not.
LEMMA ToldInSilence ==
  ASSUME Types, NEW d \in Chats, UNCHANGED <<answered, out, sender, events>>,
         NEW end, chat' = [chat EXCEPT ![d] = end],
         \/ chat[d] \in {"none", "running"} /\ end \in {"running", "panicked"}
         \/ chat[d] = "replied" /\ end = "ended",
         NEW c \in Chats, ToldWell(c)
  PROVE  ToldWell(c)'
<1>1. Told(c)' = Told(c)
  BY DEF Told, Sending
<1>2. chat'[d] = end /\ (c # d => chat'[c] = chat[c])
  BY DEF Types
<1> QED BY <1>1, <1>2 DEF ToldWell

\* The send task takes the end of a chat from the channel
LEMMA ToldByTaking ==
  ASSUME Types, TasksAgree, TakeEnd, NEW c \in Chats, ToldWell(c)
  PROVE  ToldWell(c)'
<1>1. /\ out = Nothing /\ out' = EndOf(Head(events)) /\ events' = Tail(events)
      /\ events # <<>> /\ UNCHANGED <<answered, chat>> /\ sender # "over"
  BY DEF TakeEnd, TasksAgree, phoneVars
<1>2. Cardinality(Places(events, c)) =
        Cardinality(Places(events, c))' + IF Head(events) = c THEN 1 ELSE 0
  BY <1>1, PlacesTail DEF Types
<1>3. Sending(c) = 0 /\ Sending(c)' = IF Head(events) = c THEN 1 ELSE 0
  BY <1>1 DEF Sending, EndOf, Nothing
<1>4. Tail(events) \in Seq(Chats)
  BY <1>1, HeadTailProperties DEF Types
<1>5. Cardinality(Places(events, c))' \in Nat
  BY <1>1, <1>4, PlacesFinite
<1>6. Told(c)' = Told(c)
  BY <1>1, <1>2, <1>3, <1>5, ToldType DEF Told
<1> QED BY <1>1, <1>6, ToldKept

\* and sends it.
LEMMA ToldByDelivery ==
  ASSUME Types, Deliver, NEW c \in Chats, ToldWell(c)
  PROVE  ToldWell(c)'
<1>1. sender = "send" /\ out' = Nothing /\ UNCHANGED <<events, chat>>
  BY DEF Deliver, chatVars
<1>2. Sending(c)' = 0
  BY <1>1 DEF Sending, EndOf, Nothing
<1>3. CASE out.k = "end" /\ answered' = [answered EXCEPT ![out.chat] = @ + 1]
  <2>1. PICK d \in Chats : out = EndOf(d)
    BY <1>3 DEF Types, Things, Nothing, Screen, EndOf
  <2>2. out.chat = d /\ (out = EndOf(c) <=> d = c)
    BY <2>1 DEF EndOf
  <2>3. answered'[c] = answered[c] + Sending(c)
    BY <1>3, <2>2 DEF Types, Sending
  <2>4. Told(c)' = Told(c)
    BY <1>1, <1>2, <2>3, ToldType DEF Told
  <2> QED BY <1>1, <2>4, ToldKept
<1>4. CASE out.k = "screen" /\ UNCHANGED answered
  <2>1. Sending(c) = 0
    BY <1>4 DEF Sending, EndOf
  <2>2. Told(c)' = Told(c)
    BY <1>1, <1>2, <1>4, <2>1 DEF Told
  <2> QED BY <1>1, <2>2, ToldKept
<1> QED BY <1>3, <1>4 DEF Deliver

\* Every other step leaves alone what is told of chats.
LEMMA ToldByNobody ==
  ASSUME NEW c \in Chats, ToldWell(c), UNCHANGED <<answered, events, chat>>,
         out' = out \/ (out.k # "end" /\ out'.k # "end"),
         sender' # "over" => sender # "over"
  PROVE  ToldWell(c)'
<1>1. Sending(c)' = Sending(c)
  BY DEF Sending, EndOf
<1>2. Told(c)' = Told(c)
  BY <1>1 DEF Told
<1> QED BY <1>2, ToldKept
---------------------------------------------------------------------------
(* The invariant.                                                          *)

\* The two channels, as they are filled and emptied.
LEMMA Emptied ==
  /\ <<>> \in Seq(Chats) /\ <<>> \in Seq(0..MaxFrames) /\ Len(<<>>) = 0
  /\ Len(<<>>) <= Backlog
BY EmptySeq, RemoteAssumption

LEMMA TellType == ASSUME Types, NEW d \in Chats, Tell(d) PROVE events' \in Seq(Chats)
<1>1. Append(events, d) \in Seq(Chats)
  BY AppendProperties DEF Types
<1> QED BY <1>1 DEF Tell, Types

LEMMA TakenType ==
  ASSUME NEW S, NEW s \in Seq(S), s # <<>>
  PROVE  /\ Head(s) \in S /\ Tail(s) \in Seq(S)
         /\ Len(s) \in Nat /\ Len(Tail(s)) = Len(s) - 1
BY LenProperties, HeadTailProperties

LEMMA OverwrittenType ==
  ASSUME Types, NEW r, r = Append(IF Len(ring) = Backlog THEN Tail(ring) ELSE ring, content)
  PROVE  r \in Seq(0..MaxFrames) /\ Len(r) <= Backlog
<1> DEFINE kept == IF Len(ring) = Backlog THEN Tail(ring) ELSE ring
<1>1. ring \in Seq(0..MaxFrames) /\ Len(ring) \in Nat /\ Len(ring) <= Backlog
  BY LenProperties DEF Types
<1>2. kept \in Seq(0..MaxFrames) /\ Len(kept) \in Nat /\ Len(kept) <= Backlog - 1
  <2>1. CASE Len(ring) = Backlog
    <3>1. ring # <<>>
      BY <2>1, Emptied, RemoteAssumption
    <3>2. Tail(ring) \in Seq(0..MaxFrames) /\ Len(Tail(ring)) = Len(ring) - 1
      BY <3>1, <1>1, TakenType
    <3> QED BY <2>1, <3>2, RemoteAssumption
  <2>2. CASE Len(ring) # Backlog
    BY <2>2, <1>1, RemoteAssumption
  <2> QED BY <2>1, <2>2
<1>3. content \in 0..MaxFrames
  BY DEF Types
<1> HIDE DEF kept
<1>4. Append(kept, content) \in Seq(0..MaxFrames) /\ Len(Append(kept, content)) = Len(kept) + 1
  BY <1>2, <1>3, AppendProperties
<1> QED BY <1>2, <1>4, RemoteAssumption DEF kept

\* A step that changes no chat and tells nothing.
LEMMA QuietStep ==
  ASSUME Slots, \A c \in Chats : ToldWell(c),
         UNCHANGED <<chat, inFlight, answered, events>>,
         out' = out \/ (out.k # "end" /\ out'.k # "end"),
         sender' # "over" => sender # "over"
  PROVE  Slots' /\ \A c \in Chats : ToldWell(c)'
<1>1. Slots'
  <2>1. Held' = Held
    BY DEF Held
  <2> QED BY <2>1, SlotsKept
<1> QED BY <1>1, ToldByNobody

LEMMA InitHolds == Init => IInv
<1> SUFFICES ASSUME Init PROVE IInv
  OBVIOUS
<1>1. Types
  <2>1. limit \in Limits /\ 0 \in 0..MaxFrames /\ 0 \in 0..MaxInflight /\ -1 \in -1..MaxFrames
    BY RemoteAssumption DEF Init
  <2>2. ring \in Seq(0..MaxFrames) /\ Len(ring) <= Backlog /\ events \in Seq(Chats)
    BY Emptied DEF Init
  <2>3. /\ handles \in [Ids -> Chats \cup {None}] /\ answered \in [Chats -> Nat]
        /\ chat \in [Chats -> {"none", "running", "replied", "ended", "panicked", "refused"}]
    BY DEF Init
  <2> QED BY <2>1, <2>2, <2>3 DEF Init, Types, Things
<1>2. Slots
  <2>1. Held = {}
    BY DEF Init, Held
  <2> QED BY <2>1, FS_EmptySet DEF Init, Slots
<1>3. TasksAgree
  BY DEF Init, TasksAgree, Nothing
<1>4. ASSUME NEW c \in Chats PROVE ToldWell(c)
  <2>1. Sending(c) = 0
    BY DEF Init, Sending, EndOf, Nothing
  <2>2. Cardinality(Places(events, c)) = 0
    BY PlacesEmpty DEF Init
  <2>3. answered[c] = 0 /\ chat[c] = "none"
    BY DEF Init
  <2>4. Told(c) = 0
    BY <2>1, <2>2, <2>3 DEF Told
  <2> QED BY <2>3, <2>4 DEF ToldWell
<1> QED BY <1>1, <1>2, <1>3, <1>4 DEF IInv

LEMMA StepHolds == IInv /\ [Next]_vars => IInv'
<1> SUFFICES ASSUME IInv, [Next]_vars PROVE IInv'
  OBVIOUS
<1> USE RemoteAssumption DEF linkVars, chatVars, screenVars, channelVars, phoneVars
<1>0. Types /\ Slots /\ TasksAgree /\ \A c \in Chats : ToldWell(c)
  BY DEF IInv
<1>1. CASE Output
  <2>1. Types'
    BY <1>1, <1>0 DEF Output, Types
  <2>2. TasksAgree'
    BY <1>1, <1>0 DEF Output, TasksAgree
  <2>3. Slots' /\ \A c \in Chats : ToldWell(c)'
    BY <1>1, <1>0, QuietStep DEF Output
  <2> QED BY <2>1, <2>2, <2>3 DEF IInv
<1>2. CASE OnPaneOutput
  <2>1. ring' \in Seq(0..MaxFrames) /\ Len(ring') <= Backlog /\ owed' \in 0..MaxFrames
    BY <1>2, <1>0, OverwrittenType DEF OnPaneOutput, Types
  <2>2. /\ notice' \in BOOLEAN /\ lagged' \in BOOLEAN
        /\ UNCHANGED <<linkVars, receiver, sender, out, chatVars, events, content, pane, channel,
                       phoneVars>>
    BY <1>2, <1>0 DEF OnPaneOutput, Types
  <2>3. Types'
    BY <1>0, <2>1, <2>2 DEF Types
  <2>4. TasksAgree'
    BY <1>2, <1>0 DEF OnPaneOutput, TasksAgree
  <2>5. Slots' /\ \A c \in Chats : ToldWell(c)'
    BY <1>2, <1>0, QuietStep DEF OnPaneOutput
  <2> QED BY <2>3, <2>4, <2>5 DEF IInv
<1>3. CASE OnPaneRemoved
  <2>1. Types'
    BY <1>3, <1>0 DEF OnPaneRemoved, Types
  <2>2. TasksAgree'
    BY <1>3, <1>0 DEF OnPaneRemoved, TasksAgree
  <2>3. Slots' /\ \A c \in Chats : ToldWell(c)'
    BY <1>3, <1>0, QuietStep DEF OnPaneRemoved
  <2> QED BY <2>1, <2>2, <2>3 DEF IInv
<1>4. CASE Subscribe
  <2>1. Types'
    BY <1>4, <1>0 DEF Subscribe, Types
  <2>2. TasksAgree'
    BY <1>4, <1>0 DEF Subscribe, TasksAgree
  <2>3. Slots' /\ \A c \in Chats : ToldWell(c)'
    BY <1>4, <1>0, QuietStep DEF Subscribe
  <2> QED BY <2>1, <2>2, <2>3 DEF IInv
<1>5. CASE Capture
  <2>1. Types'
    BY <1>5, <1>0 DEF Capture, Types, Things
  <2>2. TasksAgree'
    BY <1>5, <1>0 DEF Capture, TasksAgree, Screen, Nothing
  <2>3. Slots' /\ \A c \in Chats : ToldWell(c)'
    BY <1>5, <1>0, QuietStep DEF Capture, TasksAgree, Screen, Nothing
  <2> QED BY <2>1, <2>2, <2>3 DEF IInv
<1>6. CASE Greet
  <2>1. Types'
    BY <1>6, <1>0 DEF Greet, Types, Things, Screen, EndOf, Nothing, TasksAgree
  <2>2. TasksAgree'
    BY <1>6, <1>0 DEF Greet, TasksAgree, Nothing
  <2>3. Slots' /\ \A c \in Chats : ToldWell(c)'
    BY <1>6, <1>0, QuietStep DEF Greet, TasksAgree, Nothing
  <2> QED BY <2>1, <2>2, <2>3 DEF IInv
<1>7. CASE GreetFails
  <2>1. Types'
    BY <1>7, <1>0, Emptied DEF GreetFails, Types, Things
  <2>2. TasksAgree'
    BY <1>7, <1>0 DEF GreetFails, TasksAgree, Nothing
  <2>3. Slots' /\ \A c \in Chats : ToldWell(c)'
    BY <1>7, <1>0, QuietStep DEF GreetFails, TasksAgree, Nothing
  <2> QED BY <2>1, <2>2, <2>3 DEF IInv
<1>8. ASSUME NEW d \in Chats, Refuse(d) PROVE IInv'
  <2>1. Types'
    BY <1>8, <1>0, TellType DEF Refuse, Types, Insert, Overlaps
  <2>2. Slots'
    <3>1. Held' = Held
      BY <1>8, <1>0 DEF Refuse, Held, Types
    <3> QED BY <1>8, <1>0, <3>1, SlotsKept DEF Refuse
  <2>3. TasksAgree'
    BY <1>8, <1>0 DEF Refuse, TasksAgree
  <2>4. \A c \in Chats : ToldWell(c)'
    BY <1>8, <1>0, ToldByTell DEF Refuse
  <2> QED BY <2>1, <2>2, <2>3, <2>4 DEF IInv
<1>9. ASSUME NEW d \in Chats, NoThread(d) PROVE IInv'
  <2>1. Types'
    BY <1>9, <1>0, TellType DEF NoThread, Types, Insert, Overlaps
  <2>2. Slots'
    <3>1. Held' = Held
      BY <1>9, <1>0 DEF NoThread, Held, Types
    <3> QED BY <1>9, <1>0, <3>1, SlotsKept DEF NoThread
  <2>3. TasksAgree'
    BY <1>9, <1>0 DEF NoThread, TasksAgree
  <2>4. \A c \in Chats : ToldWell(c)'
    BY <1>9, <1>0, ToldByTell DEF NoThread
  <2> QED BY <2>1, <2>2, <2>3, <2>4 DEF IInv
<1>10. ASSUME NEW d \in Chats, Dispatch(d) PROVE IInv'
  <2>1. Types'
    BY <1>10, <1>0 DEF Dispatch, Types, Insert, Overlaps
  <2>2. Slots'
    BY <1>10, <1>0, SlotTaken DEF Dispatch
  <2>3. TasksAgree'
    BY <1>10, <1>0 DEF Dispatch, TasksAgree
  <2>4. \A c \in Chats : ToldWell(c)'
    BY <1>10, <1>0, ToldInSilence DEF Dispatch
  <2> QED BY <2>1, <2>2, <2>3, <2>4 DEF IInv
<1>11. ASSUME NEW i \in Ids, Cancel(i) PROVE IInv'
  <2>1. Types'
    BY <1>11, <1>0 DEF Cancel, Types
  <2>2. TasksAgree'
    BY <1>11, <1>0 DEF Cancel, TasksAgree
  <2>3. Slots' /\ \A c \in Chats : ToldWell(c)'
    BY <1>11, <1>0, QuietStep DEF Cancel
  <2> QED BY <2>1, <2>2, <2>3 DEF IInv
<1>12. CASE PhoneGone
  <2>1. /\ link' \in BOOLEAN
        /\ UNCHANGED <<limit, kind, receiver, sender, out, chatVars, events, screenVars, channelVars,
                       phoneVars>>
    BY <1>12, <1>0 DEF PhoneGone, Types
  <2>2. Types'
    BY <1>0, <2>1 DEF Types
  <2>3. TasksAgree'
    BY <1>12, <1>0 DEF PhoneGone, TasksAgree
  <2>4. Slots' /\ \A c \in Chats : ToldWell(c)'
    BY <1>12, <1>0, QuietStep DEF PhoneGone
  <2> QED BY <2>2, <2>3, <2>4 DEF IInv
<1>13. CASE ReceiveEnd
  <2>1. Types'
    BY <1>13, <1>0, Emptied DEF ReceiveEnd, Types, Things
  <2>2. Slots'
    BY <1>13, <1>0, SlotsKept DEF ReceiveEnd, Held
  <2>3. TasksAgree'
    BY <1>13, <1>0 DEF ReceiveEnd, TasksAgree, Nothing
  <2>4. \A c \in Chats : ToldWell(c)'
    BY <1>13, <1>0, ToldNoMore DEF ReceiveEnd
  <2> QED BY <2>1, <2>2, <2>3, <2>4 DEF IInv
<1>14. CASE ReceiveError
  <2>1. Types'
    BY <1>14, <1>0 DEF ReceiveError, Types
  <2>2. TasksAgree'
    BY <1>14, <1>0 DEF ReceiveError, TasksAgree
  <2>3. Slots' /\ \A c \in Chats : ToldWell(c)'
    BY <1>14, <1>0, QuietStep DEF ReceiveError
  <2> QED BY <2>1, <2>2, <2>3 DEF IInv
<1>15. ASSUME NEW d \in Chats, Reply(d) PROVE IInv'
  <2>1. Types'
    BY <1>15, <1>0, TellType DEF Reply, Types, Over
  <2>2. Slots'
    <3>1. Held' = Held
      BY <1>15, <1>0 DEF Reply, Over, Held, Types
    <3> QED BY <1>15, <1>0, <3>1, SlotsKept DEF Reply
  <2>3. TasksAgree'
    BY <1>15, <1>0 DEF Reply, TasksAgree
  <2>4. \A c \in Chats : ToldWell(c)'
    BY <1>15, <1>0, ToldByTell DEF Reply, Over
  <2> QED BY <2>1, <2>2, <2>3, <2>4 DEF IInv
<1>16. ASSUME NEW d \in Chats, Release(d) PROVE IInv'
  <2>1. Slots' /\ inFlight > 0
    BY <1>16, <1>0, SlotGivenBack DEF Release, Held
  <2>2. Types'
    BY <1>16, <1>0, <2>1 DEF Release, Types
  <2>3. Slots'
    BY <2>1
  <2>4. TasksAgree'
    BY <1>16, <1>0 DEF Release, TasksAgree
  <2>5. \A c \in Chats : ToldWell(c)'
    BY <1>16, <1>0, ToldInSilence DEF Release
  <2> QED BY <2>2, <2>3, <2>4, <2>5 DEF IInv
<1>17. ASSUME NEW d \in Chats, Panic(d) PROVE IInv'
  <2>1. Slots' /\ inFlight > 0
    BY <1>17, <1>0, SlotGivenBack DEF Panic, Over, Held
  <2>2. Types'
    BY <1>17, <1>0, <2>1 DEF Panic, Types, Over
  <2>3. Slots'
    BY <2>1
  <2>4. TasksAgree'
    BY <1>17, <1>0 DEF Panic, TasksAgree
  <2>5. \A c \in Chats : ToldWell(c)'
    BY <1>17, <1>0, ToldInSilence DEF Panic, Over
  <2> QED BY <2>2, <2>3, <2>4, <2>5 DEF IInv
<1>18. CASE TakeEnd
  <2>1. Head(events) \in Chats /\ Tail(events) \in Seq(Chats)
    BY <1>18, <1>0, TakenType DEF TakeEnd, Types
  <2>2. /\ out' \in Things /\ events' \in Seq(Chats) /\ sender' = "send"
        /\ handles' \in [Ids -> Chats \cup {None}]
        /\ UNCHANGED <<linkVars, receiver, chat, inFlight, flagged, cancelled, shared, screenVars,
                       channelVars, phoneVars>>
    BY <1>18, <1>0, <2>1 DEF TakeEnd, Types, Things
  <2>3. Types'
    BY <1>0, <2>1, <2>2 DEF Types
  <2>4. Slots'
    BY <1>18, <1>0, SlotsKept DEF TakeEnd, Held
  <2>5. TasksAgree'
    BY <1>18, <1>0 DEF TakeEnd, TasksAgree, EndOf
  <2>6. \A c \in Chats : ToldWell(c)'
    BY <1>18, <1>0, ToldByTaking
  <2> QED BY <2>3, <2>4, <2>5, <2>6 DEF IInv
<1>19. CASE TakeNone
  <2>1. Types'
    BY <1>19, <1>0, Emptied DEF TakeNone, Types, SenderStops, Things
  <2>2. Slots'
    BY <1>19, <1>0, SlotsKept DEF TakeNone, SenderStops, Held
  <2>3. TasksAgree'
    BY <1>19, <1>0 DEF TakeNone, TasksAgree, SenderStops, Nothing
  <2>4. \A c \in Chats : ToldWell(c)'
    BY <1>19, <1>0, ToldNoMore DEF TakeNone, SenderStops
  <2> QED BY <2>1, <2>2, <2>3, <2>4 DEF IInv
<1>20. CASE TakeClosed
  <2>1. Types'
    BY <1>20, <1>0, Emptied DEF TakeClosed, Types, SenderStops, Things
  <2>2. Slots'
    BY <1>20, <1>0, SlotsKept DEF TakeClosed, SenderStops, Held
  <2>3. TasksAgree'
    BY <1>20, <1>0 DEF TakeClosed, TasksAgree, SenderStops, Nothing
  <2>4. \A c \in Chats : ToldWell(c)'
    BY <1>20, <1>0, ToldNoMore DEF TakeClosed, SenderStops
  <2> QED BY <2>1, <2>2, <2>3, <2>4 DEF IInv
<1>21. CASE SendFails
  <2>1. Types'
    BY <1>21, <1>0, Emptied DEF SendFails, Types, SenderStops, Things
  <2>2. Slots'
    BY <1>21, <1>0, SlotsKept DEF SendFails, SenderStops, Held
  <2>3. TasksAgree'
    BY <1>21, <1>0 DEF SendFails, TasksAgree, SenderStops, Nothing
  <2>4. \A c \in Chats : ToldWell(c)'
    BY <1>21, <1>0, ToldNoMore DEF SendFails, SenderStops
  <2> QED BY <2>1, <2>2, <2>3, <2>4 DEF IInv
<1>22. CASE TakeScreen
  <2>1. /\ Head(ring) \in 0..MaxFrames /\ Tail(ring) \in Seq(0..MaxFrames)
        /\ Len(Tail(ring)) <= Backlog
    <3>1. ring \in Seq(0..MaxFrames) /\ ring # <<>> /\ Len(ring) <= Backlog
      BY <1>22, <1>0 DEF TakeScreen, Types
    <3> QED BY <3>1, TakenType
  <2>2. Types'
    BY <1>22, <1>0, <2>1 DEF TakeScreen, Types, Things
  <2>3. TasksAgree'
    BY <1>22, <1>0 DEF TakeScreen, TasksAgree, Screen
  <2>4. Slots' /\ \A c \in Chats : ToldWell(c)'
    BY <1>22, <1>0, QuietStep DEF TakeScreen, TasksAgree, Nothing, Screen
  <2> QED BY <2>2, <2>3, <2>4 DEF IInv
<1>23. CASE TakeLagged
  <2>1. Types'
    BY <1>23, <1>0 DEF TakeLagged, Types
  <2>2. TasksAgree'
    BY <1>23, <1>0 DEF TakeLagged, TasksAgree
  <2>3. Slots' /\ \A c \in Chats : ToldWell(c)'
    BY <1>23, <1>0, QuietStep DEF TakeLagged
  <2> QED BY <2>1, <2>2, <2>3 DEF IInv
<1>24. CASE Deliver
  <2>1. Types'
    BY <1>24, <1>0 DEF Deliver, Types, Things, Nothing, Screen, EndOf
  <2>2. Slots'
    BY <1>24, <1>0, SlotsKept DEF Deliver, Held
  <2>3. TasksAgree'
    BY <1>24, <1>0 DEF Deliver, TasksAgree, Nothing
  <2>4. \A c \in Chats : ToldWell(c)'
    BY <1>24, <1>0, ToldByDelivery
  <2> QED BY <2>1, <2>2, <2>3, <2>4 DEF IInv
<1>25. CASE UNCHANGED vars
  <2>1. Types' /\ TasksAgree'
    BY <1>25, <1>0 DEF vars, Types, TasksAgree
  <2>2. Slots' /\ \A c \in Chats : ToldWell(c)'
    BY <1>25, <1>0, QuietStep DEF vars
  <2> QED BY <2>1, <2>2 DEF IInv
<1>26. limit.chats \subseteq Chats
  BY <1>0 DEF Types
<1> QED BY <1>1, <1>2, <1>3, <1>4, <1>5, <1>6, <1>7, <1>8, <1>9, <1>10, <1>11,
           <1>12, <1>13, <1>14, <1>15, <1>16, <1>17, <1>18, <1>19, <1>20, <1>21,
           <1>22, <1>23, <1>24, <1>25, <1>26
           DEF Next, Opening, Sender

\* The inductive invariant of a session: besides types and slots, where the two
\* tasks may be and what each chat was told.
THEOREM Invariant == Spec => []IInv
BY InitHolds, StepHolds, PTL DEF Spec

\* Types, and that a slot of the session is held by each chat under way and by
\* nothing else (dispatch_ai_chat, InflightGuard), for every number of slots.
THEOREM TypeCorrect == Spec => []TypeOK
BY Invariant, IInvImplies, PTL

\* As long as the send task is there, each request is told its end exactly once,
\* and none before it ended (the send tasks of route_ws and start_tunnel).
THEOREM ToldOnceAlways == Spec => []ToldOnce
BY Invariant, IInvImplies, PTL
=============================================================================
