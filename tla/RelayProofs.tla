---------------------------- MODULE RelayProofs ----------------------------
(***************************************************************************)
(* Proofs of the safety of RelayBroker, for any number of connections and  *)
(* tokens.                                                                 *)
(*                                                                         *)
(* Exclusive pairing is not inductive as it stands: why a host found in    *)
(* the map has no client yet is that an entry is given up, under the lock, *)
(* by the very step that sends the socket.  IInv says what each of the     *)
(* three places that can hold a host's client (the map, the channel, the   *)
(* forwarding tasks) tells about the other two.                            *)
(***************************************************************************)
EXTENDS RelayBroker, FiniteSetTheorems, TLAPS

\* Who has connected has asked for a token.
TokensGiven ==
    /\ \A h \in Hosts : host[h] # "idle" => hostToken[h] \in Tokens
    /\ \A c \in Clients : client[c] # "idle" => clientToken[c] \in Tokens

\* An entry of the map: a host of this token that has no client.
EntriesWait ==
    \A t \in Tokens, h \in Hosts :
        pending[t] = h =>
            /\ hostToken[h] = t /\ host[h] \in {"waiting", "expired", "cleanup"}
            /\ inbox[h] = None /\ peer[h] = None

\* A socket in a channel: the host still has its receiver, even if its time is
\* over.  A host with a peer has used it up.
InboxWaits ==
    \A h \in Hosts :
        /\ inbox[h] # None => Receives(h) /\ peer[h] = None
        /\ peer[h] # None => host[h] \in {"relaying", "ended"}

\* Whose socket it is.
HeldIsHanded ==
    \A h \in Hosts, c \in Clients :
        Holds(h, c) => hostToken[h] = clientToken[c] /\ client[c] = "handed"

\* One client is with one host.
HeldOnce ==
    \A g, h \in Hosts, c \in Clients : Holds(g, c) /\ Holds(h, c) => g = h

IInv ==
    /\ Types /\ TokensGiven
    /\ EntriesWait /\ InboxWaits /\ HeldIsHanded /\ HeldOnce

-----------------------------------------------------------------------------
\* The initial states satisfy the inductive invariant.
LEMMA InitInvariant == Init => IInv
<1>. SUFFICES ASSUME Init PROVE IInv
  OBVIOUS
<1>1. Types
  BY DEF Init, Types, HostStates, ClientStates
<1>2. TokensGiven /\ EntriesWait /\ InboxWaits
  BY NoneAssumption DEF Init, TokensGiven, EntriesWait, InboxWaits
<1>3. HeldIsHanded /\ HeldOnce
  BY NoneAssumption DEF Init, HeldIsHanded, HeldOnce, Holds
<1>. QED BY <1>1, <1>2, <1>3 DEF IInv

\* Every step keeps the inductive invariant.
LEMMA NextInvariant == IInv /\ [Next]_vars => IInv'
<1>. SUFFICES ASSUME IInv, [Next]_vars PROVE IInv'
  OBVIOUS
<1>. USE NoneAssumption
     DEF IInv, Types, TokensGiven, EntriesWait, InboxWaits, HeldIsHanded, HeldOnce,
         Holds, Receives, HostStates, ClientStates, tokenVars, relayVars
<1>1. ASSUME NEW h \in Hosts, NEW t \in Tokens, HostRejected(h, t)
      PROVE  IInv'
  BY <1>1 DEF HostRejected
<1>2. ASSUME NEW h \in Hosts, NEW t \in Tokens, HostConnect(h, t)
      PROVE  IInv'
  BY <1>2 DEF HostConnect
<1>3. ASSUME NEW c \in Clients, NEW t \in Tokens, ClientConnect(c, t)
      PROVE  IInv'
  BY <1>3 DEF ClientConnect
<1>4. ASSUME NEW h \in Hosts, HostTimesOut(h)
      PROVE  IInv'
  BY <1>4 DEF HostTimesOut
<1>5. ASSUME NEW h \in Hosts, HostStopsReceiving(h)
       PROVE  IInv'
  BY <1>5 DEF HostStopsReceiving
<1>6. ASSUME NEW h \in Hosts, HostReplaced(h)
       PROVE  IInv'
  BY <1>6 DEF HostReplaced
<1>7. ASSUME NEW h \in Hosts, HostCleanup(h)
      PROVE  IInv'
  BY <1>7 DEF HostCleanup, Removed
<1>8. ASSUME NEW h \in Hosts, HostPaired(h)
      PROVE  IInv'
  BY <1>8 DEF HostPaired, Directions
<1>9. ASSUME NEW h \in Hosts, HostEnds(h)
      PROVE  IInv'
  BY <1>9 DEF HostEnds
<1>10. ASSUME NEW c \in Clients, ClientPoll(c)
       PROVE  IInv'
  <2>. DEFINE h == pending[clientToken[c]]
  <2>1. /\ clientToken[c] \in Tokens /\ h \in Hosts
        /\ hostToken[h] = clientToken[c] /\ inbox[h] = None /\ peer[h] = None
    BY <1>10 DEF ClientPoll
  <2>2. CASE Receives(h)
    <3>1. \A g \in Hosts : Holds(g, c) => FALSE
      BY <1>10 DEF ClientPoll
    <3>2. (Types /\ TokensGiven)'
      BY <1>10, <2>1, <2>2 DEF ClientPoll
    <3>3. (EntriesWait /\ InboxWaits)'
      BY <1>10, <2>1, <2>2 DEF ClientPoll
    <3>4. HeldIsHanded'
      BY <1>10, <2>1, <2>2, <3>1 DEF ClientPoll
    <3>5. HeldOnce'
      BY <1>10, <2>1, <2>2, <3>1 DEF ClientPoll
    <3>. QED BY <3>2, <3>3, <3>4, <3>5
  <2>3. CASE ~Receives(h)
    BY <1>10, <2>1, <2>3 DEF ClientPoll
  <2>. QED BY <2>2, <2>3
<1>11. ASSUME NEW c \in Clients, ClientDeadline(c)
      PROVE  IInv'
  BY <1>11 DEF ClientDeadline
<1>12. ASSUME NEW h \in Hosts, NEW d \in Directions, ForwardEnds(h, d)
       PROVE  IInv'
  BY <1>12 DEF ForwardEnds
<1>13. ASSUME NEW x \in Hosts \cup Clients, Disconnect(x)
       PROVE  IInv'
  BY <1>13 DEF Disconnect
<1>14. CASE UNCHANGED vars
  BY <1>14 DEF vars
<1>. QED
  BY <1>1, <1>2, <1>3, <1>4, <1>7, <1>8, <1>9, <1>10, <1>11, <1>12, <1>13, <1>14,
     <1>5, <1>6, AsksAssumption
  DEF Next, HostTask, ClientTask, SourceGone, SendFails

\* The inductive invariant holds in every state of every behaviour.
THEOREM Invariant == Spec => []IInv
BY InitInvariant, NextInvariant, PTL DEF Spec

\* Whoever connects, reconnects, times out or leaves in whatever order: nobody is
\* paired with a stranger or with two others.
THEOREM ExclusivePairingAlways == Spec => []ExclusivePairing
<1>1. IInv => ExclusivePairing
  <2>. SUFFICES ASSUME IInv, NEW h \in Hosts, NEW c \in Clients, Holds(h, c)
                PROVE  /\ hostToken[h] = clientToken[c]
                       /\ client[c] = "handed"
                       /\ \A g \in Hosts : Holds(g, c) => g = h
                       /\ \A d \in Clients : Holds(h, d) => d = c
                       /\ pending[hostToken[h]] # h
    BY DEF ExclusivePairing
  <2>1. hostToken[h] = clientToken[c] /\ client[c] = "handed"
    BY DEF IInv, HeldIsHanded
  <2>2. \A g \in Hosts : Holds(g, c) => g = h
    BY DEF IInv, HeldOnce
  <2>3. \A d \in Clients : Holds(h, d) => d = c
    BY NoneAssumption DEF IInv, InboxWaits, Holds
  <2>4. clientToken[c] \in Tokens
    BY <2>1 DEF IInv, TokensGiven
  <2>5. pending[hostToken[h]] # h
    BY <2>1, <2>4, NoneAssumption DEF IInv, EntriesWait, Holds
  <2>. QED BY <2>1, <2>2, <2>3, <2>5
<1>. QED BY Invariant, <1>1, PTL

-----------------------------------------------------------------------------
(***************************************************************************)
(* The limit of the map.  The set of possible tokens may be infinite.      *)
(***************************************************************************)
\* The keys of the map.
Keys == {t \in Tokens : pending[t] # None}

BoundInv == Types /\ IsFiniteSet(Keys) /\ Cardinality(Keys) <= MaxPending

\* A step inserts one key, below the limit, or removes keys.
LEMMA KeysChange ==
    ASSUME Types, [Next]_vars
    PROVE  \/ Keys' \subseteq Keys
           \/ ~PendingFull /\ \E t \in Tokens : Keys' = Keys \cup {t}
<1>1. ASSUME NEW h \in Hosts, NEW t \in Tokens, HostConnect(h, t)
      PROVE  ~PendingFull /\ Keys' = Keys \cup {t}
  BY <1>1, NoneAssumption DEF HostConnect, Keys, Types
<1>2. ASSUME NEW h \in Hosts, HostCleanup(h)
      PROVE  Keys' \subseteq Keys
  BY <1>2 DEF HostCleanup, Removed, Keys, Types
<1>3. ASSUME NEW c \in Clients, ClientPoll(c)
      PROVE  Keys' \subseteq Keys
  BY <1>3 DEF ClientPoll, Keys, Types
<1>4. CASE UNCHANGED pending
  BY <1>4 DEF Keys
<1>5. \/ \E h \in Hosts, t \in Tokens : HostConnect(h, t)
      \/ \E h \in Hosts : HostCleanup(h)
      \/ \E c \in Clients : ClientPoll(c)
      \/ UNCHANGED pending
  BY AsksAssumption
     DEF Next, vars, HostTask, ClientTask, HostRejected, ClientConnect, HostTimesOut,
         HostStopsReceiving, HostReplaced, HostPaired, HostEnds, ClientDeadline, SourceGone, SendFails, ForwardEnds,
         Disconnect
<1>. QED BY <1>1, <1>2, <1>3, <1>4, <1>5

\* The types, and MAX_PENDING is never exceeded, whatever is replaced, taken and
\* cleaned up.
THEOREM TypeCorrect == Spec => []TypeOK
<1>1. Init => IsFiniteSet(Keys) /\ Cardinality(Keys) <= MaxPending
  <2>1. Init => Keys = {}
    BY DEF Init, Keys
  <2>. QED BY <2>1, FS_EmptySet, PendingAssumption
<1>2. ASSUME Types, IsFiniteSet(Keys), Cardinality(Keys) <= MaxPending, [Next]_vars
      PROVE  IsFiniteSet(Keys') /\ Cardinality(Keys') <= MaxPending
  <2>1. CASE Keys' \subseteq Keys
    <3>1. /\ IsFiniteSet(Keys') /\ Cardinality(Keys') <= Cardinality(Keys)
          /\ Cardinality(Keys') \in Nat /\ Cardinality(Keys) \in Nat
      BY <1>2, <2>1, FS_Subset, FS_CardinalityType
    <3>. QED BY <1>2, <3>1, PendingAssumption
  <2>2. ASSUME ~PendingFull, NEW t \in Tokens, Keys' = Keys \cup {t}
        PROVE  IsFiniteSet(Keys') /\ Cardinality(Keys') <= MaxPending
    <3>1. Cardinality(Keys) < MaxPending
      BY <1>2, <2>2, FS_CardinalityType, PendingAssumption DEF PendingFull, Keys
    <3>2. IsFiniteSet(Keys') /\ Cardinality(Keys') <= Cardinality(Keys) + 1
      <4>1. Cardinality(Keys) \in Nat
        BY <1>2, FS_CardinalityType
      <4>2. /\ IsFiniteSet(Keys \cup {t})
            /\ \/ Cardinality(Keys \cup {t}) = Cardinality(Keys)
               \/ Cardinality(Keys \cup {t}) = Cardinality(Keys) + 1
        BY <1>2, FS_AddElement
      <4>. QED BY <2>2, <4>1, <4>2
    <3>3. Cardinality(Keys) \in Nat /\ Cardinality(Keys') \in Nat
      BY <1>2, <3>2, FS_CardinalityType
    <3>. QED BY <3>1, <3>2, <3>3, PendingAssumption
  <2>. QED BY <1>2, <2>1, <2>2, KeysChange
<1>3. Types /\ IsFiniteSet(Keys) /\ Cardinality(Keys) <= MaxPending => PendingBounded
  BY DEF PendingBounded, Keys
<1>4. BoundInv /\ [Next]_vars /\ Types' => BoundInv'
  BY <1>2 DEF BoundInv
<1>5. Init /\ Types => BoundInv
  BY <1>1 DEF BoundInv
<1>6. BoundInv => TypeOK
  BY <1>3 DEF BoundInv, TypeOK
<1>7. IInv => Types
  BY DEF IInv
<1>. QED BY Invariant, <1>4, <1>5, <1>6, <1>7, PTL DEF Spec
=============================================================================
