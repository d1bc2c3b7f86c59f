---------------------------- MODULE RelayBroker ----------------------------
(***************************************************************************)
(* manda-relay (crates/manda-relay/src/main.rs): a desktop (the host) and  *)
(* a phone (the client) connect to the relay with the same token; the      *)
(* relay pairs them and forwards messages both ways.                       *)
(*                                                                         *)
(* Hosts and Clients are connections, not machines: a desktop that comes   *)
(* back is another element of Hosts with the same token.  Each connection  *)
(* is served by a task of its own; a task runs from one await to the next  *)
(* without regard to the others, except that `pending' has a lock.         *)
(*                                                                         *)
(* A definition whose name ends in Bug is no part of the model: it is what *)
(* the definition after it would be with a plausible bug, and a property   *)
(* below is known to fail with it in that definition's place.              *)
(***************************************************************************)
EXTENDS Naturals, FiniteSets

CONSTANTS
    Hosts, Clients,   (* connections                                       *)
    Tokens,
    Asks,             (* the tokens each connection may ask for            *)
    MaxPending,       (* MAX_PENDING                                       *)
    None              (* no connection                                     *)

ASSUME AsksAssumption    == Asks \in [Hosts \cup Clients -> SUBSET Tokens]
ASSUME PendingAssumption == MaxPending \in Nat
ASSUME NoneAssumption    == None \notin Hosts \cup Clients

VARIABLES
    hostToken,    (* the token each connection asked for                   *)
    clientToken,
    host,         (* what each host's task is doing                        *)
    client,       (* ... and each client's                                 *)
    pending,      (* AppState.pending: token |-> the host whose channel it *)
                  (* holds the sender of                                   *)
    inbox,        (* the client's socket in the channel of a host          *)
    peer,         (* the client a host was paired with                     *)
    up,           (* the connections whose other end is still there        *)
    running       (* the forwarding tasks of a host that still run         *)

vars == <<hostToken, clientToken, host, client, pending, inbox, peer, up,
          running>>

tokenVars == <<hostToken, clientToken>>
relayVars == <<peer, running>>

HostStates   == {"idle", "waiting", "expired", "cleanup", "relaying", "ended"}
ClientStates == {"idle", "polling", "handed", "ended"}
Directions   == {"h2c", "c2h"}

Init ==
    /\ hostToken = [h \in Hosts |-> None] /\ clientToken = [c \in Clients |-> None]
    /\ host = [h \in Hosts |-> "idle"] /\ client = [c \in Clients |-> "idle"]
    /\ pending = [t \in Tokens |-> None]
    /\ inbox = [h \in Hosts |-> None] /\ peer = [h \in Hosts |-> None]
    /\ up = Hosts \cup Clients
    /\ running = [h \in Hosts |-> {}]

-----------------------------------------------------------------------------
(***************************************************************************)
(* The host's task, host_ws.                                               *)
(***************************************************************************)
PendingFullBug == Cardinality({t \in Tokens : pending[t] # None}) > MaxPending

PendingFull == Cardinality({t \in Tokens : pending[t] # None}) >= MaxPending

HostRejected(h, t) ==
    /\ host[h] = "idle" /\ PendingFull
    /\ hostToken' = [hostToken EXCEPT ![h] = t]
    /\ host' = [host EXCEPT ![h] = "ended"]
    /\ UNCHANGED <<clientToken, client, pending, inbox, relayVars, up>>

\* The insert drops the sender of the host that had the entry.
HostConnect(h, t) ==
    /\ host[h] = "idle" /\ ~PendingFull
    /\ hostToken' = [hostToken EXCEPT ![h] = t]
    /\ host' = [host EXCEPT ![h] = "waiting"]
    /\ pending' = [pending EXCEPT ![t] = h]
    /\ UNCHANGED <<clientToken, client, inbox, relayVars, up>>

HostTimesOutBug(h) ==   \* the clock is looked at before the channel
    /\ host[h] = "waiting"
    /\ host' = [host EXCEPT ![h] = "expired"]
    /\ UNCHANGED <<tokenVars, client, pending, inbox, relayVars, up>>

\* The timeout looks into the channel, finds nothing, and then finds that the
\* 600 s are over.  The receiver is still there: a send succeeds.
HostTimesOut(h) ==
    /\ host[h] = "waiting" /\ inbox[h] = None
    /\ host' = [host EXCEPT ![h] = "expired"]
    /\ UNCHANGED <<tokenVars, client, pending, inbox, relayVars, up>>

\* The await returns, which drops the receiver and a socket sent meanwhile.
HostStopsReceiving(h) ==
    /\ host[h] = "expired"
    /\ host' = [host EXCEPT ![h] = "cleanup"]
    /\ inbox' = [inbox EXCEPT ![h] = None]
    /\ client' = [c \in Clients |-> IF inbox[h] = c THEN "ended" ELSE client[c]]
    /\ UNCHANGED <<tokenVars, pending, relayVars, up>>

\* The sender was dropped without a send: the entry was replaced or removed.
HostReplaced(h) ==
    /\ host[h] = "waiting" /\ inbox[h] = None /\ pending[hostToken[h]] # h
    /\ host' = [host EXCEPT ![h] = "cleanup"]
    /\ UNCHANGED <<tokenVars, client, pending, inbox, relayVars, up>>

\* state.pending.lock().remove(&token): whatever is stored there now, also the
\* entry of the host that came back and took this one's place.
Removed(map, h) == [map EXCEPT ![hostToken[h]] = None]

HostCleanup(h) ==
    /\ host[h] = "cleanup"
    /\ pending' = Removed(pending, h)
    /\ host' = [host EXCEPT ![h] = "ended"]
    /\ UNCHANGED <<tokenVars, client, inbox, relayVars, up>>

\* The await returns the client's socket; relay_pair starts both directions.
HostPaired(h) ==
    /\ host[h] = "waiting" /\ inbox[h] # None
    /\ peer' = [peer EXCEPT ![h] = inbox[h]]
    /\ inbox' = [inbox EXCEPT ![h] = None]
    /\ host' = [host EXCEPT ![h] = "relaying"]
    /\ running' = [running EXCEPT ![h] = Directions]
    /\ UNCHANGED <<tokenVars, client, pending, up>>

Source(h, d) == IF d = "h2c" THEN h ELSE peer[h]
Sink(h, d)   == IF d = "h2c" THEN peer[h] ELSE h

ForwardEnds(h, d) ==
    /\ d \in running[h]
    /\ running' = [running EXCEPT ![h] = @ \ {d}]
    /\ UNCHANGED <<tokenVars, host, client, pending, inbox, peer, up>>

SourceGoneBug(h, d) ==   \* the client's end of stream goes unnoticed
    d = "h2c" /\ Source(h, d) \notin up /\ ForwardEnds(h, d)

\* A direction ends when its source is gone ...
SourceGone(h, d) == Source(h, d) \notin up /\ ForwardEnds(h, d)

\* ... or when its source has a message and its sink is gone.
SendFails(h, d) == Source(h, d) \in up /\ Sink(h, d) \notin up /\ ForwardEnds(h, d)

\* The select! returns with the first direction that ends.  Dropping the other
\* JoinHandle detaches its task: it goes on.
HostEnds(h) ==
    /\ host[h] = "relaying"
    /\ running[h] # Directions
    /\ host' = [host EXCEPT ![h] = "ended"]
    /\ UNCHANGED <<tokenVars, client, pending, inbox, relayVars, up>>

-----------------------------------------------------------------------------
(***************************************************************************)
(* The client's task, client_ws.                                           *)
(***************************************************************************)
ClientConnect(c, t) ==
    /\ client[c] = "idle"
    /\ clientToken' = [clientToken EXCEPT ![c] = t]
    /\ client' = [client EXCEPT ![c] = "polling"]
    /\ UNCHANGED <<hostToken, host, pending, inbox, relayVars, up>>

Receives(h) == host[h] \in {"waiting", "expired"}

ClientPollBug(c) ==   \* a sender that can be cloned is found by the next client too
    /\ client[c] = "polling"
    /\ LET h == pending[clientToken[c]]
       IN  /\ h # None
           /\ IF Receives(h)
              THEN /\ inbox' = [inbox EXCEPT ![h] = c]
                   /\ client' = [client EXCEPT ![c] = "handed"]
              ELSE /\ client' = [client EXCEPT ![c] = "ended"]
                   /\ UNCHANGED inbox
    /\ UNCHANGED <<tokenVars, host, pending, relayVars, up>>

\* One poll finds a sender and sends the socket, still under the lock.  The
\* result of the send is ignored: a host that no longer receives loses it.
ClientPoll(c) ==
    /\ client[c] = "polling"
    /\ LET t == clientToken[c]
           h == pending[t]
       IN  /\ h # None
           /\ pending' = [pending EXCEPT ![t] = None]
           /\ IF Receives(h)
              THEN /\ inbox' = [inbox EXCEPT ![h] = c]
                   /\ client' = [client EXCEPT ![c] = "handed"]
              ELSE /\ client' = [client EXCEPT ![c] = "ended"]
                   /\ UNCHANGED inbox
    /\ UNCHANGED <<tokenVars, host, relayVars, up>>

\* 30 s without a host.
ClientDeadline(c) ==
    /\ client[c] = "polling"
    /\ client' = [client EXCEPT ![c] = "ended"]
    /\ UNCHANGED <<tokenVars, host, pending, inbox, relayVars, up>>

\* The other end of a connection goes away.  Nobody looks at a socket before it
\* is forwarded, so one whose end went away earlier goes away then.
Disconnect(x) ==
    /\ x \in up
    /\ \E h \in Hosts : running[h] # {} /\ x \in {h, peer[h]}
    /\ up' = up \ {x}
    /\ UNCHANGED <<tokenVars, host, client, pending, inbox, relayVars>>

-----------------------------------------------------------------------------
HostTask(h) ==
    \/ HostTimesOut(h) \/ HostStopsReceiving(h) \/ HostReplaced(h)
    \/ HostCleanup(h) \/ HostPaired(h) \/ HostEnds(h)

ClientTask(c) == ClientPoll(c) \/ ClientDeadline(c)

Next ==
    \/ \E h \in Hosts : \E t \in Asks[h] : HostRejected(h, t) \/ HostConnect(h, t)
    \/ \E c \in Clients : \E t \in Asks[c] : ClientConnect(c, t)
    \/ \E h \in Hosts : HostTask(h)
    \/ \E c \in Clients : ClientTask(c)
    \/ \E h \in Hosts, d \in Directions : SourceGone(h, d) \/ SendFails(h, d)
    \/ \E x \in Hosts \cup Clients : Disconnect(x)

Spec == Init /\ [][Next]_vars

\* The runtime runs every task that can go on, time passes for both timeouts,
\* and a closed socket wakes its reader.  Nothing obliges anyone to connect, to
\* send a message, or to leave.
Fairness ==
    /\ \A h \in Hosts : WF_vars(HostTask(h))
    /\ \A c \in Clients : WF_vars(ClientTask(c))
    /\ \A h \in Hosts, d \in Directions : WF_vars(SourceGone(h, d))

FairSpec == Spec /\ Fairness

-----------------------------------------------------------------------------
(***************************************************************************)
(* Properties.                                                             *)
(***************************************************************************)
Types ==
    /\ hostToken \in [Hosts -> Tokens \cup {None}]
    /\ clientToken \in [Clients -> Tokens \cup {None}]
    /\ host \in [Hosts -> HostStates] /\ client \in [Clients -> ClientStates]
    /\ pending \in [Tokens -> Hosts \cup {None}]
    /\ inbox \in [Hosts -> Clients \cup {None}]
    /\ peer \in [Hosts -> Clients \cup {None}]
    /\ up \subseteq Hosts \cup Clients
    /\ running \in [Hosts -> SUBSET Directions]

PendingBounded == Cardinality({t \in Tokens : pending[t] # None}) <= MaxPending

\* Types, and "Maximum concurrent pending host connections" (main.rs:13): the map
\* never holds more entries, whatever is replaced, taken and cleaned up.
TypeOK == Types /\ PendingBounded

\* A host's client: in its channel, or being served.
Holds(h, c) == inbox[h] = c \/ peer[h] = c

\* Pairing is exclusive and by token: a client's socket is with one host at
\* most, which asked for the same token; a host gets one client at most; and a
\* host still in the map has none.
ExclusivePairing ==
    \A h \in Hosts, c \in Clients :
        Holds(h, c) =>
            /\ hostToken[h] = clientToken[c]
            /\ client[c] = "handed"
            /\ \A g \in Hosts : Holds(g, c) => g = h
            /\ \A d \in Clients : Holds(h, d) => d = c
            /\ pending[hostToken[h]] # h

\* What becomes of a socket in a channel.  If the host's task has still to look,
\* it is served, although the 600 s may be over by then; if the task has looked
\* and found the 600 s over, the socket is dropped, not left open with nobody to
\* serve it.  (So a client may be cut off in the instant of its host's timeout.)
HandedIsSettled ==
    \A c \in Clients :
        /\ \A h \in Hosts : inbox[h] = c /\ host[h] = "waiting" ~> peer[h] = c
        /\ client[c] = "handed" ~> client[c] = "ended" \/ \E h \in Hosts : peer[h] = c

\* A host does not wait for ever, also when another host of its token took its
\* entry over or removed it; and when both ends of a pair are gone, nothing of it
\* is left running.  (It may wait much less than the 10 minutes of main.rs:30:
\* see Removed.  And while one end is there its direction goes on until it has a
\* message to forward, which is less than "Stop both directions", main.rs:134.)
TasksEnd ==
    \A h \in Hosts :
        /\ host[h] = "waiting" ~> host[h] # "waiting"
        /\ h \notin up /\ peer[h] # None /\ peer[h] \notin up ~>
              running[h] = {} /\ host[h] = "ended"
=============================================================================
