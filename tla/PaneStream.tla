----------------------------- MODULE PaneStream -----------------------------
(***************************************************************************)
(* The output of one local pane on its way to the screen                   *)
(* (mux/src/lib.rs, 176-740):                                              *)
(*                                                                         *)
(*   child --pty--> reader thread --socketpair--> parser thread            *)
(*              (read_from_pane_pty)         (parse_buffered_data)         *)
(*                                                  |                      *)
(*                            perform_actions and PaneOutput notifications *)
(*                                                  v                      *)
(*                                      the pane and the main thread       *)
(*                                                                         *)
(* while the main thread may remove the pane at any moment.  What makes it *)
(* do so, and what the threads ask of it at their end, is in PaneLife.     *)
(*                                                                         *)
(* Output is a sequence of items.  An item stands for a run of bytes that  *)
(* parses to one action; `id' tells items apart and `k' is what the code   *)
(* looks at: "bsu" and "esu" begin and end synchronized output (DEC mode   *)
(* 2026; a soft reset acts like "esu"), "var" is an OSC 1337 SetUserVar,   *)
(* "text" is anything else.  Sizes count items.  The startup banner is     *)
(* left out: it is one more write before the reader's loop.                *)
(*                                                                         *)
(* Two clocks are read only to take a decision, so the decision itself is  *)
(* free: whether the last notification was less than 8 ms ago, and whether *)
(* the coalescing deadline (set at the first pause, or left behind by an   *)
(* earlier frame) has passed.                                              *)
(*                                                                         *)
(* A definition whose name ends in Bug is no part of the model: it is what *)
(* the definition after it would be with a plausible bug, and a property   *)
(* below is known to fail with it in that definition's place.              *)
(***************************************************************************)
EXTENDS Integers, Sequences

CONSTANTS
    Kinds,        (* the kinds of output the child produces                *)
    MaxOut,       (* bound: items the child ever produces                  *)
    ReadMax,      (* items one read returns at most                        *)
    SockCap,      (* items the socketpair holds                            *)
    BufLen,       (* mux_output_parser_buffer_size                         *)
    HoldCap,      (* the 1 MiB cap on held output                          *)
    HoldTimeout,  (* TRUE iff mux_synchronized_output_timeout_ms > 0       *)
    UserCloses,   (* TRUE iff the pane may be closed with its child alive  *)
    PtyFails      (* TRUE iff the fd may be invalidated                    *)

ASSUME KindsAssumption  == Kinds \subseteq {"text", "bsu", "esu", "var"}
ASSUME MaxOutAssumption == MaxOut \in Nat
ASSUME SizesAssumption  == /\ ReadMax \in Nat \ {0}
                           /\ SockCap \in Nat \ {0}
                           /\ BufLen \in Nat \ {0}
                           /\ HoldCap \in Nat
ASSUME ScopeAssumption  == {HoldTimeout, UserCloses, PtyFails} \subseteq BOOLEAN

VARIABLES
  (* The child and its pty.                                                *)
    produced,     (* history: everything written to the pty                *)
    pty,          (* written and not yet read                              *)
    exited,       (* the child has exited                                  *)
    hangup,       (* no process holds the pty's other end any more         *)
    ptyErr,       (* the fd was invalidated (EBADF or EIO)                 *)
  (* The reader thread.                                                    *)
    readerPc, rbuf,
    exitWhy,      (* history: why it left its loop                         *)
    txOpen,       (* it has not dropped its end of the socketpair          *)
    sock,         (* the socketpair                                        *)
  (* The parser thread.                                                    *)
    parserPc,
    resume,       (* where it continues after a notification               *)
    chunk, nread, (* what it read last and has not parsed; its size        *)
    actions, actionSize,
    hold,         (* synchronized output is on                             *)
    holdAged,     (* ... since the timeout or longer                       *)
    fired, pending, (* PaneOutputNotifyState: one was sent; one is owed    *)
  (* The pane and the main thread.                                         *)
    dead,         (* the flag shared by all three threads                  *)
    pane,         (* known to the mux, only referenced, or dropped         *)
    notice,       (* a PaneOutput notification is queued                   *)
    applied,      (* history: actions performed on the pane                *)
    rescued,      (* history: SetUserVar alerts posted without the pane    *)
  (* The window.                                                           *)
    told,         (* how much of applied its last notification was about   *)
    coalesced,    (* pending_output_invalidate                             *)
    followUp,     (* a call that repaints it is queued                     *)
    missed,       (* history: since then an event found nothing to do      *)
    drawn         (* how much of applied it painted last                   *)

childVars  == <<produced, pty, exited, hangup, ptyErr>>
readerVars == <<readerPc, rbuf, exitWhy, txOpen>>
holdVars   == <<hold, holdAged>>
notifyVars == <<fired, pending, notice>>
shownVars  == <<applied, rescued>>
windowVars == <<told, coalesced, followUp, missed, drawn>>

vars == <<childVars, readerVars, sock, parserPc, resume, chunk, nread, actions,
          actionSize, holdVars, notifyVars, dead, pane, shownVars, windowVars>>

Item     == [id : 0..MaxOut, k : Kinds \cup {"msg"}]
ReaderPc == {"start", "loop", "poll", "write", "exit", "close", "join", "done"}
ParserPc == {"unborn", "check", "wait", "parse", "settle", "drain", "drained",
             "notify", "leave", "last", "done"}

\* "[pty disconnected]", the line the reader adds when the fd is gone.
Disconnected == [id |-> 0, k |-> "msg"]

FrontBug(s, n) == s                       \* more than the buffer holds
RestBug(s, n)  == SubSeq(s, n, Len(s))    \* the last item is read twice

\* A read takes the first n items and leaves the others.
Front(s, n) == SubSeq(s, 1, n)
Rest(s, n)  == SubSeq(s, n + 1, Len(s))

IsPrefixOf(s, t) == Len(s) <= Len(t) /\ s = Front(t, Len(s))

Init ==
    /\ produced = <<>> /\ pty = <<>>
    /\ exited = FALSE /\ hangup = FALSE /\ ptyErr = FALSE
    /\ readerPc = "start" /\ rbuf = <<>> /\ exitWhy = "none"
    /\ txOpen = TRUE /\ sock = <<>>
    /\ parserPc = "unborn" /\ resume = "check" /\ chunk = <<>> /\ nread = 0
    /\ actions = <<>> /\ actionSize = 0 /\ hold = FALSE /\ holdAged = FALSE
    /\ fired = FALSE /\ pending = FALSE /\ notice = FALSE
    /\ dead = FALSE /\ pane = "registered"
    /\ applied = <<>> /\ rescued = <<>>
    /\ told = 0 /\ coalesced = FALSE /\ followUp = FALSE /\ missed = FALSE
    /\ drawn = 0

-----------------------------------------------------------------------------
(***************************************************************************)
(* The child.  Programs it started may go on writing after it has exited;  *)
(* the pty hangs up when the last of them is gone.                         *)
(***************************************************************************)
Output(k) ==
    /\ Len(produced) < MaxOut /\ ~hangup /\ ~ptyErr
    /\ LET item == [id |-> Len(produced) + 1, k |-> k]
       IN  /\ produced' = Append(produced, item)
           /\ pty' = Append(pty, item)
    /\ UNCHANGED <<exited, hangup, ptyErr, readerVars, sock, parserPc, resume,
                   chunk, nread, actions, actionSize, holdVars, notifyVars,
                   dead, pane, shownVars, windowVars>>

ChildExit ==
    /\ ~exited /\ exited' = TRUE
    /\ UNCHANGED <<produced, pty, hangup, ptyErr, readerVars, sock, parserPc,
                   resume, chunk, nread, actions, actionSize, holdVars,
                   notifyVars, dead, pane, shownVars, windowVars>>

Hangup ==
    /\ exited /\ ~hangup /\ hangup' = TRUE
    /\ UNCHANGED <<produced, pty, exited, ptyErr, readerVars, sock, parserPc,
                   resume, chunk, nread, actions, actionSize, holdVars,
                   notifyVars, dead, pane, shownVars, windowVars>>

\* The fd goes bad, for instance across a sleep; what it held is lost.
PtyError ==
    /\ PtyFails /\ ~ptyErr /\ ptyErr' = TRUE
    /\ UNCHANGED <<produced, pty, exited, hangup, readerVars, sock, parserPc,
                   resume, chunk, nread, actions, actionSize, holdVars,
                   notifyVars, dead, pane, shownVars, windowVars>>

-----------------------------------------------------------------------------
(***************************************************************************)
(* The reader thread, read_from_pane_pty.                                  *)
(***************************************************************************)
\* The pane is upgraded once, the socketpair is made, the parser is started.
\* Without a pane or a socketpair the thread just returns.
ReaderStart ==
    /\ readerPc = "start"
    /\ \/ /\ pane # "gone"
          /\ readerPc' = "loop" /\ parserPc' = "check" /\ UNCHANGED exitWhy
       \/ /\ readerPc' = "done" /\ parserPc' = "done" /\ exitWhy' = "nostart"
    /\ UNCHANGED <<childVars, rbuf, txOpen, sock, resume, chunk, nread, actions,
                   actionSize, holdVars, notifyVars, dead, pane, shownVars,
                   windowVars>>

ReaderCheckBug ==   \* the flag is only looked at when the pty hangs up
    /\ readerPc = "loop"
    /\ readerPc' = "poll"
    /\ UNCHANGED <<childVars, rbuf, exitWhy, txOpen, sock, parserPc, resume,
                   chunk, nread, actions, actionSize, holdVars, notifyVars,
                   dead, pane, shownVars, windowVars>>

ReaderCheck ==
    /\ readerPc = "loop"
    /\ IF dead THEN readerPc' = "exit" /\ exitWhy' = "dead"
               ELSE readerPc' = "poll" /\ UNCHANGED exitWhy
    /\ UNCHANGED <<childVars, rbuf, txOpen, sock, parserPc, resume, chunk,
                   nread, actions, actionSize, holdVars, notifyVars, dead,
                   pane, shownVars, windowVars>>

ReaderTimeout ==
    /\ readerPc = "poll" /\ pty = <<>> /\ ~hangup /\ ~ptyErr
    /\ readerPc' = "loop"
    /\ UNCHANGED <<childVars, rbuf, exitWhy, txOpen, sock, parserPc, resume,
                   chunk, nread, actions, actionSize, holdVars, notifyVars,
                   dead, pane, shownVars, windowVars>>

ReaderRead(n) ==
    /\ readerPc = "poll" /\ ~ptyErr /\ n <= Len(pty)
    /\ rbuf' = Front(pty, n)
    /\ pty' = Rest(pty, n)
    /\ readerPc' = "write"
    /\ UNCHANGED <<produced, exited, hangup, ptyErr, exitWhy, txOpen, sock,
                   parserPc, resume, chunk, nread, actions, actionSize,
                   holdVars, notifyVars, dead, pane, shownVars, windowVars>>

\* POLLHUP, or a read of nothing.
ReaderEof ==
    /\ readerPc = "poll" /\ pty = <<>> /\ hangup /\ ~ptyErr
    /\ readerPc' = "exit" /\ exitWhy' = "eof"
    /\ UNCHANGED <<childVars, rbuf, txOpen, sock, parserPc, resume, chunk,
                   nread, actions, actionSize, holdVars, notifyVars, dead,
                   pane, shownVars, windowVars>>

\* EBADF or EIO, from poll or from read: the loop ends after one more write.
ReaderFatal ==
    /\ readerPc = "poll" /\ ptyErr
    /\ rbuf' = <<Disconnected>>
    /\ exitWhy' = "fatal" /\ readerPc' = "write"
    /\ UNCHANGED <<childVars, txOpen, sock, parserPc, resume, chunk, nread,
                   actions, actionSize, holdVars, notifyVars, dead, pane,
                   shownVars, windowVars>>

\* write_all to the socketpair: as much as fits, then the rest when it can.
ReaderWrite ==
    /\ readerPc = "write" /\ parserPc # "done" /\ Len(sock) < SockCap
    /\ LET room == SockCap - Len(sock)
           n    == IF Len(rbuf) < room THEN Len(rbuf) ELSE room
       IN  /\ sock' = sock \o Front(rbuf, n)
           /\ rbuf' = Rest(rbuf, n)
           /\ readerPc' = IF n < Len(rbuf)          THEN "write"
                          ELSE IF exitWhy = "fatal" THEN "exit"
                                                    ELSE "loop"
    /\ UNCHANGED <<childVars, exitWhy, txOpen, parserPc, resume, chunk, nread,
                   actions, actionSize, holdVars, notifyVars, dead, pane,
                   shownVars, windowVars>>

\* The parser has returned, which closed the other end.
ReaderWriteError ==
    /\ readerPc = "write" /\ parserPc = "done"
    /\ rbuf' = <<>> /\ readerPc' = "exit"
    /\ exitWhy' = IF exitWhy = "fatal" THEN "fatal" ELSE "write"
    /\ UNCHANGED <<childVars, txOpen, sock, parserPc, resume, chunk, nread,
                   actions, actionSize, holdVars, notifyVars, dead, pane,
                   shownVars, windowVars>>

\* After the loop: the flag, then the end of the socketpair, then the join.
ReaderSignal ==
    /\ readerPc = "exit"
    /\ dead' = TRUE /\ readerPc' = "close"
    /\ UNCHANGED <<childVars, rbuf, exitWhy, txOpen, sock, parserPc, resume,
                   chunk, nread, actions, actionSize, holdVars, notifyVars,
                   pane, shownVars, windowVars>>

ReaderClose ==
    /\ readerPc = "close"
    /\ txOpen' = FALSE /\ readerPc' = "join"
    /\ UNCHANGED <<childVars, rbuf, exitWhy, sock, parserPc, resume, chunk,
                   nread, actions, actionSize, holdVars, notifyVars, dead,
                   pane, shownVars, windowVars>>

ReaderJoin ==
    /\ readerPc = "join" /\ parserPc = "done"
    /\ readerPc' = "done"
    /\ UNCHANGED <<childVars, rbuf, exitWhy, txOpen, sock, parserPc, resume,
                   chunk, nread, actions, actionSize, holdVars, notifyVars,
                   dead, pane, shownVars, windowVars>>

Reader ==
    \/ ReaderStart \/ ReaderCheck \/ ReaderTimeout
    \/ \E n \in 1..ReadMax : ReaderRead(n)
    \/ ReaderEof \/ ReaderFatal \/ ReaderWrite \/ ReaderWriteError
    \/ ReaderSignal \/ ReaderClose \/ ReaderJoin

-----------------------------------------------------------------------------
(***************************************************************************)
(* The parser thread, parse_buffered_data.                                 *)
(***************************************************************************)
\* The items of s of the kinds ks, in order.
Only(s, ks) ==
    LET upTo[n \in 0..Len(s)] ==
            IF n = 0 THEN <<>>
            ELSE IF s[n].k \in ks THEN Append(upTo[n - 1], s[n]) ELSE upTo[n - 1]
    IN  upTo[Len(s)]

\* send_actions_to_mux.  A pane that is gone leaves only the SetUserVar alerts
\* (rescue_user_var_actions) and the flag that stops both threads.
SendActions(batch) ==
    IF pane # "gone"
    THEN /\ applied' = applied \o batch
         /\ UNCHANGED <<rescued, dead>>
    ELSE /\ rescued' = rescued \o Only(batch, {"var"})
         /\ dead' = TRUE
         /\ UNCHANGED applied

MaybeNotifyBug ==   \* a throttled notification is forgotten
    \/ fired' = TRUE /\ pending' = FALSE /\ notice' = TRUE
    \/ fired /\ UNCHANGED notifyVars

FlushBug == UNCHANGED notifyVars   \* what is owed is never sent

\* PaneOutputNotifyState::maybe_notify: at once, or within 8 ms of the last
\* one owed; and ::flush, which sends what is owed.
MaybeNotify ==
    \/ fired' = TRUE /\ pending' = FALSE /\ notice' = TRUE
    \/ fired /\ pending' = TRUE /\ UNCHANGED <<fired, notice>>

Flush ==
    /\ pending' = FALSE
    /\ notice' = (notice \/ pending)
    /\ UNCHANGED fired

ParserCheck ==
    /\ parserPc = "check"
    /\ parserPc' = IF dead THEN "drain" ELSE "wait"
    /\ UNCHANGED <<childVars, readerVars, sock, resume, chunk, nread, actions,
                   actionSize, holdVars, notifyVars, dead, pane, shownVars,
                   windowVars>>

\* poll returns nothing: the owed notification goes out, and the loop restarts.
ParserTimeout ==
    /\ parserPc = "wait" /\ sock = <<>> /\ txOpen
    /\ Flush
    /\ parserPc' = "check"
    /\ UNCHANGED <<childVars, readerVars, sock, resume, chunk, nread, actions,
                   actionSize, holdVars, dead, pane, shownVars, windowVars>>

ParserRead(n) ==
    /\ parserPc = "wait" /\ n <= Len(sock)
    /\ chunk' = Front(sock, n) /\ nread' = n
    /\ sock' = Rest(sock, n)
    /\ parserPc' = "parse"
    /\ UNCHANGED <<childVars, readerVars, resume, actions, actionSize, holdVars,
                   notifyVars, dead, pane, shownVars, windowVars>>

ParserEof ==
    /\ parserPc = "wait" /\ sock = <<>> /\ ~txOpen
    /\ dead' = TRUE
    /\ parserPc' = "leave"
    /\ UNCHANGED <<childVars, readerVars, sock, resume, chunk, nread, actions,
                   actionSize, holdVars, notifyVars, pane, shownVars, windowVars>>

\* The closure given to parser.parse, for one action of the chunk.  Begin of
\* synchronized output: what came before it is sent, the hold starts.
ParseBsu ==
    /\ parserPc = "parse" /\ chunk # <<>> /\ Head(chunk).k = "bsu"
    /\ hold' = TRUE /\ holdAged' = FALSE
    /\ chunk' = Tail(chunk)
    /\ actions' = <<Head(chunk)>>
    /\ IF actions = <<>>
       THEN UNCHANGED <<shownVars, dead, actionSize, parserPc, resume>>
       ELSE /\ SendActions(actions)
            /\ actionSize' = 0
            /\ parserPc' = "notify" /\ resume' = "parse"
    /\ UNCHANGED <<childVars, readerVars, sock, nread, notifyVars, pane, windowVars>>

\* End of synchronized output: the hold ends and everything is sent.
ParseEsu ==
    /\ parserPc = "parse" /\ chunk # <<>> /\ Head(chunk).k = "esu"
    /\ hold' = FALSE /\ holdAged' = FALSE
    /\ chunk' = Tail(chunk)
    /\ SendActions(Append(actions, Head(chunk)))
    /\ actions' = <<>> /\ actionSize' = 0
    /\ parserPc' = "notify" /\ resume' = "parse"
    /\ UNCHANGED <<childVars, readerVars, sock, nread, notifyVars, pane, windowVars>>

ParseOther ==
    /\ parserPc = "parse" /\ chunk # <<>> /\ Head(chunk).k \notin {"bsu", "esu"}
    /\ actions' = Append(actions, Head(chunk))
    /\ chunk' = Tail(chunk)
    /\ UNCHANGED <<childVars, readerVars, sock, parserPc, resume, nread,
                   actionSize, holdVars, notifyVars, dead, pane, shownVars,
                   windowVars>>

HoldExceededBug(size) == holdAged   \* the size cap is forgotten

\* The chunk is parsed.  Held output is sent only if the hold is too old or
\* too large; the hold itself goes on with a new clock.
HoldExceeded(size) == holdAged \/ size > HoldCap

ParserForce ==
    /\ parserPc = "parse" /\ chunk = <<>>
    /\ hold /\ actions # <<>> /\ HoldExceeded(actionSize + nread)
    /\ SendActions(actions)
    /\ actions' = <<>> /\ actionSize' = 0 /\ nread' = 0 /\ holdAged' = FALSE
    /\ parserPc' = "notify" /\ resume' = "check"
    /\ UNCHANGED <<childVars, readerVars, sock, chunk, hold, notifyVars, pane,
                   windowVars>>

ParserKeep ==
    /\ parserPc = "parse" /\ chunk = <<>>
    /\ actions = <<>> \/ (hold /\ ~HoldExceeded(actionSize + nread))
    /\ actionSize' = actionSize + nread /\ nread' = 0
    /\ parserPc' = "check"
    /\ UNCHANGED <<childVars, readerVars, sock, resume, chunk, actions,
                   holdVars, notifyVars, dead, pane, shownVars, windowVars>>

ParserSettleBug ==   \* held output is settled like any other
    /\ parserPc = "parse" /\ chunk = <<>>
    /\ actions # <<>>
    /\ actionSize' = actionSize + nread /\ nread' = 0
    /\ parserPc' = "settle"
    /\ UNCHANGED <<childVars, readerVars, sock, resume, chunk, actions,
                   holdVars, notifyVars, dead, pane, shownVars, windowVars>>

\* Output that is not held: a small amount waits for more until the deadline.
ParserSettle ==
    /\ parserPc = "parse" /\ chunk = <<>>
    /\ actions # <<>> /\ ~hold
    /\ actionSize' = actionSize + nread /\ nread' = 0
    /\ parserPc' = "settle"
    /\ UNCHANGED <<childVars, readerVars, sock, resume, chunk, actions,
                   holdVars, notifyVars, dead, pane, shownVars, windowVars>>

ParserCoalesce ==
    /\ parserPc = "settle" /\ actionSize < BufLen
    /\ sock # <<>> \/ ~txOpen
    /\ parserPc' = "check"
    /\ UNCHANGED <<childVars, readerVars, sock, resume, chunk, nread, actions,
                   actionSize, holdVars, notifyVars, dead, pane, shownVars,
                   windowVars>>

ParserSend ==
    /\ parserPc = "settle"
    /\ SendActions(actions)
    /\ actions' = <<>> /\ actionSize' = 0
    /\ parserPc' = "notify" /\ resume' = "check"
    /\ UNCHANGED <<childVars, readerVars, sock, chunk, nread, holdVars,
                   notifyVars, pane, windowVars>>

\* send_actions_to_mux has returned: now the notification.
ParserNotify ==
    /\ parserPc = "notify"
    /\ MaybeNotify
    /\ parserPc' = resume /\ resume' = "check"
    /\ UNCHANGED <<childVars, readerVars, sock, chunk, nread, actions,
                   actionSize, holdVars, dead, pane, shownVars, windowVars>>

\* drain_socketpair: reads what is there, whether held or not.
DrainRead(n) ==
    /\ parserPc = "drain" /\ n <= Len(sock)
    /\ actions' = actions \o Front(sock, n)
    /\ sock' = Rest(sock, n)
    /\ UNCHANGED <<childVars, readerVars, parserPc, resume, chunk, nread,
                   actionSize, holdVars, notifyVars, dead, pane, shownVars,
                   windowVars>>

DrainSend ==
    /\ parserPc = "drain" /\ sock = <<>>
    /\ actions' = <<>>
    /\ IF actions = <<>>
       THEN parserPc' = "leave" /\ UNCHANGED <<shownVars, dead>>
       ELSE parserPc' = "drained" /\ SendActions(actions)
    /\ UNCHANGED <<childVars, readerVars, sock, resume, chunk, nread,
                   actionSize, holdVars, notifyVars, pane, windowVars>>

\* ... and notifies past the throttle.
DrainNotify ==
    /\ parserPc = "drained"
    /\ notice' = TRUE
    /\ parserPc' = "leave"
    /\ UNCHANGED <<childVars, readerVars, sock, resume, chunk, nread, actions,
                   actionSize, holdVars, fired, pending, dead, pane, shownVars,
                   windowVars>>

ParserLeaveBug ==   \* what is still buffered is dropped
    /\ parserPc = "leave"
    /\ actions' = <<>>
    /\ parserPc' = "last"
    /\ UNCHANGED <<childVars, readerVars, sock, chunk, nread, actionSize,
                   resume, holdVars, notifyVars, dead, pane, shownVars, windowVars>>

\* After the loop: what is still buffered, then the notification still owed.
ParserLeave ==
    /\ parserPc = "leave"
    /\ actions' = <<>>
    /\ IF actions = <<>>
       THEN parserPc' = "last" /\ UNCHANGED <<shownVars, dead, resume>>
       ELSE parserPc' = "notify" /\ resume' = "last" /\ SendActions(actions)
    /\ UNCHANGED <<childVars, readerVars, sock, chunk, nread, actionSize,
                   holdVars, notifyVars, pane, windowVars>>

ParserLast ==
    /\ parserPc = "last"
    /\ Flush
    /\ parserPc' = "done"
    /\ UNCHANGED <<childVars, readerVars, sock, resume, chunk, nread, actions,
                   actionSize, holdVars, dead, pane, shownVars, windowVars>>

Parser ==
    \/ ParserCheck \/ ParserTimeout \/ ParserEof
    \/ \E n \in 1..ReadMax : ParserRead(n) \/ DrainRead(n)
    \/ ParseBsu \/ ParseEsu \/ ParseOther
    \/ ParserForce \/ ParserKeep \/ ParserSettle \/ ParserCoalesce \/ ParserSend
    \/ ParserNotify \/ DrainSend \/ DrainNotify \/ ParserLeave \/ ParserLast

HoldAges ==
    /\ HoldTimeout /\ hold /\ ~holdAged
    /\ holdAged' = TRUE
    /\ UNCHANGED <<childVars, readerVars, sock, parserPc, resume, chunk, nread,
                   actions, actionSize, hold, notifyVars, dead, pane,
                   shownVars, windowVars>>

-----------------------------------------------------------------------------
(***************************************************************************)
(* The main thread.                                                        *)
(***************************************************************************)
Repaint == drawn' = Len(applied) /\ missed' = FALSE

OnOutputBug ==   \* a suppressed event leaves no call behind
    /\ notice
    /\ notice' = FALSE
    /\ told' = Len(applied)
    /\ \/ pane = "gone" /\ UNCHANGED <<coalesced, followUp, missed, drawn>>
       \/ pane # "gone" /\ Repaint /\ coalesced' = FALSE /\ UNCHANGED followUp
       \/ /\ pane # "gone" /\ told > 0
          /\ coalesced' = TRUE
          /\ missed' = (missed \/ (coalesced /\ ~followUp))
          /\ UNCHANGED <<followUp, drawn>>
    /\ UNCHANGED <<childVars, readerVars, sock, parserPc, resume, chunk, nread,
                   actions, actionSize, holdVars, fired, pending, dead, pane,
                   shownVars>>

\* A PaneOutput notification reaches the window (mux_pane_output_event), which
\* shows the pane unless it is gone.  It repaints; or, within 8 ms of the last
\* time, queues a call that will; or, if it queued one since the last time, does
\* nothing.  That a window is painted only a while after it was invalidated is
\* left out: the later a paint, the more it shows.
OnOutput ==
    /\ notice
    /\ notice' = FALSE
    /\ told' = Len(applied)
    /\ \/ pane = "gone" /\ UNCHANGED <<coalesced, followUp, missed, drawn>>
       \/ pane # "gone" /\ Repaint /\ coalesced' = FALSE /\ UNCHANGED followUp
       \/ /\ pane # "gone" /\ told > 0
          /\ coalesced' = TRUE
          /\ followUp' = (followUp \/ ~coalesced)
          /\ missed' = (missed \/ (coalesced /\ ~followUp))
          /\ UNCHANGED drawn
    /\ UNCHANGED <<childVars, readerVars, sock, parserPc, resume, chunk, nread,
                   actions, actionSize, holdVars, fired, pending, dead, pane,
                   shownVars>>

\* The queued call.
FollowUp ==
    /\ followUp
    /\ followUp' = FALSE /\ Repaint
    /\ UNCHANGED <<childVars, readerVars, sock, parserPc, resume, chunk, nread,
                   actions, actionSize, holdVars, notifyVars, dead, pane,
                   shownVars, told, coalesced>>

\* Mux::remove_pane_internal: because the user closes the pane, because a prune
\* finds its process dead, or because the reader asked for it at its end.
RemovePane ==
    /\ pane = "registered"
    /\ UserCloses \/ exited \/ exitWhy = "fatal"
    /\ dead' = TRUE
    /\ pane' = "unregistered"
    /\ UNCHANGED <<childVars, readerVars, sock, parserPc, resume, chunk, nread,
                   actions, actionSize, holdVars, notifyVars, shownVars, windowVars>>

\* The tab lets go of the pane too; Weak::upgrade fails from now on.
DropPane ==
    /\ pane = "unregistered"
    /\ pane' = "gone"
    /\ UNCHANGED <<childVars, readerVars, sock, parserPc, resume, chunk, nread,
                   actions, actionSize, holdVars, notifyVars, dead, shownVars,
                   windowVars>>

-----------------------------------------------------------------------------
Environment ==
    \/ \E k \in Kinds : Output(k)
    \/ ChildExit \/ Hangup \/ PtyError \/ RemovePane \/ DropPane

Window == OnOutput \/ FollowUp

Next == Environment \/ Reader \/ Parser \/ HoldAges \/ Window

Spec == Init /\ [][Next]_vars

\* The scheduler runs both threads and every queued notification, and time
\* passes.  Nothing obliges the child to write or to exit, the pty to hang up
\* or to fail, or anyone to remove the pane.
Fairness == WF_vars(Reader) /\ WF_vars(Parser) /\ WF_vars(HoldAges) /\ WF_vars(Window)

FairSpec == Spec /\ Fairness

-----------------------------------------------------------------------------
(***************************************************************************)
(* Properties.                                                             *)
(***************************************************************************)
\* Types, and the capacities of the two buffers a read fills.
TypeOK ==
    /\ produced \in Seq(Item) /\ pty \in Seq(Item)
    /\ exited \in BOOLEAN /\ hangup \in BOOLEAN /\ ptyErr \in BOOLEAN
    /\ readerPc \in ReaderPc /\ rbuf \in Seq(Item)
    /\ exitWhy \in {"none", "nostart", "dead", "eof", "fatal", "write"}
    /\ txOpen \in BOOLEAN
    /\ sock \in Seq(Item) /\ Len(sock) <= SockCap
    /\ parserPc \in ParserPc /\ resume \in {"check", "parse", "last"}
    /\ chunk \in Seq(Item) /\ nread \in 0..ReadMax /\ Len(chunk) <= nread
    /\ actions \in Seq(Item) /\ actionSize \in Nat
    /\ hold \in BOOLEAN /\ holdAged \in BOOLEAN
    /\ fired \in BOOLEAN /\ pending \in BOOLEAN /\ notice \in BOOLEAN
    /\ dead \in BOOLEAN /\ pane \in {"registered", "unregistered", "gone"}
    /\ applied \in Seq(Item) /\ rescued \in Seq(Item)
    /\ told \in 0..Len(applied) /\ drawn \in 0..Len(applied)
    /\ coalesced \in BOOLEAN /\ followUp \in BOOLEAN /\ missed \in BOOLEAN

FromChild(s) == Only(s, Kinds)
Vars(s) == Only(s, {"var"})

\* What the threads and the socketpair have, in order.
InFlight == actions \o chunk \o sock \o rbuf

\* The ways out of its loop on which the reader loses what it read or could read.
Lossy == {"fatal", "write"}

\* With the pty they are one queue, until the reader loses something.
Queue == INSTANCE OutputQueue WITH
           Items  <- Item,
           Alerts <- Vars,
           line   <- IF exitWhy \in Lossy THEN InFlight ELSE InFlight \o pty,
           open   <- exitWhy \notin Lossy,
           there  <- pane # "gone",
           shown  <- applied,
           posted <- rescued

\* Three threads, a socketpair, coalescing, holds and drains: each step of theirs
\* is a step of the queue or none.
Implements == Queue!Spec

\* The child's output is applied in order, nothing twice and nothing left out:
\* whatever the chunks, flushes, holds and drains, what was performed on the
\* pane, followed by what the threads still have, is a prefix of what was
\* produced. (Once the pane is gone, what it was shown still is one.) The same
\* is true of the SetUserVar alerts, with those posted without the pane. That
\* what the threads have gets out is not said: what the reader writes when the
\* parser has drained the socketpair is read by nobody (lib.rs:316, 496).
InOrder ==
    LET shown == IF pane = "gone" THEN applied ELSE applied \o InFlight
    IN  /\ IsPrefixOf(FromChild(shown), produced)
        /\ IsPrefixOf(Vars(applied \o rescued \o InFlight), Vars(produced))

\* "The final rendered state is never stuck in a suppressed slot" (lib.rs:491):
\* as long as the window was not told of everything performed on the pane, a
\* notification is queued, owed, or about to be considered.
NoStuckFrame ==
    told < Len(applied) =>
        \/ notice
        \/ parserPc \in {"notify", "drained"}
        \/ pending /\ parserPc # "done"

\* "Don't forget to send anything that we might have buffered" (lib.rs:483): when
\* the parser is through after the pty hung up, a pane that is still there shows
\* every byte its programs wrote, and of one that was removed or dropped meanwhile
\* every SetUserVar alert got out, by the pane or without it. So no output that
\* was read is in the socketpair then, whoever set the flag while the reader was
\* between its look at it and its last poll.
CompleteAtHangup ==
    parserPc = "done" /\ exitWhy = "eof" =>
        /\ pane = "registered" => applied = produced
        /\ Vars(applied \o rescued) = Vars(produced)

\* "1MB cap guards against unbounded growth" (lib.rs:426): between two reads
\* the parser never keeps more than its cap, with synchronized output on or
\* off, although action_size is reset and advanced at different places.
BufferBounded ==
    parserPc \in {"check", "wait"} =>
        Len(actions) <= IF hold THEN HoldCap ELSE BufLen

OpenFrame(s) ==
    \E i \in 1..Len(s) : s[i].k = "bsu" /\ \A j \in i..Len(s) : s[j].k # "esu"

\* Synchronized output is atomic: a step that performs actions ends outside
\* every frame, unless the hold is exceeded, a second BSU renews it, or the
\* stream is at its end.
FrameAtomic ==
    [][applied' # applied =>
          \/ ~OpenFrame(applied')
          \/ chunk = <<>> /\ HoldExceeded(actionSize + nread)
          \/ chunk # <<>> /\ Head(chunk).k = "bsu"
          \/ parserPc \in {"drain", "leave"}]_vars

\* "So the final output state is always rendered even if no further events
\* arrive" (termwindow/mod.rs:2752): everything performed on a pane that stays is
\* painted eventually, past a throttle of 8 ms on each side of the notification.
\* That is the code's promise for the second event within 8 ms; of a third one
\* it keeps nothing (missed), and what that told of waits for another event.
AllDrawn ==
    drawn < Len(applied) ~> drawn = Len(applied) \/ pane = "gone" \/ missed

\* The dead flag ends both threads, even if a grandchild keeps the pty open.
ThreadsStop == dead ~> readerPc = "done" /\ parserPc = "done"

\* "Maximum time in milliseconds to hold synchronized output (mode 2026) before
\* force-flushing" (config.rs:438): held output does not stay held.
HoldReleased == hold /\ actions # <<>> ~> ~hold \/ actions = <<>>
=============================================================================
