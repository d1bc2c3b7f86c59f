# A specification of MANDA's core

MANDA is a macOS terminal derived from wezterm, with AI features and remote
access. This directory holds TLA+ models of the parts of it where threads,
suspended operations and failures meet, the TLC runs that check them, and
proofs that TLAPS checks. Paths below are relative to the repository's root.

Every definition that models code is mapped to its lines in `PROJECT.json`,
which also lists the runs, the findings and the hazards.

## 1. Inventory

**Processes.** The GUI (`manda-gui`) runs the *mux* in its main thread: windows,
tabs and panes. Every local pane adds three threads (reader, parser, and a
waiter for the child). A headless mux server (`crates/wezterm-mux-server-impl`)
serves the same mux to clients. The phone app talks to `crates/manda-remote` in
the GUI, directly or through the broker `crates/manda-relay`.

| Component | State | Operations | What makes it correct |
|---|---|---|---|
| Output pipeline, `mux/src/lib.rs` 176–740 | pty, socketpair, buffered actions, hold, owed notification, dead flag | the loops of two threads; removal | order, no loss while the pane is there, whole frames, a window told of the last one, bounded buffers, threads that stop |
| Life of a local pane, `mux/src/localpane.rs`, end of the reader | `ProcessState`, waiter's result, dead flag, map and tree membership | exit, hangup, pty error, close, prune | removed when, and only when, its exit behaviour says so; never half removed for good |
| Activities, `mux/src/activity.rs` | a count | new, drop | what a prune skipped is made up for |
| Mux registry, `mux/src/lib.rs`, `domain.rs` | maps of windows, tabs, panes | spawn, split, move, remove, prune | the maps agree; nothing leaks; dead things go |
| Window, `mux/src/window.rs` | tab list, active index, last active tab | push, insert, remove, activate | the index always denotes the tab it should |
| Tab, `mux/src/tab.rs`, `crates/bintree` | tree of panes with the geometry of its splits, zoom, active index, the size each pane was told | split, remove, move, resize, drag, zoom, rotate, swap | splits fill their space; each pane knows its size; the index names the pane it should |
| Relay broker, `crates/manda-relay` | map of waiting hosts, sockets | connect, pair, time out, forward | exclusive pairs of one token; waits end; a socket is served or dropped, never left open |
| GUI commands and frontend | GUI windows per mux window | spawn, close with a dialog, move, activate | a dialog acts on what it was asked about |
| Mux server and client | sessions, RPCs, cached lines | PDUs, polling of changes, reconnect | a client converges to the server's lines |
| Main-thread queue and promises, `crates/promise`, `window/src/spawn.rs` | two queues, the batch taken from them, wakers | spawn, wake, burst, poll, resolve | every task runs in its turn; no wake-up is lost |
| Remote access, `crates/manda-remote`, `ai_remote.rs` | session slots, cancel handles, a channel of screens, two tasks of a session | chat, cancel, capture, end | slots come back; ends are told once; what was broadcast arrives; cancel works |
| AI agent loop, `manda-gui/src/ai_chat_engine` | of each turn: conversation, rounds, cancel flag, the channel to its chat | round, tool call, consent, cancel | every tool call is answered; nothing harmful runs without its consent; a cancel binds |
| AI chat overlay, `manda-gui/src/overlay/ai_chat` | messages, the stream of the latest turn, flags of a side question, the question shown | drain, pace, end a turn, submit, interrupt, cancel, close | it notices every end; no thread is left to itself; history holds what it should |
| Terminal emulation, parsers, rendering, fonts, configuration, command line, ssh, tmux, blob leases, utilities | | | not modelled, see section 8 |

**Interaction.** The two pane threads share a socketpair and the dead flag with
the main thread; they reach it only by queueing tasks (`spawn_into_main_thread`)
and notifications. The mux runs on the main thread, but its spawn and split
operations are `async` and suspend. Cleaning up is queued as tasks and postponed
while an `Activity` lasts. All of that goes through one queue, which a run loop
drains in bursts. A phone's session has a receive loop and a send task, a thread
for each chat, and gets the screens of its pane from the main thread over a
channel that overwrites what it has not read. The AI chat starts a thread for
each turn; all it shares with it is a cancel flag, a channel of what the thread
tells, and a rendezvous channel for each question of consent. The relay is a process of its own,
one task for each connection, around one locked map.

**Hard behaviours.** State looked up before a suspension and used after it;
clean-up that may be skipped or comes in any order; threads that must let each
other go; owed notifications and wake-ups; timeouts that race with answers; answers to
a question that another has replaced; flags that outlive what they were set for;
indices and sizes kept beside lists and trees that change in the middle of a
walk. `PROJECT.json` lists each at its line.

## 2. Modules

| Module | Models | State and actions |
|---|---|---|
| `PaneProcess` | `ProcessState` and the functions that change it | operators: `IsDead`, `Killed`, `PrintsMessage` |
| `PaneStream` | the output of one pane | one action per blocking point of each thread: `Reader*`, `Parse*`, `Parser*`, `Drain*`; `OnOutput`, `FollowUp`, `RemovePane`, `DropPane` on the main thread; the child and the pty as environment |
| `OutputQueue` | abstract: what the threads of a pane's output promise together | `Write`, `Take`, `Break`, `PaneGoes` |
| `PaneLife` | how one pane ends | `Waiter`, `Reader*`, and one action per task kind (`OnPrune`, `OnRemove`, `OnMessage`), `KillPane`, `BeginActivity`, `EndActivity` |
| `WindowTabs` | a window's tab list | operators, one for each method |
| `MuxWindows` | the registry with several windows, tabs, panes and suspended requests | each request is a begin action and an end action (`SpawnTab`/`SpawnWindow` … `SpawnDone`, `SplitPane` … `SplitDone`, `RequestFails`); moves, removals, tasks |
| `RelayBroker`, `MCRelayBroker` | the relay | one action for each stretch between two awaits of `host_ws`, `client_ws`, `relay_pair`; the end of a host's wait is three (`HostTimesOut`, `HostStopsReceiving`, `HostCleanup`), between which a client may send |
| `SplitGeometry` | the arithmetic of one split | operators, one for each computation: `Cut`, `Refit`, `Shift`, `Turn` |
| `TabTree`, `MCTabTree` | the panes of one tab | `BeginSplit`/`EndSplit` and one action for each other operation of `Tab` |
| `MainThread` | abstract: what the main thread's queue promises | `Spawn`, `Wake`, `Resolve`, `Poll` |
| `SpawnQueue`, `MCSpawnQueue` | the queue of the macOS GUI, promises, `spawn_into_new_thread` | `Spawn`, `Wake`, `Resolve`, `Signal`; the run loop's `Awake`, `TakeNormal`, `TakeLow`, the outcomes of a poll, `Check`; the thread's `StartThread`, `EndWork`, `TakeWaker` |
| `RemoteSession`, `MCRemoteSession` | a phone's session with the remote access server | the receive loop, the threads of chats, the send task, the pane's subscriber |
| `AgentLoop` | the threads of `run_agent`, one to each turn | a round's `Request`, `Speak`, `Answer`, `Fail`, `CallTools`; of a tool call `Refuse`, `SkipConsent`, `AskConsent`, `GiveUp`, `Begin`, `Finish`; `BreakOff`, `RoundEnds`, `LoopEnds`, `Panic`; operators for what the chat does to a thread |
| `ChatOverlay`, `MCChatOverlay` | the chat around them | `Drain*`, `Pace`, `EndTurn`; the user's `Decide`, `Cancel`, `Submit`, `SubmitSide`, `Quit`, `Close` |
| `PaneLifeProofs`, `MuxWindowsProofs`, `RelayProofs`, `TabTreeProofs`, `SpawnQueueProofs`, `RemoteSessionProofs`, `ChatProofs`, `PaneStreamProofs` | proofs | |

`PaneLife` extends `PaneProcess`; `MuxWindows` extends `WindowTabs`; `TabTree`
extends `SplitGeometry`; `ChatOverlay` extends `AgentLoop`, whose threads it
starts, cancels and listens to; `SpawnQueue` has an instance of `MainThread`, whose
specification it is checked to implement; `PaneStream` has one of `OutputQueue`,
whose specification it is proved to implement.
`PaneStream` and `PaneLife` cut the same reader thread in two: `PaneStream` has
its loop in full and takes the pane's removal as something that may happen
(after an exit, a broken pty or a close); `PaneLife` has what leads to the
removal, and reduces the loop to the ways out of it. `MuxWindows` reduces the
life of a pane to the set `exited` of panes whose `is_dead` is true, and a tab to
the set of its panes; `TabTree` has the tab in full. `MainThread` is the
assumption the others make when they let a queued task run by weak fairness.

**Correspondence in brief.**

* `PaneStream`: output is a sequence of items with an identity and a kind (a user
  variable, which stands for any ordinary output where its rescue plays no part,
  begin and end of synchronized output). `sock` is the
  socketpair, `actions` the parser's `actions`, `hold`/`holdAged` its `hold` and
  whether `hold_start` is older than the timeout, `fired`/`pending` are
  `PaneOutputNotifyState`, `notice` is a `PaneOutput` on its way, `applied` what
  `perform_actions` got, `rescued` what `rescue_user_var_actions` posted. Of the window, `told` is the length
  of `applied` at its last notification and `drawn` that at its last repaint;
  `coalesced` is `pending_output_invalidate`, `followUp` a queued call that
  repaints, and `missed` (a history variable) tells that a notification since the
  last repaint found `coalesced` set and no such call. A window is painted when it is
  invalidated: a later paint shows more, not less. A send and the notification
  after it are two steps. The comparisons with a clock are free choices.
* `PaneLife`: `tasks` is the set of tasks queued for the main thread; a set,
  since a second queued prune or removal finds nothing more to do than the
  first. `userCloses` is a history variable.
* `MuxWindows`: the record `mux` holds the maps; a tab's tree is a set of panes;
  `removals` are the queued `remove_pane` tasks, `prune` a queued prune. The
  walk of `remove_pane_if` may step over siblings of what it removed (`Skips`).
  `lost` is a history variable: panes that a request brought back to a window
  or tab that was gone, and those that a split refused (the tab is zoomed, or there
  is no space, `tab.rs:2426`–`2454`) when they were registered already or had been
  taken out of their tab. `gui` tells whether a request holds an `Activity`.
* `RelayBroker`: `Hosts` and `Clients` are connections. `pending` is the locked
  map; `inbox` the oneshot channel; `running` the forwarding tasks; `up` the
  connections whose peer is still there. A host is `expired` when its task found the
  channel empty and the 600 s over, and has still to drop its receiver: until then
  what is sent to it is accepted. `Asks` are the tokens a connection may come with.
* `TabTree`: a position in the binary tree is its path, the sides taken from the
  root (the code's cursor). `tab.at` is where each pane is, `tab.split` what the
  split at a position records (`SplitDirectionAndSize`): the tree is these two
  functions, and its walks are the order of the paths (`After` is
  `preorder_next`). `active`, `zoomed` and `size` are as in `TabInner`, `before` is
  `size_before_zoom`. Each pane has two sizes: `shown`, that of its terminal, and
  `pty`, what its process was last told; `resize_visual` and a drag set the first
  alone. `pending` is `Domain::split_pane` between its two calls into the tab. What
  a resize comes out with is a set (`Adjust`), empty when its loop does not end;
  then the tab is `hung` and nothing else happens: it keeps the tab's lock and the
  main thread. The walk of `remove_pane_if` is followed from one pane it removes to
  the next (`RemoveNext`). Each removal fits at once all that follows in the tree,
  where the code does so as its walk goes on; it comes to the same, since a split
  that is fitted keeps no trace of what it was fitted to before.
* `SpawnQueue`: `queue` is the two lists of `SpawnQueue`, `batch` what the
  observer took from them and has not run, `at` and `observed` where the run loop
  is, `wakeup` whether it was asked to wake, `unsignalled` how many threads stand
  between `queue_func` and `queue_wakeup`. `task` is what `async_task` knows of a
  future. A poll of `spawn_into_new_thread`'s future is two steps, and so is the
  end of its thread. In `MainThread` a line is `batch \o queue`.
* `RemoteSession`: `receiver` and `sender` are where the two tasks are, `out`
  what is being sent, `events` the channel of chats, `ring` and `lagged` the
  broadcast channel as its one receiver sees it, `inFlight` and `handles` the
  counters and flags of `AiSession`. `flagged` are chats whose cancel flag is set.
  Whether an update is throttled is a free choice, for another session of the
  pane moves the same clock. `owed`, `cancelled` and `shared` are history
  variables: the last screen broadcast, the chats the phone wanted to end, and
  those that overlapped with another of their conversation. `limit` chooses for a
  behaviour how many requests and changes of the screen go together.
* `AgentLoop`: `agent[n]` is where the thread of turn n is, `calls`/`next` the tool
  calls of its round and the one it is at, `asked` and `results` what its
  conversation holds of them. `stream` is the channel of the latest turn;
  `listening` whether the chat still has its receiver. A request, a tool and the
  model's choice of tools are free choices, a call is of one of three kinds
  (`Kinds`). `consent` and `late` are history variables.
* `ChatOverlay`: `streaming`, `queue`, `transient`, `context` and `pending` are the
  fields named beside them; `ending` is `stream_pending_done` or `_err`. A text
  counts by its beginning: `queue` says whether some of it is still to be paced.
  `shown` are the assistant's messages, `saved` the turns with one in the history
  file, `finished` (a history variable) those whose end was no error.

**Definitions named `...Bug`** are not part of a model. Each is a plausible bug
of the definition it stands before; with it in place, a property of a run fails.
They show that the properties can fail (`mutants` in `PROJECT.json`).

## 3. Runs

| Run | Size | Shows |
|---|---|---|
| `PaneStream` | 2 items of 3 kinds, reads of 1–2, socketpair of 1, buffer of 2, hold of 1; 625,893 states | all properties of the pipeline |
| `PaneStreamHold` | violation | **HoldReleased** fails: see findings |
| `PaneLife` | 3 exit behaviours, 2 activities; 54,237 states | all properties of a pane's end |
| `RelayBroker` | 3 hosts of one, two and three tokens, 2 clients, 2 waiting places; 123,630 states | all properties of the relay |
| `MuxWindows` | 2 requests, 2 windows, 2 tabs, 3 panes; 293,804 states | all properties of the registry |
| `TabTree` | 4 panes, 2 sizes, 2 kinds of split, 2 operations beside splits; panes are symmetric; 73,934 states | all properties of a tab |
| `TabHang` | violation; 3 panes, 3 operations | **ResizeReturns** fails |
| `SpawnQueue` | 4 futures, one of each sort, bursts of 1, 2 threads in `spawn_impl` | the queue implements `MainThread` |
| `SpawnLost` | violation; the same instance | **ResultIsFetched** fails |
| `ChatOverlay` | 2 turns, of 2 rounds and 1, replies of up to 2 tool calls; 370,875 states | all properties of the chat but one |
| `ChatSide` | violation; the same instance | **AnswersSaved** fails |
| `RemoteSession` | 3 requests of 2 conversations, 2 slots, or 1 request and 3 changes of the screen with room for 1; 180,077 states | all properties of a session |

What the properties say:

* `PaneStream`. `InOrder`: what was applied, followed by what the threads still
  carry, is a prefix of what was produced, the note of a disconnected pty aside. It
  does not say that what they carry gets out: when a pane is removed, what the reader
  writes after the parser's last look at the socketpair (`lib.rs:316`, `496`) is read
  by nobody, user variables with it. `CompleteAtHangup` says when nothing is lost:
  when the parser has ended after the pty hung up, a pane that is still there was
  shown all output, and of one that is gone every user variable got out.
  `NoStuckFrame`: while the window was not told of everything applied, a
  notification is on its way, owed by a parser that still runs, or about to be
  considered. `BufferBounded`:
  between two reads the parser keeps no more than its cap. `FrameAtomic`: a send
  leaves a frame open only when the hold is exceeded, at a second begin, or at
  the end of the stream. `AllDrawn`: what is applied gets drawn, unless the
  pane goes or the window `missed` a notification: of three within 8 ms the first
  repaints, the second queues a repaint, and a third that comes after that queues
  nothing. `ThreadsStop`: once the flag is up, both threads end.
* `PaneLife`. `RemovedIsStopped`: a pane that is not in the mux has the flag
  raised and a process that was killed or has ended. `HeldPaneStays`: a pane its
  exit behaviour keeps, with a sound pty, is there until the user closes it.
  `HalfRemovedIsPending`: a pane that left its tab but not the mux has its
  removal queued. `PaneReleased`: a pane whose process ended is removed, unless it
  is to be kept, and a removed pane leaves its tab and its reader ends.
* `MuxWindows`. `WindowsWellFormed`, `MapsAgree`, `NothingLeaks` (with the
  exception `lost`, which is what the code does lose), `DeadIsPruned` (dead panes
  and empty windows go; not a dead pane of `lost`, for a prune looks into the
  windows' tabs only).
* `RelayBroker`. `TypeOK` (with the limit on waiting places), `ExclusivePairing`,
  `HandedIsSettled` (a phone whose socket was put in the channel of a host that has
  still to look is served by it, although its 10 minutes may be over; in the channel
  of one that has looked for the last time the socket is dropped, not left open with
  nobody to serve it), `TasksEnd` (waits end, also when another connection of the
  token took the entry over, and when both ends of a pair are gone, both forwarding
  tasks and the host's do; while one end is there, its direction may go on).
* `TabTree`. A tab is *sound* when every split fills exactly the space its parent
  gives it, no side is empty, and every pane that is shown was told its space.
  `PanesKeepLayout` (splits and removals) and `SizesKeepLayout` (resizes, zoom,
  focus, swaps) say that each family of operations leaves a sound tab sound,
  whatever happened between the halves of a split, with the exceptions that their
  comments name, which the code does not keep: a split of the whole tab, a removal
  under a zoomed pane, and a change of size of a tab whose splits alternate (see
  findings). `DragStaysInside`: a drag changes nothing outside the
  split it moves. `FocusKept`: when another pane goes, the focus stays, and
  no step leaves the active index past the last pane, but a removal of several
  panes in one walk, which may (see findings). `TypeOK` says that the panes and the
  splits make a tree; which panes are in it, it does not say: a pane that is moved
  to split another is lost from the tab when the split is refused.
* `SpawnQueue`. `Implements`: the queue is a line of futures by priority, each
  polled in its turn and once for every wake-up, and normal futures are polled
  for ever while there are any. `TypeOK` says besides types that a future is in
  line once exactly while it is to be polled.
* `ChatOverlay`. `CallsAnswered`: whenever the model is asked, each tool call of the
  conversation has one answer. `ConsentGiven`: a tool that may do harm runs only
  on a yes to this very call, though a question may time out while it is shown
  and another take its place. `CancelBinds`: of a cancelled turn one tool at most
  still begins. `NoneUnattended`: while the chat is open, a running thread is
  listened to or was told to stop. `StreamEnds`: the chat notices every end, and
  what keeps a turn streaming for ever is a tool that does not end, until the user
  cancels.
* `RemoteSession`. `TypeOK` says besides types that a slot is held by each chat
  under way and by nothing else. `ToldOnce`: each request is told its end once.
  `CancelEnds`: a cancelled chat ends, unless another of its conversation took
  its handle. `SenderEnds`: nothing of a session stays. `ScreenCatchesUp`: what
  was broadcast, or something later, is shown. A screen that was throttled is
  never broadcast, and nothing is owed for it: the phone may keep an old screen
  until the next change, which the property does not deny.

**Bounds and why they are enough.** `PaneStream`: a socketpair of one item makes
the reader block in the middle of a write with two items; two items make a frame
with content on one side of a boundary, and a first and last part of a burst; a
hold cap of 1 is exceeded by the second item. Three or more items add longer
frames but no new position of a thread. `PaneLife` follows one pane: panes meet
only through a prune's `Activity` test, of which two overlap. `RelayBroker`: `MCAsks`
gives three hosts one, two and three tokens to come with and the two clients one and
two. With two waiting places a host takes over the entry of another (a map that is
full refuses even that), a late clean-up takes out a newer host's entry, two clients
race for one entry, and a third host is refused; every choice left out is one of
these under other names. `MuxWindows`: two
requests suspended against each other, a second window to move to or to spawn
into, two tabs so that removal shifts the index, three panes so that one prune
can remove a pane and skip its sibling. `TabTree`:
three panes make a split in each side of a split, with a leaf before and after
it; with the fourth there are splits three deep, in the same or in turning
directions, and `remove_pane_if` walks through a whole split a second time. The two
sizes lie on either side of the least that these panes need, in both directions.
Splits are not counted; of the other operations, two are enough for one to come
between the halves of a split and one after. With three panes and three
operations the same properties hold of 73,547 states. `SpawnQueue`: a burst of one leaves something of
either priority behind, as 64 does with 65 functions; the theorem covers every
length. `RemoteSession`: three requests fill two slots and are refused or
overlap; a channel of one is overwritten by the second screen; both kinds of
session are in the one run. `ChatOverlay`: a second turn is all that can meet the
thread of one before; a second round of the first shows what a round leaves to
the next, and one round in the second its limit; two calls show a break in the
middle, and the two turns ask for consent one after the other.

`MaxOut`, `MaxActivities`, `MaxWindows`, `MaxTabs`, `MaxPanes`, `MaxMoves`, `Callers`,
`Asks`, `MaxFrames`, `Limits`, `MaxTurns`, `Rounds`, `CallLists` and the sizes of
`Requests`, `Tasks` and `Chats` bound what the environment starts; at a bound the
system stops, so deadlock is not checked except in `SpawnQueue`, whose loop never
stops (panes, connections and sessions end in any case, which is a legal stop).

**Fairness.** The scheduler runs both pane threads, the waiter and every queued
task; an `Activity` ends, for it is dropped when its operation returns; time
passes (`HoldAges`, timeouts of the relay); suspended requests return or fail.
`SpawnQueue` assumes that the run loop goes on while it is awake or was asked to
wake, and that a thread goes on from `queue_func` to `queue_wakeup`, and nothing
of any event or thread. `RemoteSession` assumes that the session's tasks go on,
that a send to a connected phone gets through, and that a chat ends once its flag
is set; of any other chat nothing. `ChatOverlay` assumes that the chat's loop goes
on (it polls every 30 ms while it streams) and that a thread does but while it runs a
tool: requests have timeouts, and a question waits 10 minutes at most, but
`shell_exec` waits for whoever holds the pipes of a shell it has killed
(`shell.rs:178`–`184`), and `web_fetch_script` has no limit (`ai_tools/mod.rs:81`). Of the
user it assumes nothing. `PaneStream` assumes that the window handles its
notifications and calls. `TabTree` has safety only.
Nothing is assumed of a child, a pty, a user, a WebSocket peer, nor that an
operation begins. All is weak fairness: no thread relies on being chosen again
and again at a moment that comes and goes. In `MuxWindows` fairness is stated by
each action's effect on one variable, since TLC evaluates `ENABLED` of the large
actions slowly; the comment there says why it is the same.

## 4. What is proved

* **`PaneLifeProofs`** proves, for every subset of the exit behaviours and every
  number of activities, `TypeOK`, `RemovedIsStopped`, `HeldPaneStays` and
  `HalfRemovedIsPending`. None is inductive by itself. The invariant `IInv` adds
  what ties them: the waiter reports only how the child really exited
  (`StatusFollowsChild`); the process state leaves `Running` for a report's state
  only after that report (`ProcFollowsStatus`); a reader that reads has no reason
  to have stopped (`ReadingHasNoReason`); and for a pane its behaviour keeps,
  nothing is under way that would remove it: no removal is queued and its process
  is running or parked, never dead (`NothingThreatens`). `PruneStep` says once
  what a prune may do, and serves `OnPrune` and `OnRemove`.
* **`MuxWindowsProofs`** proves, for any number of windows, tabs and panes and any
  requests, every safety property of the registry: `TypeOK`, `WindowsWellFormed`,
  `MapsAgree` and `NothingLeaks`, with the exceptions these name.
  Its first part is about a window of any length: what
  each method of `Window` does to the set of tabs, to well-formedness (index in
  range, no tab twice) and to which tab is active. `SwitchBackLands` proves where
  closing the active tab leads with the option to switch back: to the tab used
  before, against the comment at `window.rs:157` only if that stands before the
  closed tab or last of all, else to the tab after it. `RemoveAllCorrect` is about
  removing one tab after the other, as a prune does.
  The invariant of the registry adds to the properties: a window that is not open has
  no tabs (`ClosedIsNew`: else a new window would begin with those of an old one);
  no tab or pane stands anywhere under an id that is still to be given, not even in
  the tree of a tab that is gone, which a split that resumes may still write to
  (`IdsAreNew`); and a request that waits has the window or tab it waits for
  (`RequestsOk`). `InTree` and `InWindow` are the halves of `NothingLeaks` with a set
  of exceptions, for the middle of a step: `remove_pane_if` takes a pane out of its
  tab and only queues its removal, a move has it in no tab between two, a prune first
  empties the tabs and then drops them. Each function of the registry (`RemoveTabs`,
  `RemoveWindows`, `Prune`, ...) has a lemma of what it keeps and which exceptions it
  makes up for; a step is put together from those. `TypeCorrect` takes more than
  types: that an active index never exceeds the number of tab ids needs that no tab
  is in a window twice (`TabsFit`).
* **`RelayProofs`** proves, for any sets of connections and tokens, `TypeOK`
  (with `PendingBounded`) and `ExclusivePairing`. The invariant says of
  each place that can hold a host's client what it tells about the others: an
  entry of the map is a host of that token with an empty channel and no peer
  (`EntriesWait`), a full channel is that of a host which waits or whose time is up but
  which has its receiver still (`InboxWaits`), and a socket
  handed over is with one host of its token (`HeldIsHanded`, `HeldOnce`).
  `KeysChange` bounds what a step does to the number of entries.
* **`TabTreeProofs`** proves, for any panes, sizes, requests, distances and gap,
  every property of a tab but `SizesKeepLayout`: `TypeOK`, `FocusKept`,
  `DragStaysInside` and `PanesKeepLayout`.
  It begins with one split: when the operations keep its space. A new split fills
  the pane it divides (`CutFills`), a split fitted to a new space fills it exactly if
  its first side and the gutter fit in (`RefitFills`), a turned one keeps its space
  (`TurnFills`), and a moved divider does with a gutter of one (`ShiftFills`).
  `ShiftToTheEdge` proves what happens with a wider gutter, which `split_pane_gap`
  makes: the code clamps to `total - 2`, so a divider at the edge leaves the second
  side nothing. Then come positions: what `Lifted` and `Sunk` do to the order of
  paths (`PrefixOrder`, `LiftedBefore`), when a set of splits and leaves is a tree
  (`TreeIff`), that no two leaves are at the same place in the order
  (`LeavesOrdered`), so that indices name panes (`PaneAtIndex`).
  The invariant `IInv` adds to `TypeOK` that the tree is of finite depth
  (`Shallow`: else a cascade, which is a function of the space above, would have no
  first step) and that `shown` and `pty` are of the tab's panes alone. `SplitTree`,
  `WrapTree`, `LiftedTree` and `MovedTree` prove that each change of the code makes
  a tree of a tree. For the focus, `UnsplitIndex` proves how one removal moves the
  index of every other pane. For the layout, `FilledStays` says that a split that fills
  its space is not changed by being fitted to it again: a drag's cascade walks on
  through the rest of the tree, and that lemma is all that keeps it from changing
  anything there. For a removal, `UnsplitGrows` proves by induction over the depth that the
  sibling, and all that is in it, is given no less than it had, hence `RefitFills`
  applies at each level (`UnsplitFills`); `RemoveNextSound` takes it along the walk,
  from one removed pane to the next.
* **`SpawnQueueProofs`** proves, for any futures, bursts and threads, `TypeOK` and
  that every step is a step of `MainThread` or none. The invariant adds that a
  batch is taken only when the last one is used up, the normal half first
  (`BatchUsedUp`: else moving functions into the batch would change the line),
  that a waker left behind belongs to an idle future (`WakersWait`: else a thread
  would put a future in line twice), and that batch and queue together hold each
  future to be polled once, in the line of its priority (`InOrder`). The liveness
  half of `Implements` is left to TLC.
* **`RemoteSessionProofs`** proves, for any requests, conversations, number of slots and
  length of channel: `TypeOK` (a slot is held by each chat under way and by
  nothing else) and `ToldOnce` (no chat hears twice how it ended). The invariant
  adds `TasksAgree` (where the receive loop and the send task may stand, and that
  nothing is being sent when the send task takes something) and counts what each
  chat was told over the three places a message can be: answered, on the event
  channel, in the send task's hands. Its lemmas count occurrences under `Append`
  and `Tail`.
* **`ChatProofs`** proves, for any number of turns, rounds and tool calls, every
  safety property of the AI chat: `TypeOK`, `CallsAnswered`, `ConsentGiven`,
  `CancelBinds` and `NoneUnattended`. The invariant says of each thread where it can
  stand (`Placed`); that of a round's calls those before the one it is at are
  answered once and the others not yet (`Answered`: a round that is broken off
  leaves calls unanswered, and only the flag, which is never reset, keeps the model
  from seeing that); that consent lies behind the question (`Consented`); and that
  a tool begun after the flag was set leaves no way but out (`Bound`). Of the chat it
  says that the end of a stream is told only by a thread that is over (`Attended`:
  else the overlay would drop the receiver of a running one). `ThreadChanges` sorts
  every step of the system by what it does to one thread; the lemmas about threads
  rest on it.
* **`PaneStreamProofs`** proves, for every size of reads, buffers and holds and every
  kind of output, every safety property of the pipeline: `TypeOK`, `InOrder`,
  `FrameAtomic`, `NoStuckFrame`, `BufferBounded` and `CompleteAtHangup`; and that
  every step is a step of `OutputQueue` or none (`Implements`).
  The invariant says who holds something (`Holders`: a chunk only while it is
  parsed), why the reader left (`Reasons`), that of a registered pane nobody stops
  before the reader has written all it had (`Ends`: the dead flag alone would send
  the parser home), that the socketpair stays empty once the parser has drained it
  after a hangup (`NoneLeft`: the parser drains only with the flag up, and a reader
  that polls after that has written its last), and that `action_size` never falls behind what it counts
  (`Counted`: it is advanced after the chunk is parsed and reset in the middle of
  it). For the order, `InOrder` is not inductive: that something is a prefix of the
  output does not say that what comes next is what is next in the pty. `Ordered`
  says what is missing: it is just what the pty holds, until the reader has lost
  something; and that alerts are posted for a pane that is gone only. `Conserved`
  is the same of a pane that is there with nothing filtered out. For the frames,
  `Frames` says that without a hold no frame is open in what was performed and what
  is kept together, but at the end of the stream.
  `ParserPasses`, `ReaderPasses` and `OutputPasses` sort every step by what it
  does to the items on their way; `Ordered`, `Conserved` and the refinement rest on
  these three. What `Only` leaves of a sequence is proved by induction
  (`OnlyByOne`, `OnlyOfJoin`, `OnlyOfOnly`): the library's theorems of induction take
  a predicate as a parameter, which the provers cannot instantiate, so
  `SeqInduction` is about the *set* of the sequences for which a fact holds, and
  comes from the well-foundedness of the naturals.

The assumptions are those of the modules: bounds are naturals (those of
`MuxWindows` positive, for there is a window to start with), `Behaviors` are
exit behaviours, `None` is no connection, each turn has a number of rounds and
replies that are sequences of calls. TLC evaluates them in the runs.

Only model-checked: every liveness property (the prover has no `ENABLED`), with the
liveness half of `SpawnQueue`'s `Implements`; and `SizesKeepLayout`. What a resize
does is a recursion that hands out cells one at a time from side to side, and what it
comes out with for every tree is an induction over the number of cells and the tree
together, over a function that is not defined where the code does not return. TLC
showed while this proof was tried that the property needs its exception: trees
with alternating splits do not keep it. `TypeCorrect`, `FocusIsKept` and the
others do cover resizes, for what they say does not depend on the cells. The refinement of `OutputQueue`
is proved and is in no run: it costs a run nothing to add `Implements` to
`PaneStream.cfg`, and TLC confirms it there.

## 5. Findings

1. `config/src/config.rs:438` promises that held output is forced out after a
   time. The time is looked at only when more output arrives (`PaneStreamHold`).
2. `mux/src/tab.rs:1500` constrains a resize to the least the panes need. The
   cells are handed out to the sides in turn, not by what each can spare, and the
   loop at `tab.rs:489` asks a side that has none for ever (`TabHang`).
3. `crates/promise/src/spawn.rs:81` says that whoever polled first has left a
   waker. A thread that ends between the look for its result and the waker at
   `spawn.rs:100` wakes nobody (`SpawnLost`).
4. `overlay/ai_chat/state.rs:733` says that `stream_is_transient` means a side
   question. `cancel_stream` leaves it set, so the question that interrupts a side
   question gets no tools and its answer is not saved (`ChatSide`).

Known from the models, proofs and hazards, without a run of their own:

* `crates/manda-relay/src/main.rs:30` says that a desktop waits 10 minutes for a
  phone; the clean-up of the connection it replaced (line 57) takes it out of the
  map, and with that it stops waiting at once.
* A phone that comes in the instant in which its host's 10 minutes end is sent to a
  channel nobody reads any more and cut off (lines 50 and 84).
* `mux/src/domain.rs:203` registers the new pane, or has taken the moved one out of its
  tab, before the split is tried. When that is refused (`tab.rs:2426`–`2454`: the tab is
  zoomed, or too small) the pane runs on in no tab, and no prune finds it when it dies.
* `manda-gui/src/termwindow/mod.rs:2751` says that the final output is rendered even if
  nothing follows. A third notification within 8 ms, when the repaint that the second
  queued is past, finds `pending_output_invalidate` set and queues nothing: what it
  told of stays unpainted until the next event (`AllDrawn` leaves it out).
* Output that the reader writes to the socketpair after the parser of a removed pane has
  drained it for the last time is read by nobody (`mux/src/lib.rs:316`, `496`): a user
  variable in it raises no alert.
* A tool that never ends (`shell.rs:178`, `ai_tools/mod.rs:81`) keeps its turn streaming
  until the user cancels it, and its thread for good. Cmd+W while a turn streams
  (`ai_chat/mod.rs:186`–`195`) closes the chat and leaves the thread without its flag
  set.
* `mux/src/window.rs:157` says that closing a tab switches back to the tab before;
  the index is taken before the list shifts (`SwitchBackLands`).
* `mux/src/tab.rs:2149` shifts the active index down by the panes that went before
  it. After a right leaf goes, `remove_pane_if` walks into its sibling again; when
  that is a split, the leaves in it are counted twice and what goes after them has
  too high an index. Of four panes split as (((a, d), c), b), with b active, when c
  and b go in one prune the index stays at 2 of two panes: the tab has no active
  pane until one is chosen. `FocusKept` leaves such removals out.
* `adjust_x_size` at `mux/src/tab.rs:455` lets a split across the axis keep the least
  its panes need, though its parent has already taken the cell from it. In a tab of 7
  columns with the panes ((a | d) over c) | b, split at 3 and 3 columns and a and d
  at one each, a change to 5 columns takes a cell from both sides. The left side
  records 2 columns, its splits and c keep 3 and lie over the divider; a later
  resize keeps the difference. `SizesKeepLayout` leaves such trees out
  (`Alternating`); TLC finds the overlap at once when they are let in.
* A user variable written just before an exit may be lost with the unread pty.
* One direction of a relayed pair may outlive the other until its own peer sends or
  goes (`main.rs:134` says that both are stopped).
* A question of consent that timed out stays on the screen of the chat, and takes
  every key but Enter and Escape, until it is answered for nobody.

## 6. Assumptions of the models

`prune_dead_windows` and `remove_tab_internal` get the lock they try. The pane's
domain is not detachable. `emit_output_for_pane` has no effect but output.
The threads do not panic (those of the AI chat may). Bytes are whole items: an escape sequence cut by a
read is completed by the next one inside the parser, which is left out.

`TabTree` takes pixels to follow cells; its runs have a gap of 0, its proofs
every gap. `SpawnQueue`: no queued function runs an event loop of its own.
`RemoteSession`: a phone sends each request once, and one pane is looked at.

## 7. Plan

Written, in this order: `PaneProcess`, `PaneStream`, `PaneLife`, `RelayBroker`,
`OutputQueue`, `WindowTabs`, `MuxWindows`, `SplitGeometry`, `TabTree`, `MainThread`,
`SpawnQueue`, `RemoteSession`, `AgentLoop`, `ChatOverlay`. Next:

1. The chat of the command line, which drives the same threads through `Engine`
   with one cancel flag for all turns: a new turn clears the flag that the last
   one may not have looked at yet.
2. Pacing of repaints over several panes (`mux_pane_output_event`): `PaneStream`
   has one pane, and a repaint for one draws the others.
3. The line cache of the mux client and its poller, against the server's lines.
4. Abstract specifications: a registry without suspension for `MuxWindows`, a
   one-slot mailbox for the relay's pairing.
5. Proofs: that the abstract specifications of 4 are implemented; that a resize which
   returns keeps a tab without alternating splits filled (`SizesKeepLayout`).

## 8. Not modelled

Terminal emulation, escape parsing, surfaces and widgets (sequential
interpreters with large test suites); rendering, fonts and windows of the
operating system (out of reach); configuration, Lua, command line, session
restore and updates (files and dialogs); ssh and tmux domains (foreign
protocols behind libraries); generated tables and vendored C code, which are
most of the repository's lines. The mux client's line cache, blob
leases and range sets are candidates after the plan.

Of what is modelled in part: the spawn queues of Linux and Windows, which run one
function at a time; `SimpleExecutor` and `ScopedExecutor`; the trees of remote
tabs (`sync_with_pane_tree`), which replace the whole tab; HTTP routes, tokens and
pairing codes of the remote server; detachable domains; of the AI chat `/new`,
`/clear`, `/resume`, attachments, models, memories, and what is folded or cut
from long conversations.
