# Verification of IntegrationServer

TLA+ models of the concurrent core of this repository, checked by TLC on small
instances.  What the runs check of safety, TLAPS proves for every value of the
constants: any number of threads, connections, messages, tasks and timers.
Paths below are relative to the root of the repository; `a.cpp:n` is line n of
that file.

Run a check with `tlc -config <run>.cfg <module>.tla` and a proof with
`tlapm <module>Proofs.tla`; section 5 lists the modules of proofs.

## 1. The system

    client                      single_server
    ------                      -------------
    Robot                       SingleServer, ObjectManager        main io_service, 1 thread
      |                            |  post            ^ post (SentryListener)
    Connector ---- TCP ---- Acceptor / TcpSocket                   BoostNetwork, n threads, strands

    utils: SignalControl -- Scheduler | SchedulerLF -- SchdelerSafeUnit
                                |                  \-- DBManager -- DBConnectionPool -- libzdb
                           ReactorEpoll -- StreamSocket, ReactorTimer   (used by test/)
    logic_work: Combat, NineMap                                    (sequential algorithms)

| Component | State | Operations | Talks to | Status |
|---|---|---|---|---|
| `TcpSocket` (boost_network) | two send buffers, `m_asyncWriting`, close and notify flags, receive buffer, packet index | `write`, `close`, `read`, completion handlers | kernel; `IoInterface` callbacks | modelled, proved |
| `Acceptor` | acceptor, socket list | `accept` loop, active/passive close, `stop`, `clear` | sockets; `IoCallback` (logic) | modelled, proved |
| `Connector` | the one connection, connect and timer in progress, `m_startSign` | `connect`, `reconnect`, active/passive close, `stop`, `clear` | as above | modelled, proved |
| `BoostNetwork` | listeners, connectors, io threads | `init`, `listenAt`, `connectTo`, `stop`, `close` (posts, then joins) | Acceptor, Connector | modelled and proved with them |
| `BoostServer`, `SingleServer` | main io_service, `m_interruptedFlag`, the signal set | `runServer`, `handleSignal`, `closeServer`, message dispatch | BoostNetwork, ObjectManager | modelled, proved |
| `ObjectManager` | uid counter, uid -> object, activity times | add, del, find, `onTimer`, `testLimitTcp` | sockets through `postCloseSocket` | modelled, but the replies of `testLimitTcp`; proved |
| `TimerManager` | map of run times, a `deadline_timer` | `afterFunc`, `onTimer`, `cancel` | main io_service | modelled, proved |
| `SchdelerSafeUnit` (utils) | access and cancel flags, two lists | `post`, `cancelUnits`, `doComplete` | a scheduler | modelled, proved |
| `Scheduler`, `SchedulerList` | task list, condition variables, start/work flags | `start`, `stop`, `post`, workers | worker threads | modelled, proved |
| `SchedulerLF` | work list with the reactor as a baton, `m_taskList` | `start`, `stop`, `post`, `run` | reactor, workers | modelled, proved |
| `ReactorTimer` | two maps of due times | `expiresFunc`, `expiresFuncByMs`, `cancelFunc`, `getTimerTask` | SchedulerLF | modelled, proved |
| `ReactorEpoll`, mount data, `StreamSocket` | per descriptor: triggers, waiting units, registered events | `startEvent`, `addUnit`, `runEventOp`, `cancelUnits`, `delEvent`, asynchronous read and write | epoll, SchedulerLF | modelled for one descriptor, proved |
| `Combat` | fighters, speed bars, step | the rounds of a battle | none | modelled, proved |
| `DBManager`, `DBConnectionPool`, `SQLTable` | a pool of connections, a `SchedulerLF` with its threads, a cache of tables | `init`, `stop`, `postDBTask`, `exec`, `execQuery`, `execFunc`, `close` | libzdb, the SQL server; safe units | modelled, proved |
| `NineMap` | sizes, three maps from a cell to the cells around, in front of and behind it | `init` | none | modelled, proved |
| `SignalControl` | set of signals, the scheduler, the function | `init`, `addSignal`, `asyncWait`, `catchSignal`, `reset` | the kernel's signals; a scheduler | modelled, proved |
| `calc_tool` | none | conversions of texts, `safeSub` | | modelled where used |
| proto, log, time strings, stress test, tests | | | | left out |

What is hard, and what would make each part correct:

* **Sending** (`TcpSocket`).  Bytes are appended to one buffer while the kernel
  holds the other; the completion handler, not `write`, sends what came in the
  meantime.  Errors of reads and writes race with `close`.  Correct: bytes leave
  in order, none twice, none forgotten; `close` drains and ends; a loss is
  reported at most once; the buffer in the kernel is left alone.
* **Receiving** (`readParse`).  Bytes arrive cut anywhere into a buffer that
  does not grow.  Correct: whole packets in order, no deadlock on a full
  buffer, an index check that keeps honest peers and lets nothing be replayed.
* **Two threads, two queues** (`Acceptor` against `ObjectManager`).  The network
  and the logic each keep a table of connections and tell each other of changes
  by posts.  Correct: the tables agree in the end, no message is looked up under
  another client's uid, shutdown ends.
* **Completions that cannot be recalled** (`Acceptor::stop`, `Connector::stop`).
  Cancelling does not undo a completion already queued.
* **Hand-made strand and schedulers** (`SchdelerSafeUnit`, `Scheduler`,
  `SchedulerLF`).  A swap without the lock, notifications outside the lock,
  flags outside the mutex of their condition variable, a list that only the
  holder of the baton may touch.
* **Edges** (`ReactorEpoll`).  Epoll reports an edge once.  Between the test of
  the trigger and the unit that waits for it there is no lock, nor is there one
  around `m_curEvent`.  Correct: no readiness is lost; after `cancelUnits`
  nothing waits.
* **Signals.**  A handler of `SignalControl` runs in any thread, with whatever
  mutex that thread holds, and posts.  `BoostServer`'s comes through the queue,
  maybe while the server still starts.  Correct: a caught signal stops what it
  should, from every state.
* **Connections of a pool.**  A call may find no connection, succeed, throw an
  `SQLException`, or leave a result unread.  Correct: every path gives back what
  it took, no task is refused without a reason, and what `init` tells is true.
* **Heartbeat.**  Whole seconds compared in handlers that drift.
* **Battles.**  Integer strides, overflow of the bar and ties must neither lose
  a turn nor leave a round without a fighter to act; a battle must end.
* **Grids.**  The last screen of a length that is no multiple of 30, the ring of
  directions taken modulo 8, keys of 32 bits.  Correct: every pixel has a cell
  that knows its neighbours, and a crossing tells what appears and disappears.

`PROJECT.json` lists every hazard at its line with the properties aimed at it.

## 2. Modules

| Module | Models | Notes |
|---|---|---|
| `OrderedStream` | what the sending half of a socket promises | abstract |
| `TcpSocket` | `tcp_socket.cpp` but `readParse`; `Buffer::reserve` | implements `OrderedStream` when sends are whole |
| `MCTcpSocket` | message sets for TLC | |
| `PacketReader` | `TcpSocket::readParse`, `Buffer::refitBuffer` | |
| `TcpSocketProofs` | proofs about `TcpSocket` and `PacketReader` | |
| `SerialExecutor` | what a strand promises | abstract |
| `SafeUnit` | `scheduler_safe_unit.cpp` | implements `SerialExecutor` |
| `DBManager` | `db_manager.cpp`, `db_connection_pool.cpp`, `sql.cpp`, the conversions of `calc_tool.cpp` | extends `SafeUnit`: the unit's worker steps are those of the manager's threads |
| `MCDatabase` | set-ups of `DBManager` for TLC | |
| `SafeUnitProofs` | proofs about `SafeUnit` and `DBManager` | |
| `Scheduler` | `scheduler.cpp` and `scheduler_list.cpp`, consumer mode | |
| `SignalControl` | `signal_control.cpp` | extends `Scheduler` with the kernel's signals and their handler |
| `SignalControlProofs` | proofs about `Scheduler` and `SignalControl` | |
| `LeaderFollower` | `scheduler_leader_follower.cpp/.hpp`, `reactor_timer.cpp` | composes the list, the baton and the timers |
| `LeaderFollowerProofs` | proofs about `LeaderFollower` | |
| `Reactor` | `reactor_epoll.cpp`, `reactor_epoll_mount_data.cpp`, `stream_socket.hpp` | one descriptor |
| `ReactorProofs` | proofs about `Reactor` | |
| `SentryServer` | `acceptor.cpp`, `network.cpp`, `boost_server.cpp`, `single_server.cpp`, `sentry_*.cpp` | composes network and logic; sockets as `TcpSocket` promises |
| `Connector` | `connector.cpp`, `network.cpp` | the client side |
| `ConnectorProofs` | proofs about `Connector` | |
| `LinkCheck` | `time_manager.cpp`, the timing of `sentry_manager.cpp` | discrete time; its `LinkInit`, `LinkSpec`, ... are named apart from `SentryServer`'s |
| `SentryServerProofs` | proofs about `SentryServer` and `LinkCheck` | |
| `Combat` | `logic_work/battle/*.cpp`, `safeSub` of `calc_tool.cpp` | sequential; one call runs rounds that call each other |
| `NineMap` | `logic_work/aoi_nine/nine_map.cpp` | sequential; one call makes the grid |
| `MCLogicWork` | the battle and the grid side by side, for TLC | they share nothing and are not multiplied |
| `LogicWorkProofs` | proofs about `Combat` and `NineMap` | |

How state and actions correspond to the code:

* **Handlers.**  A handler that runs on a strand is one action; the strand is a
  sequence of handlers (`strand`), the main io_service another (`main`).  An
  asynchronous operation is a variable (`sendOp`, `readOp`, `acceptOp`,
  `connectOp`, `timerOp`) that goes from pending to a completion when the kernel
  is done; its handler is a separate action at any later moment.  Cancelling
  turns a pending operation into `aborted` and leaves a completion as it is.
* **Locks.**  A function that holds its mutex from end to end is one action
  (`SafeUnit!Post`).  What happens outside a lock is split: the swap in
  `doComplete` (`SwapRead`, `SwapWrite`), `notify_one` after the lock's scope
  (`Scheduler!Post`, `Notify`), the test and the sleep of `startWait`, where
  `start()` takes no lock (`StartTest`, `StartSleep`), the five steps of
  `startEvent` (`TestTrigger`, `Ctl`, `AddMount`, `StoreEvent`, `AddUnit`).
* **The accept handler** is two actions, because the logic's thread and the
  socket's strand run between `onNewAccept` and `read`.
* **Sockets in `SentryServer` and `Connector`** have the states that
  `TcpSocket` shows to its owner: open, draining after `close`, lost (reported,
  but a completed read may still deliver), closed.
* **Values left open by the code** (`m_start` and `m_work` of `SchedulerLF`
  before `init` and `start`) are open in `Init`.
* **Epoll** is external: edge triggered, one entry per descriptor, put in the
  ready list at each event and when it is added or modified, errors of
  `epoll_ctl` ignored as the code does.
* **Calls within calls** (`Combat`): `roundStart`, `roundFight` and `roundEnd`
  call each other; each is an action and `call` is the one that runs next.
* **A signal's handler** (`SignalControl`) is an action of its own that may come
  at any time.  `Scheduler` has what it does under the list's mutex as one
  action; a handler that interrupts a worker there is `CatchInLock`, at the place
  where this action is the worker's next, and the worker then never moves again.
* **The database** (`DBManager`).  The list is a sequence of units and tasks; its
  condition variable, which `Scheduler` and `LeaderFollower` model, is reduced to
  a sleeper that may wake while the list is not empty.  A function or a task is
  one call of the pool: take a connection, use it, give it back.  A call succeeds
  or throws; the two differ only in the text of `error` and have one action.  A
  column is the set of the words in its type, a statement the columns it names in
  order.  Numbers wrap at `IntWord` and `LongWord`.
* **The start** (`SentryServer`).  `Init` is `runServer` after `initSignal`; each
  step of the start is an action of the main thread while the network's threads
  already accept.
* **The grid** (`NineMap`).  A list of cells is the set of their keys; numbers wrap
  at `Word`.
* **Data.**  Bytes are pairs (message, position); messages and packets are
  small sets with lengths around the limits.

An invariant whose name ends in `Inv` (`SignalInv`, `ServerInv`, ...) is a
conjunction of named parts, the type invariant among them; each part is stated
and explained above it.  What a module has under "The inductive strengthening"
is there for its proof; TLC checked each of these invariants on the run's
instance.  Definitions marked *Faulty* are mutations of the
operator that follows them: each property is shown to fail when its operator is
replaced by one of them.

## 3. What the runs check

| Run | Question | Instance and bounds | States |
|---|---|---|---|
| `socket` | Does a socket implement `OrderedStream` when each send is whole: no byte forgotten, the buffer in the kernel left alone, a loss reported once, room for every packet, every `close` ended? | 4 messages of sizes 1, 2, 1 and 4 (the last one too long); together they make `reserve` grow; 2 closes, 1 packet read | 189,024 |
| `socket_partial_send` | Does `close` drain when the kernel takes a part? **No** (finding 1) | as above, 1 close | |
| `reader` | Are packets cut at any byte delivered whole and in order, does the buffer never fill, does the index check keep honest peers and refuse repeats and gaps across the wrap? | 3 packets of lengths 0, 3 and 4 (one byte too long); the buffer one byte longer than a packet, as in `common.hpp`; top index 3 in place of 255 | 46,619 |
| `database` | Is a safe unit on the manager's scheduler a serial executor, its swap private, its cancel callback last? Does every call give its connection back, is `init`'s answer true, do numbers arrive, does every task end? | 2 threads, 2 functions, 1 cancel, 1 direct task, 2 tables; nine set-ups: fewer, as many and more threads than connections, an unknown column type, a missing table, a server out of reach, no table, no pool, texts too large; words of 2 and 4 bits | 175,094 |
| `signals` | Is every task taken once and in order, no notification lost, whom do `start` and `stop` reach, when is a signal safe, and does it run and stop the scheduler? | 2 workers, 1 task, 2 signals, `start` and `stop` at any moment, a handler in any thread | 234,646 |
| `leader` | Is there one baton, is every unit handed over once, is no timer early, no notification lost, and does every unit run? | 2 workers, a task, an event, a timer in seconds, one in milliseconds, 2 units of time (one second) | 828,273 |
| `reactor` | Does nothing survive a cancel, whatever the threads do; with one thread, is no readiness lost to a read and does every read end? | 1 descriptor with a read and a write, 1 or 3 threads, 1 cancel | 49,214 |
| `reactor_write` | With one thread, does every write end? **No** (finding 2) | 1 thread | |
| `server` | Do the socket list and the object table stay in step through accepts, losses, kicks, messages and shutdown, and does a signal, even during the start, bring the server to its end? | 2 connections, 1 message between them | 563,624 |
| `connector` | Is there one attempt at a time, is every loss told, does shutdown end unless a completion was queued behind it? | names for 2 connections alive at once, `m_startSign` both ways | 15,393 |
| `link_check` | Is a silent client closed in time and an answering one kept once it was pinged? | the code's constants, quarter seconds, 40 seconds, handlers late by at most a quarter | 383,941 |
| `logic_work` | Has every round a fighter to act, do turns follow speed, are only enemies hurt, is the result true, do robots' battles end? Does every cell of a grid know its neighbours, and is every crossing told exactly? | 3 fighters with every attribute of the sets, both kinds of camp; 6 rounds in place of 99, the code's bar factor 7, attack 150 %. Lengths of 0, 1, 4, 6, 11, 29 and 30 pixels by screens of 3, numbers of 5 bits: empty and single cells, full and cut last screens, sums and keys that wrap; `init` twice | 388,865 |

Why the bounds are enough: each hazard needs at most two actors of a kind (two
sends to alternate the buffers, two workers in one unit, two connections to mix
up uids) and one repetition (a third message or function that meets the buffers
or lists in their second state).  `reactor` has no more to bound: its state is
finite for a descriptor, and three threads are one for the read, the write and
the reactor or the cancel each.  `logic_work` starts a battle from every assignment of the
attributes; six rounds let bars overflow, tie and be used again, and both the
end by death and by time occur.  A grid of 4 by 4 has corners, edges and inner
cells, and every direction from each.  `database` no longer meets a second
`cancelUnits` or a third function of a unit: the theorems of section 5 hold for
any number of both.

Deadlock is not checked: every system here may come to rest, with all messages
sent, all threads ended or the battle over.

### Fairness

* Handlers that are ready run (weak fairness per group of handlers): the
  io_service threads and the workers do nothing else.
* The kernel ends a send (it takes the data or the connection breaks), a connect
  and a timer.  For sends this assumes a peer that keeps reading or vanishes; a
  peer that stays connected and never reads stalls `close` for ever, and the
  code has no timeout for it.
* Functions run by a worker return.  In `DBManager` that includes the statements:
  libzdb ends them at the latest by a time-out.
* In `SignalControl` a worker keeps running until its own handler waits for its
  own mutex; posts, signals and spurious wakeups have no fairness.
* In `SentryServer` the main thread goes on with the start and its queue.
* Clocks tick, and `epoll_wait` returns after 50 ms at most
  (`LeaderFollower!Tick`).
* In `Reactor` a posted unit and the reactor get a thread in turn (strong
  fairness of `TakePosted` and `EpollWait`): the list is first in, first out and
  the reactor is a unit of it, so neither is passed over for ever.
* A call within a battle goes on (`Combat!Run`): it is one thread's call stack.
* Calls of the logic, arriving packets, errors, cancels and spurious wakeups are
  not fair: nothing has to happen.

## 4. Findings

1. **Partial sends lose data** (`tcp_socket.cpp:155`): the rest of a buffer is
   dropped when `async_send` took a part, against `sentry_manager.hpp:36`.
   Run `socket_partial_send`.
2. **A write can stall** (`reactor_epoll_mount_data.cpp:40`): an event that is
   readable and writable sets only the read trigger.  A later write finds no
   trigger and waits for an edge that has passed, although there is space.  Run
   `reactor_write`.

### Known limits without a run

The modules state these as properties that the code does not keep.  Each shows
up when the property is checked under the module's fair specification in place
of the run's properties.

* `Scheduler!StopEndsWork` (`scheduler_list.cpp:8`): the wait predicate ignores
  `m_workStart`; a worker that sleeps when `stop()` notifies sleeps again.  What
  does hold is in `SignalControl!StartAndStopReach`, for `start()` too.
* `Scheduler!StartStartsAll` (`scheduler.cpp:21`): `m_start` is set without its
  mutex, so a worker between its test and its sleep misses the notification.
* `Connector!Reconnects` (`connector.cpp:113`): `m_startSign` is never set, so
  nothing is ever reconnected (`StartSigns = {FALSE}`, as constructed).
* `Connector!ShutdownEnds` (`connector.cpp:139`): a connect that had completed
  when `stop` and `clear` ran opens a connection behind them, and `join` hangs.
* `Reactor!ReadsComplete` without its `threads = 1` (`reactor_epoll.cpp:76`):
  with three threads the event comes after `TestTrigger` and `Ctl` and is handled
  before `AddUnit`; the trigger is set, and the unit added behind it waits for
  the next edge.  Likewise two operations that start together overwrite each
  other's `m_curEvent` (`reactor_epoll.cpp:93`).
* `time_base.hpp:26`: the granularity is 1000 ms where the comment has 500.  A
  handler may skip a second, and an answering client may be closed before its
  first ping; `AnsweredInTime` therefore speaks of a client that was pinged.
* `SignalControl` (`signal_control.cpp:48`): a handler that interrupts a worker
  inside the list's mutex waits for its own thread, and after `reset()` the
  handlers stay installed and the next signal follows a NULL scheduler.
  `TasksAndSignalsRun` excepts the first, `OnlyALaterSignalCrashes` bounds the
  second.  `addIgnoreSignal` returns what `sigaction` does, so false when it
  worked; `sa_flags` and `sa_mask` are never set.
* `SentryServer`: when the port is taken, `runServer` returns and the destructor
  joins network threads that still have their work object
  (`single_server.cpp:61-66`); `ShutdownEnds` therefore accepts `failed`.  A
  second signal is ignored.
* `DBManager` (`db_manager.cpp:19-25`): the pool's answer is overwritten, so that
  with no table to load `init` returns true without a pool, and the first task
  aborts; `InitIsHonest` speaks of the rest.  `SchedulerLF::init` is not called,
  so `m_work` is never set: a worker may end after its first turn.  Nobody closes
  the pool.
* `DBManager` (`db_manager.cpp:72`): the statements are made before the condition
  is stored, so `where` is empty in all of them, and `sql.cpp:60` writes `set`
  before each field; `getTypeFormatParam` returns a pointer into a string that is
  gone (`db_base.cpp:29`).
* `DBManager` (`db_connection_pool.cpp:147`): the setters are signed, so the upper
  half of an unsigned column arrives negative; a text out of range throws past
  the `CATCH` of libzdb (`calc_tool.cpp:10`) and ends the process.
  `NumbersArrive` says what arrives; `ParamsFit` excludes the second.
* `NineMap` (`nine_map.cpp:14,34`): `init` a second time with another size mixes
  both grids, and lengths within 29 of 2^32, or more than 2^32 cells, wrap;
  `Unmixed` and `Fits32` exclude them.
* `Combat`: with all speeds 0 a battle stays in its rounds, and a user's camp
  waits for `setOperateSkill`, a TODO (`combat.cpp:68-76`); `RobotBattleEnds`
  speaks of the others.  Speeds so far apart that `RUN_SPEED_BAR_INVALID` strides
  are not enough lead to a null pointer in `roundEnd`; `SpeedAssumption` excludes
  them, the code does not.

## 5. What is proved

Every safety invariant and every action property that a passing run checks is a
theorem, and so are the refinements of `OrderedStream` and `SerialExecutor`.
Each proof has the same shape: an inductive invariant, named below, that the
initial states satisfy, that every action keeps, one step of the proof per
action, and that implies the property.

No bound is assumed on messages, packets, sizes, workers, threads, connections,
tasks, timers, signals, tables, fighters, lengths or time.  What is assumed is
the `ASSUME` of each module:

* values of different kinds differ: messages and sockets are no names of states
  and handlers, functions no callbacks, `NULL` and the baton no tasks;
* constants have the kind the code gives them: sizes are natural numbers, a head
  is not empty, a packet fits the buffer, an interval is not 0, a screen has at
  least 3 pixels and fits the word, there is a worker;
* what is counted is finite: the workers and timers of `LeaderFollower`, the
  threads of `DBManager`, the fighters of `Combat`;
* `DBManager!SetupAssumption`: `init` is given each table once, of the tables
  there are;
* `LinkCheck!AnswerAssumption`: a client *that answers* does so at least a second
  before the next check is due, within 4 seconds with the code's interval of 5;
* `Combat!SpeedAssumption`: no fighter needs more than `RUN_SPEED_BAR_INVALID` -
  1 strides.  The code does not see to it (section 4).  With exactly
  `RUN_SPEED_BAR_INVALID` strides nobody would be found to act either, so that
  case is excluded too.

### The network

**TcpSocket** (`TcpSocketProofs`).  `SocketInv` is inductive together with
`TypeOK`:

* `BufferInv`: with no send in progress both buffers are empty and `sendOp` is
  idle.  It gives `NothingStranded`, and, as a handler never touches the buffer
  `Other(idleIndex)` while a send is pending, `SendBufferStable`.
* `CloseInv` is `ReportInv` (an open socket has reported nothing, and
  `m_notifyCallback` is false only when the socket is closed), which gives
  `PassiveCloseOnce`, and `FinishInv`: the close that is posted after the last
  byte is posted only with `m_closeFlag` set and nothing in progress, which no
  later write can undo.
* `StreamInv` (whole sends only): accepted = wire, then what the kernel holds,
  then the idle buffer.  It gives `DrainedBeforeClose` and the refinement of
  `OrderedStream`.  It fails when sends may be partial, which is finding 1, so
  these two theorems carry the hypothesis `~PartialSend`.
* `RoomForEveryPacket` needs only `Len(buffer) <= maxSize` and the arithmetic of
  `Reserve`.

**PacketReader** (`TcpSocketProofs`).  `ParserInv` is inductive: what is in the
buffer and on the way is a sequence of whole packets of which the first may have
been begun (`ParsedStreamInv`, with `PacketStream` as the claim about the bytes
that a cut anywhere preserves); after a `readParse` that waits, the packet it
waits for is at the front of the buffer, so that there is room for the rest
(`FrontInv`, which gives `NeverFull`); `m_msgIndex` follows the last packet
(`IndexInv`, which gives `Consecutive` and `HonestPeerKept`, across the wrap).

**Connector** (`ConnectorProofs`).  `AttemptInv` adds to `ConnectorInv` what the
handlers in the strand know (`ReportsInv`): a loss is reported of a closed
connection only, the connection the logic knows is the one `m_socketPtr` holds,
and one that is being closed was let go of.  Without it a late report could be
taken for that of a new connection.

**SentryServer** (`SentryServerProofs`).  `StepInv` relates the two threads'
tables through the two queues between them: the accept in progress
(`AcceptInv`); a connection is announced once (`OnceInv`), as soon as it is
accepted (`AnnounceInv`) and before anything else of it; the Acceptor keeps a
socket until it is asked to close or hears of its loss (`KeptInv`); a uid is
given out once (`UidInv`); and what one side has dropped is in a queue on its
way to the other (`NewsInv`).  `ServerInv` and `StayInStep` follow.

**LinkCheck** (`SentryServerProofs`).  `HeartbeatInv`: the last handler left only
checks of later seconds (`HandlersInv`); the check to come is within the time-out
and an interval of the object's activity (`SilenceInv`); a ping not answered yet
is of the last check, and its answer comes before the next (`PongInv`).  It gives
the bound `LinkTimeout + Interval + (During + Late) \div Second` on the silence of
an open connection, 21 seconds for the code's constants, for any grain of the clock
and lateness of the handlers.

### Schedulers and threads

**Scheduler and SignalControl** (`SignalControlProofs`).  `TaskInv` is
`SchedulerInv` with `OnceInv`: no task is posted or taken twice, and a worker has
one exactly while it completes it.  `SchedulerUnderSignals` shows that
`SignalControl` implements `Scheduler`: wherever a handler interrupts a thread,
all a scheduler promises still holds.  `HandlersInv` then says that what was
posted for a signal has come, that only `asyncWait` installs the handler, and
that `sScheduler` is let go of by a signal's function only, from which the first
signal is safe.

**LeaderFollower** (`LeaderFollowerProofs`).  `SchedulerInv` adds to `LeaderInv`
that what a worker completes was handed over (`UnitInv`), that a timer is
armed, and handed over, late enough (`TimerInv`), and that no worker leaves while
the scheduler works (`NobodyLeft`, for `NoLostSignal`).  The one baton is where
`m_taskList`'s safety comes from: only its holder touches the list.

**SafeUnit** (`SafeUnitProofs`).  `UnitInv` is inductive with `TypeOK`:
`access` holds exactly when the unit is in the scheduler's list once or one
worker is inside `doComplete` (`AccessMeansOwned`, `MutualExclusion`); what was
accepted is what was executed, then the rest of the run list or the access list
as the owner's progress says, then the wait list (`NothingLost`); a cancel
callback is the last thing accepted (`CancelInv`).  From it follow the privacy
of the unlocked swap, `CancelIsLast` and the refinement of `SerialExecutor`.

**DBManager** (`SafeUnitProofs`).  `UnitOnManager` carries the theorems about the
unit over to the manager's threads: every step of the manager is one of the unit
or leaves it alone.  `ManagerInv` says who works: the unit is in the list once if
it is scheduled (`UnitListed`), a worker is in `doComplete` exactly when it runs
the unit, and in a call of the pool exactly when it runs a task or a function
(`WorkersAgree`), and nobody works before `init` or after the join
(`NobodyAtWork`).  With it the connections held are those of the calls in
progress, whatever each call meets.  `CachedInOrder` and `InitKeeps` follow
`init` table by table and make its answer true.

**Reactor** (`ReactorProofs`).  `ReactorInv` is inductive.  For any number of
threads: what waits is exactly what is in `m_unitMap`, and after a cancel both
it and the triggers are empty, although `startEvent` runs into the cancel
between its two locks (`CancelledIsQuiet`).  With one thread `OneThreadFree`
turns the count of busy threads into exclusion (`Turns`); then `m_curEvent` is
what epoll has registered, except inside `startEvent`, where the local `ev` is
(`EventsKnown`); then, whenever the read trigger is erased, the read is
registered and can be done, epoll's ready list or the reactor's mask still has
it (`EdgeKept`).  Each part needs the one before.  `NoReadLost` follows: no edge
is lost to a waiting read.  The same is false of writes (finding 2) and of
several threads (above).

### Sequential algorithms

**Combat** (`LogicWorkProofs`).  `BattleInv`: nobody has moved before the rounds
(`BeforeRounds`); while a call of a round is open somebody alive can move
(`InRounds`); the acting fighter is alive, has filled its bar and aims at an
enemy (`Acting`); the bar is a multiple of a speed that occurs
(`SpeedBarFits`).  The heart is that the least number of strides after which a
bar is full exists and keeps every bar below the next one.

**NineMap** (`LogicWorkProofs`).  `GridInv`: the maps always hold the grid that
the first `init` made (`HoldsFirst`), because `insert` keeps what is there.  On
it the geometry is proved for every screen of at least 3 pixels, every length and
every width of numbers: each pixel has a cell, and a crossing tells exactly the
cells that come into view and those that leave it.

### Only model-checked

Liveness: `CloseCompletes`, `AllDelivered`, `EveryJobEnds`, `TasksAndSignalsRun`,
`StartAndStopReach`, `ShutdownEnds`, `ShutdownEndsUnlessLate`, `RobotBattleEnds`,
`EveryUnitRuns` and `ReadsComplete` rest on fairness and ENABLED, which the
prover cannot handle.  The two findings are counterexamples of TLC.

## 6. Not modelled

In `DBManager`: libzdb and the SQL server, of which only what the code relies on
is there (external), and the text of statements and errors.  `displayNineMap`
only logs.  `Scheduler`'s producer mode is a TODO in the code.  In `Reactor`:
several descriptors, the re-use of a descriptor's number after a close, the
synchronous calls and `asyncConnect`, which is one post.  The
life time of a `ReactorTimer`, whose functions refer to it.  Logging, time
strings, generated protocol code, the stress test and the tests are left out:
pure input and output or measurements.  Compression is off in the code
(`isNeedCompress` returns false).  `testLimitTcp` is modelled as the close it
ends in, not as its replies.  `setOperateSkill` and `setPlayEnd` of `Combat` are
empty in the code.

## 7. Plan

Done: sockets, reader, safe unit, both schedulers, signals, reactor, server with
its start and signals, connector, heartbeat, database, battle and grid as models,
and the proofs of their safety.  Next, in this order:

1. An abstract server, "a connection is announced, used, forgotten", that
   `SentryServer` implements, as a specification and a proof.
2. Two descriptors in `Reactor`, with `delEvent` and the re-use of a number;
   the reactor's abstract promise, "every waiting unit is run once after its
   descriptor became ready", as a specification that `Reactor` implements with
   one thread.
3. An abstract connection pool that `DBManager` implements, and its workers on
   the condition variable of `Scheduler`.

Runs stay at two or three actors of each kind.
