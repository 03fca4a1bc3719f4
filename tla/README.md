# TLA+ verification of twnl

twnl is a C++ network library in the reactor style: one `EventLoop` per thread,
`Channel`s that dispatch what a `Poller` reports, and TCP connections, servers
and clients on top. This directory holds TLA+ modules translated from its
source, TLC configurations that check them on small instances, and TLAPS proofs
of the theorems that hold for every instance. `PROJECT.json` lists the runs, the
theorems, the hazards the properties aim at, and for every definition the source
lines it models.

## The system

| component | state | operations | interacts with |
|---|---|---|---|
| `EventLoop` | `looping_`, `quit_`, `callingPendingFunctors_`, `activeChannels_`, `pendingFunctors_` under `mutex_`, the eventfd `wakeupFd_` | `loop`, `quit`, `runInLoop`, `queueInLoop`, `wakeup`, `doPendingFunctors` | called from any thread; calls `Poller::poll`, `Channel::handleEvent`, functors |
| `Channel` | `events_`, `revents_`, `index_` | `enable*/disable*`, `remove`, `handleEvent` | registers itself with the poller of its loop; calls the owner's callbacks |
| `EpollPoller`, `PollPoller` (`Poller`) | `channels_`, the event array or the `pollfd` array, the kernel's interest list | `poll`, `updateChannel`, `removeChannel` | one per loop, chosen by `newDefaultPoller` |
| `TcpConnection` | `state_`, `reading_`, `channel_`, `inputBuffer_`, `outputBuffer_` | `send`, `shutdown`, `forceClose`, `startRead`, `stopRead`, `connectEstablished`, `connectDestroyed`, `handleRead/Write/Close/Error` | lives on one I/O loop; used from any thread through a shared pointer; announces itself to `TcpServer`/`TcpClient` by callbacks |
| `TcpServer`, `Acceptor` | the table `connections_`, the listening channel | `start`, `newConnection`, `removeConnection`, destructor | base loop; hands connections to the loops of the pool |
| `EventLoopThread`, `EventLoopThreadPool` | the loop pointer under a mutex and condition variable; the round-robin index | `startLoop`, `threadFunc`, `getNextLoop` | create the I/O loops |
| `Connector`, `TcpClient` | `connect_`, `state_`, the retry delay and timer; the one connection | `start`, `stop`, `restart`, `retry`, `connect`, `disconnect` | `TimerQueue` for retries, `TcpConnection` once connected |
| `TimerQueue`, `Timer` | the ordered set of timers, the timerfd | `addTimer`, `cancelTimer`, `handleRead` | `EventLoop::runAt/runAfter/runEvery` |
| `Buffer` | a byte vector with reader and writer index | `append`, `retrieve`, `makeSpace`, `readFd(ET)`, `writeFd(ET)` | `TcpConnection` |
| `Logger`, `LogStream` | a fixed buffer per record, on the stack; the global level, output and flush functions | the `LOG_` macros, `operator<<`, `setLogLevel`, `setOutput`, `setFlush` | everyone, on any thread; a fatal record ends the process |
| `Socket`, `SocketsOps`, `InetAddress`, `Timestamp` | none, or a descriptor | system calls, formatting | everyone |

What is hard in this system:

* **Functors and wakeups.** Any thread pushes functors while the loop thread
  swaps and runs the vector; the eventfd is written after the mutex is released.
  A wakeup that is lost leaves the loop asleep with work pending.
* **Several ways into the close path.** The peer's FIN, a reset, `EPOLLHUP`,
  `forceClose` from a callback or from another thread, and `~TcpServer` all end
  in `handleClose` or `connectDestroyed`, which must be walked once, announce
  DOWN once, and take the channel out of the poller before the memory goes.
* **Lifetime.** Some functors are bound to `shared_from_this()` and some to
  the raw `this`; the connection leaves the server's table inside its own handler.
* **Partial writes.** What the socket does not take waits in `outputBuffer_`
  and must not be overtaken, lost, or cut off by `shutdown`.
* **Edge-triggered mode.** An event that is not consumed completely is not
  reported again, and the mode flag is part of the interest masks.
* **Masks set at start-up.** The masks are static members of `Channel`; the
  constructor of every loop sets them, after the loop's first channel has used them,
  and the loops of a pool are built while the base loop exists.
* **Indices into a moving array.** `PollPoller` removes an entry by moving the
  last one and renumbering its channel, which may be one that `poll` skips.
* **One descriptor for many timers.** The timerfd is set for the first timer
  only; adding, cancelling, expiring and the clock itself change which one that
  is, and a `Timer` changes hands between the set, `handleRead` and functors.
* **Retries.** An attempt to connect ends in one of several handlers, possibly two
  in one event, and is repeated by a timer that `stop` must catch, on any thread.
* **Two hops.** A connection of an I/O loop is taken out of the table on the base
  loop and destroyed back on its own, while the server may be destructed and
  its threads told to quit.
* **Records of a fixed size.** A log record is put together in 4000 bytes, piece by
  piece, with numbers written in place; a fatal one is put out, flushed and followed by
  `abort` while other threads log.

## Modules

| module | models | composes or refines |
|---|---|---|
| `TaskQueue` | abstract: one FIFO queue of functors | |
| `EventLoop` | `EventLoop.cc`: loop thread and foreign threads | refines `TaskQueue` |
| `EventLoopProofs` | theorems about `EventLoop` | |
| `Channel` | `Channel.cc/.h` and `EpollPoller::updateChannel/removeChannel` for one descriptor, as operators on a record | |
| `TcpConnection` | `TcpConnection.cc`, with what `TcpServer.cc` does to one connection, on one or two loops | uses `Channel` |
| `TcpConnectionProofs` | theorems about `TcpConnection` | |
| `Poller` | abstract: the table of interests that `Poller.h` promises | |
| `PollPoller` | `PollPoller.cc`: the array and the indices | refines `Poller` |
| `EpollPoller` | `EpollPoller.cc` over several descriptors | uses `Channel` |
| `Pollers` | both pollers driven by the same calls | composes `PollPoller` and `EpollPoller`; the latter refines `Poller` |
| `PollersProofs` | theorems about both pollers | |
| `TimerQueue` | `TimerQueue.cc`, `Timer.h` and the timer functions of `EventLoop.cc`, with the timerfd and the clock | |
| `TimerQueueProofs` | theorems about `TimerQueue` | |
| `Connector` | `Connector.cc`: its functions as actions on its variables | |
| `TcpClient` | `TcpClient.cc` and the loop it runs on | composes `Connector` with what `TimerQueue` and `TcpConnection` promise |
| `TcpClientProofs` | theorems about `TcpClient` and `Connector` | |
| `EventLoopThreadPool` | `EventLoopThread.cc`, `EventLoopThreadPool.cc`, the constructor of `EventLoop` and the static masks of `Channel` | |
| `TcpServer` | `TcpServer.cc`, `Acceptor.cc` | composes `EventLoopThreadPool` with several loops and connections |
| `TcpServerProofs` | theorems about `TcpServer` and the pool | |
| `ByteQueue` | abstract: bytes come out in the order they went in | |
| `Buffer` | `Buffer.h`, `Buffer.cc` | refines `ByteQueue` |
| `BufferProofs` | theorems about `Buffer` | |
| `LogStream` | `LogStream.h`, `LogStream.cc`, as operators on a buffer | |
| `Logger` | `Logging.h`, `Logging.cc` | uses `LogStream` |
| `LoggerProofs` | theorems about `Logger` and `LogStream` | |
| `MC...` | constants of the instances | |

### EventLoop

State keeps the names of the members. `pc` is the place of the loop thread,
`tpc` that of each foreign thread. The loop thread is cut where another thread
can observe it: at each read of `quit_` (`CheckQuit`), in `poll`
(`PollReturn`, `PollTimeout`), before and after the swap under `mutex_`
(`BeginPending`, `SwapPending`), between functors (`RunFunctor`,
`FunctorReturn`) and at the end (`EndPending`). A foreign call is two steps:
the push, or `quit_ = true`, and then `Wakeup`, the eventfd write. Code of the
application runs on the loop thread inside a handler, inside a functor and
outside `loop()`; there `QueueInLoopHere`, `RunInLoopHere` and `QuitHere` are
enabled. The eventfd is the only part of the poll set that is modelled exactly;
all other channels are one channel `io` that may be ready at any time.

### Channel, EpollPoller, PollPoller

`Channel` has one record per descriptor: `events`, `index` (`kNew`, `kAdded`,
`kDeleted`), `known` (is the descriptor in `channels_`), `edge` (in ET mode, is
there something new to report) and `failed`, the assertions that did not hold.
`enableReading` and its siblings change `events` and run
`EpollPoller::updateChannel`, as `Channel::update` does. The masks follow
`initDefaultEvent`: in ET mode the mode flag is part of *both* `kReadEvent` and
`kWriteEvent`. `mode_` is a variable, the static of the code: `TcpConnection` is checked
in both modes by one run, and `Pollers` level triggered.

`PollPoller` has the array, the keys of the map, and for each descriptor the
`index_` and `events_` of its channel. The guards of `Update`, `Remove` and
`Reuse` say how the library uses a poller: a channel may be registered without
interest, as the timerfd and the eventfd are while the masks are still empty
(the kernel then reports only errors on it); it gives its interest up before it
is removed, and `poll` skips its entry from then on (`Skipped`, `Muted` in the
table of `Poller`); and a descriptor that was removed may come back with a new
`Channel`. `Pollers` takes each such call on both pollers at once, and lets both
poll the same set of ready descriptors.

### TcpConnection

One connection from its creation in `newConnection` until its last shared
pointer is gone. The I/O loop is a cycle of `Poll`, `Dispatch`, the handlers of
`Channel::handleEvent` in the code's order (`CloseEvent`, `ErrorEvent`,
`ReadEvent`, `WriteEvent`), then a batch of functors, one action per functor
(`Run...`). That a functor is run once and in order is what `EventLoop`
shows, so the queue here is a plain sequence. A user callback is a state (`cb`)
in which the application may call any operation in `Ops`; `CallbackReturn`
continues `handleClose` and `connectDestroyed` after it. Calls from other
threads are cut between the test of `state_`, its assignment and the push of
the functor. `Alive` says whether a shared pointer exists: the table, the
application, a functor bound to `shared_from_this()`, or a thread inside a call.
After a dead object has been used the program's behaviour is undefined and the
model stops the I/O loop (`Undefined`). `mode_` is chosen in `Init` from `Modes`; `Ops` says
for each mode what callbacks may call, and `Careful` that `startRead` and `stopRead`
are called only on a connection that is up. `tame` is history: so far, other threads have
only sent, and the application has kept its pointer.

The socket and the peer are external: `write` takes a prefix, nothing, or
fails; the peer sends, drains, closes and resets at any time after the
connection is established. A message is a sequence of `MsgLen` bytes, so that a
partial write, a lost tail and a reordering are visible. The contents of
`inputBuffer_` are not modelled, only whether there is something unread.

### TimerQueue

A timer is named by its address, a number, which also breaks ties in the set.
`now` is the clock and `Tick` moves it at any moment; `armed` and `deadline` are the
timerfd. The loop thread goes from `Poll` through the handlers of other channels
(`other`) to `HandleRead`, which is cut at every timer it runs, because the
callback may add and cancel timers (`RunTimer`, `CallbackReturn`, `EndRead`),
and to the functors. A handler before `handleRead` in the same round may set the
timerfd anew; `HandleRead` then finds nothing to read, and goes on as the code
does. `Careful` says that the application cancels, on the loop thread, only timers
that wait, and from other threads only repeating ones.

### Connector and TcpClient

`Connector` has an action for each function, `TcpClient` the loop that calls
them: `Poll` collects what is reported for the connector's channel, the
retry timer and the connection, and the functors of the round follow.
`connect()` has three outcomes: the attempt is under way, has to be repeated, or is
given up. An attempt resolves as `ok`, `self` (a self-connect) or `fail`, and an `ok`
may turn into `fail` before the handler looks. `stop()` on another thread is three
steps, one for each variable it touches, and `removeConnection` is cut between
its test of `connect_` and `restart()`. `timer_` is `unset`, then points to a timer that
waits, is due, or is gone; `captured` is the pointer that a `stop()` on another
thread has read. A cancellation that finds the retry timer among those that `handleRead` has taken out, in the
callback of another timer, deletes it under `handleRead` (`Cancel`) and is a `misuse`.

### EventLoopThreadPool and TcpServer

Loop 0 is the base loop, the others belong to the threads of the pool, and
`pc` has the place of each thread: building its loop, published, in a round
(`events`, `functors`), out of `loop()`, ended. The thread of the base loop blocks in
`start()` and in the destructor, where it quits and joins one thread after the
other. A connection is created by `NewConnection` on the base loop and runs on
`loopOf`; `Close` is the close path of its own loop, in an event or in the functor of a
`forceClose`; what follows are functors on the two loops. `numThreads_` is chosen in `Init`, 0 included: then
`runInLoop` calls at once. `OutOfFds` makes `accept` fail with `EMFILE`; `errno` is tested
after a log statement that may have changed it, and then the peer is left for the next
round (`RefuseMissed`). The spare descriptor has no state: `Refuse` closes it, accepts and opens it again in one step.

`ConstructLoop` is the constructor of `EventLoop` as far as the order matters: the timer
queue registers its channel with the masks as they are, then the masks are set, unless the loop uses
`poll()`, then the eventfd is registered. The base loop is built in one of the three modes
(`baseMode`), the loops of the pool always level triggered. `listenEvents` and `connEvents` are what the
listening socket and the connections were registered for, and `ListenReported` is what `epoll`
says of the former in either mode (`edge`: a peer has come since the last report).

### Buffer

The vector is a sequence, bytes are numbered as they go in. `Place` is a vector with its
two indices, so that `makeSpace`, `ensureWriteBytes` and `append` are functions that
`append` and the detour of `readFd` through `extrabuf` share. `append` moves the
writer index as a Release build does, also past the end of the vector: that is `overflow`, and
there the model ends.

### LogStream and Logger

A buffer is a record of its length, of the highest byte ever written (`high`, which the NUL that
`convert` leaves behind a number can push beyond the length) and of the pieces it holds. A piece is a kind
and a length; a number also has its value and the characters `convert` made of it, and
`Denotes` reads them back. `Rem` and `Quot` are `%` and `/` of C++, which round towards zero. In `Logger` every
thread goes through `Log` (the test of the macro and the constructor), `Stream` (one `operator<<`), `Output`
(the destructor up to the one call of `g_output`), and for a fatal record `Flush` and `Abort`. `written`
counts the records a target has got and `synced` those that have left the process; `Spill` is stdio writing
out its buffer. The setters may be called at any time.

## Runs

| run | instance | what it shows |
|---|---|---|
| `event_loop` | 2 foreign threads, 2 functors | `NoLostWakeup`, FIFO order by refinement, and under fairness that every functor queued by a foreign thread runs and that `quit` ends a running loop |
| `conn_loop` | one loop, both modes, 2 messages of 3 bytes, operations from callbacks, `~TcpServer` | assertions, one life from UP to REMOVED, no shutdown in front of buffered data, no channel left in the poller when its memory goes, none polled that is registered for nothing; `shutdown` closes, a peer's close is noticed, buffered data is sent, a connection that is down is removed |
| `conn_threads` | two loops, 2 threads with every operation, pointer dropped, server destructed | whatever the races break, the byte stream is not cut or reordered; sends alone through a kept pointer break nothing |
| `pollers` | 3 descriptors, 2 events, event array 1 to 4 | indices agree; both pollers refine `Poller`; same reports |
| `lost_send` | violation | a `send` is dropped while writing is enabled, which edge triggered it always is |
| `timers` | 2 one-shot timers, 1 that repeats, times 0 to 3 | the timerfd is armed in time, each `Timer` has one owner and is not used after its deletion, runs when and as often as it should; every timer runs |
| `client` | one client, delays 1 to 3, retry on or off | the connector's assertions, every socket owned once, one effort at a time, no connection after `stop`, and a connection if the peer accepts |
| `server` | base loop of every mode, 0 to 2 I/O threads, 3 peers, descriptors for 2 | every connection kept by one party and destroyed once on its loop; loops handed out evenly, and only once their threads have built them; channels registered with the masks in force; no peer forgotten; the destructor returns |
| `loop_setup` | violation | the timerfd of the first loop, and with `poll()` also the eventfd, is registered for nothing |
| `buffer` | vector of 4, `extrabuf` of 3, 9 bytes | contents a FIFO queue until the vector is overrun |
| `buffer_room` | violation | `ensureWriteBytes` does not make room |
| `log` | 2 threads, 2 records, the sizes of the code | the fixed buffer is not overrun, records have their header, readable numbers and a line end, a fatal record is out before the abort |

**Bounds.** Two threads and two functors give every pair of concurrent
pushes, a push against `quit`, and a functor queued by a functor. Two messages
are the least with which one can be overtaken, and three bytes the least with
which a message is partly written by `send` and its rest again partly written
by `handleWrite`. Three descriptors are the least with which an entry is
removed in front of a moved one while a third stays. `MaxPending` bounds the
functors the application queues and how far the base loop is behind, `MaxCalls`
the calls of other threads, `MaxTrace` the remembered events (one more than a
correct life has, so that a repeated event is seen), `MaxSize` the event array;
`MaxTrace = 0` in `conn_threads`, where no property looks at the trace. `MaxPending` is 2 in `conn_loop`,
so that two functors of the application meet in one batch. Threads and messages are interchangeable in
`conn_threads` and threads in `log`: no action tells them apart, and neither run has a liveness property.
Three timers are two in one `handleRead` and one beside them; `LastWhen` is the
latest time asked for and `EndOfTime`, where the clock stops, one later, so that every
timer asked for can come due. Delays 1, 2, 3 show the first delay, a doubled one and the limit.
Three peers and two threads bring the round robin back to its start; with descriptors for
two of them (`MaxFds`) the third may be refused. `MaxConns` bounds the peers, `MaxThreads`
the threads, `MaxBytes` the bytes: nine are more than twice the vector, so that it
is filled, emptied, moved and grown. `log` uses the real sizes (4000 and 32) and texts that, behind the
header of `LOG_INFO`, leave 32 bytes (the least for a number) and one (nothing fits); the numbers are 0 and the limits of
`int`. The longest text of a 64-bit integer or pointer is 20 characters, which with its NUL also fits in
32. `MaxPieces`, `MaxRecords` and `MaxSettings` bound what is streamed, the `LOG_` statements and the setters.
Bounds are guards of actions, never state constraints.

**Fairness.** `EventLoop`: the loop thread keeps running and its callbacks
return, `epoll_wait` returns when the eventfd is readable, a foreign thread
finishes the call it is in. There is none on the poll timeout (10 s in the
code), on other I/O or on `loop()` being called: progress has to come from the
wakeup. `TcpConnection`: both loops keep running and callbacks return, a thread
finishes its call, and the peer goes on taking data off the wire, without which
no `shutdown` behind buffered data can finish. There is none on the peer
closing, nor on the application. `TimerQueue`: the loop keeps running and time goes
on. `TcpClient`: the same, an attempt comes to an end, and `PeerAccepts`, the assumption
of `GetsConnected`: a peer that is tried for ever is reached and accepts at some time, and
at some time stops resetting what it accepted. `TcpServer`: every thread keeps running,
and a log statement does not spoil `errno` for ever (strong fairness of `Refuse`); there is none on the
application and the peers.

**Deadlock** is checked except where undefined behaviour or the end of the server ends the model
(`conn_loop`, `conn_threads`, `client`, `server`), where the bytes run out (`buffer`) and where the process is
aborted (`log`).

**Seeded faults.** Next to a definition stands a variant of it with a
plausible mistake, named after the definition with a suffix
(`MustWakeup_ForeignOnly`). No specification uses them. `PROJECT.json` pairs
every property with a variant under which TLC reports a violation.

## Proofs

All theorems are for every value of the constants, bounds included: any number of
threads, functors, timers, loops, connections, messages and bytes.

| theorem | statement | hypotheses |
|---|---|---|
| `EventLoopProofs!TypeCorrect` | `Spec => []TypeOK` | |
| `EventLoopProofs!NoWakeupLost` | `Spec => []NoLostWakeup` | |
| `EventLoopProofs!FunctorsInOrder` | `Spec => FunctorsRunInOrder` (refinement of `TaskQueue`) | |
| `PollersProofs!IndicesCorrect` | `Spec => []IndicesAgree` | |
| `PollersProofs!PollImplementsPoller` | `Spec => PollIsPoller` (refinement of `Poller`) | |
| `PollersProofs!EpollImplementsPoller` | `BothSpec => EpollIsPoller` (refinement of `Poller`) | |
| `PollersProofs!ReportsAgree` | `BothSpec => SameReports` (an action property) | |
| `PollersProofs!EpollAssertsHold` | `BothSpec => [](\A f \in Fds : epollChannel[f].failed = {})` | |
| `TimerQueueProofs!TypeCorrect` | `Spec => []TypeOK` | |
| `TimerQueueProofs!AlwaysArmed` | `Spec => []ArmedInTime` | |
| `TimerQueueProofs!OwnersCorrect` | `Spec => []OneOwner` | `Careful` |
| `TimerQueueProofs!NothingUsedAfterDelete` | `Spec => []NoUseAfterDelete` | `Careful` |
| `TimerQueueProofs!ScheduleCorrect` | `Spec => []RunsOnSchedule` | `Careful` |
| `TcpClientProofs!ConnectorAssertsHold` | `Spec => []AssertsHold` | `~SlowRounds` |
| `TcpClientProofs!SocketsHaveOwners` | `Spec => []SocketsOwned` | `~SlowRounds` |
| `TcpClientProofs!OneEffortAtATime` | `Spec => []OneEffort` | `~SlowRounds` |
| `TcpClientProofs!StopEndsConnecting` | `Spec => StopIsFinal` (an action property) | `~SlowRounds` |
| `TcpServerProofs!ConnectionAssertsHold` | `Spec => []AssertsHold` | |
| `TcpServerProofs!ConnectionsHaveOneKeeper` | `Spec => []OneKeeper` | |
| `TcpServerProofs!EventMasksAgree` | `Spec => []MasksAgree` | |
| `TcpServerProofs!PoolIsUsable` | `Spec => []LoopsUsable` | |
| `TcpConnectionProofs!TypeCorrect` | `Spec => []TypeOK` | |
| `TcpConnectionProofs!StreamIsWhole` | `Spec => []StreamIntegrity` | |
| `TcpConnectionProofs!SendingIsSafe` | `Spec => []SendsAreSafe` | `Careful`, `StopsSafely` |
| `TcpConnectionProofs!ConnectionAssertsHold` | `Spec => []AssertsHold` | the same, `Users = {}` |
| `TcpConnectionProofs!BufferedDataIsWatched` | `Spec => [](Orderly => WritingWhileBuffered)` | `Careful`, `StopsSafely` |
| `TcpConnectionProofs!PollerForgetsInTime` | `Spec => [](Orderly => NoDanglingChannel)` | `Careful`, `StopsSafely` |
| `TcpConnectionProofs!NothingIdleIsPolled` | `Spec => [](Orderly => PolledForSomething)` | `Careful`, `StopsSafely` |
| `TcpConnectionProofs!LifecycleIsWalkedOnce` | `Spec => [](Orderly => Lifecycle)` | the same, `MaxTrace > 3` |
| `BufferProofs!TypeCorrect` | `Spec => []TypeOK` | |
| `BufferProofs!OverrunsKnown` | `Spec => [][OverrunsExactly]_vars` (an action property) | |
| `BufferProofs!ImplementsQueue` | `Spec => BufferIsQueue` (refinement of `ByteQueue`) | |
| `LoggerProofs!BufferIsNotOverrun` | `Spec => []NoOverrun` | |
| `LoggerProofs!FatalRecordIsSeen` | `Spec => []FatalIsSeen` | |
| `LoggerProofs!IntegersReadBack` | `\A v \in Int : Denotes(Number("integer", v, convert(v)))` | |
| `LoggerProofs!PointersReadBack` | the same of `convertHex(v)`, `v \in Nat` | |
| `LoggerProofs!NumbersOf64BitsFit` | at most 20 characters, for a pointer 18 | |
| `LoggerProofs!RecordsAreReadable` | `Spec => []RecordsReadable` | |

The hypotheses are the conditions under which the property is true of the code; what
happens without them is listed under the known limits below.

* `Careful` of `TimerQueue`: the application cancels, on the loop's thread, only timers
  that wait, and on another thread, where it cannot know, only timers that repeat.
* `~SlowRounds`: no round of the loop outlasts `kInitRetryDelayMs`.
* `Careful` of `TcpConnection`: reading is started and stopped only while connected.
* `StopsSafely`: where callbacks call `stopRead`, they do not call `forceClose`, and the loop of the
  connection is the base loop. Closing a connection that has stopped reading registers its channel with an
  empty interest set (EpollPoller.cc:80); from an event on the base loop the removal still comes in the same
  round, but after `forceCloseInLoop`, or from another loop, a `poll` comes first, and `AssertsHold` and
  `PolledForSomething` are violated. `conn_loop` is an instance: `forceClose` in LT mode, `stopRead` in ET mode.
* `Orderly`: other threads have only sent, through a pointer that is kept, and
  the server lives or has the loop of the connection. It is a state predicate that never
  becomes true again, so `[](Orderly => P)` says that `P` holds up to the first other operation
  of another thread. Where there are no other threads and one loop, it always holds.
* `MaxTrace > 3`: the history has room for an event too many.

*NoWakeupLost.* `NoLostWakeup` speaks of the loop thread in `poll` only and is
not inductive: what it finds there was decided an iteration earlier.
`WakeupInv` says the same of every place from which `poll` is reached without
another swap (`outside`, `check`, `run`, `functor`). From `dispatch`, `handler`
and `swap` the swap still comes and empties the vector, so nothing has to be
announced there. The only assumption is `ThreadsAssumption`: threads are not
named like places of the loop.

*FunctorsInOrder.* The abstract queue is `functors \o pendingFunctors_`. Each
step has one of four effects on it (`QueueEffect`): push at the end, run on the
spot, take from the front, nothing. The swap changes nothing because the local
vector is empty before it, which is a conjunct of `TypeOK`. A functor
is handed over once because its origin is recorded (`FreshInv`).

*IndicesCorrect* and *PollImplementsPoller.* `TypeOK /\ IndicesAgree` is
inductive. The step that needs care is `removeChannel`: two channels never share
an entry (`OwnEntry`), so the only channel whose place changes is that of the
last entry, and it is the one renumbered, whether its descriptor is stored as
`fd` or as `-fd-1`. The refinement reads the array through the indices; under
the invariant that is the table of the channels' own `events_`. Assumptions:
descriptors are natural numbers (`FdsAssumption`), and the marks of the table for a
descriptor that is not registered or without interest are distinct and not sets of
events (`AbsentAssumption`).

*EpollImplementsPoller*, *ReportsAgree*, *EpollAssertsHold.* `EpollPoller` has no array to keep in order, but three
indices, and the kernel's list beside its own map. `EpollInv` couples each channel with its twin in
`PollPoller` (`Coupled`): both have the same `events_`, are in `channels_` together, `kAdded` means in the kernel's list
and in the array with an entry that `poll` does not skip (`Quiet` are the channels it skips), and `kNew` means unknown to both. The coupling is what makes the guards of the calls, which are
about `PollPoller`'s channels, say something about epoll's; so the table that `EpollPoller` implements is the one of
`PollPoller`, and both find the same of the ready descriptors. The size of the event array stays positive and at
least doubles when it was full. It is needed that the events are level triggered masks (`EventsAssumption`): the
mode flag alone would count as an interest.

*AlwaysArmed.* `TypeOK /\ ArmedInTime` is inductive. While `handleRead` is under way
the timerfd may be unset with timers waiting; `EndRead` sets it for the first timer left
and so restores the invariant, and it is the only way out, because `TypeOK` ties
`expired` and `current` to the place of the loop thread. An insertion sets the
timerfd only for a new first timer; otherwise the deadline is that of a timer no later
than the new one, or the next tick. A cancellation leaves the timerfd too early, which is
harmless, and the clock only makes deadlines nearer. Assumptions: addresses and
intervals are natural numbers, and so are the bounds on time.

*OwnersCorrect*, *NothingUsedAfterDelete.* `OneOwner` counts owners in the present state and
says nothing of a cancellation that is still queued. `OwnerInv` adds what the queue may
hold: an insertion once and with the time of its timer (`InsertsInv`); a cancellation only of a
repeating timer that still exists, once, and behind the timer's own insertion
(`CancelsInv`). A repeating timer is deleted only by the one cancellation that was
asked for (`DeletedInv`), so it is there when the functor runs. *ScheduleCorrect* adds
that what `handleRead` took out is due, and that the time of a timer is the first one asked for
and one interval more for each callback that has returned (`ScheduleInv`).

*TcpClient.* `ClientInv` ties the channel, the attempt and the functors that wait to `state_`
(`StateInv`, `QueueInv`), and says that what `poll` has reported is still so when its
handler is called, or has been dealt with (`TodoInv`): the error handler and the write handler of one event
both run. `resetChannel` is always of the round that queued it and comes before any
`forceClose`. This is where `~SlowRounds` is needed: the retry timer cannot be due before
`resetChannel` has run. `EffortInv` makes the queued start, the attempt, the timer, the connection and a
`restart` under way exclude each other, and `FlagsInv` says how far `stop` has come on its
thread. Assumption: the delays are ordered (`DelayAssumption`).

*TcpServer.* `ServerInv` says for each functor in each queue which state its connection is in
(`FunctorsInv`): `removeConnectionInLoop` is only in the base loop's queue, `connectDestroyed`
only in that of the connection's loop, after the table has let go. `Ordered` says that
`connectEstablished` stands before `connectDestroyed` of the same connection in a queue, and that no functor is there twice. `KeeperInv`
says who keeps a connection in which state, `PoolInv` how far the threads are: they are started
one after the other, published before they are in the pool, and build no loop once the server
listens, so the static masks do not change any more. `TurnInv` says that the first
`next_` loops have one connection more than the others, which is what makes turns fair.

*TcpConnection.* `StreamIntegrity` is inductive with the types: `sendInLoop` writes directly only
with an empty buffer, and otherwise appends; `handleWrite` moves bytes from the front of the buffer
to the end of the wire; a connection that drops a message drops it before its first byte is
accepted. The lemmas on streams (`StreamGrows`, `StreamMoves`) carry the arithmetic. For the rest
`LifeInv` follows the connection: before `connectEstablished` there is nothing else (`StartInv`);
while the poller knows the channel, its interest goes with the state and the buffer, and it is
in epoll if there is any; a channel that `handleClose` or `~TcpServer` has put back with none will be removed
before the next `poll`, because `connectDestroyed` is on the stack, in the queue of this round or in
its batch (`ChannelInv`, `Closing`); a handler that `poll` has promised finds its channel registered, and
`handleClose` and `handleRead` are not both promised (`HandlersInv`); after
`handleClose` there is exactly one of the DOWN callback, the base loop's functor and
`connectDestroyed` on the way (`EndInv`), which is also why the poller knows a
channel only while somebody keeps the connection; a channel removed while half closed, by
`~TcpServer`, is touched again only by a `forceCloseInLoop` of the same batch (`RemovedInv`); and a
functor bound to the raw `this` is a `sendInLoop` whose pointer is kept (`AppInv`). None of these
is inductive alone: that `handleClose` runs once needs the handlers, the queue and the
table together. `TraceInv` reads the history off the state.

*Buffer.* `TypeOK` is inductive and has `readerIndex_ <= writerIndex_`. It says nothing of the end of the vector,
because the writer index does pass it (`buffer_room`). When it does is `OverrunsKnown`, for every state and every
number of bytes: `RoomShort` shows that `ensureWriteBytes(len)` leaves too little room exactly if what is free in
front of and behind the data is less than `len`, and `len` is at most `writableBytes() + readableBytes()`, the sum
that `makeSpace` compares; for `readFd` it is used with the rest that comes through `extrabuf`, after the
vector is full. Such a step is the one that `BufferIsQueue` excepts. For all others
each helper is shown to keep the content (`makeSpace` moves or grows, `readFd` with its second vector).

*IntegersReadBack*, *PointersReadBack.* `convert` is a loop over quotients, here a recursive function, and what it makes
of all integers needs an induction. There is one in the form of a least element (`LeastNumber`, from the library's theorem on
well-founded relations): if the loop failed for some number, take one of least magnitude; its quotient is
smaller (`Descends`), or the loop ends. The same argument shows that the function exists at all
(`LoopExists`), that reading a text from the left has one value (`HornerUnique`), and then `LoopMakes`: if each number
is its quotient times the base plus its digit (`Splits`), the reversed characters read as the number, without a zero in front.
`QuotRem` is the arithmetic of C++: negative numbers have negative remainders, for which `digits` is
mirrored around its zero, so the digits of the most negative number need no negation that would overflow.

*RecordsAreReadable.* `RecordsInv` says of a record in the making that its pieces can be read and that time, thread and level are
the first three (`Begun`). Every `operator<<` only adds pieces, and by the two theorems on numbers the ones it adds can be read; the
header is in because its three pieces fit in the buffer (`HeaderFits`); and if the line end is left out, then because one byte was free.
Integers are integers and pointers natural numbers (`NumbersAssumption`).

*Logger.* What a stream holds is sound whatever is appended: a piece that does not fit is left
out, and a number is written only when `kMaxNumericSize` bytes are free. Assumptions: the
numbers that are logged have fewer characters than that (`NumbersFit`, which the widths of the
types justify) and texts have lengths (`LengthsAssumption`). That the types do justify it is `NumbersOf64BitsFit`: a quotient is at most a
tenth of its number, so the text of a number below `10^k` has at most `k` digits. `FatalInv` follows a fatal record
from its place in the target to the flush and the abort, across other threads' records
and setters.

**Found while proving.** `~TcpServer` calls `connectDestroyed` in the order of the names in its `std::map`; the model takes
some enumeration without repetition, and the proofs use nothing else of it, so they hold for that order and every other.
`WriteResults` of `TcpConnection` had a `CASE` with overlapping arms, of which TLC takes the first and the provers
any; it is now an `IF`.

`TypeOK` of `EventLoop`, `TimerQueue`, `TcpConnection` and `Buffer` is part of the inductive invariants and proved; no run
repeats it.

**Model-checked only.** The liveness properties, since fairness and `ENABLED` are beyond the prover.

## Findings and known limits

The three violation runs are disagreements between the code and its own
comment, documentation or assertion; `PROJECT.json` quotes both sides. The default build is
Release, so assertions are compiled out and the code goes on after them.

The following were met while modelling. They are kept out of the passing runs by
what the application does there, or end the model as undefined behaviour:

* `send`, `shutdown`, `startRead` and `stopRead` bind the raw `this`
  (TcpConnection.cc:128), although TcpConnection.h:25 says that
  `enable_shared_from_this` keeps it alive: queued behind `connectDestroyed`, with no
  other pointer left, the functor runs on a destructed object.
* `shutdown` and `forceClose` test and set `state_` on the caller's thread
  (TcpConnection.cc:59): `kDisconnected` may be overwritten, and the connection closed
  a second time, against the assertion of EpollPoller.cc:87. With the operations of
  `conn_threads`, `AssertsHold` and `Lifecycle` are violated.
* `send(Buffer*)` (TcpConnection.cc:137) calls `sendInLoop` without a hop to the loop: from another thread
  it works on the channel and the output buffer beside the loop, a data race. In `TcpConnection` only callbacks call it.
* In ET mode `kReadEvent` and `kWriteEvent` share `EPOLLET`, so `isWriting()`
  (Channel.h:55) is true on every channel that reads, and `shutdownInLoop` waits for
  a `handleWrite` that has nothing to drain; `writeFdET` (Buffer.cc:68) returns 0
  after a complete drain. `ShutdownCloses` does not hold there. For the same reason `sendInLoop`
  (TcpConnection.cc:155) neither writes nor buffers on a connection that reads: in ET mode data is sent only
  after `stopRead`.
* `startRead` and `stopRead` do not look at `state_` (TcpConnection.cc:105 and 117): after DOWN they
  register the channel again. `Careful` keeps this out.
* The first loop of a process never runs its timers, and a loop with `poll()` hears neither timers nor
  wakeups, nor, without a pool, peers (`loop_setup`): its functors wait for the poll timeout of 10 s. `timers`
  and `client` therefore describe a loop that is not the first one. A pool sets the masks
  to level triggered, whatever the base loop was built with.
* `stopRead` leaves a connection without interest, and `EpollPoller::updateChannel`
  (EpollPoller.cc:80) takes the channel out of epoll; the `disableAll` of the
  following `handleClose` adds it again with an empty interest set. On one loop and without `forceClose` the
  removal comes before the next `poll` (`PolledForSomething`); otherwise it may not. The kernel
  still reports `EPOLLHUP` and `EPOLLERR` on it, and `handleClose` may run a second
  time and meet its own assertion. For the same reason `Pollers` does not let a
  channel give its interest up twice.
* `~TcpServer` while a connection is in `kDisconnecting`: `connectDestroyed`
  tests for `kConnected` only, skips `disableAll` and the DOWN callback, and
  `Channel::remove` (Channel.cc:55) meets an enabled channel; a `forceClose` that was still queued then closes
  the connection and calls `closeCallback_` of the server that is gone. `Lifecycle` allows for the order of
  events that follows, and `AssertsHold` speaks of a server that lives.
* `removeConnectionInLoop` is bound to the raw server (TcpServer.cc:85) and may run
  after `~TcpServer`; and a loop that sees `quit_` right after its functors drops a
  `connectDestroyed` queued since, so that the connection's DOWN callback never comes
  (the state `dropped` of `TcpServer`).
* `~TcpServer` in a handler destroys channels that the same round has still to
  dispatch, the acceptor's included; `TcpServer` destructs between two rounds.
* `quit()` before the thread has entered `loop()` is overwritten (EventLoop.cc:106):
  with `Patient = FALSE` the destructor of the server joins for ever.
* In ET mode `Acceptor::handleRead` accepts one peer for each edge: without a pool, the case of the example in
  the repository's README, peers that connect together may wait in the backlog until another one comes, and
  `PeersServed` makes an exception for it.
* `sockets::accept` treats `ENFILE`, `ENOBUFS` and `ENOMEM` as fatal (SocketsOps.cc:128-135): a shortage of the whole
  system ends the server. `~Acceptor` leaves its channel in the poller's table and its spare descriptor open.
  Between the `close` of the spare descriptor and `accept` (Acceptor.cc:53-56) another thread may take the descriptor
  that was freed: then `accept` fails, the peer stays, and the acceptor may go on without a spare. `TcpServer` does not model it.
* `LOG_FATAL` is subject to the level (Logging.h:107): after `setLogLevel(5)` it neither logs nor aborts, and
  its caller goes on. `operator<<` of a thread id (LogStream.cc:166) writes the id of the running
  thread and not its argument. A record of 3999 bytes or more has no line end; a piece that does not fit is left out whole,
  while shorter ones behind it are kept.
* A timer callback that cancels its own timer, or one that expired in the same
  `handleRead`, deletes an object that `handleRead` uses again
  (TimerQueue.cc:105-112); so does a cancellation from another thread that comes after a
  one-shot timer has run. With `Careful = FALSE`, `NoUseAfterDelete` is violated.
* Timers are due by the wall clock and the timerfd is set on the monotonic one (TimerQueue.cc:16 and 33). `TimerQueue`
  has one clock: if the wall clock is set forward, timers run late, by as much as it was moved.
* `Connector::timer_` is not initialised and not cleared: `stop()` (Connector.cc:95)
  and the destructor are defined only while a retry is pending, and not in the callback of a timer that
  expired together with it. `TcpClient` marks the rest as `misuse`.
* If a round of the loop lasts longer than the first retry delay (50 ms) and the timerfd
  was reported for another timer, the retry runs in the round that ended the
  attempt, before `resetChannel`: the assertion of Connector.cc:101 fails and the functor then
  destroys the new channel. With `SlowRounds = TRUE`, `AssertsHold` is violated.
* A `stop()` from another thread between the test at TcpClient.cc:128 and
  `restart()` is overridden (`overridden` in `StopIsFinal`); `disconnect()` does not end
  retries; a second `connect()` while an attempt is under way meets the assertion of
  Connector.cc:37 and is not among the calls of `TcpClient`.
* `writeFd` leaves both indices at the end when it has drained the buffer (Buffer.cc:43),
  so the vector grows with every later append that does not fit; `Buffer::swap`
  (Buffer.h:27) swaps `readerIndex_` twice and `writerIndex_` not at all, and is not modelled.

`send(const void*, int)` from another thread passes the caller's pointer to the
loop without a copy (TcpConnection.cc:128). The life of that memory is the
application's; the model sends the message the functor names.

## Not modelled

* `Socket`, `SocketsOps`: wrappers of system calls. What the kernel does is the
  external part of the modules above.
* `InetAddress`, `Timestamp`, `Callbacks`, `noncopyable`: values,
  formatting, type definitions.
* The destructors of `TimerQueue`, `Connector` and `TcpClient`; `findCRLF`, `findEOL`
  and `swap` of `Buffer`; `getLoopForHash` and `getAllLoops` of `EventLoopThreadPool`, which only read and are
  called by nothing in the library.

## Plan

1. done: `EventLoop`, `TcpConnection` with `Channel` in both modes, the pollers, `TimerQueue`,
   `Connector` and `TcpClient`, `TcpServer` with the pool and the start-up of its loops, `Buffer`, the
   logger; the first theorems.
2. left in the models: a `TcpServer` destructor that runs inside a handler, and a `TcpClient` with a
   connection whose half-closed state is visible to `disconnect()`.
3. done: type correctness and the safety invariants of every component above, and the refinements of
   `TaskQueue`, `Poller` (by both pollers) and `ByteQueue`; what `convert()` and `convertHex()` make of every number.
   The life of a connection is proved for the operations of `conn_loop`, `stopRead` included.
4. left in the proofs: liveness, which the prover does not reach.
