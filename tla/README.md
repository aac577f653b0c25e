# Verification of KKNet2

KKNet2 is a small network library in C++ in the style of muduo: one event loop
per thread around `select`, timers on a timerfd, connections with buffers,
a server with a pool of loops, a client that connects with retries, and a pool
of threads behind a bounded queue.  This directory models it in TLA+, checks
the models with TLC and proves the main invariants with TLAPS.  Paths below are
those of the repository (`src/reactor/...`, `src/util/...`).

## 1. Inventory

| Component | State | Operations | What makes it correct |
|---|---|---|---|
| `Eventloop` | `tasks_` under `mutex_`, `eventHandling_`, `quit_`, the eventfd | `loop`, `runInLoop`, `queueInLoop`, `runTasks`, `wakeup`, `setQuit` | queued tasks run once, in order, and soon; the loop ends when told |
| `PollSelect`, `EventHandler` | `events_`, `srevents_`, `maxfd_`, four flags per handler | `wait`, `addFd`, `setEvent`, `deleteEvent`, `deleteFd`, `handleEvents` | every registered descriptor is examined; no pointer that is followed dangles |
| `TimerQueue`, `Timer` | `timers_` by time, `activeTimers_` by address, `cancelingTimers_`, the timerfd | `addTimer`, `cancel`, `handleRead`, `reset` | a timer fires or is cancelled, is deleted once, and cancelling is final |
| `Connection` | `state_`, `writing_`, two buffers, its place in the poll table | `completeConnect`, `handleRead/Write/Close`, `send`, `shutdown`, `forceClose`, `connectDestroyed` | output in order, FIN after the data, destroyed after its last use, once |
| `Server`, `Acceptor` | `connections_` by descriptor, the listening descriptor, the users' references | `start`, `newConnection`, `removeConnection(InLoop)`, `~Server` | the map holds the open connections; a closed one is freed and its number may come again |
| `EventloopPool`, `Thread`, `CountDownLatch` | `loops_`, `currentLoop_`, the latch, the state of each thread | `start`, `getNextEvent`, `poolFunc`, `~EventloopPool` | every loop stored is constructed and not yet gone; the threads end |
| `KBuffer` | a list of blocks, two positions, four sizes | `write`, `readFd`, `peek`, `retrieve`, `getLine` | a byte queue |
| `ClientConnector`, `Client` | `connect_`, `state_`, `sockfd_`, `handler_`, the retry delay, `connection_` | `start`, `stop`, `connect`, `retry`, `handleWrite`, `newConnection`, `disconnect`, `~Client` | one attempt at a time, no descriptor leaked, no attempt forgotten, no polled connection destroyed |
| `ThreadPool`, `BlockingQueue`, `Condition`, `Mutex` | a bounded deque, two conditions, the workers | `put`, `take`, `setMaxQueueSize`, `start`, `runFunc` | each function runs once; no wake-up is lost on either side; the limit is kept |
| `TimeWheel` | a ring of buckets of weak references | `addConnection`, `update`, the tick | an idle connection is closed, an active one is not |
| `Timestamp`, `Socket`, `NFile` | -- | wrappers | -- |

How they interact.  Everything of a connection, a connector or a timer runs
on the thread of one loop.  That thread alternates between `poll_->wait`, the
callbacks of the handlers reported (raw pointers), and the tasks of `tasks_`.
Other threads reach a loop only through `runInLoop`/`queueInLoop`.  A new
connection goes from the Server's loop to the one `getNextEvent` returns, and
its removal goes the other way and back.  Objects are kept alive by the
`shared_ptr`s inside queued tasks, by the map of the Server and by users; the
poll table holds raw pointers only, so the order "delete the descriptor, then
drop the last reference, in a task" is what keeps it safe
(`Connection.h:104-107`).

The hard behaviours: hand-over of tasks against the wait of the loop;
callbacks that add, cancel and delete while a batch of handlers or timers is
being walked; two loops taking part in the removal of one connection while its
descriptor number may be accepted again; short writes, and shutdown with data
pending; operations on a connection that is already closed; retries that meet a
stop; the hand-shake of the pool's threads with their creator; producers and
consumers that sleep on two conditions; teardown.

## 2. Modules

| Module | Models | Composes |
|---|---|---|
| `SerialExecutor` | what a loop promises to those that queue tasks | abstract |
| `Eventloop` | `Eventloop.cpp` and the hand-over of tasks, lock by lock | refines `SerialExecutor` |
| `FdTable` | `events_` and its operations, with the null entries of `operator[]` | -- |
| `PollSelect` | `PollSelect.cpp`, `EventHandler.cpp`, with the clients of the table | `FdTable` |
| `TimerService` | what a queue of timers promises to those that set them | abstract |
| `TimerQueue` | `TimeEvent.cpp` | refines `TimerService`; tasks as in `SerialExecutor` |
| `Connection` | `Connection.cpp`, for one connection, its users and its peer | `FdTable`, the phases of `Eventloop` |
| `Condition` | `Condition.h`: who waits and who has been woken, with spurious wake-ups | -- |
| `EventloopPool` | `EventloopPool.cpp` with `Thread::start` and the latch | `Condition` |
| `Server` | `Server.cpp`, `Acceptor.cpp`: many connections on many loops, and users | `EventloopPool`, `FdTable` |
| `BlockingQueue` | `BlockingQueue.h` | `Condition` |
| `ThreadPool` | `ThreadPool.cpp` | `BlockingQueue` |
| `ClientConnector` | `ClientConnector.cpp` with its callers and the loop's phases | `FdTable` |
| `Client` | `Client.cpp`: the connections it makes of sockets, `~Client` | `ClientConnector` |
| `ByteQueue` | what a buffer promises | abstract |
| `KBuffer` | `KBuffer.cpp` | refines `ByteQueue` |
| `*Proofs` | the theorems about the module of that name | |
| `MC*` | the instances that TLC checks | |

In each module a variable carries the name of the member it stands for,
without the underscore, and an action the name of the function; variables
marked *history* exist only for the properties.  Operators that begin with
the comment "Faulty:" are plausible mistakes in the function defined right
after them; no specification uses them.  They record that the properties
notice such a mistake.

**Eventloop.**  `loopPc` follows `loop()` statement by statement as far as other
threads can tell.  `queueInLoop` has three steps: the test and the eventfd
write (`QueueInLoop`, `Wakeup`), `mutex_.lock()` (`LockToAdd`), append and unlock
(`AddTask`).  `tasks_.empty()` is read without the lock (`Eventloop.cpp:66`), so
`CheckTasks` may see a non-empty vector while somebody is appending.  `quit_` is
a plain `bool` and read on every iteration; a compiler that keeps it in a
register is excluded by the calls in between.

**PollSelect.**  The callbacks of a handler are the client actions between
`HandleEvents` and `ClearEvent`.  The clients may do, in any order, what the
owners of handlers in the library do, under the rule quoted above, and that is not
always to pair `addFd` with `deleteFd`: an owner is a `ClientConnector` (one `deleteFd`,
then the socket is handed over), a Connection of a Server (`deleteFd` once or twice, and
operations on the descriptor after it), or a Connection of a Client, which is never
`deleteFd`'d, so that its number, closed by `~Connection`, is added again over the old
entry.  A lookup of a number without an entry inserts a null one; the loop stops there.
`fdnums_` is left to `Server`, the one that reads it.
`maxfd_` starts from each of three garbage values.  `select` may fail.
An error event is never asked for by the library and is like the other two:
the instance has two event types.

**TimerQueue.**  A timer stands for an address and its sequence number together.
Time is counted in the 100 us that the timerfd waits at least; time 0 is the
`Timestamp` that is not `valid()`.  The batch is walked callback by callback, and
each callback may add and cancel.  For `TimerService` a timer of the batch whose
callback has not run still waits; one whose callback has run is "called" until
`reset`, where all that were called are set again or over, in one step.

**Connection.**  The loop is reduced to its phases: the poll, the walk over the
handlers, the tasks.  That tasks run once and in order is what `Eventloop`
proves.  A message has two parts so that a write may be short; the kernel takes
any number of parts.  `sendInLoop` ignores what `outputBuffer_.write` returns: the tail
of a message in `Large` may be refused and lost (`BufferTail`).  `handleWrite` sends the
buffer as a C string (`Wrote`): it ends at the first NUL byte (`NulPart`), and runs on into
what lies behind when the bytes fill the blocks exactly (`filled`, which tails in
`Filling` may bring about); such bytes are recorded in `stray`.  A failed `readv` lets
`handleRead` find any result (`ReadFails`).  The Server's loop is the connection's own or another.
Other threads run the test of `state_` and what follows as separate steps.

**EventloopPool, Server.**  `start()` creates a thread, spins until it runs,
waits on `latch_` and stores `currentLoop_`; each is a step, interleaved with
those of the thread (`poolFunc`), and a `pthread_create` may fail.  `Server` puts
its connections on these loops: each loop has a poll table, tasks and a count of
descriptors (`fdnums_`, which `getNextEvent` compares; at first it counts the wakeup
descriptor but not the timer's, as section 4 explains).  A connection is its number in the order of
`nextConnId_`; its descriptor is closed when the last reference goes and may be
accepted again from then on.  The Server is destroyed after its loop has ended,
as the order of a `main` demands, while the loops of the pool still run.
`forceClose` is left to `Connection`: its double `handleClose` (finding below)
would end the runs here.

**Condition, BlockingQueue, ThreadPool.**  A condition is the set of threads that
wait and the set of those woken that have not got the mutex back.  `notify` wakes
any waiting thread, and a thread may wake without a reason.  `put` reads
`maxQueueSize_` once before and once in each round of its loop, and
`setMaxQueueSize` takes no lock, so these are separate steps.  A function may put
another one.  A worker whose `pthread_create` failed never exists.

**ClientConnector, Client.**  `connect_` is a plain `bool` that other threads assign, and
`startInLoop`, `retry` and `handleWrite` read it after having acted: `inside`
says which of them the loop is in before such a read, and a stop may fall in
between.  Callers keep the rule `Quiet`: an attempt is started only when nothing
is left of the one before.  The code does not enforce it; without it two
`connect()` calls overlap (stop and start before the retry timer fires) and the
second deletes a registered handler, which is listed as a hazard.  A retry timer
set in an iteration does not fire in it: the shortest delay is half a second,
and `due` holds those that `select` reported.  A descriptor number is used again
once closed.  `Client` adds what becomes of the socket that is handed over, the
poll table's raw pointer to the Connection made of it, every reference to it, and
`~Client`.  With `Careful` the callers wait until a connection is over before they
connect again or destroy the Client; `client_destroyed` shows what happens without.

**KBuffer.**  The list of blocks is one sequence of bytes, `mem`, cut every `BlockSize`;
a block pointer is the block's place in the list.  The end of a block and the
start of the next are one place but two positions, and the functions differ in
which of the two they leave behind: `Settle` (`do_write`, `retrieve`) and
`Unsettled` (`readFd`).  `mem` keeps the bytes of blocks already read, as the code
does, so that reading stale bytes is noticed.  `Fillings` says how one buffer is
filled: by `write` at any time, the general use; by `write` when it is empty ("send"), as
`sendInLoop` fills the output buffer, of which `handleWrite` then takes only what it
wrote; or by `readFd`, as `handleRead` fills the input buffer.  A `readFd` whose `readv`
fails changes nothing, and the caller finds any of `Leftover` as its result: the
function has no return statement there (`KBuffer.cpp:55-60`).  `Connection` never fills
one buffer with both.  (With both, `SizesAgree` fails: `readFd`
leaves the write position at the end of a block it filled exactly; once all is
read, `move_head` moves the block being written to the tail, and the next bytes
go through a null `next`.  A write that is refused after it has moved blocks has
the same effect, which is the finding of `kbuffer_refused`.)  `Chunk` is what may be
written at any time, `Message` what `sendInLoop` may have left to write, `Waiting` what the
socket may hold for `readFd`.

## 3. Runs

| Run | Question | Instance |
|---|---|---|
| `loop_tasks` | own tasks not stranded, refinement of `SerialExecutor`; queued tasks run; quitting stops the loop | two threads and five tasks: two of the threads, two of the loop's own, one from before `loop()` |
| `loop_wakeup` | is a wake-up ever lost? **violated** | as above |
| `poll_safety` | the table, the pointers, `maxfd_`, the flags | two clients of each kind of owner on four descriptors, two of which are the loop's own, so that descriptors are reused and `maxfd_` rises and falls |
| `timers` | sets, ownership, arming; refinement of `TimerService` (nothing early, repeated or dropped; cancelling is final); every timer fires or is cancelled | a one-shot and a repeating timer, `Horizon` 3, `MaxTime` 4 |
| `conn_users` | lifetime and order while callbacks, a thread and another handler on the loop send, shut down and force-close; a closed connection is removed, a shutdown completes | one user object with code on the loop and on a thread; both values of the uninitialised `writing_`, Server's loop same or other; two messages of two parts, one whose tail may fill the buffer, one whose tail may be refused and has a NUL byte |
| `conn_force` | is a descriptor deleted only once? **violated** | callbacks that call `forceClose` |
| `server` | the loops stored are live, nothing dangles, the map is exact; `start()` returns, closed connections are freed, the pool's threads end | three loops, two descriptors, three connections, so that a number comes again while users keep references |
| `pool_queue` | each function once; no wake-up lost on either side; the limit; nobody waits for ever | two workers, two producers, four functions, limits -1, 0, 1, 2 set twice |
| `client` | handlers, sockets, attempts, connections: none dangling, leaked or forgotten; a stop takes effect, `~Client` releases | two threads, three descriptors, two handler addresses, delays 1, 2, 3 |
| `client_destroyed` | is a polled Connection ever destroyed? **violated** | as above, `Careful` FALSE |
| `kbuffer_queue` | sizes and positions; a byte queue; no small write refused | filled by `write` at any time (up to 3 bytes), by `write` when empty (up to 7) or by `readFd` (up to 8 in the socket, or a failure); blocks of 2 bytes, limit 6, extra buffer 5 |
| `kbuffer_refused` | do positions and sizes survive a large write that is refused? **violated** | as above, filled by `write`, writes of up to 5 |

The type invariants are proved (section 5).

Bounds.  A task, a message, a connection and a `Timer` object is used once, which
makes the behaviour finite without cutting it: two threads and two tasks of each
kind are enough for every order of two hand-overs around each step of the loop.
`MaxTime` stops the clock: the horizon of requested times lies well before it,
and the deadlock check is off in that run for that reason alone.
`MaxInbound` bounds the peer's messages that wait unread, not their number; one is
enough, because a callback can run before and after each of the connection's own steps.
`PollSelect`, `Connection` and `Server` stop where a null entry would be followed, that
is, where the program crashes, and a Server stops when it is destroyed; their runs
switch the deadlock check off for that.  `MaxConns` 3 with two descriptors lets one number be used
twice while the other stays in use; `MaxRoundRobin` 2 makes the sort of
`getNextEvent` happen after the first connections (it is 10 in the code, `EventloopPool.h:9`).  In
`pool_queue`, `MaxChanges` 2 is one limit set before the first `put` and one after; four functions fill
two places and leave both producers waiting.  That run ends when nothing is left
to do, or when each worker waits inside a `put` of its own.  `MaxTasks` bounds the
calls queued on the client's loop: a stop and the reset it causes, with one more
call, reach every order in which they can run.  In the `KBuffer` run the small
blocks make every case occur: chunks that stay inside a block, end with it, cross
one or two ends, are refused before and after `move_head`, and overflow into the
extra buffer.  What is written to an empty buffer is up to more than the limit, so that
it is refused by the first test of `write` and by the one after `move_head`, and small
writes follow.  The limit is three blocks, the least at which `move_head` can leave a
block between the one written and those moved; `readFd` may lengthen the list past
it, and nothing is cut off.

Fairness.  A loop's thread and a thread inside `queueInLoop` keep running (the
scheduler), callbacks return (the contract of a reactor), `select` returns after
`WAIT_TIME` (5 s) at the latest.  The timer run assumes that time advances and
that neither the timerfd nor the tasks are passed over for ever, which the loop
guarantees because each iteration handles both.  `conn_users` further assumes
that the peer keeps reading: a socket that is asked for writability again and
again is reported writable and takes some data, unless a NUL byte keeps `handleWrite`
from offering any (strong fairness asks only for what is possible); and that `readv`
does not fail for ever.  In `client` a retry timer
expires in the end.  `pool_queue` assumes that a thread that waits for a mutex
which is free again and again gets it in the end (strong fairness of the two
steps that lock it), and its liveness excepts the schedule in which every worker
is stuck inside a `put`: functions that put into the bounded queue of their own pool can
block it, by design.  No fairness is assumed of users, of the peer's close, of
messages, of spurious wake-ups or of calls of `setQuit`.

## 4. What was found

* `loop_wakeup`: `queueInLoop` wakes the loop up *before* it queues the task.
  The loop can spend the wake-up on an empty queue and wait again.
  `QueuedTasksRun` shows that the task is only delayed, up to `WAIT_TIME`.
* `conn_force`: a connection that is force-closed and closed by the peer runs
  `connectDestroyed` twice; the second leaves a null pointer in the poll table,
  which `wait` dereferences.  The proof of the converse, that nothing else does this,
  failed at first and showed a second cause: `handleClose` leaves `state_` at
  `kConnected` (`Connection.cpp:87`), so a `send` through a reference kept longer than
  `connectDestroyed` reaches `enableWriting` for a descriptor that is not in the
  table any more.  Without the two, `NoNullEntryWithinRules` proves, the table has
  no null entry.
* `client_destroyed`: nothing calls `Client::removeConnection`, so a connection that
  was disconnected keeps its entry in the poll table; `~Client`, or a second
  `connect`, then drops the last reference to it.
* `kbuffer_refused`: `write` calls `move_head` before it refuses what is too large, which
  leaves the write position at the end of a block that has got a next one.  After
  everything is read, the next `move_head` sends the block being written to the
  tail, and `do_write` follows its null `next`.  This came out of the proof: the
  invariant of `KBuffer` was not inductive over a refused write.  It takes a write of
  more than half the limit into a buffer in use; `Connection` writes only when its
  output buffer is empty, so this is a trap for other users of the class.
* `getNextEvent`: the comment announces a round-robin and, with many connections, a
  sort (`EventloopPool.cpp:48`).  `robinNum_` is never advanced, and the sort puts
  the loop with the *most* descriptors first.  The theorem `EveryConnectionOnBase`
  says, for every pool and any number of connections, that each is served by
  the base loop.

Smaller observations, without a run of their own:

* Members are initialised in the order of their declaration, so `timerQueue_`
  counts its descriptor before `fdnums_` is set to 0 (`Eventloop.h:96`, `:102`), and
  `fdnums_` is one short from the start.  On the loops of a Server without `forceClose` it
  stays so (`FdNumsAlwaysCounted`).  Elsewhere it drifts, because `addFd` and `deleteFd`
  count whether or not the table changes: upwards when the reused number of a Client's
  connection is added over its old entry, downwards when `connectDestroyed` runs twice.
* When `outputBuffer_.write` refuses the tail of a message, `sendInLoop` does not notice
  (`Connection.cpp:170`): the tail is lost, `writing_` and `kWrite` are set over an empty buffer,
  every later send is dropped, and a shutdown never sends a FIN.
* `peekAllAsString` makes a C string of the buffer (`KBuffer.h:62-69`).  With a NUL byte at
  the head of the output `handleWrite` writes nothing for ever; when the bytes fill the
  blocks exactly the string has no end inside its array, and bytes that nobody sent
  may be written after them.
* `readFd` does not return a value when `readv` fails (`KBuffer.cpp:55-60`): `handleRead`
  calls `messageCallback_` without a message, or closes, or does nothing.
* `write` compares the size with the limit less `writableSize_` (`KBuffer.cpp:168`), so an empty
  buffer of 700 blocks refuses a write of 701 of the 1280 allowed; `KBuffer.h:79` says
  that 0 means a full buffer or too large a write.  `SmallWritesTaken` is therefore about
  writes of at most half the limit.
* An uninitialised `writing_` (`Connection.cpp:13`) that happens to be true: the
  connection never sends anything and a shutdown never produces a FIN.  A message
  is dropped while older output waits (`Connection.cpp:148`).  `send` from another
  thread binds a pointer that the caller may free (`Connection.cpp:127`).
* `TimerQueue::reset` does not arm the timerfd when the earliest time is not
  `valid()`; `addTimer` reads `timer->sequence()` after the loop may have deleted the
  timer (`TimeEvent.cpp:92`).
* `setMaxQueueSize` notifies nobody: producers that wait may not learn of a larger
  limit, which is why `NoForgottenProducer` and `PutsReturn` speak of a limit set before
  the first `put`; a limit of 0 set after a `put` began blocks that `put`.
* `Thread::start` spins on a field of `ThreadData` that a function which returns at
  once has deleted; functions of the library's threads do not.  When
  `pthread_create` fails, `EventloopPool::start` waits for ever.
* `~ThreadPool` destroys the queue under workers that nobody stops.
* `~Acceptor` never closes its descriptor, and a failed `accept` closes -1;
  `Socket::bind` has `loopbackOnly` inverted.

## 5. Proofs

All theorems are about the unbounded specification: any set of threads, tasks,
handlers, descriptors, timers, connections and users that satisfies the named
assumptions of the module.  These say that placeholder values ("no task", "no
descriptor") are none of the real ones, that sets that are counted are finite, and
that numbers are numbers.

* `EventloopProofs`.  `TypeOK` is inductive by itself: it ties `mutex` to the
  program counters.  `OwnTasksNotStranded` needs `LoopTasksCovered`, which says
  from where to where in the iteration a queued task of the loop's thread is
  covered by the eventfd.  The refinement rests on `HandedOverOnce`: a task is in
  the hands of one thread, and never fresh again.
* `PollSelectProofs`.  `PollInv` joins the type invariant, the agreement of the
  table with its clients, the liveness of every pointer and the bound of
  `maxfd`.  The owner's kind decides when its entry may be missing, null, or left
  behind.  `FlagsFollowReports` is proved on top.
* `TimerQueueProofs`.  `QueueInv` joins the agreement of the two sets with the
  place of each timer and what cancelling has recorded; `ArmInv` adds the timerfd.
  The refinement needs `BatchInv`: what is in the batch was due when the batch was
  taken, and what was cancelled while it runs is in `cancelingTimers_`, so that
  `reset` sets again what `TimerService` sets again.  `CancelIsFinal` is proved only.
* `ThreadPoolProofs`.  `CallsAccounted`, that everybody inside a call is in one place,
  is inductive with the types.  The two theorems about forgotten sleepers count:
  an element added wakes one, or nobody sleeps; an awakened thread leaves the set
  only with an element, or back to sleep when there is none.
* `ServerProofs` has three layers.  The types; `StartInv`, the hand-shake: where
  `start()` is, against where the thread it has created is, against `latch_` and
  `currentLoop_`; and `ConnInv`, about the connections.  The last one rests on
  `BaseServes`: the base loop has the Acceptor's descriptor from the start, so its
  count is always the strictly largest, the descending sort leaves it first,
  and every connection is accepted, polled, closed and destroyed on one loop.  Then
  a polled connection is in the map, or the task that unregisters it is queued.
* `ConnectionProofs`.  `DataInv` adds to the order of the data that `writing_` is set
  while something waits and that nothing waits after the FIN; the converse, that
  something waits while `writing_` is set, does not hold (a refused tail).  `LifeInv` says who
  keeps the connection for the raw pointer: the map, then the call queued on
  the Server's loop, then the queued `connectDestroyed`.  It needs that
  `completeConnect` runs once and before anybody else can close the connection
  (`ConnectsOnce`, `WhileConnecting`).  Both hold for any value of the uninitialised
  `writing_` and with any use of `forceClose`: the finding of `conn_force` is a null
  entry, not a dangling one.  `EntryInv` is what remains true under the two rules of
  `NoNullEntryWithinRules`, `NoForceClose` and `SentWhilePolled`: `handleClose` and
  `connectDestroyed` are called once, and what writes to the table finds its entry.
  The second rule is one on steps and stands next to `Spec` as `[][...]_vars`.
* `ClientProofs`.  `ConnectorInv` says that one attempt is under way at most, and in
  which form: a start on its way to the loop, a function of the connector, a socket
  that connects, a retry timer.  It needs that a start and a reset are queued at
  most once (`CallsInv`), and that a retry timer set while `resetChannel` is queued
  cannot fire before it has run: the task belongs to the batch that ends the same
  iteration (`ResetEarly`).  From this follow the handler's life, and that no
  attempt is forgotten, whatever callers do once they start quietly.
  `ConnInv` is about the connections, and an invariant only when callers keep the
  rules (`Careful`): what is polled is the Client's connection, or its
  `handleClose` is queued; nothing polled is over; nothing is connecting while the
  last connection is in use.  Without the rules it fails, which is the finding of
  `client_destroyed`.

* `KBufferProofs`.  The hypotheses of its theorems are `OneFilling`, that a buffer is
  filled in one way, as each of `Connection`'s is, and `SmallWrites`, that no write to a
  buffer that may hold bytes is of more than half the limit; without either the theorems
  are false (section 2).  Writes to an empty buffer may be of any size.  `Consistent` says
  that some `n` is the number of the block written, from which places the three sizes are
  the distances, that the list ends with a block, and that unread bytes lie between the
  positions; a buffer filled by `write` at any time is also `Settled`: its write position
  is never at the end of a block that has a next one. One filled as `sendInLoop` does is
  settled, or `Rewound`: empty, with nothing left for `move_head` to move, which is what a
  refused write leaves. The places are quotients by a variable `BlockSize`, so the lemmas
  `Blocks*` and `Place*` state once what is needed of them, and those on slices what
  moving blocks (`Turned`) and copying into them (`Copied`) does to the bytes between two
  positions.  With these each operation is a step of `ByteQueue`, or a stutter.

Liveness is out of the provers' reach, but its safety half is not: in every state,
what is still to happen is on its way.  These halves are theorems, so that only the
fairness argument is left to the runs.

| Liveness (TLC) | Safety half (proved) | Invariant |
|---|---|---|
| `ShutdownCompletes` | `ShutdownNotForgotten`: the FIN is sent, its task queued, output waits and is polled for, or it has stalled | `FinInv`; no forced close |
| `ClosedConnectionRemoved` | `ClosingNotForgotten`: the map's connection is read, or its removal is under way | `ClosingInv` |
| `ClosedConnectionFreed` | `ClosedOnItsWayOut`: only a user or `connectDestroyed` keeps it | `ConnInv` |
| `StartReturns` | `CountDownNeverMissed`: `start()` sleeps only until the thread counts down, or it has been woken | `SleepInv` |
| `PoolStops` | `EveryThreadToldToStop`: `loops_`, as long as `Loop` and without repetition, has every loop (`EveryLoopStored`, by counting) | `ToldInv` |
| `StopTakesEffect` | `StopNotForgotten`: a stopped connector that connects has its stop queued | `StopInv` |
| `TimersFire` | `TimersAreNeverLost` and `TimerfdIsArmed`: a timer is queued and the timerfd is armed for it | `QueueInv`, `ArmInv` |
| `TasksRun`, `PutsReturn` | `ConsumersNeverForgotten`, `ProducersNeverForgotten`: while one sleeps, enough are awake | `CallsAccounted`; a limit set before the first `put` |
| `ConnectionsReleased` | `ReleaseNotForgotten`: each connection left has its `handleClose` queued, or a user | `OverInv`; callers keep the rules |

`QueuedTasksRun` and `QuitStopsLoop` have no such half: nothing covers a task whose
wake-up came too early, or `quit_`, but the end of the wait after `WAIT_TIME`.

Not proved: liveness itself and `ENABLED`, and anything about the community modules'
recursive operators; those stay with TLC.

## 6. Plan

1. (done) `SerialExecutor`, `Eventloop`, `FdTable`, `PollSelect`, `TimerQueue`, `Connection`,
   `EventloopPool`, `Server`, `Condition`, `BlockingQueue`, `ThreadPool`,
   `ClientConnector`, `Client`, `ByteQueue`, `KBuffer`, all with proofs.
2. (done) `TimerService`, which `TimerQueue` refines, and the safety halves of section 5.
3. What the proofs of `ClientProofs` need of callers, stated as rules on steps, as
   `SentWhilePolled` is, instead of guards in the model (`Quiet`, `Careful`).

## 7. Not modelled

* `TimeWheel`: the class has no legal use.  `currentNode_` is followed before
  anything has assigned it (`TimeWheel.h:55`) and the destructor walks a ring whose nodes it
  deletes; a model would have to repair it first.
* Unreachable code: `ClientConnector::restart`, `Client::removeConnection` (nothing calls
  them), `handleError` (`kError` is never asked for), `Thread::join` and `stop`.
* Formatting, logging, address conversion and file I/O (`Timestamp` formatting,
  `Socket`, `NFile`); `Socket` appears through the outcomes of the system calls.
* Destruction of a Server whose loop still runs, of a `ThreadPool` (its workers are
  never stopped), and of a `Client` on another thread than its loop's.
* Undefined behaviour through uninitialised members is modelled where it decides
  control (`maxfd_`, `writing_`).
