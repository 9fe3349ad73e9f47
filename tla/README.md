# Verification of the concurrency-communication-engine

TLA+ models of the threads, queues and shutdown protocols of this network
engine, checked with TLC and, where the argument does not depend on the size of
the instance, proved with TLAPS. Paths below are relative to
`src/depends/include/` unless they say otherwise.

## 1. The system

| component | state | operations | interacts with |
|---|---|---|---|
| `CELLSemaphore` | `_wait`, `_wakeup`, a condition variable | `wait`, `wakeup` | used by `CELLThread` |
| `CELLThread` | `_isRun`, `_mutex`, `_sem`, three callbacks | `Start`, `Close`, `Exit`, `isRun`, `OnWork` (detached) | every thread of the engine is one |
| `CELLTaskServer` | `_tasksBuf` under `_mutex`, `_tasks`, a `CELLThread` | `addTask`, `Start`, `Close`, `OnRun` | `CELLServer`, `CELLLog` |
| `CELLServer` (+ select, epoll, IOCP subclasses) | `_clientsBuff` under `_mutex`, `_clients`, `_clients_change`, a cached socket set | `addClient`, `getClientCount`, `OnRun`, `CheckTime`, `DoNetEvents`, `DoMsg`, `OnClientLeave`, `ClearClients` | clients handed over by the accept thread; reports to `INetEvent` |
| `EasyTcpServer` (+ select, epoll, IOCP subclasses) | `_cellServers`, `_clientCount`, the listening socket | `Start`, `Accept`, `addClientToCELLServer`, `OnNetJoin`, `OnNetLeave`, `Close` | owns the `CELLServer`s |
| `CELLClient`, `CELLBuffer` | fill level, heartbeat clock, pending-I/O flags | `SendData`, `RecvData`, `hasMsg`, `pop`, `checkHeart`, `make*IoData` | owned by one `CELLServer` or one `EasyTcpClient` |
| `EventPool` (timers) | `timer_queue_`, `stop_`, two condition variables | `PushTimeEvent`, `Run`, `Stop`, the handler's `Stop` | used by the client for heartbeats |
| `AsyncLogging` | current, next and full buffers, two spare ones | `append`, `threadFunc`, `start`, `stop` | every `LOG_*` of the server |
| `MemoryMgr`, `CELLObjectPool` (`src/HelloMemory`) | free lists, reference counts | `allocMem`, `freeMem`, `addRef` | replacement of `operator new` |
| `CELLStream`, `CELLMsgStream` | a buffer, a read and a write position | `Read*`, `Write*`, `finsh` | message handlers |
| client (`EasyTcpClient.hpp`, `src/EasyTcpClient/client.cpp`) | clients, barrier counters | `WorkThread`, heartbeat callbacks | the server, the timer pool |
| logging front end, configuration, clocks, socket wrappers | - | formatting, file and system calls | - |

What is hard here is the concurrency. Threads are detached and are stopped by a
plain `bool` that several of them write, partly without the lock; containers
are tested, and their sizes compared, outside the lock that guards them; the
owner of an object deletes it when `Close` has returned; a count that limits
admission is raised by another thread than the one that tests it; two condition
variables and a timed wait carry the timer pool. The correctness properties of
each component, in the order of the table: the semaphore loses no wakeup; `Close`
is never left waiting and does not return before the thread has cleaned up;
tasks run once, in order, and before `Close` returns; a client always has
exactly one owner and the cached socket set, the count and the lists agree; the
shutdown of the server ends and frees everything; messages are framed as they
were sent; a stopped timer is never called and no timer disappears; every log
line is written; a block is never handed out twice; what is read from a stream is
what was written.

## 2. Modules

    CountingSemaphore              abstract: permits and a queue
    CELLSemaphore                  the two counters and the condition variable
      CELLThread                   + flag, mutex, controllers and workers
        CELLTask                   + the two task lists and OnRun
    CELLServer                     message threads
      EasyTcpServer                + accept thread and shutdown
    CELLTimeEventPool              the timer pool
    CELLBuffer                     one buffer of bytes, messages
      CELLClient                   both buffers and the request flags
        Connection                 two ends, the network, the completion ports
          MessageExchange          the two programs' event loops, heartbeats
    LogStream                      one line of the log
      LogFile                      files, rolling, flushing
        AsyncLogging               the buffer exchange and the back end's thread
    MemoryPool                     the pools of HelloMemory
    CELLStream                     reads and writes on a message
      MessageStream                a message written, read and answered

Indentation means EXTENDS; `CELLSemaphore` states `CountingSemaphore` as its
abstraction by `INSTANCE ... WITH`. `MC*` modules are the instances for TLC,
`*_proofs` modules hold the proofs; those about the pools and the streams, which share an
instance (`MCLibraries`) and no variable, are together in `MCLibraries_proofs`, each from the
specification of its part alone (`MemorySpec`, `StreamSpec`). Definitions whose comment begins with MUTANT
are deliberately wrong variants of the definition that follows; no specification
uses them, and each shows that a property can fail.

**CELLSemaphore.** `waitCount` is `_wait`, `wakeupCount` is `_wakeup`. A method is
one step because it runs under the semaphore's mutex, except that `wait` gives
the mutex up inside `_cv.wait`: `blocked` are the sleepers, `ready` those notified
or woken spuriously that have yet to look at the predicate (`Resume`).

**CELLThread.** Controllers call `Start`, `Close` and `Exit` in any order; each
`Start` that finds the flag down creates one of the `Workers`, which runs `OnWork`.
`isRun` is `_isRun`; every access of it outside `_mutex` is a step of its own
(`ExitTest`, `RunReturns`, `WorkClear`), one made under the mutex is merged with the
lock next to it. A worker's function may return at any moment, because it has read the
flag down or by itself with the flag still up (the input thread of `client.cpp`), or
call `Exit`. What the function does otherwise is left to the modules above. A worker
between the test in `Exit` and its lock is *caught* (`CaughtInExit`) when a `Close`
holds the mutex.

**CELLTask.** One action per step of `OnRun` another thread can come between:
the test of the flag, the unlocked test of the buffer, the move under the lock,
each task, the clearing, and the last loop over the buffer, which the code runs
without the lock. A task is its position in the order of the `addTask` calls.

**CELLServer, EasyTcpServer.** A message thread is represented by its flag and its
place in `OnRun` (`stage`); its `CELLThread` by what `CELLThread` shows of an object
that is started once: `Close` waits for the end of `_onDestory` when it finds the
flag up and not at all when it finds it down, and `Exit` is an unlocked test
(`NetError`, `AcceptError`) and a store that needs the mutex a waiting `Close` holds
(`ServerExit`, `AcceptExit`). The buffer is drained client by
client with the lock held (`locked`), so that the states in which a client is in
both containers are there; `ClearClients` runs without it in three steps. A client joins in
two steps, the list and `OnNetJoin`, and leaves in two, in the order of the code:
`CheckTime` and the select build report the departure and then erase the client, the epoll
build's `rmClient` erases it first. `reporting` is the client between the two, so the
count and the lists of several threads interleave.
`getClientCount` reads two sizes without a lock: while a buffer is not empty the
result is any number the concurrent drain can produce. Which clients are timed out
(`CheckTime`) or fail in `DoNetEvents` is any subset. `fdBak` is the cached socket
set; the epoll subclass differs in `DoNetEvents` only, and everything but
`FdSetFresh` and `PollsSomebody` is about both. `CELLServer::Close` also closes a
task server to which nothing is added (`CELLTask` covers it). `failed` and the
statuses `left`, `dropped`, `freed` and `refused` are history.

The comments at `OnNetJoin` and `OnNetLeave` (`EasyTcpServer.hpp:215-216`, `:222-223`) call
both unsafe with several `cellServers` and safe with one. The instance has two message threads and
`CountMatches` holds: what these callbacks change is `_clientCount`, which is a
`std::atomic_int` (`:40`), so for the count the warning does not apply. It may be meant
for what a derived class does in them.

**CELLTimeEventPool.** `queue` is `timer_queue_`, `due` the events in it whose time
has come, `batch` and `again` the two vectors of `Run`, `handler` the events whose
atomic flag is set. `GetReady` is one step up to its return or its wait since it
holds the lock; so is each callback, during which the lock is held only in
`CleanAllEvent` (`pc = "cleaning"`). `woken` records that the backend has been
notified since it went to sleep; the timed wait also ends when an event is due.
A callback may throw (`ExpireThrows`, `CleanThrows`), with the loss of the round
that the code has then. `calls`, `stopped`, `retired`, `dropped` are history.

**CELLBuffer, CELLClient, Connection.** A buffer is the sequence of its `_nLast` bytes,
counted in units: a header is one unit, a login two. So a message may be split at any
unit but not inside its header, which is the one grain of `recv` that is not
represented: `hasMsg` waits for a whole header as it waits for a whole message. The
operators of `CELLClient` have the names of its methods. `obj` are the two objects of a
connection, `wire` the units under way to each end, `io` the requests outstanding with
the completion port of each end. A receive request keeps the position its bytes will be
written to, a send request the bytes it was given, so that a buffer that moves
underneath a request shows. `life` follows an object: in `_clientsBuff`, in `_clients`,
closed with requests outstanding, deleted. A completion that refers to a deleted object
leads to the stage `undefined`, from which nothing is claimed.

**MessageExchange.** The work thread of `client.cpp` over each of the three clients, the
message thread over each of the three servers, the timer thread with its heartbeat
callback, and what the network may do. A round of an event loop is several steps
(`stage`): posting or reading, taking completions one by one in any order, each
message of `DoMsg`, writing. Sockets are blocking, as the code leaves them: `send` is
called with the whole buffer and returns when it has taken everything or a signal has
interrupted it (`SendInterrupted`). The heartbeat callback writes into the send buffer
without a lock. It is two steps, `HeartBegin` and `HeartEnd`; when the work thread has
changed the buffer in between, `PushRaced` has every content the two writers can leave,
and `raced` ends the behaviour: what damaged bytes do to the programs is not followed.
A client is overdue (`CheckTime`) at any moment, which stands for the heartbeat clock.
One connection is followed; other clients of the message thread keep it polling
(`ServerPollsOthers`), which is how a late completion is found, and share its completion
port: a wait that fails on account of any of them ends the thread (`ServerWaitFails`), as
the shutdown or a failing poll does (`ServerStops`), and `ClearClients` then deletes the
client with whatever is outstanding, also while its connection is up. A post may fail for
any reason (`PostFailures`), with one exception that is an assumption: the first receive of a client
that has just been accepted fails only when the connection is lost (`ServerJoin`). Such a failure
would go unnoticed by the code and leave the client deaf.

**LogStream, LogFile, AsyncLogging.** A line is its number and its length, and the
length is computed from the pieces a statement shifts in, with the room each must find
and the pieces that are left out. `operator<<(double)` has no `return` when there is no
room (`CELLLogStream.cpp:95`); a statement that gets there is undefined. A file has
`disk` and, in the C library, `held`; `rollFile` and the periodic look at the clock
follow `CELLLogFile.cpp`, also that a file is not rolled twice in a second. The two
sections of `threadFunc` under the mutex are `EnterEmpty`, `EnterFull` and `Wake`, the
latter for `wait_for`, which has no predicate. `edition` is the class the server uses or
the one in `src/HelloLogger`, which throws buffers away when there are too many. `stop`
does not wait, the logger is a local variable of `main`, and a thread that uses it
afterwards is undefined (`UsesDestroyed`). `appended` and `dropped` are history.

**MemoryPool.** A pool is its list head, the `pNext` of each block, and the reference
counts; `Take` is what `allocMemory` and `allocObjMemory` have in common. An address is
a block of a class, of the object pool, or a piece from `malloc`. Every call holds its
pool's mutex while it works, so it is one step.

**CELLStream, MessageStream.** A byte remembers the value it is part of, so that a read
at a wrong position does not give a value. `ReadArray` and `ReadString` do not move on in
the cases in which the code does not. `MessageStream` is the path of `CMD_LOGOUT` through
`OnNetMsg`: a message is written, finished, read in the same order into arrays of fixed
size, answered from what was read into a smaller stream, and read again.

## 3. Runs

| run | instance | what it shows |
|---|---|---|
| `thread` | two controllers, two runs of the thread | `CloseNotStranded`, `CloseWaitsForDestory`, `CloseReturns` (the first and the last unless a worker is caught in `Exit`), the consistency of the counters inside, and that they implement a counting semaphore |
| `thread_claim` | one controller, one run | **violated**: `Close` returns before the thread's last statement |
| `thread_exit` | one controller, one run | **violated**: `Exit` and `Close` can block each other for ever |
| `tasks` | two closers, three tasks | `ExecutedInOrder`, `NothingLost`, `CloseRunsTasks`; `EveryTaskRuns`, `TaskCloseReturns` |
| `server` | two message threads, three connections, limit two | `OwnedOnce`, `CountMatches`, `FdSetFresh`, `CloseFreesAll`, `NoUseAfterDelete`; `AcceptedIsServed`, `CloseEnds` |
| `server_limit` | the same | **violated**: three clients join under a limit of two |
| `server_empty` | the same | **violated**: `DoNetEvents` is called without a client |
| `timers` | two one-shot events, one periodic, capacity two, two stoppers, one exception | `CalledAtMostOnce`, `NothingForgotten`, `NobodyForgotten`; `StopReturns`, `EventExpires` |
| `timers_capacity` | one of each, capacity one | **violated**: a periodic event overfills the queue |
| `connection` | one connection, two logins, one heartbeat, buffers of two and three units, a network of two; the builds IOCP/IOCP, select/epoll, epoll/select | `InOrder`, `BuffersHoldStill`, `FlagMatchesRequest`, `OverdueSpared`; `LoginsAreHandled` |
| `logging` | four lines, line buffers of six units, back-end buffers of ten, files left after eight | `LinesInOrder`, `SparesComeBack`; `LinesReachFile` |
| `libraries` | two classes and an object pool of two blocks each, five pieces held; messages of three items in 14 bytes, answers of 12 | `HandedOutOnce`, `StreamRoundTrip` |

The bounds. Two controllers are the fewest that can close, start and exit against
each other; a second run is needed for the late store at the end of the first to
matter. Three tasks put one in each of the lists while another is added. Two
message threads are needed for the choice between them and for a shutdown that
deletes one while the other runs; three connections with a limit of two let one
be refused, one overshoot and one replace another in the socket set. A pool for
two with three events lets a caller wait for room and a periodic event come back
to a full queue; a second stopper is the one whose `Stop` does nothing. `MaxTasks`
and `MaxThrows` bound what the environment adds.
In `connection` a send buffer takes one login and nothing more, so that the second one,
an answer or a heartbeat is dropped; a receive buffer takes a login and a heartbeat, so
that messages are joined and split in it; the network takes as much as one login, so
that a send blocks, and both do at once. The first login of a connection meets an empty
peer and the second one whatever the first has left; the pairs of builds have every
client loop and every server loop. In `logging` an empty statement gives a line of four
units, one whose pieces do not all fit a line of five, so a back-end buffer holds one
line or two, four lines fill the current and the next buffer and ask for a third while
the thread writes, and a file is rolled by its size, by the day and not at all. In
`libraries` five pieces empty every pool and overflow into the memory manager and into
`malloc`; 14 and 12 bytes refuse some of what is written, and an array of three elements
is longer than the reader's two. The `Max` constants bound what the environment asks for;
nothing else is cut.
Deadlock is not checked where the system may stop for good: a closed server, a
stopped pool, an ended thread or program, a message that has been answered, the two blocked sends of
`connection` (which `LoginsAreHandled` names), and the deadlock of `thread_exit` itself, which the
liveness property `CloseReturns` of `thread` excludes by its premise.

Fairness is that of the scheduler: a thread that can go on in its own code does
so (weak fairness of every worker, of the accept and message threads, of a `Close` or
`Stop` under way). Nobody is obliged to start, close, exit, connect, push, fail or
throw, and no spurious wakeup is obliged to come. In the pool, time passes: an
event that stays queued becomes due. Weak fairness for `ExitSet`, `CloseResume`,
`CloseReturn` is enough because what enables them is not taken away in the cases the
properties speak of. The message thread's calls to select return (its timeout is one
millisecond or less), and a callback returns.

In `connection` the accept thread, the message thread, the work thread and the
heartbeat callback go on (weak fairness). Completing a receive or a send, and reading
from a socket, get strong fairness: a loop polls again and again, with a timeout of a
millisecond, and between two polls the step is not possible, so weak fairness would allow
a poll that always comes up empty although bytes are there. No failure, timeout or signal
is obliged to come. Nothing is asked of anybody after a collision, so that the fairness
never demands a step that the model does not have.
In `logging` the back end's thread goes on; `wait_for` returns because of its timeout. That the
disk does not stay full is a premise of `LinesReachFile`, not an assumption of the
specification.

## 4. What the violated runs show

* `thread_claim`: `_isRun = false` (`CELLThread.hpp:80`) comes after `_sem.wakeup()`,
  so a closer that deletes the object as `client.cpp:340-341` does can do so before the
  thread's last write to it. `src/EasyTcpServer/README.md:381` says that `Close` waits
  for the thread to exit. What does hold is `CloseWaitsForDestory`: `_onDestory` is over.
* `thread_exit`: `Exit` locks the mutex that `Close` holds while it waits. The message
  threads and the accept thread call it when their poll fails (`CELLServer.hpp:76`,
  `EasySelectServer.hpp:42`, `EasyEpollServer.hpp:30`), so one that fails just while it is
  closed blocks the shutdown for ever: the exception `CaughtInExit` of `CloseEnds`.
* `server_limit`: the count tested at `EasyTcpServer.hpp:148` is raised in another thread,
  after the hand-over.
* `server_empty`: the test for an empty list comes before `CheckTime`; the select version
  then dereferences `_clients.begin()`.
* `timers_capacity`: the periodic events are queued again without the test that
  `PushTimeEvent` makes.

Other behaviours worth knowing are not stated as violations. A message thread whose poll has
failed has lowered its own flag; `Close` then finds it down and does not wait
(`CELLThread.hpp:45`), and `EasyTcpServer::Close` deletes the `CELLServer`
(`EasyTcpServer.hpp:203-206`) while its thread may still be in `ClearClients`
(`CELLServer.hpp:192`, `:211-224`) or before the `wakeup()` and the last store of `OnWork`: a use
after deletion, against the safe exit that `src/EasyTcpServer/README.md:381-382` describes. The
model reaches it, and `NoUseAfterDelete` excepts failed servers in so many words. Such a server also
keeps its clients in the count for ever (`CountMatches` counts them as `dropped`) and, having
none, attracts every new one (`AcceptedIsServed` excepts it). A `Stop` of the pool
that notifies just before the backend begins its timed wait is noticed only when the
next event is due (`GetReadyWaits` with `stop` set; `StopReturns` holds because time
passes), and a caller that waits for room when the pool is stopped is never woken
(`NobodyForgotten` promises it only before).

The connection, the logger and the streams have such behaviours too; each is a step of the model that a passing
property names as its exception:

* both programs can block in `send` for ever, since each reads only when it is not
  sending (last disjunct of `LoginsAreHandled`, which is met while both are in a
  `send` that has no room; the property asks no more of a login from such a moment on, also when a
  signal ends one of the two calls later);
* an IOCP client is deleted with an operation outstanding when another operation of its
  fails or cannot be made, and when its thread ends, on a connection that is up as on one that is
  lost (`ServerFailedCompletion`, `ServerPost`, `ServerEnds`); the outstanding completion then
  finds a deleted client (`ServerLateCompletion`). Only `CheckTime` looks at the flags first, which
  is what `OverdueSpared` is about;
* a client that was closed by `CheckTime` and whose outstanding operation had already
  succeeded is never deleted (`ServerLateCompletion`);
* a failed completion, of any client, whose error is not one of the two `CELLIOCP::wait` knows ends
  the whole message thread (`ServerWaitFails`), while the client program goes on as if
  nothing had been outstanding (`ClientWaitFails`);
* lines appended after the last exchange before `stop` are not written
  (`LinesReachFile` requires that the logger is not stopped), and the thread can use
  the logger after its destruction (`UsesDestroyed`);
* an empty string and an array longer than the reader's leave the reader where it was,
  and everything behind them is read shifted (phase `lost`).

## 5. Proofs

Proved for every value of the constants, from the named assumptions only:

* the sets of threads, events and clients are finite, workers are threads, a task server
  has one worker, there is at least one message thread, `NoClient` is no client, the bounds
  are natural numbers;
* a buffer of a connection holds any message (`BuffersHoldMessages`) and the network
  something (`NetCapPositive`);
* the logger keeps at least two buffers (`AsyncLimits`), a small buffer is longer than a
  number and no longer than a large one (`LineFitsLargeBuffer`), a log statement shifts in
  pieces (`ContentsArePieces`), files roll after a positive time (`LogFileLimits`);
* a pool has blocks, and the classes of the memory manager have growing sizes
  (`PoolConstants`);
* a stream has room for the length and the command and no more bytes than a `uint16_t`
  counts (`StreamLimits`).

| module | theorems | inductive invariant |
|---|---|---|
| `CELLSemaphore_proofs` | `SemaphoreSafe`, `SemaphoreImplementsCounting` | `SemInv`: types, `TokenAccounting`, `NoLostWakeup` together; neither of the last two is inductive alone, since a step of `Resume` needs a permit for each `ready` thread and one of `Wakeup` a count for each thread inside |
| `CELLThread_proofs` | `ThreadTypeOK`, `CloseIsNotStranded`, `CloseWaits`, `ThreadSemaphoreSafe`, `ThreadImplementsCounting` | `IInv`: adds who holds the mutex (`MutexInv`: at most one closer is under way), what the flag says of the workers (`RunInv`: whoever takes it down has a wakeup to wait for), the same of a `Close` that has taken it down, whether or not a worker is caught (`WakeupAhead`), which gives `CloseNotStranded`, and `OneShotInv`, which counts the only wakeup of an object that is started once |
| `CELLTask_proofs` | `TaskServerTypeOK`, `TasksRunInOrder`, `NoTaskIsLost`, `CloseRunsEveryTask`, `TaskServerIsThread` | `TaskInv`: `IInv` by the step simulation `TaskIsThreadStep`, where the loop is (`StageInv`), what has run when the worker has left it (`DoneInv`), and `OrderInv`, which numbers the tasks through both lists |
| `CELLTimeEventPool_proofs` | `PoolTypeOK`, `StoppedIsNeverCalled`, `NoEventDisappears`, `NobodySleepsThrough` | `PoolInv`: a handler's flag goes up before the callback (`FlagInv`), `CleanAllEvent` runs only after a stop and `GetReady` only with an empty round (`CleanInv`) |
| `EasyTcpServer_proofs` | `ServerIsTyped`, `ClientsHaveOneOwner`, `CountIsRight`, `SocketSetIsFresh`, `DeletedIsUnused`, `CloseClosesAll` | `ServerInv`: how far Close is and which threads it has stopped, waited for and deleted (`LifeInv`), the two containers of each thread are disjoint and agree with the status of each client (`OwnInv`), which client a thread has in hand between the two halves of a join or a departure (`TakenInv`), where the kept set of sockets must be the list's (`FreshInv`), `CountMatches` itself |
| `MessageExchange_proofs` | `ConnectionTypes`, `ConnectionInvariant`, `MessagesInOrder`, `RequestsKeepTheirMemory`, `FlagsCountRequests`, `OverdueAreSpared` | `ExchangeInv`: the types always, and while the connection is not down and no heartbeat has collided with the work thread `LifeInv`, `StageInv`, `RequestInv` and `StreamInv` for each end; `OverdueAreSpared` needs `FlagInv` besides, which says of the flags what remains true when the connection is down |
| `AsyncLogging_proofs` | `SparesAlwaysComeBack`, `BackIsNeverOfEmpty`, `LoggerInvariant`, `LogTypes`, `LinesKeepOrder` | `LogInv`: `SpareInv` (a missing next buffer means that a full one waits for the thread, `FrontInv`; at each `pc` of the thread how many buffers it has between the spare ones and those to write, `BackInv`) and `LinesInv` (`StoreInv`, `ThreadInv`, `FileInv`, `OrderInv`) |
| `MCLibraries_proofs` | pools: `PoolsAreLists`, `MemoryHandedOutOnce`, `MemoryTypes`; streams: `StreamInvariant`, `WhatIsWrittenIsRead`, `StreamTypes`; both: `LibraryTypes` | `MemoryInv` and `StreamInv` |

The arguments of the last three:

* **The connection.** `FlagMatchesRequest` speaks of flags only, but is not inductive
  without the framing: a receive that finds no room posts nothing, and that there is
  room follows from the fact that a round leaves no complete message in the receive
  buffer (`NoMessage`, which needs that what the buffer begins with is a message). So
  `StreamInv` follows the units from the sender's buffer through the network, or through
  the send request's copy of them, to the receiver's buffer: whole messages, numbered
  from what the receiver has counted to what the sender has counted. `RequestInv` says
  that a receive writes to the end of the buffer and that a send's bytes are the front of
  it; a completion may then be taken in any order and at any moment, and the stream is
  the same before and after. The invariant, like the properties, says nothing of the
  buffers once the connection is down or the heartbeat callback has collided
  (`raced`). `OverdueSpared` holds on a lost connection too, where the flags may promise a
  request that could not be made but never hide one: that is `FlagInv`, proved by itself.
* **The logger.** The files followed by the buffers that remain to be written, the full
  ones and the current one is the log without the lines thrown away (`OrderInv`); an
  abort leaves a beginning of it. `StoreInv` keeps every buffer shorter than a large one;
  that a line always fits an empty one (`LineFits`) is why no step has to leave one out.
* **The pools.** The free list is a witness: a function `g` that has the blocks of the list
  in order, each once, and 0 from its end on. `PoolInv` says that the blocks in `g` and
  those in use are all the blocks, so a block taken from the head was not in use.
* **The streams.** `Layout` gives the position of each item of a message as a function;
  the writer, the reader and the answer hold their items along it, and the reader
  is at the position behind the last one it has read, unless it has met an array longer
  than its own or an empty string (phase `lost`). The two parts of the instance
  share no variable, and a run of it is a run of each (`PartsAlone`), so each is proved alone
  from `MemorySpec` and `StreamSpec`.

Sequences of any length need induction, and the library's induction theorems take an
operator as a parameter, which the provers cannot instantiate. The proofs use two other
ways. That something holds for every number is proved by taking the least counterexample
of a set of numbers (`LeastNumber`, `AllNumbers`, from the well-founded order of the
naturals). A fold or a recursive function is described by showing that a function with its
recursive equation exists and that two such functions agree (`FoldExists`, `SameRecursion`,
`AllReadBack`); from that come the lemmas about a sequence one longer
(`LengthAppended`, `KeptAppended`, `FlatAppended`), which are all the step lemmas cite. In
the connection, what is counted in a sequence is the cardinality of a set of its positions
(`LoginsAdd`).

Every invariant and every safety action property of the passing runs is proved. Only
model-checked are

* the liveness properties (`CloseReturns`, `EveryTaskRuns`, `TaskCloseReturns`,
  `AcceptedIsServed`, `CloseEnds`, `StopReturns`, `EventExpires`, `LoginsAreHandled`,
  `LinesReachFile`), because TLAPS does not reason about fairness and ENABLED here;
* the violations of section 4, which are counterexamples TLC found on an instance.

## 6. Not modelled, and the plan

Left out, and why:

* messages longer than a buffer, and length fields that lie (`CELLBuffer.hpp:124`, `:149`):
  the two programs send neither, and `BuffersHoldMessages` says so;
* what the two programs do with bytes damaged by a collision of the heartbeat with the
  work thread;
* a failed `AcceptEx` or `wait` in the IOCP accept thread, the registration of
  sockets with epoll, `InitSocket`, `Bind`, `Listen`;
* `MemoryMgr::addRef`, which has no caller, and object arrays;
* the statistics (`sendCount`, `nConnect`, the message counters), which nothing decides on,
  and the client's start-up barrier and command threads;
* the text of times, file names and log lines, a failing `fflush`, `CELLLog`'s formatting
  (its queue is `CELLTaskServer`);
* configuration, clocks and wrappers of system calls, which have no behaviour of
  their own, and the example programs `HelloThread`, `HelloSocket`.

Memory corruption after a data race on a container is not represented beyond the
values the racing read can return; where the code reads a container without its lock
the hazard is listed with its line in `PROJECT.json`.

Next, in this order:

1. abstract specifications for the two components that promise an order and state it
   only as an invariant: a channel of numbered messages that the connection implements while
   it is up, and a log to which the logger appends, each as an `INSTANCE ... WITH` from the
   proved invariants `StreamInv` and `OrderInv`;
2. the connection after the collision of a heartbeat with the work thread: what a
   receiver does with a length field that does not fit;
3. the failing calls of the IOCP accept thread.
