# TLA+ models of dlmuduo

Models, model-checking runs and proofs for the concurrent core of dlmuduo, a C++14
reactor network library (one event loop per thread, timer wheel, TCP server), its
asynchronous logger, its HTTP server and the URL shortener built on it. Paths below are
relative to the repository.

    tlc -workers 2 -config TimingWheel_index.cfg MCTimingWheel    # a run
    tlapm TimingWheelProofs.tla                                   # a proof

`PROJECT.json` lists the runs, the mutants each property has to refute, the source lines
every definition stands for, the hazards, the findings and the theorems.

## 1. Inventory

| Component | Source | State | Operations |
|---|---|---|---|
| TimingWheel, TimerTask | `include/Timer.hpp`, `src/Timer.cc` | `_tick`, `_wheel` (slots of `shared_ptr`), `_timers` (id to `weak_ptr`), the timerfd | add, refresh, cancel, `HasTimer`, `OnTime` |
| EventLoop | `src/EventLoop.cc` | `_task` under `_mutex`, `_eventfd`, `_quit`, `_thread_id` | `Start`, `Quit`, `RunInLoop`, `TasksInLoop`, `RunAllTask` |
| Poller, Channel | `src/Poller.cc`, `src/Channel.cc` | `_channels`, `_events`, `_revents` | update, remove, `Poll`, `HandleEvent` |
| Connection | `src/Connection.cc` | `_status`, two buffers, `_enable_inactive_release`, callbacks | the `Handle*` handlers, `Send`, `Shutdown`, `Release`, inactivity on/off, `Upgrade` |
| TcpServer, Acceptor | `src/TcpServer.cc`, `src/Acceptor.cc` | `_connections`, `_next_id`, the base loop, the pool | `NewConnection`, `RemoveConnection`, `RunAfter`, `Start`, `Stop` |
| LoopThread(Pool) | `src/LoopThread.cc`, `src/LoopThreadPool.cc` | `_loop` under `_mutex`, `_next_loop_idx` | `Getloop`, thread entry, destructor, `Create`, `NextLoop` |
| Buffer, Socket, Any | `src/Buffer.cc`, `src/Socket.cc`, `include/Any.hpp` | indices into a vector; a descriptor; a value | read, write, compaction; system calls |
| AsyncLooper | `include/log_system/looper.hpp`, `buffer.hpp` | two buffers, two condition variables, `_stop` | `push`, consumer thread, `stop` |
| Logger, formatter, sinks | `include/log_system/*` | format items, open files | formatting, file rotation |
| HttpContext, HttpServer | `net/http/http.hpp` | `_recv_statu`, `_async_pending`, the request | `RecvHttp*`, `OnMessage`, routing |
| Mysql_Pool, Redis pool | `net/http/shortener/*_pool.hpp` | queue of connections, queue of queries, `_async_stop` | `Acquire`, `Release`, `QueryAsync`, workers |
| Shortener | `net/http/shortener/shortener.cc`, `init.sql`, `base62.hpp` | the `short_url` table, the cache | `ApiShorten`, `Redirect` |

How they meet: a loop's thread alone runs channel handlers, functors and timer callbacks.
Other threads reach it by `RunInLoop`/`TasksInLoop` and the eventfd. `TcpServer` accepts on
the base loop and gives each connection to an io loop; the connection's timer lives in the
wheel of that loop; the io loop asks the base loop to erase it from `_connections`. A
connection is owned by `shared_ptr`s, but tasks and timers hold a raw `this`. HTTP handlers
run in the message callback; a deferred answer comes from a MySQL worker through `RunInLoop`.

What is hard: the lost-wake-up window between queue, eventfd and `epoll_wait`; callbacks run
from destructors; refreshes that leave shares behind; weak-pointer entries that outlive or
predate a task; half-close against reentrant callbacks; several release requests in one
round; insertion, timer, establishment and removal of one connection on two threads; shutdown
orders. The `hazards` of `PROJECT.json` place each one at its line.

What makes each component correct:

- wheel: a callback runs exactly once, in the round of its last arming or refresh, unless
  cancelled; the index names the live tasks; every task leaves;
- loop: no functor is lost, duplicated, reordered or left asleep; `Quit` ends `Start`;
- connection: handlers use a live object; closed exactly once; what was accepted for sending
  is sent before a half-closed connection is closed; write interest equals pending output;
  the server forgets exactly the released connections; no timer outlives its connection;
- thread pool, server teardown: a loop pointer is handed over once and never used after its
  thread ended; destruction ends;
- logger: every pushed message is written once and in order, `stop()` ends and loses nothing;
- HTTP: one answer per request, in order; a deferred answer resumes the pipeline;
- pools: connections are conserved; every query is answered; shortener: codes are unique and
  what is answered can be resolved later.

## 2. Modules

| Module | What it is |
|---|---|
| `TimerService` | abstract: every armed task counts the rounds it has left |
| `TimingWheel` | the wheel with its slots, shares, index, destructor callbacks, timerfd and destruction |
| `MCTimingWheel` | symmetry for its runs |
| `TimingWheelProofs` | its theorems, and that it implements `TimerService` |
| `TaskService` | abstract: functors wait in one line and are started in order |
| `EventLoop` | queue, eventfd, `Start`, `Quit` and the calling threads, step by step |
| `EventLoopProofs` | its theorems, and that it implements `TaskService` |
| `Connection` | a connection from accept to destruction on one or two loops, with peer, kernel, timer, owners and application |
| `MCConnection` | the applications (plans of calls) of its runs |
| `ConnectionProofs` | its theorems, for any application |
| `Server` | `TcpServer`, `Acceptor`, `LoopThread`, `LoopThreadPool`: start, accept, ids, removal, stop, destruction |
| `ServerProofs` | its theorems |
| `LogService` | abstract: messages are accepted in one order and written in that order, once |
| `AsyncLogger` | producers, the two buffers, the worker, `stop()` and the rolling sinks |
| `MCAsyncLogger` | the lengths and levels of its messages |
| `AsyncLoggerProofs` | its theorems, and that it implements `LogService` |
| `ByteBuffer` | the operations of `Buffer` as operators on its cells and two indices |
| `HttpServer` | one connection of the HTTP server: the parser's states, `OnMessage`, deferred answers; its input buffer is a `ByteBuffer` |
| `MCHttpServer` | the streams, texts and forms of its runs |
| `HttpServerProofs` | theorems about the buffer, the parser and what is answered, for any streams |
| `HttpText` | `Split`, `UrlEncode`, `UrlDecode`, `ValidPath` and the parameters of a query, on sequences of character codes |
| `HttpTextProofs` | what they compute, for every text and form |
| `Base62` | `Encode` and `Decode` |
| `Shortener` | `ApiShorten`, `Redirect`, the MySQL and Redis pools, the asynchronous worker, outages and restarts |
| `MCShortener` | the ids on which the codes are checked |
| `ShortenerProofs` | that `Decode` inverts `Encode` on every natural number, and the theorems of the shortener |

What composes what: `HttpServer` uses `ByteBuffer`, `MCHttpServer` joins it with `HttpText`; `Shortener` uses `Base62`; `Connection`
stands on what `EventLoop` and `TimingWheel` show (a task runs once and in order, a timer is due
or not); `Server` leaves out what `Connection` and `EventLoop` contain. `TimingWheel`, `EventLoop`
and `AsyncLogger` implement `TimerService`, `TaskService` and `LogService`.

Operators whose comment begins with "Mutant" are plausible bugs. No specification uses them;
each shows that a property would notice.

### TimingWheel

One action per operation. `timers` is `_timers` (an entry stays when its task is in its
destructor, so `HasTimer` may be true of an expired pointer); `wheel[s]` is the set of tasks
slot `s` owns a share of: two shares in one slot are released by one `clear()` and count as
one. `clear()` is taken apart: `DropRef`, `DestroyLive` and `DestroyCancelled` release one
share each, in any order within the slot; a live task's destructor makes it `cur`, during
which the client operations are enabled again, because a callback may call the wheel. The
callback ends with `CallbackReturn`, which runs `_release_cb`. `OnTime` reads the timerfd's
count (`expirations`, raised by `KernelTick` up to `MaxBacklog`) into `times`, and
`AdvanceTick` moves the hand once the slot is empty. `Teardown` clears all slots.
`FreshIds = TRUE` restricts clients to the way `TcpServer` and `Connection` use ids (one task
per id at a time, and no callback re-adds its own id); `FALSE` allows any reuse.
The history variables `age`, `elapsed`, `lag` and `silenced` are in no guard.

### EventLoop

`queue` is `_task`, `batch` the `tmp` of `RunAllTask`, `pc` the place in `Start`. Pushing under
the mutex and writing the eventfd are two steps (`owes` holds the threads in between), as are
setting `_quit` and writing. `IsInLoop` compares with `Owner`, the constructing thread; the
runs that check the normal case set `Owner = Looper`. The looper calls only from handlers,
functors, and before `Start`. `Poll` may return without the eventfd: timers, sockets, signals.

### Connection

The io thread executes `todo`, a list of statements, one per step, so that callbacks nest as
in the code: `ShutdownInLoop` is `<<message, endShutdown>>`, and the calls of the message
callback go in front. A task of the loop is the name of the handler it runs, bound to a raw
`this`: `RunTask` asks whether anybody still owns the object, and `RunTaskOnFreed` is the
undefined behaviour of a task on freed memory (nothing happens, or a crash).
`Alive` is the shared ownership: the accepting function, `_connections`, a pending
`RemoveConnectionInLoop`, the application. `SingleLoop` selects a server without a pool, where
`RunInLoop` inside `NewConnection` is immediate; otherwise `NewConnection`, `PostEstablished`
and `InsertConnection` are steps of the base thread among those of the io thread.
The timer is what `TimingWheel` shows it to be: absent, armed or muted, and due or not; a muted
one stays indexed until its slot is emptied. Bytes are counted in chunks. The peer may send,
half-close, reset and read at any time; `send` and `recv` give what the kernel may give,
including partial writes, reads that leave something in the socket (`recv` takes 65535 bytes at most)
and `EAGAIN`. The message, connected and event callbacks make the calls of a plan. A `Send` of
length 0 (`sendNothing`) asks for a write event although there is nothing to write; `nudged` remembers
it until the output buffer is drained. The
channel of the connection and the timerfd are handled in either order within a batch.

### Server

`main` is the statement of the thread that calls `Start` and then destroys the server, `at` the
pool thread it is concerned with. A thread of the pool is at `entry`, `looping` or `ended`; `loop`
says that its `_loop` is set, which is what `Getloop` waits for. Connections are records of their
loop and whether they are open; `map` is the key set of `_connections`; a removal is a task of
the base loop (`tasks`) unless the connection is the base loop's own. `IntId` is the conversion to
`int` in `RemoveConnectionInLoop`, with `IntBits` bits. The base loop goes in rounds, as
`EventLoop::Start` does: `Poll` (`epoll_wait`, which may also report something other than the
listening socket), `Accept` if that socket is ready, `RunTask` for what `RunAllTask` has taken
(`batch`), `EndRound`, which reads `_quit`; after the last round `StartReturns`, once the rest of the queue
has run. `Accept` needs a descriptor. A connection has its own until `ReleaseInLoop` closes it
(`Connection.cc:104`, `HasDescriptor`), before the removal from `_connections` is posted or run; one
that `_connections` lost by a removal meant for another id gives it back when it is destroyed.
Without a descriptor `accept()` fails and the connection stays pending. The listening socket is a
blocking one (`Socket.hpp:37`, `Socket.cc:128`): if the connection has vanished since `epoll_wait`
(`ClientVanishes`), `Accept` waits for the next (`AcceptBlocks`). `Members` is the order of destruction that
the declaration of `TcpServer` implies. The application may call `RunAfter` and `Stop` from
another thread at any time, before the loop runs too.

### AsyncLogger

One step per critical section; a thread that has evaluated the predicate of a wait and still
holds the mutex is `sleepy`, because `stop()` does not take the mutex and can come in there. A
buffer is the size of its vector and its messages. `LogSized` and `LogTimed` are the two rolling
sinks; whether the interval of the second has passed is free. `missed` records that the
notification of `stop()` fell into that window. Conditions may wake spuriously; no
property relies on it. A level that changes (`SetLevel`) is read once, by `LogCall`.

### HttpServer, ByteBuffer, HttpText

A byte is a unit that the parser tells apart: a part of a line, the rest of a line with its line
feed (of a request line, a header, an empty line or something that matches nothing), or a byte
of a body. `HandleRead` brings any number of them; `RecvLine`, `RecvHttpBody`, `HandleRequest`,
`HandleError` and `DeferRequest` are the turns of the loop in `OnMessage`, `Pause` and `Stop` its
returns. `Content-Length` is what `std::stol` makes of it (`Longs`): a number, which as a `size_t` is
larger than any stream if it is negative (`Size`), or `LongMax`, which stands for every text that it
throws at, whether no number or one out of range; nothing catches that, and the program ends
(`ContentLengthThrows`). `LongMax` is larger than any stream is long. The regular expressions are the classification of a unit; a route answers in place
(`file`, `found`, `missing`) or leaves the answer to another thread (`deferred`), which posts it
(`WorkerPosts`, `Answer`). `Reference` is what a server that saw the whole stream at once would
answer. `status` stands for the connection: after `Shutdown` what is left is handled once more
and nothing is sent; `HandleClose` handles it with the status as it was and posts the release, which
may also come from the inactivity timer (`ReleaseInLoop`).

`HttpText` has the functions of `Util` that `OnMessage` calls, and what `ParseHttpLine` takes from a
query (`Fields`, `Sign`, `Key`, `Value`, `Params`), as operators on sequences of signed character
codes, their loops as recursive functions. It has no state: they are pure, and a unit of
`HttpServer` is what the parser made of such a text. `MCHttpServer` gives it every text and form of
a small set and checks them in the states in which a request is handled. `Query` is the client,
which encodes keys and values with percent codes.

### Shortener, Base62

An io thread inside `ApiShorten` or `Redirect` is at one statement (`io[t].at`) of those that touch
something shared. A MySQL connection is the outage count at which it was made, so that it is broken
exactly if the server went away since. `INSERT` may succeed without being heard of. `lost` counts
the slots that `Acquire` gives up. A cached entry may expire at any `GET`. `Restart` kills the process
anywhere and starts it with any pid of `Pids`; the table and the cache stay. Codes are real: the
id in base 62. The worker is one thread (the code's default is two, which share only the queue and
the Redis pool); its ping and its query are two steps (`WorkerPing`, `WorkerQuery`), so that the server
may go away in between. Counting `seq` is part of `Insert`: the counter is atomic and the numbers
differ, in whatever order their statements reach the server.

## 3. Runs

Passing:

| Run | Shows | Bounds |
|---|---|---|
| `TimingWheel_index` | `WheelInv` (types, `IndexExact`), `CancelledStaysSilent`, `TimerGetsItsTurn` | 2 ids, 2 tasks, 3 slots, backlog 1, delays 0 to 3 (0 and 3 are refused), ids used as the callers do |
| `TimingWheel_schedule` | `FiresOnSchedule`, `EarlyByLagOnly`, `ServiceSpec` (implements `TimerService`) | 1 id for 2 tasks, so ids are reused; 4 slots; backlog 2 |
| `EventLoop_queue` | `LoopInv` (types, `EarlyTasksRun`), `SleepSafe`, `ServiceSpec` (implements `TaskService`), `TaskGetsItsTurn`, `QuitReturns` | the looper, 2 other threads, 3 functors |
| `Connection_single` | `WriteInterestExact`, `DrainsBeforeClose`, `ConnectionInv` (types; handlers own their connection), `ClosedExactlyOnce`, `EnabledMeansArmed` | one loop, timeout on, 2 chunks in, 2 out, 1 call from elsewhere, an event callback that sends or releases, empty sends on connecting |
| `Connection_multi` | `RemovalFollowsInsertion`, `TimerDiesWithConnection`, `PeerGoneIsCleanedUp`, `HalfClosedFinishes` | two loops, 1 chunk in, 1 out, 1 call from elsewhere, empty sends from it and from the event callback |
| `Server` | `ServerInv` (types, `ReadyLoopsOnly`, `LoopsTakeTurns`, `TimerIdsUnique`, `BaseLoopOutlivesThreads`), `RemovalIsExact`, `AcceptResumes`, `StopDestroys` | 0, 1 or 2 threads, 2 descriptors, 5 ids, an `int` of 2 bits |
| `AsyncLogger` | `LoggerInv` (types, `SinksAgree`, `FilesWithinLimit`), `ServiceSpec` (implements `LogService`), `MessageGetsWritten`, `PushReturns`, `StopReturnsUnlessMissed` | 2 producers, safe mode, messages of 1, 2 and 3 bytes, buffers of 2, files of 2 |
| `HttpServer` | `HttpInv` (types, `BufferIsTheStream`, `PendingGuardsContext`), `AnswersAsExpected`, `NothingLostOnTheWay`, `HandlingEnds` | streams of up to 3 short or 2 long requests, pieces of 1 to 3 units, lines of 3, a buffer of 2; lengths of 1 and 2, one negative, one that is no number |
| the same run | `UrlsComeBack`, `PathsStayInside`, `ParamsComeBack` of the text functions | texts of up to 4 of 5 characters (a letter, a space, a percent sign, a plus, a byte above 127), paths of up to 8 dots, slashes and letters, forms of up to 2 fields with keys and values of up to 2 of `&`, `=`, `%` |
| `Shortener` | `ShortenerInv` (types, `SlotsConserved`, `PlaceholderTakenByEarlierLifeOnly`), `CodesResolve` (`CodesKeepTheirUrl`, `AnsweredCodeIsStored`), `IoReturns`; `CodesNameTheirId` of `Base62` | 2 io threads, 2 urls, 2 ids, pools of 1, 1 query under way, 1 outage or restart, one pid; codes of ids up to three digits |

Why the bounds are enough: with 3 slots and delays 1 and 2 the hand wraps, a refresh can leave
a share in every other slot; the backlog of 2 that empties several slots in one wake-up is in
`TimingWheel_schedule`, and the proofs of the index run's invariants take every backlog; the second
task supplies every interaction between tasks that the index allows (each task meets only its
own id's entry). Three functors put one in the batch, one in the queue and one in a caller's
hands; the second outside thread lets a push, a quit and a wake-up interleave. One connection
suffices because connections share no state but the loop's queue, where another connection's
tasks do nothing to this one, and calls of other callbacks, which `CallFromCallback` makes. Two
chunks allow partial writes and input left over when a handler runs; one call from elsewhere
is a release, send, shutdown or cancellation against everything the connection does itself.
In `Server` an `int` of 2 bits comes round within the 5 ids, 2 descriptors are used up by 2
connections, and the loops take more than one turn. In `AsyncLogger` one message leaves room,
one fills a buffer exactly and one is too long for it, so that every branch of the wait, the growth
and the rotation is taken; two producers are the least that can both wait. In
`HttpServer` every stream is longer than the buffer, so that it is compacted and grows; every pair
of requests occurs, and deferred ones in threes. A text may look like a code before it is encoded, a
path has up to three pieces `..` with others between them, and a form may use one key twice, none,
or one that looks like a separator; the proofs take every text and form. In `Shortener` a pool of one connection makes the
two threads compete and one failed reconnection enough to use up the pool (a pool of which a part is
lost is left to `ShortenerStaysSound`, which takes every size); the one fault is an
outage or a restart with the same pid, and `SeqRoom` 2 lets the placeholder outgrow its column.

Refuting (each checks one statement of the repository that the code does not keep):

| Run | Statement | What happens |
|---|---|---|
| `Connection_freed_task` | `Connection.cc:101`: repeated release is prevented | timer and end of stream in one batch: the second task reads a freed object |
| `AsyncLogger_stop_hangs` | `looper.hpp:49`: the worker is woken | `stop()` notifies between the worker's test and its wait, and joins a thread that sleeps forever |
| `HttpServer_not_closed` | `http.hpp:915`: the connection is closed if the request says so | the request is cleared first, so it never says so |

Deadlock is checked everywhere but in `Server`: the intended ends (`Destroyed`,
`Returned`, `Crashed`, `Done`, `Starved`) stutter. A server whose clients are done waits in
`epoll_wait`, and a destroyed one does nothing more, so `Server` checks by `AcceptResumes` and
`StopDestroys` that it does not stop elsewhere. The logger never stops because its level can be set
at any time.

`AcceptResumes` and `StopDestroys` say what the code keeps. A base loop without descriptors is told of
the waiting client round after round, and in each round it runs what was posted to it, so that
removals, timers and `Stop` are served and the client is accepted when a descriptor is free; the mutant
that tries `accept()` again within the round is refuted. The exception is the base loop that waits
in `accept()` for a connection that has vanished.

`HandlingEnds` excepts the stream whose `Content-Length` ends the program. `AnswersAsExpected` and
`NothingLostOnTheWay` take such a request as one that is never answered, like one whose body never
comes.

Behaviours of the code met while modelling that are excluded by a precondition or stated as they
are, without a run of their own:

- a timer armed behind unread expirations is early by that backlog (`EarlyByLagOnly`), against
  `TcpServer.hpp:48`;
- the id of a task still in the wheel used again: the end of the older one erases the entry of
  the newer (excluded by `FreshIds`);
- a loop started by another thread than the one that constructed it runs `RunInLoop` on both
  (the run sets, and `NoLostWakeup` and `OneFunctorAtATime` assume, `Owner = Looper`);
- what the functors of the last `RunAllTask` post stays in the queue, against `EventLoop.cc:38`;
- with a pool and a server timeout the timer, posted before `Established`, can release the
  connection first, and the assertion of `Connection.cc:90` fails;
- inactivity release switched off and on again refreshes the muted task (no plan of the run with
  `EnabledMeansArmed` does so);
- requests pipelined behind a deferred one are handled only when more bytes arrive, against
  `http.hpp:878`;
- a plus in a query becomes a space and stays behind it, against `http.hpp:229`: the branch at
  `http.hpp:280` goes on to the push at the end of the loop, so `a+b` is read as `a +b`. It is proved
  (`PlusStays`), and why the properties speak of texts encoded with percent codes;
- bytes above 127 are all encoded as `%FF` (`Kept`): `char` is signed at `http.hpp:257`;
- a `Content-Length` that is no number or out of range makes `std::stol` throw (`http.hpp:429`); nobody
  catches it and the program ends with all its connections (`ContentLengthThrows`, the exception
  of `HandlingEnds`). A negative one is a `size_t` no body ever reaches: the request waits forever;
- the listening socket blocks, against `Acceptor.cc:12-13` ("非阻塞 socket 不会阻塞在这里", a non-blocking
  socket does not block here): if the connection has vanished, the base loop waits in `accept()`, its
  tasks, its timers and `Stop` with it, until somebody else connects (`AcceptBlocks`, the exception of
  `AcceptResumes` and `StopDestroys`);
- a `Send` of length 0 turns write events on with nothing to write (`nudged` in
  `WriteInterestExact`); the next of them turns them off again;
- a process that gets the pid of one that was killed between `INSERT` and `UPDATE` meets its
  placeholder, against `shortener.cc:29`; the `INSERT` fails and the answer is 500
  (`PlaceholderTakenByEarlierLifeOnly`);
- `Mysql_Pool::Acquire` loses the slot whose reconnection fails (`mysql_pool.hpp:112`); when all are
  lost every caller waits forever (`lost`, `Starved`, the exception of `IoReturns`);
- a message that fits the logger's buffer exactly makes it grow, in safe mode too (`Enough`);
- an asynchronous MySQL worker whose reconnection failed stays without one (`WorkerPing`);
- `_connections` is destroyed before the pool is joined, against `docs/en/architecture.md:122`.

## 4. Fairness

- `TimingWheel`: weak fairness of `KernelTick` (a periodic timerfd, `CreateTimerfd`) and of the
  wheel's own steps (callbacks return and the loop is scheduled). None for clients.
- `EventLoop`: weak fairness of the looper, in `epoll_wait` only while the eventfd is signalled
  (`Scheduled`): liveness never relies on the one-second timer to hide a lost wake-up. Threads
  finish the call they are in (`WeakupEventfd`, `FunctorReturn`). Nobody has to call.
- `Connection`: both loops run, and a peer that is there goes on reading (`PeerReads`). Without
  the last, a half-closed connection with unsent output may stay forever, which is what the
  code does when there is no inactivity timer. Nothing is assumed of the clock, of what the
  peer sends, or of the application.
- `Server`: its thread and those of the pool run. That each round of the base loop handles the
  listening socket, the tasks and the quit flag in turn is in the actions, not assumed. Clients,
  connections and the application may do nothing.
- `AsyncLogger`: threads that can run do, and none is kept from the mutex forever by the others
  (strong fairness of the worker and of each producer's push). Nobody has to log or to stop, and
  no spurious wake-up is assumed.
- `HttpServer`: the io thread runs, the worker gets a result, posted functors are run. Nothing is
  assumed of the peer.
- `Shortener`: the worker runs; an io thread that waits for a connection of a pool gets one in time
  if there are always some again (strong fairness). MySQL need not come back.

## 5. Proofs

For every value of the constants that meets the named assumptions; checked by SMT, Zenon and LS4
to the last leaf. The assumptions say what kind of thing a constant is (`WheelAssumption`,
`LoopAssumption`, `ConnectionAssumption`, `LoggerAssumption`, `TextAssumption`), with three that are more:
`ServerAssumption` states the one law of powers that the proofs use (2^`IntBits` is twice
2^(`IntBits` - 1), the provers know no powers), `HttpAssumption` that a stream is made of units
of the right shape and shorter than `LongMax`, `ShortenerAssumption` that the io threads are finitely many. Where a
theorem needs more of its constants, its own `ASSUME` says so, and so does its entry below.

`TimingWheelProofs`:

- `TypeCorrect`: `Spec => []TypeOK`.
- `ScheduleInvariant`, `OnSchedule`, `EarlyBounded`. `FiresOnSchedule` says nothing of tasks
  still waiting, so it is not inductive. The invariant adds where the shares of a waiting task
  lie: one of them is exactly `timeout - age` slots ahead of the hand, no share is further
  ahead, and while a slot is being emptied the remaining distance is right for the current
  hand. Arming and refreshing establish it, the hand preserves it because it moves only over
  an empty slot, and the destruction of the last share can then only happen at distance 0.
  `EarlyBounded` adds that rounds run, rounds owed and unread expirations account for all
  expirations since the arming.
- `IndexCorrect`, `CancelCorrect`, under `FreshIds`: two live tasks have different ids and each
  waiting one is the one its entry names, so the entry erased at its end is its own; a muted
  id can then only belong to a task whose `_cancel` is set.
- `ImplementsTimerService`, by the same invariant: a release of a share that is not the last is
  a stutter, the last one is the service's expiry because the countdown `timeout - age` is 0 there.

`EventLoopProofs`:

- `TypeCorrect`: for any threads and functors.
- `NoLostWakeup`, when the loop is run by the thread that constructed it. `SleepSafe` alone is
  not preserved by the step from the loop's test to `epoll_wait`; the invariant says, wherever
  the loop is between reading the eventfd and sleeping, that a non-empty queue or a quit
  request not yet observed comes with a signalled eventfd or a thread that owes the write.
- `DrainsEarlyTasks`: a functor pushed before `_quit` is, at every place of `Start`, started, in
  the batch or in the queue, and not in the queue once the last swap is done.
- `OneFunctorAtATime`, when the loop is run by the thread that constructed it: only the looper is
  ever inside a functor, so `SerialExecution` holds; no run checks it.
- `ImplementsTaskService`: the line of the service is the batch followed by the queue; the swap of
  `RunAllTask` happens only when the batch is empty and so leaves the line as it is.

`ConnectionProofs`, for any plans of the callbacks, calls from elsewhere, numbers of chunks, and
for one loop and two:

- `HandlersKeepTheirConnection`, `WriteInterestFollowsBuffer`, `HalfCloseDrains`, `ReleasesOnce`,
  `RemovalComesAfterInsertion`. What makes them inductive is what the io thread has left to do
  (`todo`) and what waits in the loop's queue: a release that has begun is alone in `todo`
  (`ReleasedOnce`), a connection that is not released is being accepted or in the map (`Owned`),
  what `epoll_wait` reported is still true when its handler starts (`Turns`), only calls and
  tasks start on a released connection (`Released`), and a release that nothing abrupt asked for
  is queued only behind an empty output buffer (`Draining`).
- `TimerDies`, if no pointer kept outside the callbacks enables the inactivity release
  (`EnabledEarly`). It is the only call that can arm a timer after the release: `EnableInactiveReleaseInLoop`
  does not look at the status. The server's own call is in the queue before anything can release
  the connection, which is what `TimerLife` keeps. The run meets the hypothesis too.
- `WriteInterestFollowsBuffer` is the property with its second case: write interest without output is
  there only since a `Send` of length 0 (`nudged`).
- `EnabledStaysArmed`, if nobody cancels (`NeverCancelled`): with a cancellation a muted task can be
  refreshed instead of armed, which section 3 lists.

`ServerProofs`, for any number of threads, descriptors and ids:

- `ServerKeepsItsOrder`: `Stages` says at each statement of `Start` and of the destructor how far
  every thread is, `RoundRobin` that the loops up to `_next_loop_idx` are one connection ahead of
  the others, `Budget` that ids used, accepts not done and `RunAfter` calls not yet run stay
  within the calls made, which bounds ids and queue.
- `RemovesExactly`: a posted removal is of a closed connection, and a closed connection still in
  the map is posted, for every id that the conversion to `int` returns unchanged (`Removals`).

`AsyncLoggerProofs`, for any messages, lengths, buffer and file sizes, producers, in both modes:

- `LoggerStaysSound`: `InOrder` says that what was accepted is what the files have, then what the
  worker has swapped out and not written, then the producers' buffer; `BuffersFit` and
  `FilesSound` count its bytes.
- `ImplementsLogService`, from `InOrder`. The lemmas on sums and on `FlattenSeq` go by the least
  index at which two sums would differ, since induction is not available.

`HttpServerProofs`, for any streams, pieces, line limit and buffer size:

- `WriteAppends`, `ReadTakesFront`, `LineProperties`: compaction and growth lose nothing, a read takes the front.
- `BufferAndContextAgree`: types, `BufferIsTheStream`, `PendingGuardsContext`. `BodyFits` (what is
  stored of a body is no longer than its length) is what keeps `RecvHttpBody` from taking a
  negative number of bytes.
- `AnswersAreThoseOfTheWhole`, `NothingIsLost`. The reference is recursive, so first it is shown to
  satisfy its recursion (`FromExists`, `FromIs`, from the end of the stream backwards by the least
  counterexample) and not to look at what lies before (`RestOfFrom`). `ParserInv` then holds of the
  stream and of everything it may turn out to be if it ends earlier, which is what the parser cannot
  tell apart: the answers so far followed by what the reference makes of the current request's
  first unit on are the reference's answers, and the context is what the headers read so far make
  it (`HeadRead`: only headers in between, the first length counts; `BodyRead`: the body read is
  all that was taken behind the empty line). Each turn of the parser moves one of these on; a
  complete request is the next of the reference (`RequestIsNext`).

`HttpTextProofs`, for every text and form of any length:

- `UrlsAreReadBack`, `SplitGivesRuns`, `PathsAreJudged`. A loop is a recursive function, and that the
  function the code computes exists (`LoopExists`), pushes what its turns push (`LoopTyped`) and
  that the output from a turn on is the end of the whole output (`LoopEnds`) is shown once for every
  loop that goes forward, by the last turn for which it would fail, since induction is not available.
  Decoding then begins each character where encoding put it, whatever precedes it
  (`DecodeInvertsEncode`); the pieces of `Split` from an offset on are the runs that start there or
  later (`SplitRuns`); and the depth `ValidPath` counts is the difference of what entered and what
  climbed, up to the first piece that is above the base directory (`LevelIs`).
- `QueriesAreRead`. What `UrlEncode` writes contains neither `&` nor `=` (`EncodedIsSafe`), so the first
  `=` of a field is the client's (`FieldIsRead`) and each turn of `Split` takes one field off the
  query (`TurnTakesRun`, `FieldsAre`); `DecodeInvertsEncode` gives back key and value, and of the
  fields under one key there is one first (`FirstOnesAre`), which `SetParam` keeps.
- `PlusStays`, which section 3 lists.

`ShortenerProofs`, for any threads, urls, pools, process ids, outages and restarts:

- `DecodeInvertsEncode`, for every natural number, by the least counterexample.
- `ShortenerStaysSound`, `AnswersResolve`, `CodesAreTheirIds`. `ThreadSound` says what a call knows of
  its row at every statement where it still needs it, `TableSound` that placeholders of this life
  have numbers already given out and that no code is there twice (where `DecodeInvertsEncode` is
  needed), `Kept` that answers, cache and worker lead to the url of the row, `Pools` that slots
  idle, in use and lost add up.

Only model-checked: the liveness properties, since fairness and `ENABLED` are outside the prover's
reach.

## 6. Not modelled, and the plan

Not modelled, and why:

- `Connection::Upgrade` and `SetContext` replace callbacks, which are arbitrary plans already; calls
  made inside the closed callback.
- `Poller`'s map across descriptors: a descriptor is closed only after its channel was removed.
  `Buffer::Read`, `Clear` and the overloads that forward.
- the formatter, the registry of loggers and the builders: text and set-up, done once, without
  interleavings; the synchronous logger: a mutex around the same sinks.
- regular expressions, MIME types, status texts and file reading of the HTTP server.
- `Mysql_Pool::Stop`, `Redis_Client::Expire`, a second asynchronous worker, a Redis connection that
  could not be allocated.
- `Any` (a sequential value holder), the page of the shortener, examples, benchmarks, the
  vendored WebBench, scripts and the deployment.
- system call failures that abort the program.

Every safety property of a passing run is proved. Next: the handlers of `main.cc` and
`Connection::Upgrade`.
