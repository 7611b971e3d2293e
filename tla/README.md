# Verification of the C++ HTTP/1.1 server

TLA+ models of the server's concurrent core, the TLC runs that check them on
small instances and TLAPS proofs of the results that should hold for every
instance. Paths below are relative to the repository, which is mounted under
`src/`.

## The system

One thread runs `EventLoop::run()` around `epoll_wait`; 64 workers of a thread
pool run the tasks it submits; a logger thread writes the log.

| Component | State | Operations | Talks to |
|---|---|---|---|
| Task queue, thread pool (`src/concurrency`) | ring buffer of 1024 tasks, `shutdown`, two condition variables | `submit` (blocks when full), `remove`, `stop`, `worker`, destructor | called by the event loop and, from inside tasks, by workers |
| Admission (`EventLoop::handle_accept`, `remove_connection`, `PerIpConnectionLimiter`) | `connections` map, `active_connections`, counts per address, epoll set, descriptor numbers | accept loop, removal (which accepts again), hang-ups, idle sweep, STOPPING | run by the event loop and by workers |
| Rate limiter (`src/middleware`) | 16 shards of buckets, two levels of mutexes | `allow` (workers), `sweep_stale` (event loop) | called by read tasks and the idle tick |
| Connection I/O (`handle_client_read`, `handle_client_write`, `Connection`) | read and write buffer, parser, close mark, `last_activity`, EPOLLONESHOT arming | dispatch of a report, read task, write task, `flush`, re-arm | two tasks of one connection may run at once |
| Lifecycle (`TcpServer`, `main`, `EventLoop::start/run/stop/cleanup_all_connections`) | `is_running`, loop state, `shutdown_start`, wakeup descriptor | start, run, stop from a signal handler, forced close, destruction | everything |
| Parser and framer | parser state, chunk remainder | `parse`, `extractLine`, `extractBytes`, `reset` | read task |
| Messages, headers, encoder, router | per request | keep-alive decision, body framing, route lookup | read task |
| Logger | queue, thread | log, stop | everyone |

What is hard here: workers and the event loop mutate the same tables with
several mutexes; decisions are made under a lock and carried out after it;
descriptor numbers are reused; EPOLLONESHOT and edge-triggered reports come once;
a blocking `submit` is called by the threads that drain the queue; shutdown
races with all of it. `PROJECT.json` lists the hazards line by line.

What makes each component correct:

* queue: bounded FIFO, no task lost or run twice, drained before the pool is gone, no lost wakeup;
* admission: counters equal what they count, caps hold (up to the checks' race), a descriptor belongs to one connection, nobody waits in the accept queue while there is room;
* rate limiter: burst plus refill in every window, sweep complete, no use of a freed bucket;
* parser: the same requests wherever the stream is cut, nothing left from the last request, limits on bodies and buffers, loops that end;
* lifecycle: a stop that was taken ends the process, unsent bytes get the promised time, nothing uses a destroyed loop;
* messages: the client reads one complete answer per request, with the status and body meant for it, and knows when the connection ends;
* logger: nothing pushed before stop is lost, the log thread never sleeps on work;
* connection I/O: answers in order and whole, a quiet connection is armed for what it still needs, nothing is answered after an announced close, unsent bytes survive until sent.

## Modules

| Module | Models |
|---|---|
| `TaskFifo` | abstract: a bounded FIFO that can be closed |
| `TaskQueue` | `TaskQueue.cpp`, `ThreadPool.cpp`; refines `TaskFifo` |
| `Admission` | accept, remove, limiter, counter, batch and idle removals |
| `RateLimiter` | `RateLimiter.cpp` |
| `ConnIO` | one connection: reports, read and write tasks, `flush`, re-arming |
| `HttpParser` | `HttpRequestParser.cpp`, `Framer.cpp` and the read task's use of them |
| `HttpReading` | abstract: a stream is read item by item, without a buffer; `HttpParser` refines it |
| `HttpFraming` | abstract: which requests a stream contains, read as a whole |
| `HttpMessages` | `HttpHeaders.cpp`, `HttpResponse.cpp`, `HttpRouter.cpp`, `HttpResponseEncoder.cpp`, the handlers of `main.cpp` |
| `HttpClient` | abstract: which answers a client reads from the octets it gets |
| `Logger` | `Logger.cpp` without formatting |
| `Lifecycle` | `main.cpp`, `TcpServer.cpp`, `EventLoop::start/run/stop/cleanup_all_connections`, destructors; composes `Logger` |
| `MC*` | instances for TLC |
| `TaskQueueProofs`, `AdmissionProofs`, `RateLimiterProofs`, `ConnIOProofs`, `ConnIOSequentialProofs`, `HttpParserProofs`, `LoggerProofs`, `LifecycleProofs` | theorems |

Operators named `Mutant...` stand next to the definition they corrupt; they are
used by no specification and exist to show that each property notices a
plausible slip in the code.

**TaskQueue.** All queue state is accessed under `queue_mtx`, so one stretch
under it is one action; notifications come after the unlock and are actions of
their own. `wait` is a label (`waitFull`, `waitEmpty`) that a notification, or a
spurious wakeup, turns back into an evaluation of the predicate. `Child[t]` is
the task that `t` submits from inside a worker (`EventLoop.cpp:409`).

**Admission.** Every access to shared state is an action: an atomic, a stretch
under `conn_map_mtx` or the limiter's mutex, a system call. A client is
identified with its `Connection`. `Referenced` is the `shared_ptr` count being
positive; when it ceases `~Connection` closes the number, whatever is behind it.
`accept` returns the lowest free number. `active_connections` is a `size_t`:
arithmetic is modulo `SizeModulus`. Every wait is a label of its own. A task takes
the mutex of its connection (`TaskLocks`), keeps it for its I/O and ends by releasing
it (`TaskKeeps`), by submitting itself again with the mutex held until the queue has
room (`TaskResubmits`, `Resubmit`; `EventLoop.cpp:409`), or by releasing it and
removing its connection (`TaskRemoves`). The resubmitted closure holds a number only
and looks it up again (`FindAgain`). `remove_connection` waits for that mutex
(`RmLock`). The idle sweep holds `conn_map_mtx` from `SweepBegins` to `SweepEnds`
(label `scan`) and waits for each connection's mutex in turn (`SweepLooks`);
whoever else wants the map waits (`MapFree`). The queue holds `QUEUE_CAPACITY`
closures and `submit` waits while it is full. What tasks read and write is `ConnIO`.

**RateLimiter.** Tokens are integers (`Cost` units per request, `rate_` units per
tick) instead of doubles. A bucket is a heap cell; a freed cell can be allocated
again. A worker that uses a freed cell sets `undefined` and may be granted or
refused. `window` and `spent` observe an arbitrary window of time. `sweep_stale` erases a
bucket while a `lock_guard` on that bucket's own mutex is alive (`RateLimiter.cpp:77-91`),
so every eviction ends with the unlock of a destroyed mutex. That is undefined behaviour in
each sweep that finds something stale, whatever other threads do; `SweepUnlocks` takes it
as without effect while nobody has the cell (a mutex here has no destructor to speak of, and
the unlock writes to freed memory), and sets `undefined` when a new bucket lives there.

**ConnIO.** Requests and answers are counted in units; the parser's verdict
(answered and kept open, answered and closed, malformed, handler throws) is
chosen when the last unit of a request is there. After a 400, a 429 or an
exception the parser is not reset (`stuck`), as in the code. `EpollWait` disarms
the descriptor; the tasks arm it again. `Main` submits a read and a write task
for a report with both bits. The write task releases the mutex (`WriteUnlocks`)
before it reads `state` (`WriteGoesOn`) and re-arms (`WriteRearms`). The bound
of 50 requests per pass is `ParseLimit`. The queue is unbounded here.

**HttpParser.** `stream` is what the client sends, `Recv` appends any number of
its next octets to the buffer, and one pass of the loop in `parse()` is one
action, by parser state. CR and LF are octets of their own, so a cut may fall
between them. What a line says is its first octet, its word; tables say which
words are request lines, which header they set, what `std::stoull` makes of a
Content-Length (0 where it throws) and which chunk size they give; further octets
only lengthen the line. Whether a response closes the connection is the constant
operator `ClosesAfterSend`, which the run takes from `HttpMessages`. A
400 is `pc = "refused"`; a response that closes is `pc = "closed"`. The rate
limiter, the limit of 50 requests per pass and handlers that throw are
in `ConnIO`. Two specifications say what it should do. `HttpReading` is a machine without buffer
and `recv()`: the next reading is a function of the stream and the reading before,
except that a line over `MAX_HTTP_HEADER_SIZE` may be refused early; the refinement
mapping `Cursor` subtracts what is still buffered from what was received. `HttpFraming`
is a recursive-descent reading of the complete stream, in the form of a grammar.

**HttpMessages.** Functions, since nothing here outlives a request: a header map is
a function on lower-case names, a response a record, `Route` looks up the last
registration of method and path, `Handle` is the handlers of `main.cpp` plus any
with a fixed response (`AppRoutes`), `Encode` yields tokens. A status line, a
header field and a chunk size are one token; an octet `o` of a body is `<<o>>`, so
CRLF in a body looks like CRLF. Texts are a word long; a header map is written in
an arbitrary order, as an `unordered_map` is. `HttpClient` reads tokens by the
rules for message lengths and refuses an answer with both framing headers or
neither.

**Logger.** A stretch under `queue_mtx` is one action; `log` tests `running` before it
and notifies after it. Of an entry only its class is kept, pushed before or after
`stop` cleared `running`. The unlocked read of `running` is a data race; reading the
old value is the same as having read it earlier.

**Lifecycle.** `pc[Main]` walks through `main()`: logger, `start`, the flag, `run`,
the loop with its shutdown phase (one event per `epoll_wait`), cleanup, `Logger::stop`, `~TcpServer` with
`event_loop` before `thread_pool` (reverse order of the members), `~Logger`. The
signal handler interrupts a thread of `SignalThreads` anywhere and has four
steps, one per access to shared state; an interrupted `epoll_wait` may fail with
EINTR. Time counts from the stop request; a `shutdown_start` not yet written is
`Epoch`. The 500 ms timeout lets every wait end, so the wakeup descriptor needs
no variable. A connection is whether it is mapped, has unsent bytes, and what it
is armed for; what tasks do to those is taken from `ConnIO` with the choices left
open. What can keep a thread waiting is all there: `submit` waits while the queue is
full, for Main (`Submit`, after the event was consumed) and for workers
(`Resubmit`, with the mutex of the connection held, and `SubmitAgain`); a read task
holds its `conn_mutex` from `Recv` to the end of `Serve` or `Resubmit` (`Held`), write
tasks, removals and the sweep wait for it; the sweep holds `conn_map_mtx` meanwhile
(`MapFree`). A task that runs on a destroyed loop sets `undefined` and either ends or
takes the process with it.

## Runs

Passing:

* `queue` (`TaskQueue.cfg`): two workers, a ring of two slots, five tasks of which
  one submits another. Ring wrap, full and empty buffer, waiting on both sides
  and stop in every phase occur. `NoLostWakeup` counts: a sleeping worker needs somebody
  under way for each queued task, a sleeping producer for each free slot. Fairness: every worker and a begun submit or
  destructor go on; whether the loop submits or stops is free.
* `admission_safety` (`AdmissionSafety.cfg`): event loop and two workers, three
  clients of two addresses, cap 1 in total and per address, three descriptors, a queue
  of one slot, up to four tasks and sweeps. Cap 1 makes every accept race with the cap; a
  number is closed and reused within the run; a worker resubmits into a full queue
  while the loop sweeps or waits in `submit`. `MapBeforeMutex` is the lock order and
  `StuckOnlyInSubmit` its consequence with the queue included: nobody waits in a circle
  unless a worker waits in `submit`. Deadlock checking is off in this module: a server without
  clients is at rest.
* `admission_liveness` (`AdmissionLiveness.cfg`): one worker, EPOLL_CTL_ADD may
  fail, two connections per address, so that the cap of one is the only limit and
  both threads can pass its check at once. `ThreadsReturn` says that every wait ends, for a
  lock held by a task or by the sweep and for room in the queue, and `BacklogDrains` that
  waiting clients get in, unless the pool is jammed by nested submits (`Jammed`, the
  deadlock of `queue_nested_submit`), which this run reaches. They hold with two
  workers too (`MayHangUp = {}`). Fairness: threads are scheduled, epoll
  reports a pending edge; clients, hang-ups, sweeps, stop are free.
* `rate` (`RateLimiter.cfg`): two workers, two addresses in one of two shards, two
  cells (so that a freed cell is taken by the other address), five instants,
  staleness after more than two: a bucket is drained, evicted and recreated.
* `conn_pipelined` (`ConnIOPipelined.cfg`): two workers, two pipelined requests of
  kind keep or close, an answer of two units, a socket buffer of one, a pass
  that stops after each request, FIN, RST and stop at any time.
* `conn_sequential` (`ConnIOSequential.cfg`): three requests in two pieces each, all
  kinds, a rate limiter that may refuse, an idle sweep, answers larger than the
  socket buffer, a client that waits for each answer. Fairness: threads run,
  epoll reports, the client reads; it need not send.
* `parser` (`HttpParser.cfg`): about eight hundred streams of one or two requests,
  all pairs of the twelve request lines without a body, and
  34 heads (every header kind, conflicting and repeated framing headers, malformed
  lines, HTTP/1.0) with 10 bodies (plain, with CRLF as data, chunks up to and over
  the limit, trailers, malformed chunks), every cut. `ResumesFromAnySplit`
  compares with `HttpFraming` whenever the parser is at rest, so on every prefix
  of every stream. Limits are 4 (header), 6 (scan), 3 (body): small enough that
  each is met exactly and exceeded by one. `ReadsInOnePiece` is the refinement of
  `HttpReading`; `WaitsForMore` says that a waiting connection has nothing left to read
  in what it received. `AnswersReachClient` and
  `CloseIsAnnounced` decode with `HttpClient` what `HttpMessages` writes for the
  requests served; `MAX_CHUCK_SIZE` is 2 with bodies of 0 to 5 octets, so all three
  framings, a full and a short last chunk occur. Deadlock checking is off: a client
  may stop sending.
* `lifecycle` (`Lifecycle.cfg`): one worker, one client, two signals on the main
  thread at any moment from the first line to the destructors, a failing start or
  `epoll_wait`, a task queue of one slot, one log entry waiting at a time. With one slot Main
  waits in `submit` for a worker and the worker for itself, so that the jam is reached as
  well; `StopCompletes` says that a stopping server ends unless that happened, and `Jammed` is
  narrow: all threads wait, and a worker does so in `submit`. With two workers and
  one signal the invariants hold too (6.5 million states); the liveness property is then too
  large for a run. Signals on
  the main thread: the kernel delivers a signal for the process there as long as
  that thread does not block it. Fairness: the main thread, workers, log thread and
  a started handler go on and time passes; signals, clients and failures are free.
  Deadlock checking is off: the process ends. A crash of an undefined task counts as
  an end.

With a violation expected; each shows that the code departs from what a comment
or the repository's README says (`findings` in `PROJECT.json` quotes it):

* `queue_nested_submit`: workers that submit into a full queue block it for ever, the event loop with them.
* `rate_dangling`: the raw bucket pointer does not stay valid.
* `conn_lost_wakeup`: the write task's late re-arming drops the EPOLLOUT of a concurrent read task.
* `lifecycle_stop_lost`: a signal after `TcpServer::run` has tested `is_running` (`TcpServer.cpp:64`) and before `EventLoop::run` stores RUNNING is taken and lost, and the ones after it are ignored.

The same configurations show more when a constant is changed:

* `AdmissionSafety.cfg` with one worker, `MayHangUp = {}`, both caps 2 and no symmetry violates the action property `MainRemovesWhomItMeant`: `check_idle_timeouts` remembers descriptor numbers, drops `conn_map_mtx` and removes by number (`EventLoop.cpp:549`); a worker may have closed the number and `handle_accept` reused it, so the sweep removes a client that has just connected. Events later in a batch (`EventLoop.cpp:88`) have the same weakness.
* `ConnIOLostWakeup.cfg` with `Kinds = {"keep", "close"}`, `AnswerSize = 3` and the invariant `NothingAfterClose` is violated: a write task that does not empty the buffer re-arms EPOLLIN although the connection is marked to close (`EventLoop.cpp:483`), and the next pipelined request is answered, although `EventLoop.cpp:364` says that pipelining stops there.
* `Lifecycle.cfg` with `SignalThreads = {Main, w1}` violates `DrainTimeIsGranted` (the loop sees STOPPING before `shutdown_start` is written, `EventLoop.cpp:599`, and force-closes at once) and `OnlyLeftoversAreUndefined` (the loop ends and is destroyed under a handler that is still inside `stop`).
* `LoggerStopped` comes before `PoolJoins`, although `main.cpp:109` says "Stop Logger last after all server resources and worker threads are joined": what workers log in between is dropped.
* `AnswersReachClient` without `NoHead` is violated: HEAD has no route, gets the 404 with its body, and the client takes the body for the next answer (`EventLoop.cpp:355` does not pass `is_head`).
* `AnswersReachClient` with a response of `AppRoutes` that has its own `content-length` and more than `MAX_CHUCK_SIZE` octets is violated: `del` erases nothing and both framing headers are sent, although the repository's README says that the encoder ensures "that the generated response does not contain conflicting framing headers".
* A request with both framing headers is served as chunked (`HttpParser`, `BodyFollows`), although the README says that the parser must validate such requests.
* `AdmissionSafety.cfg` with `EpollAddMayFail = TRUE` violates `FdOwned`: `close(client_fd)` at `EventLoop.cpp:233` is followed by the destructor's close of the same number, which another thread's accept may have got in between.
* `AdmissionLiveness.cfg`, where EPOLL_CTL_ADD may fail, violates `PerIpExact`, `ActiveExact` and `FdOwned` as invariants: a removal by number that meets the connection after the failure and before `EventLoop.cpp:231` erases it gives its slot back a second time and discounts what was never counted. `NoFdLeak` and `OvershootBounded` hold there.
* `AdmissionSafety.cfg` with `FdLimit = 1` and a cap of 2 violates `NoStrandedBacklog`: the accept attempt in `remove_connection` precedes the close of the descriptor it frees.
* `OvershootBounded` is tight: the map does exceed `MAX_TOTAL_CONNECTIONS`, by up to one per further thread.
* `ConnIOSequential.cfg` with `Pipelines = TRUE` violates `CloseIsHonoured` (a read task drains the buffer and does not look at the close mark) and `ErrorAnswerSent` (an error answer behind unsent bytes gets one flush).
* `ConnIOSequential.cfg` with `MayHangUp = {"fin"}`, `MayStop = TRUE`, `Parts = 1`, `AnswerSize = 5` and `SockBuf = 1` violates `CloseIsHonoured`: the end of the stream is reported together with EPOLLOUT, the loop stops before the read task looks at the socket, and that task sends the rest and re-arms EPOLLIN without looking at the close mark.
* `ConnIOLostWakeup.cfg` with `MayStop = TRUE` and the invariant `StoppingDrains` is violated: an EPOLLIN report disarms the connection, the stopping loop ignores it (`EventLoop.cpp:116`), and unsent bytes are left unarmed until the forced close, although the repository's README says that shutdown "drains in-flight writes".
* `ResumesFromAnySplit` without its premise `Fits` is violated: a line of `MAX_HTTP_HEADER_SIZE` up to `MAX_CHUNK_BODY_SIZE` octets is accepted when it arrives in one piece (`Framer.cpp:15`) and refused when it is cut before its LF (`Framer.cpp:33`), although `Framer.h:26` says that the header limit is enforced.

## Proofs

Type correctness of `TaskQueue`, `ConnIO`, `HttpParser` and `RateLimiter` is proved and
checked by no run.

`TaskQueueProofs`, for every finite set of workers, every set of tasks, every capacity
and every `Child`, from `TaskQueueAssumption` (a thread pool has finitely many threads;
`NoLostWakeup` counts them):

* `TypeCorrect`: `TypeOK` always.
* `ShutdownDrains`: `JoinedMeansDrained` always. The invariant is not inductive
  by itself; `IndInv` adds that the occupied slots are the `buffer_len` ones from
  `head` and `tail` follows them (`RingInv`), what each label implies about a
  thread's task (`ThreadInv`), that workers leave only after shutdown with the
  buffer empty and that it then stays empty (`ExitInv`), and that an accepted task
  is queued, in hand or done (`AccountInv`).
* `Refinement`: `Spec => ImplementsFifo`; a put appends to and a take removes the
  head of `Contents`, by the arithmetic of `RingPositions`; all other steps stutter.
* `NoWakeupIsLost`: `NoLostWakeup` always. `notify_one` is issued after the unlock, a
  woken thread can find that another one was faster, and a wait can end without a
  notification, so that no single wakeup can be followed to a task. `WakeInv` counts
  instead: while a worker sleeps, `buffer_len` is at most the number of threads about to
  notify `not_empty` plus the workers awake in `remove`; likewise for producers and free
  slots; and behind `stop` nobody sleeps. Each action moves one thread between the counted
  places, whose cardinalities change by one (lemmas on `Count`).
* `StallsOnlyInNestedSubmit`: if tasks are queued, all workers sleep and nobody is about to
  wake one, then every worker is inside `submit` for a task it runs. The deadlock of
  `queue_nested_submit` is the only way in which the pool can stand still.

`RateLimiterProofs`, for every set of workers, addresses, cells and shards, every
capacity, rate and cost, from `RateLimiterAssumption`, whose one real demand is
that `max_idle` is long enough for a full refill (300 s at 10 per second against
a burst of 20):

* `TypeCorrect`: `TypeOK` always (proved only; no run checks it).
* `RateIsBounded`: `RateBound` always. The invariant `Budget` splits the grants of
  an address by whether it has a bucket and whether that was touched in the
  window: spent plus tokens left is at most the capacity plus the refill up to
  `last_refill`. Eviction moves to the case without a bucket, which is sound
  because the refill of a stale bucket exceeds the capacity.
* `SweepsAreComplete`: `SweepComplete` always, whether or not a freed bucket was used.
  `SweptInv` says it of the shards and entries the sweep is done with: `allow` only
  makes buckets younger, erasing one leaves the others (`BucketsDistinct`) alone.

`AdmissionProofs`, for every set of workers and clients, every assignment of addresses,
all limits and any number of descriptors, from `AdmissionAssumption`. `IndInv` adds to
the types where the locals of a thread are set (`ThreadInv`), that a client gets one
number for good and map and descriptor table agree with it (`FdInv`), and that a
connection is admitted by one thread and removed by one thread, off the map, and a held
mutex belongs to its remover or to a worker in the middle of its task (`OwnInv`). From it alone, so whether or not `EPOLL_CTL_ADD` fails:

* `TypeCorrect`: `TypeOK` always.
* `LockOrderIsSafe`: `MapBeforeMutex` always; the holder of a mutex is inside a task, where
  it wants nothing of the map, or has taken its connection off the map.
* `OnlyNestedSubmitsBlock`: `StuckOnlyInSubmit` always. If all wait and no worker does so in
  `submit`, then whoever holds a mutex waits for the map, which only the sweep keeps; but
  what the sweep has yet to look at is in the map (`ScanInv`), and those who hold such a
  mutex do not want the map (`MapBeforeMutex`). So there is no sweep, no mutex is held, and
  with all workers at rest the queue is empty.
* `BacklogIsNeverStranded`: `NoStrandedBacklog` always, if there is a descriptor for
  every client. `BacklogInv`: with clients queued, room and the edge gone, some thread
  is on its way to an accept. The assumption is needed: when `accept4` fails for want of
  a descriptor the loop gives up, and the removal that could free one accepts before
  `~Connection` closes (`EventLoop.cpp:519`), so nobody is told.

The others assume `EpollAddMayFail = FALSE`, as `admission_safety` does: the error path
of `EPOLL_CTL_ADD` closes the number itself and lets `~Connection` close it again, which
breaks `FdOwned` (see above) and all that rests on it. Registering a fresh descriptor
fails only for want of kernel memory or epoll watches.

* `DescriptorsAreOwned`, `NoDescriptorLeaks`: `FdOwned` and `NoFdLeak` always, from
  `SockInv`: a connection someone refers to has its own open socket, an open socket
  has such a connection.
* `WorkersRemoveOnlyTheirOwn`: the action property `WorkersRemoveTheirOwn`; the worker's
  task keeps the number open until its own removal is over.
* `ActiveCountIsExact`: `ActiveExact` always. `CountInv` gives the counter as the size of
  the map plus the removals to be discounted minus the admissions to be counted, modulo
  `SizeModulus`: a connection can be discounted before it is counted.
* `OvershootIsBounded`: `OvershootBounded` always, from the second part of `CountInv`,
  which counts the threads between the check of the cap and the insertion too.
  TLC checks it with failing `EPOLL_CTL_ADD`.
* `SlotsAreExact`: `PerIpExact` always. `SlotInv` counts the connections of an address that
  hold a slot; each step moves at most one connection in or out of that set.

`ConnIOProofs`, for every set of workers, any number and kind of requests and all sizes
and limits, with pipelining, hang-ups and stop, from `ConnIOAssumption`:

* `TypeCorrect`: `TypeOK` always, mutual exclusion on `conn_mutex` included; every
  other proof of the module rests on that.
* `AnswersAreWhole`, `AnswersAreInOrder`, `WireIsInOrder`: what was sent followed by what
  is in `write_buffer` and not yet taken (`Stream`) consists of complete answers in the
  order of the requests (`StreamInv`); between `send` and the erase the units taken are
  in both, which only the holder of the mutex can see. After a 400 or 429 a parser that was not
  reset can yield its request again, so that `WireInOrder` itself needs
  `~rejected`, or a client to whom neither happens; `Whole` holds for all.
* `NeverLeftDeaf`: `NeverDeaf` always. `ArmedInv`: while nothing is armed, a task is
  queued, or a thread is at a label from which it re-arms or removes.
* `NoRequestForgotten`: `NothingLeftUnparsed` always. `ParseInv`: a complete request is
  attended by a queued read, or by a worker that will parse or close (`WillParse`);
  `StuckInv`: a parser that was not reset belongs to a connection on its way out.

`ConnIOSequentialProofs`, for the same constants but a client that waits for each answer
(`~Pipelines`) and a parse loop that may go on after the first request
(`ParseLimit >= 1`; it is 50 in the code), with hang-ups and stop. These properties fail for
a client that pipelines (the changed constants above), so the proofs rest on what waiting
gives: `AnswerInv` says that what the client has sent beyond a request proves that it has
read the answer to it, the last unit of the stream, so that whenever a fresh request is
parsed nothing is left to be sent (`CaughtUp`, `ParseOpens`). From that follows that input
and output are never reported together (`ReportsOne`), hence one task at a time
(`Single`), and that after the announcement of the close only write tasks run (`Sealed`). A
client that has shut down its sending side with everything answered (`Over`) is the one
exception: two tasks may run, but there is nothing to parse.

* `NothingFollowsTheClose`: `NothingAfterClose` always.
* `MarkedConnectionsClose`: `CloseIsHonoured` always, for clients that do not shut down
  their sending side only (`"fin" \notin MayHangUp`, see the changed constants above).
  `Minded`: while the connection is marked and disarmed, a write task is queued, on its
  way or under way, or someone is removing the connection.
* `ErrorAnswersAreSent`: `ErrorAnswerSent` always, for error answers that fit into the send
  buffer of a socket (`ErrorSize <= SockBuf`; about a hundred octets in the code).
  `ErrorInv`: until the one flush of an error answer is over, what is left of it fits.

`HttpParserProofs`, for every set of streams, every table of words and all limits,
from `HttpParserAssumption` (tables have the types their names say):

* `TypeCorrect`: `TypeOK` always.
* `BodiesStayBounded`: `BodyBounded` always. `BodyInv` adds that a chunk that was
  let in still fits when its data arrives, that it is not empty, and that the body
  is empty until the headers are read, so that a plain body is read in one piece.
* `WaitingStaysBounded`: `WaitingBounded` always: a connection that waits in a state that
  reads lines holds at most a header's limit, in one that reads a body less than a body's.
  `WaitInv` ties the size of the buffer to the state in which `parse()` returned Incomplete.
* `ReadsAsWhole`: `Spec => ReadsInOnePiece`, the refinement of `HttpReading`. `BufferInv`: the
  buffer is the part of the stream between the cursor and what was received. A line found
  in the buffer is then the line that the stream has at the cursor (`LineInStream`), and
  refusals for length are the ones `HttpReading` allows. One lemma per parser state shows
  that its pass is the next reading.
* `CutsNeverMatter`: with `Fits`, every pass of `parse()` is the one step `HttpReading` has:
  no choice is left, so the cuts have no influence on what is found.
* `NothingLeftUnread`: `WaitsForMore` always. `Starved` says what `parse()` lacked when it
  returned Incomplete: a line without having reached a limit, or octets of a body.
* `LoopsAdvance`: `Spec => ParseAdvances`; twice the buffer plus one for a finished
  request decreases with every pass, because a line takes its CRLF at least and
  by `BodyInv` no piece of a body is empty.
* `AnswersAreFramed`: for every request and every handler of `main.cpp`, the response that
  `Encode` formats has exactly one of Content-Length and Transfer-Encoding, the one its body
  is written with, a Content-Length that is the length of the body, and `Connection: close`
  if and only if `close_after_send`; so has the 400. Handlers of the application must not set
  a framing header, which `del` would fail to remove (see above).
* `OnlyTheLastCloses`: `LastCloses` always: a request whose answer closes is the last one
  served, and the connection is closed then.
* `ClosesAsAnnounced`: with `ClosesAfterSend` taken from `HttpMessages`, as in the run, of all
  answers exactly the last one of a closed connection says `Connection: close`.

`LoggerProofs`, for every set of threads that log, without assumptions:

* `TypeCorrect`: `TypeOK` always.
* `StopWritesAll`: `StoppedMeansWritten` always. `ExitInv` adds what the log thread
  knew when it left: running was cleared and the queue empty, so that later pushes
  are late; and that `stop` returns after it left.
* `NoWakeupIsLost`: `NoLostWakeup` always; it is inductive with the types.

`LifecycleProofs`, for every set of workers, clients and signal threads and all
bounds, from `LifecycleAssumption`:

* `UsesLoggerAsSpecified`: `Spec` implements the specification of `Logger`; one
  lemma per group of actions shows that each is a step of the logger or leaves it
  alone.
* `NothingLoggedIsLost`, `LogThreadIsWoken`: the two properties of the logger, carried
  over to the server along that refinement.
* `TypeCorrect`: `TypeOK` always, with signals on any thread, the bound of the task queue
  included; `TaskInv` adds that a worker that runs has a task, and Main a removal while it
  removes and something to submit while it submits. The lemma `OnlySubmitsJam` says of any
  number of workers what the exception in `StopCompletes` rests on: if all threads
  wait, one of the workers waits in `submit`.
* `OnlyLeftoversUseDestroyedLoop`: `OnlyLeftoversAreUndefined` always, with signals on the
  main thread only. `DestroyInv`: `event_loop` is destroyed after the last request was taken,
  and if no task is left at that moment none comes later; `HandlerInv`: a handler inside
  `EventLoop::stop` has interrupted main() before that.
* `DrainingGetsItsTime`: `DrainTimeIsGranted` always, with signals on the main thread only.
  `DrainInv`: `run()` sees STOPPING only with `shutdown_start` written, since the handler
  has returned when it goes on; and it stores STOPPED with connections left only when the
  time is over, at every label of the loop (`InRun`), the waits included.

With a handler on a worker the last two fail, as the changed constants above show; their
assumption is the one of the `lifecycle` run.
`LifecycleAssumption` also says that `NoTask` is no task.

Only model-checked: `ResumesFromAnySplit`, `AnswersReachClient` and `CloseIsAnnounced`,
whose references are recursive. What they say of the server is proved as far as it can be
said without recursion: the parser by `ReadsAsWhole`, `CutsNeverMatter` and
`NothingLeftUnread`, the answers by `AnswersAreFramed` and `ClosesAsAnnounced`; that
`HttpReading` agrees with the grammar of `HttpFraming`, and that `HttpClient` finds the parts
of an answer again, chunk by chunk, is checked by TLC. All liveness properties stay with
TLC too, since fairness and ENABLED are outside the prover.

## Not modelled

Socket helpers are one system call. The formatting of log lines and their status
(`HttpLogGuard` reads it through a pointer to a destroyed response), HTTP wording and
weak memory orderings are abstracted away. A signal after `main()` has returned finds
`g_server` pointing to a destroyed server; `Lifecycle` ends signals there. The second
close of each descriptor in `cleanup_all_connections` is not a step of its own:
descriptor numbers are the subject of `Admission`, which has the same close twice in
`handle_accept`. `EventLoop::has_pending_writes`, `HttpResponse::reset` and
`Logger::trace_lock` have no caller. `Lifecycle` has no property that unsent bytes are
drained while stopping: a report that the stopping loop ignores (`EventLoop.cpp:116`) and the
late re-arming of `conn_lost_wakeup` both leave them to the forced close, which the changed
constants of `ConnIO` above show; what the server does grant is `DrainTimeIsGranted`.

## Plan

Every invariant of the runs but the three whose references are recursive has its theorem,
under the assumptions stated with it. What is left stays with TLC for the reasons above.
