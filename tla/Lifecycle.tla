------------------------------ MODULE Lifecycle ------------------------------
(***************************************************************************)
(* The server from main() to the end of the process: TcpServer::start, run *)
(* and stop, the signal handler, EventLoop::run with its shutdown phase,   *)
(* cleanup_all_connections, the destructors in the order C++ runs them,    *)
(* and the logger, which composes with all of it.                          *)
(*                                                                         *)
(* A connection is reduced to what shutdown asks of it: whether the map    *)
(* has it, whether it has unsent bytes, what epoll is armed for and who    *)
(* holds its mutex.  What a client sends or reads is a choice.  Whatever   *)
(* can keep a thread waiting is there: the bounded task queue, into which  *)
(* Main and workers submit, every conn_mutex, and conn_map_mtx during the  *)
(* idle sweep.  What tasks of one connection do to its buffers is the      *)
(* subject of ConnIO, descriptor numbers and the accept attempt of         *)
(* remove_connection that of Admission.                                    *)
(***************************************************************************)
EXTENDS Integers, Sequences

CONSTANTS Main,               \* the thread of main(), which runs the loop
          Workers,
          Conns,              \* clients, each connects at most once
          NoTask,
          SignalThreads,      \* threads the kernel may run the handler on
          MaxSignals,         \* bound on the signals
          QUEUE_CAPACITY,     \* of the task queue: submit() waits while it is full
          MaxLogQueue,        \* bound on the entries waiting in the logger
          SHUTDOWN_TIMEOUT    \* in ticks

Threads == Workers \cup {Main}

ASSUME LifecycleAssumption ==
    /\ Main \notin Workers /\ SignalThreads \subseteq Threads
    /\ MaxSignals \in Nat /\ MaxLogQueue \in Nat /\ QUEUE_CAPACITY \in Nat \ {0}
    /\ SHUTDOWN_TIMEOUT \in Nat \ {0}
    /\ NoTask \notin [kind : {"read", "write", "again", "hangup", "timeout"}, conn : Conns]

VARIABLES
    pc,              \* where each thread is
    now,             \* ticks since the loop was asked to stop
    \* TcpServer and EventLoop
    is_running,
    loop,            \* event_loop: "none", "live", "destroyed"
    state,
    shutdown_start,  \* Epoch before it is written
    listening,       \* server_fd is open
    epollOpen,       \* epoll_fd and wakeup_fd are open
    \* the signal handler
    handler,         \* where it is on each thread, "no" if it is not running
    signals,         \* how many there were
    \* clients and connections
    fresh,           \* clients that have not connected yet
    waiting,         \* clients in the accept queue
    mapped,          \* connections in the map
    unsent,          \* those with bytes in write_buffer
    armed,           \* what epoll reports next of each
    \* the thread pool
    tasks,           \* submitted and not taken
    task,            \* what each worker is at; the removal Main is at
    poolStopped,     \* TaskQueue::stop was called
    \* the event loop
    report,          \* what Main has still to submit of the event it handles
    unscanned,       \* connections the idle sweep has yet to look at
    doomed,          \* connections it has found idle and not yet removed
    \* the logger
    logRunning, logQueue, logWriter, logCaller, logStopper,
    \* observers
    leftover,        \* a task was queued or under way when event_loop was destroyed
    undefined        \* someone used event_loop after that

serverVars == <<is_running, loop, state, shutdown_start>>
fdVars == <<listening, epollOpen>>
signalVars == <<handler, signals>>
clientVars == <<fresh, waiting>>
connVars == <<mapped, unsent, armed>>
poolVars == <<tasks, task, poolStopped>>
mainVars == <<report, unscanned, doomed>>
logVars == <<logRunning, logQueue, logWriter, logCaller, logStopper>>
observerVars == <<leftover, undefined>>
vars == <<pc, now, serverVars, fdVars, signalVars, clientVars, connVars, poolVars, mainVars,
          logVars, observerVars>>

Log == INSTANCE Logger WITH
    Callers <- Threads, running <- logRunning, queue <- logQueue, consumer <- logWriter,
    caller <- logCaller, stopper <- logStopper

\* The clock began long before the server did.
Epoch == -SHUTDOWN_TIMEOUT

\* Signal handlers are registered; the workers start with the constructor of
\* server, which only adds threads that wait for tasks.
Init ==
    /\ pc = [t \in Threads |-> IF t = Main THEN "init" ELSE "idle"]
    /\ now = 0
    /\ is_running = FALSE /\ loop = "none" /\ state = "STOPPED" /\ shutdown_start = Epoch
    /\ listening = FALSE /\ epollOpen = FALSE
    /\ handler = [t \in SignalThreads |-> "no"] /\ signals = 0
    /\ fresh = Conns /\ waiting = {}
    /\ mapped = {} /\ unsent = {} /\ armed = [c \in Conns |-> {}]
    /\ tasks = <<>> /\ task = [t \in Threads |-> NoTask] /\ poolStopped = FALSE
    /\ Log!Init
    /\ report = <<>> /\ unscanned = {} /\ doomed = {}
    /\ leftover = FALSE /\ undefined = FALSE

\* A thread goes on unless the handler interrupts it.
Free(t) == t \in SignalThreads => handler[t] = "no"

At(t, l) == pc[t] = l /\ Free(t)
Goto(t, l) == pc' = [pc EXCEPT ![t] = l]
MainGoes(l1, l2) == At(Main, l1) /\ Goto(Main, l2)

-----------------------------------------------------------------------------
(* Logging: a call is three steps of the logger, then the thread goes on *)

AfterLog == [announce |-> "run", drain |-> "wait", ended |-> "stopLogger",
             failed |-> "dtor", recvLog |-> "serve"]
CanLog(t) == pc[t] \in DOMAIN AfterLog /\ Free(t)

noLogVars == <<now, serverVars, fdVars, signalVars, clientVars, connVars, poolVars, mainVars,
               observerVars>>

LogCall(t) ==
    /\ CanLog(t)
    /\ \/ Log!LogEnters(t) /\ Len(logQueue) < MaxLogQueue
       \/ Log!LogPushes(t)
    /\ UNCHANGED <<pc, noLogVars>>

LogReturns(t) ==
    /\ CanLog(t)
    /\ \/ Log!LogNotifies(t)
       \/ logCaller[t] = "out" /\ ~logRunning /\ UNCHANGED logVars
    /\ Goto(t, AfterLog[pc[t]])
    /\ UNCHANGED noLogVars

LogThread ==
    /\ Log!Consumer
    /\ UNCHANGED <<pc, noLogVars>>

LogThreadWakes ==
    /\ Log!SpuriousWakeup
    /\ UNCHANGED <<pc, noLogVars>>

-----------------------------------------------------------------------------
(* main() up to run() *)

InitLogger ==
    /\ MainGoes("init", "start")
    /\ Log!Start
    /\ UNCHANGED noLogVars

\* A system call fails, before the loop exists or in EventLoop::start().
StartFails ==
    /\ MainGoes("start", "failed")
    /\ \/ UNCHANGED <<loop, listening>>
       \/ loop' = "live" /\ listening' = TRUE
    /\ UNCHANGED <<now, is_running, state, shutdown_start, epollOpen, signalVars,
                   clientVars, connVars, poolVars, mainVars, logVars, observerVars>>

StartSucceeds ==
    /\ MainGoes("start", "flag")
    /\ loop' = "live" /\ listening' = TRUE /\ epollOpen' = TRUE
    /\ UNCHANGED <<now, is_running, state, shutdown_start, signalVars, clientVars,
                   connVars, poolVars, mainVars, logVars, observerVars>>

SetRunning ==
    /\ MainGoes("flag", "announce")
    /\ is_running' = TRUE
    /\ UNCHANGED <<now, loop, state, shutdown_start, fdVars, signalVars, clientVars, connVars,
                   poolVars, mainVars, logVars, observerVars>>

\* TcpServer::run tests is_running ...
Run ==
    /\ MainGoes("run", IF is_running THEN "store" ELSE "ended")
    /\ UNCHANGED <<noLogVars, logVars>>

\* ... and EventLoop::run stores RUNNING, whatever state was.
StoreRunning ==
    /\ MainGoes("store", "loop")
    /\ state' = "RUNNING"
    /\ UNCHANGED <<now, is_running, loop, shutdown_start, fdVars, signalVars, clientVars,
                   connVars, poolVars, mainVars, logVars, observerVars>>

-----------------------------------------------------------------------------
(* stop(), called by the handler and by the destructors *)

SignalArrives(t) ==
    /\ signals < MaxSignals /\ handler[t] = "no"
    /\ pc[Main] # "exit" /\ pc[t] # "gone"
    /\ handler' = [handler EXCEPT ![t] = "flag"]
    /\ signals' = signals + 1
    /\ UNCHANGED <<pc, now, serverVars, fdVars, clientVars, connVars, poolVars, mainVars, logVars,
                   observerVars>>

\* The handler returns; an epoll_wait it interrupted fails with EINTR.
HandlerReturns(t) ==
    /\ handler' = [handler EXCEPT ![t] = "no"]
    /\ \/ UNCHANGED pc
       \/ t = Main /\ pc[Main] = "wait" /\ Goto(Main, "loop")

\* TcpServer::stop takes the request once.
MutantTakeRequest == UNCHANGED is_running
TakeRequest == is_running' = FALSE

HandlerTests(t) ==
    /\ handler[t] = "flag"
    /\ \/ is_running /\ handler' = [handler EXCEPT ![t] = "cas"] /\ UNCHANGED pc
       \/ ~is_running /\ HandlerReturns(t)
    /\ TakeRequest
    /\ UNCHANGED <<now, loop, state, shutdown_start, fdVars, signals, clientVars, connVars,
                   poolVars, mainVars, logVars, observerVars>>

\* EventLoop::stop
HandlerSwaps(t) ==
    /\ handler[t] = "cas"
    /\ \/ /\ state = "RUNNING" /\ state' = "STOPPING"
          /\ handler' = [handler EXCEPT ![t] = "stamp"] /\ UNCHANGED pc
       \/ state # "RUNNING" /\ UNCHANGED state /\ HandlerReturns(t)
    /\ undefined' = (undefined \/ loop = "destroyed")
    /\ UNCHANGED <<now, is_running, loop, shutdown_start, fdVars, signals, clientVars, connVars,
                   poolVars, mainVars, logVars, leftover>>

MutantTimeStamp == shutdown_start
TimeStamp == now

HandlerStamps(t) ==
    /\ handler[t] = "stamp"
    /\ shutdown_start' = TimeStamp
    /\ handler' = [handler EXCEPT ![t] = "wake"]
    /\ undefined' = (undefined \/ loop = "destroyed")
    /\ UNCHANGED <<pc, now, is_running, loop, state, fdVars, signals, clientVars, connVars,
                   poolVars, mainVars, logVars, leftover>>

\* The write to wakeup_fd only shortens a wait that ends after 500 ms anyway.
HandlerWakes(t) ==
    /\ handler[t] = "wake"
    /\ HandlerReturns(t)
    /\ undefined' = (undefined \/ loop = "destroyed")
    /\ UNCHANGED <<now, serverVars, fdVars, signals, clientVars, connVars,
                   poolVars, mainVars, logVars, leftover>>

Handler(t) == HandlerTests(t) \/ HandlerSwaps(t) \/ HandlerStamps(t) \/ HandlerWakes(t)

\* Time matters once the loop is stopping; the handler's few instructions
\* take none of it.
Tick ==
    /\ state = "STOPPING" /\ now < SHUTDOWN_TIMEOUT
    /\ \A t \in SignalThreads : handler[t] # "stamp"
    /\ now' = now + 1
    /\ UNCHANGED <<pc, serverVars, fdVars, signalVars, clientVars, connVars, poolVars, mainVars,
                   logVars, observerVars>>

-----------------------------------------------------------------------------
(* EventLoop::run *)

\* The head of the loop; in STOPPING the listening socket goes, and its queue.
LoopHead ==
    /\ At(Main, "loop")
    /\ LET closes == state = "STOPPING" /\ listening
       IN  /\ Goto(Main, CASE state = "STOPPED" -> "cleanup" [] closes -> "drain"
                           [] OTHER -> "wait")
           /\ listening' = (listening /\ ~closes)
           /\ waiting' = IF closes THEN {} ELSE waiting
    /\ UNCHANGED <<now, serverVars, epollOpen, signalVars, fresh, connVars, poolVars, mainVars,
                   logVars, observerVars>>

\* epoll_wait times out, is woken, or finds the listening socket ready.
WaitReturns ==
    /\ At(Main, "wait")
    /\ \/ Goto(Main, "check")
       \/ listening /\ waiting # {} /\ Goto(Main, "accept")
    /\ UNCHANGED <<noLogVars, logVars>>

\* Any other error ends the loop whatever its state.
WaitFails ==
    /\ MainGoes("wait", "cleanup")
    /\ UNCHANGED <<noLogVars, logVars>>

\* What the events of c ask for: a read task before a write task.
TasksFor(c, evs) ==
    (IF "IN" \in evs THEN <<[kind |-> "read", conn |-> c]>> ELSE <<>>)
        \o (IF "OUT" \in evs THEN <<[kind |-> "write", conn |-> c]>> ELSE <<>>)

\* A client is ready; EPOLLONESHOT disarms it.
WaitReports(c) ==
    /\ MainGoes("wait", "lookup")
    /\ \E evs \in (SUBSET armed[c]) \ {{}} : report' = TasksFor(c, evs)
    /\ armed' = [armed EXCEPT ![c] = {}]
    /\ UNCHANGED <<now, serverVars, fdVars, signalVars, clientVars, mapped, unsent, poolVars,
                   unscanned, doomed, logVars, observerVars>>

\* Input is handled only while running, output always, of a connection in the map.
Wanted(r) == r.conn \in mapped /\ (r.kind = "read" => state = "RUNNING")

NextOfReport ==
    /\ report' = Tail(report)
    /\ Goto(Main, IF Len(report) > 1 THEN "lookup" ELSE "check")
    /\ UNCHANGED <<unscanned, doomed>>

\* handle_client_read and handle_client_write, up to submit().
Lookup ==
    /\ At(Main, "lookup")
    /\ IF Wanted(Head(report)) THEN Goto(Main, "submit") /\ UNCHANGED mainVars
                               ELSE NextOfReport
    /\ UNCHANGED <<now, serverVars, fdVars, signalVars, clientVars, connVars, poolVars, logVars,
                   observerVars>>

\* submit() waits while the queue is full, and takes nothing once it is stopped.
MutantHasRoom == Len(tasks) <= QUEUE_CAPACITY
HasRoom == Len(tasks) < QUEUE_CAPACITY

Enqueue(r) ==
    \/ poolStopped /\ UNCHANGED tasks
    \/ ~poolStopped /\ HasRoom /\ tasks' = Append(tasks, r)

Submit ==
    /\ At(Main, "submit")
    /\ Enqueue(Head(report))
    /\ NextOfReport
    /\ UNCHANGED <<now, serverVars, fdVars, signalVars, clientVars, connVars, task, poolStopped,
                   logVars, observerVars>>

\* A worker at a read task has locked the mutex of c.
Held(c) ==
    \E w \in Workers : pc[w] \in {"recvLog", "serve", "resubmit"} /\ task[w].conn = c

\* conn_map_mtx is free: only the idle sweep keeps it over a wait.
MapFree == pc[Main] # "scan"

\* What is off the map is never armed again; nobody can tell when EPOLL_CTL_DEL
\* disarms it.
Remove(C) ==
    /\ mapped' = mapped \ C
    /\ armed' = [c \in Conns |-> IF c \in C THEN {} ELSE armed[c]]

WaitHangsUp(c) ==
    /\ MainGoes("wait", "remove")
    /\ armed[c] # {}
    /\ armed' = [armed EXCEPT ![c] = {}]
    /\ task' = [task EXCEPT ![Main] = [kind |-> "hangup", conn |-> c]]
    /\ UNCHANGED <<now, serverVars, fdVars, signalVars, clientVars, mapped, unsent, tasks,
                   poolStopped, mainVars, logVars, observerVars>>

\* Where remove_connection returns to.
AfterRemoval(t) ==
    CASE task[t].kind = "hangup" -> "check"
      [] task[t].kind = "timeout" -> IF doomed = {} THEN "loop" ELSE "reap"
      [] OTHER -> "idle"

RemoveReturns(t) ==
    /\ Goto(t, AfterRemoval(t))
    /\ task' = [task EXCEPT ![t] = NoTask]

\* remove_connection takes the connection off the map under conn_map_mtx ...
RemoveBegins(t) ==
    LET c == task[t].conn IN
    /\ At(t, "remove") /\ loop = "live" /\ MapFree
    /\ \/ c \in mapped /\ Remove({c}) /\ Goto(t, "rmLock") /\ UNCHANGED task
       \/ c \notin mapped /\ UNCHANGED <<mapped, armed>> /\ RemoveReturns(t)
    /\ UNCHANGED <<now, serverVars, fdVars, signalVars, clientVars, unsent, tasks, poolStopped,
                   mainVars, logVars, observerVars>>

\* ... and waits out a task that holds its mutex.
RemoveEnds(t) ==
    /\ At(t, "rmLock") /\ loop = "live" /\ ~Held(task[t].conn)
    /\ RemoveReturns(t)
    /\ UNCHANGED <<now, serverVars, fdVars, signalVars, clientVars, connVars, tasks, poolStopped,
                   mainVars, logVars, observerVars>>

\* handle_accept tests state, then accepts and registers.
AcceptTests ==
    /\ MainGoes("accept", IF state = "RUNNING" THEN "admit" ELSE "check")
    /\ UNCHANGED <<noLogVars, logVars>>

Admit ==
    /\ MainGoes("admit", "check")
    /\ \E c \in waiting :
          /\ waiting' = waiting \ {c}
          /\ mapped' = mapped \cup {c}
          /\ armed' = [armed EXCEPT ![c] = {"IN"}]
    /\ UNCHANGED <<now, serverVars, fdVars, signalVars, fresh, unsent, poolVars, mainVars, logVars,
                   observerVars>>

Elapsed == now - shutdown_start

MutantShutdownComplete == mapped = {}
ShutdownComplete == mapped = {} \/ Elapsed >= SHUTDOWN_TIMEOUT

Check ==
    /\ MainGoes("check", "sweep")
    /\ state' = IF state = "STOPPING" /\ ShutdownComplete THEN "STOPPED" ELSE state
    /\ UNCHANGED <<now, is_running, loop, shutdown_start, fdVars, signalVars, clientVars,
                   connVars, poolVars, mainVars, logVars, observerVars>>

\* check_idle_timeouts is not due, or takes conn_map_mtx ...
Sweep ==
    /\ At(Main, "sweep")
    /\ \/ Goto(Main, "loop") /\ UNCHANGED unscanned
       \/ mapped # {} /\ Goto(Main, "scan") /\ unscanned' = mapped
    /\ UNCHANGED <<now, serverVars, fdVars, signalVars, clientVars, connVars, poolVars, report,
                   doomed, logVars, observerVars>>

\* ... waits for one conn_mutex after the other to read its last activity ...
SweepLooks ==
    /\ At(Main, "scan")
    /\ \E c \in unscanned :
          /\ ~Held(c)
          /\ unscanned' = unscanned \ {c}
          /\ doomed' \in {doomed, doomed \cup {c}}
    /\ UNCHANGED <<pc, now, serverVars, fdVars, signalVars, clientVars, connVars, poolVars,
                   report, logVars, observerVars>>

\* ... and removes whom it found idle, with conn_map_mtx released.
SweepEnds ==
    /\ MainGoes("scan", IF doomed = {} THEN "loop" ELSE "reap")
    /\ unscanned = {}
    /\ UNCHANGED <<noLogVars, logVars>>

Reap ==
    /\ MainGoes("reap", "remove")
    /\ \E c \in doomed :
          /\ doomed' = doomed \ {c}
          /\ task' = [task EXCEPT ![Main] = [kind |-> "timeout", conn |-> c]]
    /\ UNCHANGED <<now, serverVars, fdVars, signalVars, clientVars, connVars, tasks, poolStopped,
                   report, unscanned, logVars, observerVars>>

\* cleanup_all_connections, and the wakeup descriptor.
Cleanup ==
    /\ MainGoes("cleanup", "ended")
    /\ Remove(mapped)
    /\ epollOpen' = FALSE
    /\ UNCHANGED <<now, serverVars, listening, signalVars, clientVars, unsent, poolVars, mainVars,
                   logVars, observerVars>>

-----------------------------------------------------------------------------
(* main() after run(), destructors, static destructors *)

AfterStop == [stopLogger |-> "dtor", exit |-> "exited"]

\* Logger::stop, from main() or from ~Logger, which finds it stopped or not.
LoggerStops ==
    /\ pc[Main] \in DOMAIN AfterStop /\ Free(Main)
    /\ Log!StopClears \/ Log!StopNotifies
    /\ UNCHANGED <<pc, noLogVars>>

LoggerStopped ==
    /\ pc[Main] \in DOMAIN AfterStop /\ Free(Main)
    /\ Log!StopJoins \/ (logStopper = "done" /\ UNCHANGED logVars)
    /\ Goto(Main, AfterStop[pc[Main]])
    /\ UNCHANGED noLogVars

\* EventLoop::stop, where no handler interrupts the thread that calls it.
StopLoop ==
    IF state = "RUNNING" THEN state' = "STOPPING" /\ shutdown_start' = now
                         ELSE UNCHANGED <<state, shutdown_start>>

\* The body of ~TcpServer calls stop() ...
ServerStops ==
    /\ MainGoes("dtor", "dtorLoop")
    /\ TakeRequest
    /\ IF is_running THEN StopLoop ELSE UNCHANGED <<state, shutdown_start>>
    /\ UNCHANGED <<now, loop, fdVars, signalVars, clientVars, connVars, poolVars, mainVars, logVars,
                   observerVars>>

\* ... and its members go in the reverse of their order: event_loop first, which
\* calls stop() again ...
LoopDestroyed ==
    /\ MainGoes("dtorLoop", "dtorPool")
    /\ loop' = IF loop = "live" THEN "destroyed" ELSE loop
    /\ StopLoop
    /\ Remove(mapped)
    /\ leftover' = (tasks # <<>> \/ \E w \in Workers : pc[w] # "idle")
    /\ UNCHANGED <<now, is_running, fdVars, signalVars, clientVars, unsent, poolVars, mainVars,
                   logVars, undefined>>

\* ... then thread_pool, which lets the workers finish and joins them.
PoolStops ==
    /\ MainGoes("dtorPool", "joinPool")
    /\ poolStopped' = TRUE
    /\ UNCHANGED <<now, serverVars, fdVars, signalVars, clientVars, connVars, tasks, task,
                   mainVars, logVars, observerVars>>

PoolJoins ==
    /\ MainGoes("joinPool", "exit")
    /\ \A w \in Workers : pc[w] = "gone"
    /\ UNCHANGED <<noLogVars, logVars>>

-----------------------------------------------------------------------------
(* Workers *)

TakeTask(w) ==
    /\ At(w, "idle") /\ tasks # <<>>
    /\ task' = [task EXCEPT ![w] = Head(tasks)]
    /\ tasks' = Tail(tasks)
    /\ Goto(w, Head(tasks).kind)
    /\ UNCHANGED <<now, serverVars, fdVars, signalVars, clientVars, connVars, poolStopped,
                   mainVars, logVars, observerVars>>

WorkerExits(w) ==
    /\ At(w, "idle") /\ tasks = <<>> /\ poolStopped
    /\ Goto(w, "gone")
    /\ UNCHANGED <<noLogVars, logVars>>

\* epoll is armed for evs unless the connection has gone.
Rearm(c, evs) == armed' = IF c \in mapped THEN [armed EXCEPT ![c] = evs] ELSE armed

TaskEnds(w) ==
    /\ Goto(w, "idle")
    /\ task' = [task EXCEPT ![w] = NoTask]
    /\ UNCHANGED <<now, serverVars, fdVars, signalVars, clientVars, poolStopped, mainVars,
                   logVars, observerVars>>

\* What a read task arms for when the connections in bytes have unsent ones:
\* output alone if the answer is the last.
Interests(c, bytes) == IF c \in bytes THEN {{"IN", "OUT"}, {"OUT"}} ELSE {{"IN"}}

\* A read task waits for the mutex; it receives, and logs that it does, only
\* while the loop runs.
Recv(w) ==
    /\ At(w, "read") /\ loop = "live" /\ ~Held(task[w].conn)
    /\ Goto(w, IF state = "RUNNING" THEN "recvLog" ELSE "serve")
    /\ UNCHANGED <<noLogVars, logVars>>

\* It answers what is complete, flushes and re-arms ...
Answers(c, evs) ==
    /\ unsent' \in {unsent \ {c}, unsent \cup {c}}
    /\ evs \in Interests(c, unsent') /\ Rearm(c, evs)
    /\ UNCHANGED mapped

Serve(w) ==
    /\ At(w, "serve") /\ loop = "live"
    /\ \E evs \in SUBSET {"IN", "OUT"} : Answers(task[w].conn, evs)
    /\ UNCHANGED tasks
    /\ TaskEnds(w)

\* ... and submits itself again if it has left requests behind, still with the
\* mutex; the new task holds only the number ...
ServeMore(w) ==
    /\ At(w, "serve") /\ loop = "live" /\ state = "RUNNING"
    /\ \E evs \in SUBSET {"IN", "OUT"} : "IN" \in evs /\ Answers(task[w].conn, evs)
    /\ Goto(w, "resubmit")
    /\ UNCHANGED <<now, serverVars, fdVars, signalVars, clientVars, poolVars, mainVars, logVars,
                   observerVars>>

Resubmit(w) ==
    /\ At(w, "resubmit")
    /\ Enqueue([kind |-> "again", conn |-> task[w].conn])
    /\ UNCHANGED connVars
    /\ TaskEnds(w)

\* ... or the request, the client or the answer ends the connection.
ServeCloses(w) ==
    /\ At(w, "serve") /\ loop = "live"
    /\ Goto(w, "remove")
    /\ UNCHANGED <<noLogVars, logVars>>

\* The task by number calls handle_client_read, which tests state, looks for the
\* connection under conn_map_mtx and submits a read task of its own.
Again(w) ==
    /\ At(w, "again") /\ loop = "live"
    /\ IF state = "RUNNING" THEN Goto(w, "find") /\ UNCHANGED noLogVars
                            ELSE TaskEnds(w) /\ UNCHANGED <<connVars, tasks>>
    /\ UNCHANGED logVars

Find(w) ==
    /\ At(w, "find") /\ loop = "live" /\ MapFree
    /\ IF task[w].conn \in mapped THEN Goto(w, "submit") /\ UNCHANGED noLogVars
                                   ELSE TaskEnds(w) /\ UNCHANGED <<connVars, tasks>>
    /\ UNCHANGED logVars

SubmitAgain(w) ==
    /\ At(w, "submit")
    /\ Enqueue([kind |-> "read", conn |-> task[w].conn])
    /\ UNCHANGED connVars
    /\ TaskEnds(w)

\* A write task waits for the mutex and flushes: all bytes are sent, which may
\* have been the last answer, or some are left, or the send fails.
Flush(w) ==
    LET c == task[w].conn IN
    /\ At(w, "write") /\ loop = "live" /\ ~Held(c)
    /\ \/ unsent' = unsent \ {c} /\ (Goto(w, "flushed") \/ Goto(w, "remove"))
       \/ c \in unsent /\ UNCHANGED unsent /\ (Goto(w, "blocked") \/ Goto(w, "remove"))
    /\ UNCHANGED <<now, serverVars, fdVars, signalVars, clientVars, mapped, armed, poolVars,
                   mainVars, logVars, observerVars>>

\* With the mutex released it decides what to wait for ...
WriteRearms(w) ==
    LET c == task[w].conn IN
    /\ loop = "live"
    /\ \/ At(w, "flushed") /\ state = "RUNNING" /\ Rearm(c, {"IN"})
       \/ At(w, "blocked") /\ Rearm(c, {"OUT"} \cup IF state = "RUNNING" THEN {"IN"} ELSE {})
    /\ UNCHANGED <<mapped, unsent, tasks>>
    /\ TaskEnds(w)

\* ... and closes the drained connection in shutdown.
WriteCloses(w) ==
    /\ At(w, "flushed") /\ loop = "live" /\ state # "RUNNING"
    /\ Goto(w, "remove")
    /\ UNCHANGED <<noLogVars, logVars>>

\* A task that outlives event_loop uses freed memory: it ends or the process
\* does.  Only the logger, the queue and a mutex that is still held keep it from it.
TaskOutlivesLoop(w) ==
    /\ pc[w] \notin {"idle", "gone", "recvLog", "submit", "resubmit"} /\ Free(w)
    /\ loop = "destroyed"
    /\ pc[w] \in {"read", "write", "rmLock"} => ~Held(task[w].conn)
    /\ undefined' = TRUE
    /\ pc' \in {[pc EXCEPT ![w] = "idle"], [pc EXCEPT ![Main] = "crashed"]}
    /\ task' = [task EXCEPT ![w] = NoTask]
    /\ UNCHANGED <<now, serverVars, fdVars, signalVars, clientVars, connVars, tasks,
                   poolStopped, mainVars, logVars, leftover>>

-----------------------------------------------------------------------------

\* A client completes its handshake.
Connect(c) ==
    /\ listening /\ c \in fresh
    /\ fresh' = fresh \ {c} /\ waiting' = waiting \cup {c}
    /\ UNCHANGED <<pc, now, serverVars, fdVars, signalVars, connVars, poolVars, mainVars, logVars,
                   observerVars>>

Begins == InitLogger \/ StartFails \/ StartSucceeds \/ SetRunning \/ Run \/ StoreRunning
Loops ==
    \/ LoopHead \/ WaitReturns \/ Lookup \/ Submit \/ RemoveBegins(Main) \/ RemoveEnds(Main)
    \/ AcceptTests \/ Admit \/ Check \/ Sweep \/ SweepLooks \/ SweepEnds \/ Reap \/ Cleanup
    \/ \E c \in Conns : WaitReports(c) \/ WaitHangsUp(c)
Ends ==
    \/ LoggerStops \/ LoggerStopped \/ ServerStops \/ LoopDestroyed \/ PoolStops \/ PoolJoins
MainSteps == Begins \/ Loops \/ Ends \/ LogCall(Main) \/ LogReturns(Main)
WorkerSteps(w) ==
    \/ TakeTask(w) \/ WorkerExits(w) \/ Recv(w) \/ Serve(w) \/ ServeMore(w) \/ Resubmit(w)
    \/ ServeCloses(w) \/ Again(w) \/ Find(w) \/ SubmitAgain(w) \/ Flush(w) \/ WriteRearms(w)
    \/ WriteCloses(w) \/ RemoveBegins(w) \/ RemoveEnds(w) \/ TaskOutlivesLoop(w)
    \/ LogCall(w) \/ LogReturns(w)

Ended == pc[Main] \in {"exited", "crashed"}

Next ==
    /\ ~Ended
    /\ \/ MainSteps \/ WaitFails \/ Tick \/ LogThread \/ LogThreadWakes
       \/ \E w \in Workers : WorkerSteps(w)
       \/ \E t \in SignalThreads : SignalArrives(t) \/ Handler(t)
       \/ \E c \in Conns : Connect(c)

Spec == Init /\ [][Next]_vars

\* Threads and the handler are scheduled, time passes; signals, clients and
\* failures come when they like.
FairSpec ==
    /\ Spec
    /\ WF_vars(~Ended /\ MainSteps) /\ WF_vars(~Ended /\ LogThread) /\ WF_vars(~Ended /\ Tick)
    /\ \A w \in Workers : WF_vars(~Ended /\ WorkerSteps(w))
    /\ \A t \in SignalThreads : WF_vars(~Ended /\ Handler(t))

-----------------------------------------------------------------------------
(* Properties *)

MainLabels ==
    {"init", "start", "flag", "announce", "run", "store", "loop", "drain", "wait", "lookup",
     "submit", "remove", "rmLock", "accept", "admit", "check", "sweep", "scan", "reap",
     "cleanup", "ended", "failed", "stopLogger", "dtor", "dtorLoop", "dtorPool",
     "joinPool", "exit", "exited", "crashed"}
WorkerLabels ==
    {"idle", "read", "recvLog", "serve", "resubmit", "again", "find", "submit", "write",
     "flushed", "blocked", "remove", "rmLock", "gone"}
Tasks == [kind : {"read", "write", "again"}, conn : Conns]
Removals == [kind : {"hangup", "timeout"}, conn : Conns]

LoopOK ==
    /\ now \in 0 .. SHUTDOWN_TIMEOUT
    /\ is_running \in BOOLEAN /\ loop \in {"none", "live", "destroyed"}
    /\ state \in {"RUNNING", "STOPPING", "STOPPED"}
    /\ shutdown_start \in {Epoch} \cup 0 .. SHUTDOWN_TIMEOUT
    /\ listening \in BOOLEAN /\ epollOpen \in BOOLEAN
    /\ handler \in [SignalThreads -> {"no", "flag", "cas", "stamp", "wake"}]
    /\ signals \in 0 .. MaxSignals
ConnsOK ==
    /\ fresh \cup waiting \cup mapped \cup unsent \subseteq Conns
    /\ armed \in [Conns -> SUBSET {"IN", "OUT"}]
PoolOK ==
    /\ pc[Main] \in MainLabels /\ \A w \in Workers : pc[w] \in WorkerLabels
    /\ tasks \in Seq(Tasks) /\ Len(tasks) <= QUEUE_CAPACITY
    /\ task \in [Threads -> Tasks \cup Removals \cup {NoTask}]
    /\ report \in Seq(Tasks) /\ unscanned \cup doomed \subseteq Conns
    /\ poolStopped \in BOOLEAN /\ leftover \in BOOLEAN /\ undefined \in BOOLEAN

TypeOK == LoopOK /\ ConnsOK /\ PoolOK /\ Log!TypeOK

\* When stop() of the logger has returned nothing logged before it is missing
\* from the file, whoever logs meanwhile; workers still run at that moment.
StoppedMeansWritten == Log!StoppedMeansWritten

\* The log thread never sleeps on an entry or on the stop request, although
\* whoever notifies it has released the mutex.
NoLostWakeup == Log!NoLostWakeup

\* Shutdown force-closes a connection with unsent bytes only when the time for
\* draining has passed since the stop request ("drains in-flight writes, and
\* force-closes connections after a bounded shutdown period").
DrainTimeIsGranted ==
    pc[Main] = "cleanup" /\ state = "STOPPED" /\ mapped \cap unsent # {}
        => now >= SHUTDOWN_TIMEOUT

\* event_loop is destroyed before the workers are joined.  Nothing uses it after
\* that unless a task was queued or under way at that moment: neither a later
\* task nor the signal handler.
OnlyLeftoversAreUndefined == undefined => leftover

\* The thread waits in submit(), for a conn_mutex, or for conn_map_mtx.
Blocked(t) ==
    \/ pc[t] \in {"submit", "resubmit"} /\ ~poolStopped /\ ~HasRoom
    \/ pc[t] \in {"read", "write", "rmLock"} /\ Held(task[t].conn)
    \/ pc[t] \in {"find", "remove"} /\ ~MapFree
    \/ pc[t] = "scan" /\ unscanned # {} /\ \A c \in unscanned : Held(c)

\* Nobody moves any more because workers wait in submit().
Jammed ==
    /\ \E w \in Workers : pc[w] \in {"submit", "resubmit"}
    /\ \A t \in Threads : Blocked(t)

\* Once the loop is asked to stop, the process ends: no lock, no full queue, no
\* client and no task keeps run() from returning or logger and workers from
\* being joined, unless every worker is waiting, some of them in submit(), and
\* Main is waiting for one of them.
StopCompletes == state = "STOPPING" ~> (Ended \/ Jammed)

\* A stop request that TcpServer::stop has taken (it cleared is_running) ends
\* run() ("Blocks here until server.stop() called from signal_handler").
TakenStopEndsRun == (\E t \in SignalThreads : handler[t] = "cas") ~> Ended
=============================================================================
