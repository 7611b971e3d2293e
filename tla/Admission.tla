------------------------------ MODULE Admission ------------------------------
(***************************************************************************)
(* Connection admission and removal in EventLoop: handle_accept(),         *)
(* remove_connection(), the removals that run() and check_idle_timeouts()  *)
(* request, and the two admission limits (active_connections and           *)
(* PerIpConnectionLimiter).                                                *)
(*                                                                         *)
(* The event-loop thread Main accepts, submits tasks to a bounded queue,   *)
(* removes, and sweeps out idle connections under conn_map_mtx; a worker   *)
(* runs one task at a time, under the mutex of its connection, and may end *)
(* it by submitting another or by removing its connection, which makes it  *)
(* accept as well.  Every access to shared state is an action of its own:  *)
(* an atomic, a stretch under conn_map_mtx or under the limiter's mtx_, a  *)
(* system call, and every wait for a lock or for room in the queue is a    *)
(* place of its own.  A client is identified with the Connection object    *)
(* made for it; fd numbers are reused.                                     *)
(***************************************************************************)
EXTENDS Integers, FiniteSets, Sequences, FiniteSetsExt, Functions

CONSTANTS Workers,                \* threads of the pool
          Main,                   \* the thread that runs the event loop
          Conns,                  \* clients, each connects at most once
          None,                   \* no connection, no thread
          IpOf,                   \* the address of each client
          MayHangUp,              \* clients that may reset their connection
          MAX_TOTAL_CONNECTIONS,  \* the global cap
          max_per_ip_,            \* the cap per address
          FdLimit,                \* descriptors the process may open for clients
          SizeModulus,            \* 2^w for the size_t counter
          QUEUE_CAPACITY,         \* tasks the queue of the pool holds
          MaxEvents,              \* bound: tasks and idle sweeps
          EpollAddMayFail         \* whether EPOLL_CTL_ADD can fail

Threads == Workers \cup {Main}
Fds == 1 .. FdLimit
Ips == {IpOf[c] : c \in Conns}

ASSUME AdmissionAssumption ==
    /\ Workers # {} /\ Main \notin Workers /\ None \notin Conns \cup Threads
    /\ IsFiniteSet(Threads) /\ IsFiniteSet(Conns)
    /\ DOMAIN IpOf = Conns /\ MayHangUp \subseteq Conns
    /\ MAX_TOTAL_CONNECTIONS \in Nat \ {0}
    /\ max_per_ip_ \in Nat \ {0}
    /\ FdLimit \in Nat
    /\ SizeModulus \in Nat
    /\ SizeModulus > MAX_TOTAL_CONNECTIONS + 2 * Cardinality(Threads)
    /\ QUEUE_CAPACITY \in Nat \ {0} /\ MaxEvents \in Nat
    /\ EpollAddMayFail \in BOOLEAN

VARIABLES
    \* the loop and the kernel
    running,       \* state is RUNNING (otherwise STOPPING)
    listening,     \* server_fd is open
    backlog,       \* clients in the accept queue of the listening socket
    arrived,       \* clients that ever connected
    edge,          \* epoll has an unreported edge of the listening socket
    sock,          \* descriptor table: the client behind each descriptor
    epoll,         \* descriptors registered with epoll
    \* the server
    connections,   \* the map; None where it has no entry
    fdOf,          \* the fd field of each Connection, 0 before it exists
    mutex,         \* owner of each Connection's conn_mutex
    counts_,       \* open connections per address; 0 where it has no entry
    active_connections,
    queue,         \* the closures in the pool's queue
    events,        \* how many tasks and idle sweeps there were
    \* the threads
    pc,            \* where each thread is
    new,           \* the connection handle_accept is admitting
    task,          \* the connection the closure of a task refers to
    rm,            \* the connection remove_connection has taken off the map
    target,        \* descriptor remove_connection or handle_client_read is
                   \* called with, and whom the caller meant
    todo,          \* removals Main has decided on and not yet begun
    sweeping,      \* they are those of the idle sweep
    unscanned      \* descriptors the idle sweep has yet to look at

kernelVars == <<running, listening, backlog, arrived, edge>>
fdVars == <<sock, epoll>>
tableVars == <<connections, fdOf, mutex>>
limitVars == <<counts_, active_connections>>
poolVars == <<queue, events>>
threadVars == <<new, task, rm, target>>
mainVars == <<todo, sweeping, unscanned>>
vars == <<kernelVars, fdVars, tableVars, limitVars, poolVars, pc, threadVars, mainVars>>

NoTarget == [fd |-> 0, conn |-> None]

Init ==
    /\ running = TRUE /\ listening = TRUE
    /\ backlog = {} /\ arrived = {} /\ edge = FALSE
    /\ sock = [f \in Fds |-> None] /\ epoll = {}
    /\ connections = [f \in Fds |-> None]
    /\ fdOf = [c \in Conns |-> 0]
    /\ mutex = [c \in Conns |-> None]
    /\ counts_ = [i \in Ips |-> 0]
    /\ active_connections = 0
    /\ queue = <<>> /\ events = 0
    /\ pc = [t \in Threads |-> "idle"]
    /\ new = [t \in Threads |-> None]
    /\ task = [t \in Threads |-> None]
    /\ rm = [t \in Threads |-> None]
    /\ target = [t \in Threads |-> NoTarget]
    /\ todo = {} /\ sweeping = FALSE /\ unscanned = {}

-----------------------------------------------------------------------------
(* Descriptors and shared_ptr references *)

Mapped == {f \in Fds : connections[f] # None}
FreeFds == {f \in Fds : sock[f] = None}

\* Some shared_ptr to the Connection exists: in the map, in the closure of a
\* queued or a running task, or in a local variable of handle_accept,
\* handle_client_read or remove_connection.
Referenced(c) ==
    \/ \E f \in Fds : connections[f] = c
    \/ \E q \in Range(queue) : q.conn = c
    \/ \E t \in Threads : c \in {new[t], task[t], rm[t]}

\* close(f) frees the number whatever is behind it; the kernel then forgets
\* its epoll registration.
Close(F) ==
    /\ sock' = [f \in Fds |-> IF f \in F THEN None ELSE sock[f]]
    /\ epoll' = epoll \ F

\* Dropping references to the connections C: ~Connection closes the
\* descriptor of each one that was the last.
MutantCloseUnreferenced(C) == Close({fdOf[c] : c \in C \ {None}})
CloseUnreferenced(C) == Close({fdOf[c] : c \in {d \in C \ {None} : ~Referenced(d)'}})

Goto(t, l) == pc' = [pc EXCEPT ![t] = l]

\* conn_map_mtx is free: Main keeps it only while it sweeps, everybody else
\* releases it in the step that takes it.
MapFree == pc[Main] # "scan"

Happens == events < MaxEvents /\ events' = events + 1

-----------------------------------------------------------------------------
(* PerIpConnectionLimiter *)

UnderIpLimit(c) == counts_[IpOf[c]] < max_per_ip_

Acquire(c) == counts_' = [counts_ EXCEPT ![IpOf[c]] = @ + 1]

\* An entry that reaches 0 is erased; releasing an absent entry does nothing.
MutantRelease(c) == UNCHANGED counts_
Release(c) == counts_' = [counts_ EXCEPT ![IpOf[c]] = IF @ > 0 THEN @ - 1 ELSE 0]

-----------------------------------------------------------------------------
(* handle_accept *)

\* Where the accept loop returns: into remove_connection, or to the event loop.
AcceptReturns(t) == Goto(t, IF rm[t] # None THEN "rmDrop" ELSE "idle")

\* The loop condition and the check of the global cap.
MutantHasCapacity == TRUE
HasCapacity == active_connections < MAX_TOTAL_CONNECTIONS

AcceptLoop(t) ==
    /\ pc[t] = "accept"
    /\ IF running /\ HasCapacity THEN Goto(t, "acceptCall") ELSE AcceptReturns(t)
    /\ UNCHANGED <<kernelVars, fdVars, tableVars, limitVars, poolVars, threadVars, mainVars>>

\* accept() returns the lowest free descriptor.
AcceptCall(t) ==
    /\ pc[t] = "acceptCall"
    /\ listening /\ FreeFds # {}
    /\ \E c \in backlog :
          /\ backlog' = backlog \ {c}
          /\ sock' = [sock EXCEPT ![Min(FreeFds)] = c]
          /\ fdOf' = [fdOf EXCEPT ![c] = Min(FreeFds)]
          /\ new' = [new EXCEPT ![t] = c]
    /\ Goto(t, "limit")
    /\ UNCHANGED <<running, listening, arrived, edge, epoll, connections, mutex, limitVars,
                   poolVars, task, rm, target, mainVars>>

\* ECONNABORTED takes a dead client off the queue; the loop goes on.
AcceptTransient(t) ==
    /\ pc[t] = "acceptCall"
    /\ listening /\ FreeFds # {}
    /\ \E c \in backlog : backlog' = backlog \ {c}
    /\ Goto(t, "accept")
    /\ UNCHANGED <<running, listening, arrived, edge, fdVars, tableVars, limitVars, poolVars,
                   threadVars, mainVars>>

\* EAGAIN, EMFILE, or EBADF when the listening socket is already closed.
AcceptFails(t) ==
    /\ pc[t] = "acceptCall"
    /\ ~listening \/ backlog = {} \/ FreeFds = {}
    /\ AcceptReturns(t)
    /\ UNCHANGED <<kernelVars, fdVars, tableVars, limitVars, poolVars, threadVars, mainVars>>

TryAcquire(t) ==
    /\ pc[t] = "limit"
    /\ IF UnderIpLimit(new[t])
       THEN Acquire(new[t]) /\ Goto(t, "insert")
       ELSE UNCHANGED counts_ /\ Goto(t, "reject")
    /\ UNCHANGED <<kernelVars, fdVars, tableVars, active_connections, poolVars, threadVars,
                   mainVars>>

\* Over the cap of its address: close(client_fd), no Connection object.
MutantRejectCloses(c) == UNCHANGED <<sock, epoll>>
RejectCloses(c) == Close({fdOf[c]})

Reject(t) ==
    /\ pc[t] = "reject"
    /\ RejectCloses(new[t])
    /\ new' = [new EXCEPT ![t] = None]
    /\ Goto(t, "accept")
    /\ UNCHANGED <<kernelVars, tableVars, limitVars, poolVars, task, rm, target, mainVars>>

\* An entry that is still there is overwritten, which drops its shared_ptr.
Insert(t) ==
    /\ pc[t] = "insert" /\ MapFree
    /\ connections' = [connections EXCEPT ![fdOf[new[t]]] = new[t]]
    /\ Goto(t, "epollAdd")
    /\ UNCHANGED <<kernelVars, fdOf, mutex, limitVars, poolVars, threadVars, mainVars>>
    /\ CloseUnreferenced({connections[fdOf[new[t]]]})

EpollAdd(t) ==
    /\ pc[t] = "epollAdd"
    /\ epoll' = epoll \cup {fdOf[new[t]]}
    /\ Goto(t, "count")
    /\ UNCHANGED <<kernelVars, sock, tableVars, limitVars, poolVars, threadVars, mainVars>>

\* The counter, and the end of the loop body, where the local shared_ptr goes.
Count(t) ==
    /\ pc[t] = "count"
    /\ active_connections' = (active_connections + 1) % SizeModulus
    /\ new' = [new EXCEPT ![t] = None]
    /\ Goto(t, "accept")
    /\ UNCHANGED <<kernelVars, tableVars, counts_, poolVars, task, rm, target, mainVars>>
    /\ CloseUnreferenced({new[t]})

\* EPOLL_CTL_ADD failed: release, erase, close, continue.
EpollAddFails(t) ==
    /\ pc[t] = "epollAdd"
    /\ EpollAddMayFail
    /\ Release(new[t])
    /\ Goto(t, "undoErase")
    /\ UNCHANGED <<kernelVars, fdVars, tableVars, active_connections, poolVars, threadVars,
                   mainVars>>

UndoErase(t) ==
    /\ pc[t] = "undoErase" /\ MapFree
    /\ connections' = [connections EXCEPT ![fdOf[new[t]]] = None]
    /\ Goto(t, "undoClose")
    /\ UNCHANGED <<kernelVars, fdOf, mutex, limitVars, poolVars, threadVars, mainVars>>
    /\ CloseUnreferenced({connections[fdOf[new[t]]]})

UndoClose(t) ==
    /\ pc[t] = "undoClose"
    /\ Close({fdOf[new[t]]})
    /\ Goto(t, "undoDrop")
    /\ UNCHANGED <<kernelVars, tableVars, limitVars, poolVars, threadVars, mainVars>>

\* The local shared_ptr goes and ~Connection closes the same number again.
UndoDrop(t) ==
    /\ pc[t] = "undoDrop"
    /\ new' = [new EXCEPT ![t] = None]
    /\ Goto(t, "accept")
    /\ UNCHANGED <<kernelVars, tableVars, limitVars, poolVars, task, rm, target, mainVars>>
    /\ CloseUnreferenced({new[t]})

HandleAccept(t) ==
    \/ AcceptLoop(t) \/ AcceptCall(t) \/ AcceptTransient(t) \/ AcceptFails(t)
    \/ TryAcquire(t) \/ Reject(t) \/ Insert(t) \/ EpollAdd(t) \/ Count(t)
    \/ EpollAddFails(t) \/ UndoErase(t) \/ UndoClose(t) \/ UndoDrop(t)

-----------------------------------------------------------------------------
(* remove_connection *)

\* Back to the event loop, or to the end of the task, whose closure is
\* destroyed with its shared_ptr.
RemoveReturns(t) ==
    /\ Goto(t, "idle")
    /\ task' = [task EXCEPT ![t] = None]
    /\ target' = [target EXCEPT ![t] = NoTarget]

RmAbsent(t) ==
    /\ pc[t] = "rmFind" /\ MapFree
    /\ connections[target[t].fd] = None
    /\ RemoveReturns(t)
    /\ UNCHANGED <<kernelVars, tableVars, limitVars, poolVars, new, rm, mainVars>>
    /\ CloseUnreferenced({task[t]})

\* Find and erase under conn_map_mtx.
MutantErase(f) == UNCHANGED connections
Erase(f) == connections' = [connections EXCEPT ![f] = None]

RmFind(t) ==
    /\ pc[t] = "rmFind" /\ MapFree
    /\ connections[target[t].fd] # None
    /\ rm' = [rm EXCEPT ![t] = connections[target[t].fd]]
    /\ Erase(target[t].fd)
    /\ Goto(t, "rmRelease")
    /\ UNCHANGED <<kernelVars, fdVars, fdOf, mutex, limitVars, poolVars, new, task, target,
                   mainVars>>

RmRelease(t) ==
    /\ pc[t] = "rmRelease"
    /\ Release(rm[t])
    /\ Goto(t, "rmCount")
    /\ UNCHANGED <<kernelVars, fdVars, tableVars, active_connections, poolVars, threadVars,
                   mainVars>>

MutantDiscount == active_connections' = active_connections - 1
Discount == active_connections' = (active_connections - 1) % SizeModulus

RmCount(t) ==
    /\ pc[t] = "rmCount"
    /\ Discount
    /\ Goto(t, "rmLock")
    /\ UNCHANGED <<kernelVars, fdVars, tableVars, counts_, poolVars, threadVars, mainVars>>

\* Wait out the task that holds the mutex, then EPOLL_CTL_DEL.
RmLock(t) ==
    /\ pc[t] = "rmLock"
    /\ mutex[rm[t]] = None
    /\ mutex' = [mutex EXCEPT ![rm[t]] = t]
    /\ epoll' = epoll \ {target[t].fd}
    /\ Goto(t, "rmAccept")
    /\ UNCHANGED <<kernelVars, sock, connections, fdOf, limitVars, poolVars, threadVars, mainVars>>

\* The removal is the only chance to drain an accept queue left at capacity.
MutantReaccept == FALSE
Reaccept == running /\ listening

RmAccept(t) ==
    /\ pc[t] = "rmAccept"
    /\ Goto(t, IF Reaccept THEN "accept" ELSE "rmDrop")
    /\ UNCHANGED <<kernelVars, fdVars, tableVars, limitVars, poolVars, threadVars, mainVars>>

\* Unlock, drop the references, return.
RmDrop(t) ==
    /\ pc[t] = "rmDrop"
    /\ mutex' = [mutex EXCEPT ![rm[t]] = None]
    /\ rm' = [rm EXCEPT ![t] = None]
    /\ RemoveReturns(t)
    /\ UNCHANGED <<kernelVars, connections, fdOf, limitVars, poolVars, new, mainVars>>
    /\ CloseUnreferenced({rm[t], task[t]})

RemoveConnection(t) ==
    \/ RmAbsent(t) \/ RmFind(t) \/ RmRelease(t) \/ RmCount(t)
    \/ RmLock(t) \/ RmAccept(t) \/ RmDrop(t)

-----------------------------------------------------------------------------
(* Tasks *)

\* submit(): the closure goes into the queue, or the caller waits for room.
Enqueue(item) ==
    /\ Len(queue) < QUEUE_CAPACITY
    /\ queue' = Append(queue, item)

\* Main finds the connection of an event in the map; handle_client_read or
\* handle_client_write goes on to submit a task.
ClientEvent ==
    /\ pc[Main] = "idle" /\ ~sweeping
    /\ Happens
    /\ \E f \in Mapped : task' = [task EXCEPT ![Main] = connections[f]]
    /\ Goto(Main, "submit")
    /\ UNCHANGED <<kernelVars, fdVars, tableVars, limitVars, queue, new, rm, target, mainVars>>

\* The closure takes the shared_ptr along; the caller returns.
Submit(t) ==
    /\ pc[t] = "submit"
    /\ Enqueue([fd |-> fdOf[task[t]], conn |-> task[t]])
    /\ task' = [task EXCEPT ![t] = None]
    /\ target' = [target EXCEPT ![t] = NoTarget]
    /\ Goto(t, "idle")
    /\ UNCHANGED <<kernelVars, fdVars, tableVars, limitVars, events, new, rm, mainVars>>

\* A worker takes the next closure: a task, or a call of handle_client_read
\* that another task has submitted and that holds only the number.
TakeTask(w) ==
    /\ pc[w] = "idle" /\ queue # <<>>
    /\ queue' = Tail(queue)
    /\ task' = [task EXCEPT ![w] = Head(queue).conn]
    /\ IF Head(queue).conn = None
       THEN target' = [target EXCEPT ![w] = Head(queue)] /\ Goto(w, "find")
       ELSE UNCHANGED target /\ Goto(w, "task")
    /\ UNCHANGED <<kernelVars, fdVars, tableVars, limitVars, events, new, rm, mainVars>>

\* handle_client_read in the worker: nothing if the loop stops or the number is
\* off the map, else a task is submitted for whoever has the number.
FindAgain(w) ==
    /\ pc[w] = "find" /\ MapFree
    /\ IF running /\ target[w].fd \in Mapped
       THEN /\ task' = [task EXCEPT ![w] = connections[target[w].fd]]
            /\ Goto(w, "submit")
            /\ UNCHANGED target
       ELSE /\ target' = [target EXCEPT ![w] = NoTarget]
            /\ Goto(w, "idle")
            /\ UNCHANGED task
    /\ UNCHANGED <<kernelVars, fdVars, tableVars, limitVars, poolVars, new, rm, mainVars>>

\* The task waits for the mutex of its connection and keeps it for its I/O.
TaskLocks(w) ==
    /\ pc[w] = "task"
    /\ mutex[task[w]] = None
    /\ mutex' = [mutex EXCEPT ![task[w]] = w]
    /\ Goto(w, "io")
    /\ UNCHANGED <<kernelVars, fdVars, connections, fdOf, limitVars, poolVars, threadVars,
                   mainVars>>

\* The end of a task that leaves its connection open: unlock, and the closure
\* is destroyed with its shared_ptr.
TaskEnds(w) ==
    /\ mutex' = [mutex EXCEPT ![task[w]] = None]
    /\ task' = [task EXCEPT ![w] = None]
    /\ Goto(w, "idle")
    /\ UNCHANGED <<kernelVars, connections, fdOf, limitVars, events, new, rm, target, mainVars>>

TaskKeeps(w) ==
    /\ pc[w] = "io"
    /\ TaskEnds(w)
    /\ UNCHANGED queue
    /\ CloseUnreferenced({task[w]})

\* It met its limit of requests per pass and resubmits itself, by number, with
\* the mutex still held ...
TaskResubmits(w) ==
    /\ pc[w] = "io" /\ running
    /\ Happens
    /\ Goto(w, "resubmit")
    /\ UNCHANGED <<kernelVars, fdVars, tableVars, limitVars, queue, threadVars, mainVars>>

\* ... until the queue has room.
Resubmit(w) ==
    /\ pc[w] = "resubmit"
    /\ Enqueue([fd |-> fdOf[task[w]], conn |-> None])
    /\ TaskEnds(w)
    /\ CloseUnreferenced({task[w]})

MutantUnlockBeforeRemoving(w) == UNCHANGED mutex
UnlockBeforeRemoving(w) == mutex' = [mutex EXCEPT ![task[w]] = None]

\* It finds that its connection has to go: it leaves the scope of the lock and
\* calls remove_connection(client_fd).
TaskRemoves(w) ==
    /\ pc[w] = "io"
    /\ UnlockBeforeRemoving(w)
    /\ target' = [target EXCEPT ![w] = [fd |-> fdOf[task[w]], conn |-> task[w]]]
    /\ Goto(w, "rmFind")
    /\ UNCHANGED <<kernelVars, fdVars, connections, fdOf, limitVars, poolVars, new, task, rm,
                   mainVars>>

-----------------------------------------------------------------------------
(* The event loop *)

\* The edge of the listening socket is reported once.
ListenerEvent ==
    /\ pc[Main] = "idle" /\ ~sweeping
    /\ edge
    /\ edge' = FALSE
    /\ Goto(Main, IF running THEN "accept" ELSE "idle")
    /\ UNCHANGED <<running, listening, backlog, arrived, fdVars, tableVars, limitVars,
                   poolVars, threadVars, mainVars>>

\* epoll_wait returns a batch with EPOLLHUP or EPOLLERR events; Main remembers
\* only the numbers, conn says whom they meant.  The event of the listening
\* socket and those of other clients may stand between them.
HangupEvents ==
    /\ pc[Main] = "idle" /\ todo = {}
    /\ \E F \in SUBSET {f \in epoll : sock[f] \in MayHangUp} \ {{}} :
          todo' = {[fd |-> f, conn |-> sock[f]] : f \in F}
    /\ UNCHANGED <<kernelVars, fdVars, tableVars, limitVars, poolVars, pc, threadVars, sweeping,
                   unscanned>>

\* check_idle_timeouts takes conn_map_mtx ...
SweepBegins ==
    /\ pc[Main] = "idle" /\ todo = {} /\ Mapped # {}
    /\ Happens
    /\ unscanned' = Mapped
    /\ Goto(Main, "scan")
    /\ UNCHANGED <<kernelVars, fdVars, tableVars, limitVars, queue, threadVars, todo, sweeping>>

\* ... waits for the mutex of each connection in turn and notes the number of
\* one that was idle for too long ...
SweepLooks ==
    /\ pc[Main] = "scan"
    /\ \E f \in unscanned :
          /\ mutex[connections[f]] = None
          /\ unscanned' = unscanned \ {f}
          /\ todo' \in {todo, todo \cup {[fd |-> f, conn |-> connections[f]]}}
    /\ UNCHANGED <<kernelVars, fdVars, tableVars, limitVars, poolVars, pc, threadVars, sweeping>>

\* ... and gives conn_map_mtx back before it removes any.
SweepEnds ==
    /\ pc[Main] = "scan" /\ unscanned = {}
    /\ sweeping' = (todo # {})
    /\ Goto(Main, "idle")
    /\ UNCHANGED <<kernelVars, fdVars, tableVars, limitVars, poolVars, threadVars, todo, unscanned>>

\* The next removal of the batch or of time_out_fds.
RemoveNext ==
    /\ pc[Main] = "idle"
    /\ \E r \in todo :
          /\ todo' = todo \ {r}
          /\ target' = [target EXCEPT ![Main] = r]
          /\ sweeping' = (sweeping /\ todo # {r})
    /\ Goto(Main, "rmFind")
    /\ UNCHANGED <<kernelVars, fdVars, tableVars, limitVars, poolVars, new, task, rm, unscanned>>

\* In STOPPING the loop closes the listening socket, and its queue with it.
CloseListener ==
    /\ pc[Main] = "idle" /\ todo = {}
    /\ ~running /\ listening
    /\ listening' = FALSE
    /\ backlog' = {} /\ edge' = FALSE
    /\ UNCHANGED <<running, arrived, fdVars, tableVars, limitVars, poolVars, pc,
                   threadVars, mainVars>>

Stop ==
    /\ running
    /\ running' = FALSE
    /\ UNCHANGED <<listening, backlog, arrived, edge, fdVars, tableVars, limitVars,
                   poolVars, pc, threadVars, mainVars>>

\* A client completes its handshake: a new edge of the listening socket.
Connect(c) ==
    /\ listening /\ c \notin arrived
    /\ arrived' = arrived \cup {c}
    /\ backlog' = backlog \cup {c}
    /\ edge' = TRUE
    /\ UNCHANGED <<running, listening, fdVars, tableVars, limitVars, poolVars, pc,
                   threadVars, mainVars>>

-----------------------------------------------------------------------------

\* Steps a thread takes once it has begun something.
Proceeds(t) == HandleAccept(t) \/ RemoveConnection(t) \/ Submit(t)
MainProceeds == Proceeds(Main) \/ ListenerEvent \/ RemoveNext \/ SweepLooks \/ SweepEnds
WorkerProceeds(w) ==
    \/ Proceeds(w) \/ TakeTask(w) \/ FindAgain(w)
    \/ TaskLocks(w) \/ TaskKeeps(w) \/ TaskResubmits(w) \/ Resubmit(w) \/ TaskRemoves(w)

Next ==
    \/ MainProceeds
    \/ \E w \in Workers : WorkerProceeds(w)
    \/ ClientEvent \/ HangupEvents \/ SweepBegins \/ CloseListener \/ Stop
    \/ \E c \in Conns : Connect(c)

\* Threads are scheduled and epoll reports a pending edge; clients, hang-ups,
\* timeouts and the stop request come when they like.
Fairness == WF_vars(MainProceeds) /\ \A w \in Workers : WF_vars(WorkerProceeds(w))

Spec == Init /\ [][Next]_vars
FairSpec == Spec /\ Fairness

-----------------------------------------------------------------------------
(* Properties *)

PCs == {"idle", "accept", "acceptCall", "limit", "reject", "insert", "epollAdd", "count",
        "undoErase", "undoClose", "undoDrop",
        "submit", "find", "task", "io", "resubmit", "scan",
        "rmFind", "rmRelease", "rmCount", "rmLock", "rmAccept", "rmDrop"}

Targets == [fd : Fds \cup {0}, conn : Conns \cup {None}]

\* Every variable keeps its type.
TypeOK ==
    /\ running \in BOOLEAN /\ listening \in BOOLEAN /\ edge \in BOOLEAN
    /\ backlog \subseteq arrived /\ arrived \subseteq Conns
    /\ sock \in [Fds -> Conns \cup {None}] /\ epoll \subseteq Fds
    /\ connections \in [Fds -> Conns \cup {None}]
    /\ fdOf \in [Conns -> Fds \cup {0}]
    /\ mutex \in [Conns -> Threads \cup {None}]
    /\ counts_ \in [Ips -> Nat]
    /\ active_connections \in 0 .. SizeModulus - 1
    /\ pc \in [Threads -> PCs]
    /\ new \in [Threads -> Conns \cup {None}]
    /\ task \in [Threads -> Conns \cup {None}]
    /\ rm \in [Threads -> Conns \cup {None}]
    /\ target \in [Threads -> Targets]
    /\ todo \subseteq Targets /\ sweeping \in BOOLEAN /\ unscanned \subseteq Fds
    /\ queue \in Seq(Targets) /\ Len(queue) <= QUEUE_CAPACITY
    /\ events \in 0 .. MaxEvents

At(L) == {t \in Threads : pc[t] \in L}
MappedConns == {connections[f] : f \in Mapped}

\* The connections for which try_acquire succeeded and release has not run.
SlotHolders ==
    (MappedConns \ {new[t] : t \in At({"undoErase"})})
        \cup {new[t] : t \in At({"insert"})} \cup {rm[t] : t \in At({"rmRelease"})}

\* The count of an address is the number of its connections that hold a slot,
\* so no slot leaks and none is given back twice, and it respects the cap.
PerIpExact ==
    \A i \in Ips :
        /\ counts_[i] = Cardinality({c \in SlotHolders : IpOf[c] = i})
        /\ counts_[i] <= max_per_ip_

\* active_connections is the size of the map, up to the connections inserted
\* but not yet counted and those erased but not yet discounted, although a
\* connection may be discounted before it is counted and wrap the counter.
ActiveExact ==
    (active_connections + Cardinality(At({"epollAdd", "count", "undoErase"}))) % SizeModulus
        = (Cardinality(Mapped) + Cardinality(At({"rmRelease", "rmCount"}))) % SizeModulus

\* Every thread may check the cap before any of them counts, so the map can
\* exceed the cap, but only by the number of the other threads, the connections
\* included that threads past the check may still insert.
OvershootBounded ==
    Cardinality(Mapped) + Cardinality(At({"acceptCall", "limit", "insert"}))
        <= MAX_TOTAL_CONNECTIONS + Cardinality(Threads) - 1

\* The descriptor number of a connection in the map, or of one a task works
\* on, is its own open socket: no close() hits a number that was reused.
FdOwned == \A c \in (MappedConns \cup {task[w] : w \in Workers}) \ {None} : sock[fdOf[c]] = c

\* No descriptor leaks: an open one belongs to a Connection someone refers to.
NoFdLeak == \A f \in Fds : sock[f] # None => Referenced(sock[f]) /\ fdOf[sock[f]] = f

\* Where a thread is about to take conn_map_mtx.
MapPCs == {"insert", "undoErase", "rmFind", "find"}

\* The idle sweep takes conn_map_mtx and then one conn_mutex after the other;
\* remove_connection goes on to handle_accept, and so to conn_map_mtx, with a
\* conn_mutex held.  The two orders cannot deadlock: a thread that is about to
\* take conn_map_mtx holds no mutex of a connection in the map.
MapBeforeMutex ==
    \A f \in Mapped :
        mutex[connections[f]] # None => pc[mutex[connections[f]]] \notin MapPCs

\* A worker's remove_connection(client_fd) takes out the connection its task
\* was about, or nothing: the task's shared_ptr keeps the number from reuse.
WorkersRemoveTheirOwn ==
    [][\A w \in Workers :
          pc[w] = "rmFind" /\ pc'[w] = "rmRelease" => rm'[w] = target[w].conn]_vars

\* The same for Main, which holds only the number.
MainRemovesWhomItMeant ==
    [][pc[Main] = "rmFind" /\ pc'[Main] = "rmRelease" => rm'[Main] = target[Main].conn]_vars

\* Where a thread neither accepts nor removes.
QuietPCs == {"idle", "submit", "find", "task", "io", "resubmit", "scan"}

\* When nobody is accepting or removing and epoll has nothing to report, clients
\* wait in the accept queue only if the server is at capacity or out of
\* descriptors: a freed slot never leaves them behind.
NoStrandedBacklog ==
    (\A t \in Threads : pc[t] \in QuietPCs) /\ running /\ ~edge /\ backlog # {}
        => ~HasCapacity \/ FreeFds = {}

\* The thread waits in submit(), for a conn_mutex, or for conn_map_mtx.
Blocked(t) ==
    \/ pc[t] \in {"submit", "resubmit"} /\ Len(queue) = QUEUE_CAPACITY
    \/ pc[t] = "task" /\ mutex[task[t]] # None
    \/ pc[t] = "rmLock" /\ mutex[rm[t]] # None
    \/ pc[t] \in MapPCs /\ ~MapFree
    \/ /\ pc[t] = "scan" /\ unscanned # {}
       /\ \A f \in unscanned : mutex[connections[f]] # None

\* The thread has nothing to do.
Resting(t) == pc[t] = "idle" /\ (t \in Workers => queue = <<>>)

\* A worker waits in submit(), which only a worker could end.
NestedSubmit == \E w \in Workers : pc[w] \in {"submit", "resubmit"}

\* The threads never wait for each other in a circle, whatever they hold of
\* conn_map_mtx, conn_mutexes and places in the queue, unless a worker waits in
\* submit(): if nobody can move, all are at rest or a worker submits.
StuckOnlyInSubmit ==
    (\A t \in Threads : Resting(t) \/ Blocked(t))
        => NestedSubmit \/ \A t \in Threads : Resting(t)

\* Nobody takes a task off the full queue any more.
Jammed == NestedSubmit /\ \A t \in Threads : Resting(t) \/ Blocked(t)

\* Every wait of a thread that accepts, removes, sweeps, submits or runs a task
\* ends, unless a worker that waits in submit() holds everybody up.
ThreadsReturn == \A t \in Threads : pc[t] # "idle" ~> (pc[t] = "idle" \/ Jammed)

\* Waiting clients are accepted, or the server is full, stopping or jammed.
BacklogDrains == [](backlog # {} => <>(backlog = {} \/ ~HasCapacity \/ ~running \/ Jammed))
=============================================================================
