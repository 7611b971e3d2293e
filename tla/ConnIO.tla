-------------------------------- MODULE ConnIO --------------------------------
(***************************************************************************)
(* One client connection: the event loop that reports its readiness, the   *)
(* read and write tasks that workers run for it (handle_client_read and    *)
(* handle_client_write), its Connection object and its socket.             *)
(*                                                                         *)
(* The client sends requests of Parts units each; an answer is a run of    *)
(* units.  A unit is the least amount that recv() and send() can tell      *)
(* apart.  What a request asks for is chosen when the parser reaches its   *)
(* last unit.  Main reports an event and submits the tasks;                *)
(* workers take tasks in order, and several of them can be busy with this  *)
(* connection.  How a full queue blocks its users is TaskQueue's subject,  *)
(* how descriptors and counters are released is Admission's.               *)
(***************************************************************************)
EXTENDS Integers, Sequences, FiniteSetsExt

CONSTANTS Workers,
          Main,
          Nobody,       \* the mutex is free
          MaxRequests,  \* bound on the requests of the client
          Kinds,        \* what they may be: answered and kept open, answered and
                        \* closed, malformed, or failing in the handler
          Parts,        \* units of a request
          AnswerSize,   \* units of the answer of a handler
          ErrorSize,    \* units of a 400 or a 429
          SockBuf,      \* units the kernel's send buffer holds
          ParseLimit,   \* requests one task parses beyond the first (50 in the code)
          Pipelines,    \* the client may send a request before it has the last answer
          MayDeny,      \* the rate limiter may say no
          MayHangUp,    \* ways the client may leave: subset of {"fin", "rst"}
          MayStop,      \* the loop may be asked to stop
          IDLE_TIMEOUT_SECONDS,
          MaxTime       \* bound on the clock

Requests == 1 .. MaxRequests
Threads == Workers \cup {Main}

ASSUME ConnIOAssumption ==
    /\ Main \notin Workers /\ Nobody \notin Threads
    /\ Kinds \subseteq {"keep", "close", "bad", "throw"} /\ MaxRequests \in Nat
    /\ Parts \in Nat \ {0} /\ AnswerSize \in Nat \ {0} /\ ErrorSize \in Nat \ {0}
    /\ SockBuf \in Nat \ {0} /\ ParseLimit \in Nat /\ MaxTime \in Nat
    /\ IDLE_TIMEOUT_SECONDS \in Nat \ {0}
    /\ {Pipelines, MayDeny, MayStop} \subseteq BOOLEAN
    /\ MayHangUp \subseteq {"fin", "rst"}

VARIABLES
    running,      \* state is RUNNING (otherwise STOPPING)
    now,          \* steady_clock
    \* the client and the kernel's socket
    sent,         \* units of requests the client has sent
    inKernel,     \* of them, units recv() has not returned yet
    hangup,       \* "no", "fin" or "rst"
    wire,         \* units send() has accepted
    clientRead,   \* of them, units the client has read
    armed,        \* the events epoll reports next; {} once one was reported
    registered,   \* the descriptor is in the epoll set
    \* the Connection
    mapped,       \* the connections map has it
    mutex,        \* owner of conn_mutex
    received,     \* units ever appended to read_buffer
    parsed,       \* requests parsed and reset
    stuck,        \* kind of the next one, which the parser has finished (or failed
                  \* at) without being reset; "no" otherwise
    write_buffer,
    close_after_write_flag,
    last_activity,
    \* the threads
    queue,        \* tasks submitted and not taken
    pc,           \* where each thread is
    loc,          \* the local variables of each worker's task
    evs,          \* events Main is dispatching
    \* observers
    answers,      \* answers produced
    committed,    \* which of them first announced the close; 0 if none
    rejected      \* a 400 or 429 was produced

clientVars == <<sent, inKernel, hangup, clientRead>>
epollVars == <<armed, registered>>
connVars == <<received, parsed, stuck, write_buffer, close_after_write_flag, last_activity>>
observerVars == <<answers, committed, rejected>>
vars == <<running, now, clientVars, wire, epollVars, mapped, mutex, connVars, queue, pc, loc,
          evs, observerVars>>

\* loop_counter, close_after_response, has_more_parseable, has_error, the value
\* flush() returned, the units send() has taken that are not erased yet
NoLocals == [count |-> 0, closing |-> FALSE, more |-> FALSE, error |-> FALSE,
             flushed |-> FALSE, taken |-> 0]

\* The state handle_accept leaves: mapped, registered for input.
Init ==
    /\ running = TRUE /\ now = 0
    /\ sent = 0 /\ inKernel = 0 /\ hangup = "no" /\ wire = <<>> /\ clientRead = 0
    /\ armed = {"IN"} /\ registered = TRUE
    /\ mapped = TRUE /\ mutex = Nobody
    /\ received = 0 /\ parsed = 0 /\ stuck = "no" /\ write_buffer = <<>>
    /\ close_after_write_flag = FALSE /\ last_activity = 0
    /\ queue = <<>>
    /\ pc = [t \in Threads |-> "idle"]
    /\ loc = [w \in Workers |-> NoLocals]
    /\ evs = {}
    /\ answers = 0 /\ committed = 0 /\ rejected = FALSE

Goto(t, l) == pc' = [pc EXCEPT ![t] = l]

\* EPOLL_CTL_MOD fails once the descriptor was deleted from the epoll set.
ModifyEpoll(events) == armed' = IF registered THEN events ELSE armed

-----------------------------------------------------------------------------
(* The client and the kernel *)

Answer(r, n) == [k \in 1 .. n |-> [req |-> r, left |-> n - k]]
Answered(r) == \E k \in 1 .. clientRead : wire[k].req = r /\ wire[k].left = 0
FullySent(r) == sent >= r * Parts
Room == SockBuf - (Len(wire) - clientRead)

ClientSends ==
    /\ hangup = "no" /\ sent < MaxRequests * Parts
    /\ Pipelines \/ \A r \in Requests : FullySent(r) => Answered(r)
    /\ sent' = sent + 1 /\ inKernel' = inKernel + 1
    /\ UNCHANGED <<running, now, hangup, clientRead, wire, epollVars, mapped, mutex, connVars,
                   queue, pc, loc, evs, observerVars>>

ClientReads ==
    /\ hangup # "rst" /\ clientRead < Len(wire)
    /\ clientRead' = clientRead + 1
    /\ UNCHANGED <<running, now, sent, inKernel, hangup, wire, epollVars, mapped, mutex,
                   connVars, queue, pc, loc, evs, observerVars>>

ClientLeaves ==
    /\ hangup' \in MayHangUp
    /\ hangup = "no" \/ (hangup = "fin" /\ hangup' = "rst")
    /\ UNCHANGED <<running, now, sent, inKernel, clientRead, wire, epollVars, mapped, mutex,
                   connVars, queue, pc, loc, evs, observerVars>>

Tick ==
    /\ now < MaxTime /\ now' = now + 1
    /\ UNCHANGED <<running, clientVars, wire, epollVars, mapped, mutex, connVars, queue, pc,
                   loc, evs, observerVars>>

\* EventLoop::stop() moves state to STOPPING.
Stop ==
    /\ MayStop /\ running /\ running' = FALSE
    /\ UNCHANGED <<now, clientVars, wire, epollVars, mapped, mutex, connVars, queue, pc, loc,
                   evs, observerVars>>

Readiness ==
    {e \in {"IN", "OUT", "HUP"} :
        \/ hangup = "rst"
        \/ e = "IN" /\ (inKernel > 0 \/ hangup = "fin")
        \/ e = "OUT" /\ Room > 0}

-----------------------------------------------------------------------------
(* The event loop *)

\* epoll_wait reports the events the descriptor is armed for and, armed for
\* anything, an error or hangup; EPOLLONESHOT then disarms it altogether.
EpollWait ==
    LET reported == IF armed = {} THEN {} ELSE Readiness \cap (armed \cup {"HUP"}) IN
    /\ pc[Main] = "idle"
    /\ reported # {}
    /\ evs' = reported /\ armed' = {}
    /\ Goto(Main, IF "HUP" \in reported THEN "remove" ELSE "dispatchRead")
    /\ UNCHANGED <<running, now, clientVars, wire, registered, mapped, mutex, connVars, queue,
                   loc, observerVars>>

\* handle_client_read: nothing unless running and mapped, then submit.
HandleClientRead(q) == IF running /\ mapped THEN Append(q, "read") ELSE q

DispatchRead ==
    /\ pc[Main] = "dispatchRead"
    /\ queue' = IF "IN" \in evs THEN HandleClientRead(queue) ELSE queue
    /\ Goto(Main, "dispatchWrite")
    /\ UNCHANGED <<running, now, clientVars, wire, epollVars, mapped, mutex, connVars, loc, evs,
                   observerVars>>

\* handle_client_write runs in every state of the loop.
DispatchWrite ==
    /\ pc[Main] = "dispatchWrite"
    /\ queue' = IF "OUT" \in evs /\ mapped THEN Append(queue, "write") ELSE queue
    /\ evs' = {}
    /\ Goto(Main, "idle")
    /\ UNCHANGED <<running, now, clientVars, wire, epollVars, mapped, mutex, connVars, loc,
                   observerVars>>

\* check_idle_timeouts finds the connection idle; the removal follows later.
SweepFindsIdle ==
    /\ pc[Main] = "idle" /\ mapped
    /\ mutex = Nobody
    /\ now - last_activity >= IDLE_TIMEOUT_SECONDS
    /\ Goto(Main, "remove")
    /\ UNCHANGED <<running, now, clientVars, wire, epollVars, mapped, mutex, connVars, queue,
                   loc, evs, observerVars>>

\* remove_connection: the map entry goes first ...
RemoveConnection(t) ==
    /\ pc[t] = "remove"
    /\ mapped' = FALSE
    /\ Goto(t, IF mapped THEN "unregister" ELSE "idle")
    /\ IF t = Main THEN evs' = {} ELSE UNCHANGED evs
    /\ UNCHANGED <<running, now, clientVars, wire, epollVars, mutex, connVars, queue, loc,
                   observerVars>>

\* ... and the epoll registration once no task holds the connection's mutex.
Unregister(t) ==
    /\ pc[t] = "unregister" /\ mutex = Nobody
    /\ registered' = FALSE /\ armed' = {}
    /\ Goto(t, "idle")
    /\ UNCHANGED <<running, now, clientVars, wire, mapped, mutex, connVars, queue, loc, evs,
                   observerVars>>

-----------------------------------------------------------------------------
(* Tasks *)

\* A worker takes the next task.  "again" is the closure that calls
\* handle_client_read, submitted by a task that stopped at the parse limit.
TakeTask(w) ==
    /\ pc[w] = "idle" /\ queue # <<>>
    /\ Goto(w, CASE Head(queue) = "read"  -> "lockRead"
                 [] Head(queue) = "write" -> "lockWrite"
                 [] Head(queue) = "again" -> "again")
    /\ queue' = Tail(queue)
    /\ loc' = [loc EXCEPT ![w] = NoLocals]
    /\ UNCHANGED <<running, now, clientVars, wire, epollVars, mapped, mutex, connVars, evs,
                   observerVars>>

ReadAgain(w) ==
    /\ pc[w] = "again"
    /\ queue' = HandleClientRead(queue)
    /\ Goto(w, "idle")
    /\ UNCHANGED <<running, now, clientVars, wire, epollVars, mapped, mutex, connVars, loc, evs,
                   observerVars>>

MutantMayLock(w) == TRUE
MayLock(w) == mutex = Nobody

Lock(w) ==
    /\ MayLock(w)
    /\ \/ pc[w] = "lockRead" /\ Goto(w, "recv")
       \/ pc[w] = "lockWrite" /\ Goto(w, "flushWrite")
    /\ mutex' = w
    /\ UNCHANGED <<running, now, clientVars, wire, epollVars, mapped, connVars, queue, loc, evs,
                   observerVars>>

\* The mutex is released when the block that holds the lock_guard is left.
Leave(w, l) == mutex' = Nobody /\ Goto(w, l)

\* recv() until it would block or the loop stops running ...
RecvData(w) ==
    /\ pc[w] = "recv" /\ running
    /\ inKernel > 0 /\ hangup # "rst"
    /\ received' = received + inKernel /\ inKernel' = 0
    /\ last_activity' = now
    /\ UNCHANGED <<running, now, sent, hangup, clientRead, wire, epollVars, mapped, mutex,
                   parsed, stuck, write_buffer, close_after_write_flag, queue, pc, loc, evs,
                   observerVars>>

RecvStops(w) ==
    /\ pc[w] = "recv"
    /\ ~running \/ (inKernel = 0 /\ hangup = "no")
    /\ Goto(w, "parse")
    /\ UNCHANGED <<running, now, clientVars, wire, epollVars, mapped, mutex, connVars, queue,
                   loc, evs, observerVars>>

\* ... or reports the end of the stream or an error, which closes the connection
\* with whatever is buffered.
RecvEnds(w) ==
    /\ pc[w] = "recv" /\ running
    /\ hangup = "rst" \/ (hangup = "fin" /\ inKernel = 0)
    /\ Leave(w, "remove")
    /\ UNCHANGED <<running, now, clientVars, wire, epollVars, mapped, connVars, queue, loc, evs,
                   observerVars>>

-----------------------------------------------------------------------------
(* The parse loop *)

Complete == received >= (parsed + 1) * Parts

\* parse() yields a result.  A parser that was not reset yields the last one
\* again, provided the loop is entered: read_buffer is not empty.
Parseable == IF stuck = "no" THEN Complete ELSE received > (parsed + 1) * Parts
Parses(kind) == Parseable /\ stuck \in {"no", kind}

AppendUnsent(units) ==
    /\ write_buffer' = write_buffer \o units
    /\ last_activity' = now
    /\ answers' = answers + 1

Commits(closing) == committed' = IF committed = 0 /\ closing THEN answers + 1 ELSE committed

\* The buffer is empty or the request in it is incomplete: to the flush phase.
ParseIncomplete(w) ==
    /\ pc[w] = "parse" /\ ~Parseable
    /\ Goto(w, "flush")
    /\ UNCHANGED <<running, now, clientVars, wire, epollVars, mapped, mutex, connVars, queue,
                   loc, evs, observerVars>>

\* Where an error answer goes next: to a flush of its own.
MutantAfterReject == "dropError"
AfterReject == "flushError"

\* A 400 or a 429 is queued, flushed once and the connection closed.  The jump
\* to the cleanup label skips the reset of the parser.
ParseRejects(w) ==
    /\ pc[w] = "parse"
    /\ \E kind \in Kinds :
          /\ Parses(kind) /\ (kind = "bad" \/ MayDeny)
          /\ stuck' = kind
    /\ AppendUnsent(Answer(parsed + 1, ErrorSize))
    /\ rejected' = TRUE
    /\ Commits(TRUE)
    /\ Goto(w, AfterReject)
    /\ UNCHANGED <<running, now, clientVars, wire, epollVars, mapped, mutex, received, parsed,
                   close_after_write_flag, queue, loc, evs>>

\* The handler throws: the catch clause closes the connection.
ParseThrows(w) ==
    /\ pc[w] = "parse" /\ "throw" \in Kinds /\ Parses("throw")
    /\ stuck' = "throw"
    /\ Leave(w, "remove")
    /\ UNCHANGED <<running, now, clientVars, wire, epollVars, mapped, received, parsed,
                   write_buffer, close_after_write_flag, last_activity, queue, loc, evs,
                   observerVars>>

\* One answer is queued and the parser reset.  The loop ends when the answer
\* closes the connection or the count of requests passes the limit.
ParseAnswers(w) ==
    /\ pc[w] = "parse"
    /\ \E kind \in Kinds \cap {"keep", "close"} :
          LET closing == kind = "close"
              more    == ~closing /\ loc[w].count + 1 > ParseLimit
          IN
          /\ Parses(kind)
          /\ Commits(closing)
          /\ loc' = [loc EXCEPT ![w].count = @ + 1, ![w].closing = closing, ![w].more = more]
          /\ Goto(w, IF closing \/ more THEN "flush" ELSE "parse")
    /\ AppendUnsent(Answer(parsed + 1, AnswerSize))
    /\ parsed' = parsed + 1 /\ stuck' = "no"
    /\ UNCHANGED <<running, now, clientVars, wire, epollVars, mapped, mutex, received,
                   close_after_write_flag, queue, evs, rejected>>

-----------------------------------------------------------------------------
(* Connection::flush, in a read task, its error path and a write task *)

Flushing == {"flush", "flushError", "flushWrite"}
AfterFlush == [flush |-> "rearm", flushError |-> "dropError", flushWrite |-> "unlock"]

\* send() accepts what the kernel's buffer has room for ...
Send(w) ==
    /\ pc[w] \in Flushing /\ loc[w].taken = 0
    /\ hangup # "rst" /\ write_buffer # <<>> /\ Room > 0
    /\ LET n == Min({Room, Len(write_buffer)}) IN
          /\ wire' = wire \o SubSeq(write_buffer, 1, n)
          /\ loc' = [loc EXCEPT ![w].taken = n]
    /\ UNCHANGED <<running, now, clientVars, epollVars, mapped, mutex, connVars, queue, pc, evs,
                   observerVars>>

\* ... and what it accepted is erased from the front of write_buffer.
EraseSent(w) ==
    /\ pc[w] \in Flushing /\ loc[w].taken > 0
    /\ write_buffer' = SubSeq(write_buffer, loc[w].taken + 1, Len(write_buffer))
    /\ loc' = [loc EXCEPT ![w].taken = 0]
    /\ UNCHANGED <<running, now, clientVars, wire, epollVars, mapped, mutex, received, parsed,
                   stuck, close_after_write_flag, last_activity, queue, pc, evs, observerVars>>

FlushReturns(w) ==
    /\ pc[w] \in Flushing /\ loc[w].taken = 0
    /\ write_buffer = <<>> \/ Room <= 0 \/ hangup = "rst"
    /\ loc' = [loc EXCEPT ![w].flushed = write_buffer = <<>>,
                          ![w].error = write_buffer # <<>> /\ hangup = "rst"]
    /\ Goto(w, AfterFlush[pc[w]])
    /\ UNCHANGED <<running, now, clientVars, wire, epollVars, mapped, mutex, connVars, queue,
                   evs, observerVars>>

-----------------------------------------------------------------------------
(* The end of a read task *)

\* After an error answer, after a failed send and after the last answer.
ReadCloses(w) ==
    /\ \/ pc[w] = "dropError"
       \/ pc[w] = "rearm" /\ (loc[w].error \/ (loc[w].closing /\ loc[w].flushed))
    /\ Leave(w, "remove")
    /\ UNCHANGED <<running, now, clientVars, wire, epollVars, mapped, connVars, queue, loc, evs,
                   observerVars>>

\* The last answer is not out yet: only output is of interest.
MutantReadLingers(w) ==
    /\ pc[w] = "rearm" /\ ~loc[w].error /\ loc[w].closing /\ ~loc[w].flushed
    /\ ModifyEpoll({"OUT"})
    /\ Leave(w, "idle")
    /\ UNCHANGED <<running, now, clientVars, wire, registered, mapped, connVars, queue, loc, evs,
                   observerVars>>
ReadLingers(w) ==
    /\ pc[w] = "rearm" /\ ~loc[w].error /\ loc[w].closing /\ ~loc[w].flushed
    /\ close_after_write_flag' = TRUE
    /\ ModifyEpoll({"OUT"})
    /\ Leave(w, "idle")
    /\ UNCHANGED <<running, now, clientVars, wire, registered, mapped, received, parsed,
                   stuck, write_buffer, last_activity, queue, loc, evs, observerVars>>

MutantReadInterest(w) == {"IN"}
ReadInterest(w) ==
    {"IN"} \cup (IF ~loc[w].flushed \/ write_buffer # <<>> THEN {"OUT"} ELSE {})

MutantResubmits(w) == FALSE
Resubmits(w) == loc[w].more /\ running

\* Re-arm, and queue another pass over what is left in read_buffer.
ReadRearms(w) ==
    /\ pc[w] = "rearm" /\ ~loc[w].error /\ ~loc[w].closing
    /\ ModifyEpoll(ReadInterest(w))
    /\ queue' = IF Resubmits(w) THEN Append(queue, "again") ELSE queue
    /\ Leave(w, "idle")
    /\ UNCHANGED <<running, now, clientVars, wire, registered, mapped, connVars, loc, evs,
                   observerVars>>

-----------------------------------------------------------------------------
(* The end of a write task: it decides after it has released the mutex *)

MutantClosesNow(w) == FALSE
ClosesNow(w) == loc[w].flushed /\ close_after_write_flag

WriteUnlocks(w) ==
    /\ pc[w] = "unlock"
    /\ Leave(w, "decide")
    /\ loc' = [loc EXCEPT ![w].closing = ClosesNow(w)]
    /\ UNCHANGED <<running, now, clientVars, wire, epollVars, mapped, connVars, queue, evs,
                   observerVars>>

\* An error, the end of the last answer, or a drained buffer during shutdown.
WriteCloses(w) ==
    /\ pc[w] = "decide"
    /\ loc[w].error \/ loc[w].closing \/ (loc[w].flushed /\ ~running)
    /\ Goto(w, "remove")
    /\ UNCHANGED <<running, now, clientVars, wire, epollVars, mapped, mutex, connVars, queue,
                   loc, evs, observerVars>>

\* state is read here and the descriptor re-armed in the next step.
WriteGoesOn(w) ==
    /\ pc[w] = "decide"
    /\ ~loc[w].error /\ ~loc[w].closing
    /\ \/ loc[w].flushed /\ running /\ Goto(w, "armIn")
       \/ ~loc[w].flushed /\ running /\ Goto(w, "armBoth")
       \/ ~loc[w].flushed /\ ~running /\ Goto(w, "armOut")
    /\ UNCHANGED <<running, now, clientVars, wire, epollVars, mapped, mutex, connVars, queue,
                   loc, evs, observerVars>>

MutantWriteInterest == [armIn |-> {"OUT"}, armBoth |-> {}, armOut |-> {"OUT"}]
WriteInterest == [armIn |-> {"IN"}, armBoth |-> {"IN", "OUT"}, armOut |-> {"OUT"}]

WriteRearms(w) ==
    /\ pc[w] \in DOMAIN WriteInterest
    /\ ModifyEpoll(WriteInterest[pc[w]])
    /\ Goto(w, "idle")
    /\ UNCHANGED <<running, now, clientVars, wire, registered, mapped, mutex, connVars, queue,
                   loc, evs, observerVars>>

-----------------------------------------------------------------------------

ReadTask(w) ==
    \/ RecvData(w) \/ RecvStops(w) \/ RecvEnds(w)
    \/ ParseIncomplete(w) \/ ParseRejects(w) \/ ParseThrows(w) \/ ParseAnswers(w)
    \/ ReadCloses(w) \/ ReadLingers(w) \/ ReadRearms(w)
WriteTask(w) ==
    WriteUnlocks(w) \/ WriteCloses(w) \/ WriteGoesOn(w) \/ WriteRearms(w)
Work(w) ==
    \/ TakeTask(w) \/ ReadAgain(w) \/ Lock(w) \/ ReadTask(w)
    \/ Send(w) \/ EraseSent(w) \/ FlushReturns(w) \/ WriteTask(w)
    \/ RemoveConnection(w) \/ Unregister(w)
Dispatch ==
    \/ EpollWait \/ DispatchRead \/ DispatchWrite
    \/ RemoveConnection(Main) \/ Unregister(Main)
Loop == Dispatch \/ SweepFindsIdle
Client == ClientSends \/ ClientReads \/ ClientLeaves

Next == Client \/ Tick \/ Stop \/ Loop \/ \E w \in Workers : Work(w)

Spec == Init /\ [][Next]_vars

\* Threads run and release the mutex, epoll reports, the client keeps reading.
FairSpec ==
    /\ Spec
    /\ WF_vars(Dispatch) /\ WF_vars(ClientReads)
    /\ \A w \in Workers : WF_vars(Work(w))

-----------------------------------------------------------------------------
(* Properties *)

Labels == {"idle", "remove", "unregister", "dispatchRead", "dispatchWrite", "again",
           "lockRead", "lockWrite", "recv", "parse", "flush", "flushError", "flushWrite",
           "rearm", "dropError", "unlock", "decide", "armIn", "armBoth", "armOut"}
InMutex == {"recv", "parse", "flush", "flushError", "flushWrite", "rearm", "dropError", "unlock"}

Units == [req : Requests, left : Nat]
Locals == [count : Nat, closing : BOOLEAN, more : BOOLEAN, error : BOOLEAN,
           flushed : BOOLEAN, taken : Nat]

SocketOK ==
    /\ running \in BOOLEAN /\ now \in 0 .. MaxTime
    /\ sent \in 0 .. MaxRequests * Parts /\ inKernel \in Nat /\ received \in Nat
    /\ sent = inKernel + received
    /\ hangup \in {"no", "fin", "rst"}
    /\ wire \in Seq(Units) /\ clientRead \in 0 .. Len(wire)
    /\ armed \subseteq {"IN", "OUT"} /\ registered \in BOOLEAN
ConnectionOK ==
    /\ mapped \in BOOLEAN /\ write_buffer \in Seq(Units)
    /\ parsed \in 0 .. MaxRequests /\ parsed * Parts <= received
    /\ stuck \in {"no"} \cup Kinds
    /\ close_after_write_flag \in BOOLEAN /\ last_activity \in 0 .. now
    /\ answers \in Nat /\ committed \in 0 .. answers /\ rejected \in BOOLEAN
TasksOK ==
    /\ queue \in Seq({"read", "write", "again"})
    /\ loc \in [Workers -> Locals]
    /\ evs \subseteq {"IN", "OUT", "HUP"}
MutexOK ==
    /\ pc \in [Threads -> Labels] /\ mutex \in Workers \cup {Nobody}
    /\ \A w \in Workers : pc[w] \in InMutex <=> mutex = w

\* The types, the bytes of the client accounted for, and a task that is where
\* conn_mutex protects it owns the mutex.
TypeOK == SocketOK /\ ConnectionOK /\ TasksOK /\ MutexOK

\* No task of the connection is queued or under way and Main waits for events.
Quiescent == queue = <<>> /\ \A t \in Threads : pc[t] = "idle"

\* What send() puts on the wire is the answers in the order of the requests, no
\* unit lost, repeated or mixed with another answer, although read tasks and
\* write tasks of the connection run at once (conn_mutex, flush).
WireInOrder ==
    /\ wire # <<>> => wire[1].req = 1
    /\ \A k \in 1 .. Len(wire) - 1 :
          wire[k + 1].req = IF wire[k].left > 0 THEN wire[k].req ELSE wire[k].req + 1
    /\ \A k \in 1 .. Len(wire) - 1 :
          wire[k].left > 0 => wire[k + 1].left = wire[k].left - 1

\* While the loop runs, a connection nobody works for is armed: whichever way
\* its tasks ended, a EPOLLONESHOT report never leaves it deaf.
NeverDeaf == Quiescent /\ mapped /\ running => armed # {}

\* While the loop runs, no complete request is left in read_buffer when all
\* tasks are done: the pass that stops at the parse limit queues another one,
\* since no event would report bytes that were already received.
NothingLeftUnparsed ==
    Quiescent /\ mapped /\ running /\ ~close_after_write_flag => ~Complete

\* While the loop runs and no task is left, unsent bytes have EPOLLOUT armed
\* ("EPOLLOUT is added when queued response data still needs to be sent").
UnsentIsArmed ==
    Quiescent /\ mapped /\ running /\ write_buffer # <<>> => "OUT" \in armed

\* The same while the loop is stopping ("drains in-flight writes").
StoppingDrains ==
    Quiescent /\ mapped /\ ~running /\ write_buffer # <<>> => "OUT" \in armed

\* Once an answer has announced the close, no later request of the connection is
\* parsed and answered ("Stop pipelining once we've committed to closing").
NothingAfterClose == committed # 0 => answers = committed

\* A connection marked to close after its last bytes is not kept once they are
\* out ("closes instead of re-arming EPOLLIN once the buffer finally drains").
CloseIsHonoured ==
    Quiescent /\ close_after_write_flag /\ write_buffer = <<>> => ~mapped

\* A 400 or 429 has been handed to the kernel completely when the connection is
\* taken down, unless the client left ("return 400", "receive a 429 response").
ErrorAnswerSent ==
    rejected /\ ~mapped /\ hangup = "no" /\ (\A w \in Workers : pc[w] \notin Flushing)
        => write_buffer = <<>>

\* A client that reads gets the whole answer to every request it sent, or the
\* connection is closed.
RequestsAnswered ==
    \A r \in Requests : FullySent(r) ~> (Answered(r) \/ ~mapped)

=============================================================================
