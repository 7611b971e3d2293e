----------------------------- MODULE TaskQueue ------------------------------
(***************************************************************************)
(* The bounded task queue (TaskQueue.cpp) and the thread pool that drains  *)
(* it (ThreadPool.cpp).  The event-loop thread Main submits tasks and      *)
(* finally destroys the pool; every worker repeats remove(); task().  A    *)
(* task may itself submit one more task (the read task of EventLoop does): *)
(* Child[t] is that task, NoTask when there is none.                       *)
(*                                                                         *)
(* All state of the queue is read and written under queue_mtx, so one      *)
(* stretch under the mutex is one action.  A notification comes after the  *)
(* unlock and is an action of its own.  A thread blocked in wait() has pc  *)
(* "waitFull" or "waitEmpty"; being notified sends it back to re-evaluate  *)
(* its predicate.                                                          *)
(***************************************************************************)
EXTENDS Integers, Sequences, FiniteSets

CONSTANTS Workers,          \* the threads of the pool
          Main,             \* the thread that runs the event loop
          Tasks,            \* the tasks
          NoTask,           \* an empty std::function
          Child,            \* the task a task submits while it runs
          QUEUE_CAPACITY    \* slots of the ring buffer

ASSUME TaskQueueAssumption ==
    /\ Workers # {} /\ IsFiniteSet(Workers) /\ Main \notin Workers
    /\ NoTask \notin Tasks
    /\ Child \in [Tasks -> Tasks \cup {NoTask}]
    /\ QUEUE_CAPACITY \in Nat \ {0}

Threads == Workers \cup {Main}

Slots == 0 .. QUEUE_CAPACITY - 1

\* The tasks the event loop itself submits: those no other task submits.
Roots == {t \in Tasks : \A p \in Tasks : Child[p] # t}

VARIABLES tasks,        \* the ring buffer
          head, tail,   \* next slot to take, next slot to fill
          buffer_len,   \* number of tasks in the buffer
          shutdown,     \* stop() was called
          pc,           \* where each thread is
          job,          \* the task Main submits, the task a worker runs
          accepted,     \* history: tasks whose submit() returned true
          done          \* history: tasks that ran to their end

queueVars == <<tasks, head, tail, buffer_len, shutdown>>
vars == <<tasks, head, tail, buffer_len, shutdown, pc, job, accepted, done>>

Init ==
    /\ tasks = [i \in Slots |-> NoTask]
    /\ head = 0 /\ tail = 0 /\ buffer_len = 0
    /\ shutdown = FALSE
    /\ pc = [t \in Threads |-> IF t = Main THEN "idle" ELSE "remove"]
    /\ job = [t \in Threads |-> NoTask]
    /\ accepted = {}
    /\ done = {}

-----------------------------------------------------------------------------
(* TaskQueue *)

MutantNextIndex(i) == IF i + 2 < QUEUE_CAPACITY THEN i + 1 ELSE 0
NextIndex(i) == (i + 1) % QUEUE_CAPACITY

\* The predicates of the two condition variables.
MaySubmit == buffer_len < QUEUE_CAPACITY \/ shutdown
MutantMayRemove == buffer_len > 1 \/ shutdown
MayRemove == buffer_len > 0 \/ shutdown

\* The task thread t passes to submit().
Argument(t) == IF t = Main THEN job[t] ELSE Child[job[t]]

\* Return from submit().  Main goes back to its loop; a worker submits as the
\* last thing its task does, so the task ends and the worker asks for the next.
AfterSubmit(t) == IF t = Main THEN "idle" ELSE "remove"
SubmitReturns(t) ==
    /\ job' = [job EXCEPT ![t] = NoTask]
    /\ done' = IF t = Main THEN done ELSE done \cup {job[t]}

SubmitWaits(t) ==
    /\ pc[t] = "submit"
    /\ ~MaySubmit
    /\ pc' = [pc EXCEPT ![t] = "waitFull"]
    /\ UNCHANGED <<queueVars, job, accepted, done>>

SubmitRefused(t) ==
    /\ pc[t] = "submit"
    /\ MaySubmit /\ shutdown
    /\ pc' = [pc EXCEPT ![t] = AfterSubmit(t)]
    /\ SubmitReturns(t)
    /\ UNCHANGED <<queueVars, accepted>>

SubmitPuts(t) ==
    /\ pc[t] = "submit"
    /\ MaySubmit /\ ~shutdown
    /\ tasks' = [tasks EXCEPT ![tail] = Argument(t)]
    /\ tail' = NextIndex(tail)
    /\ buffer_len' = buffer_len + 1
    /\ accepted' = accepted \cup {Argument(t)}
    /\ pc' = [pc EXCEPT ![t] = "notifyEmpty"]
    /\ UNCHANGED <<head, shutdown, job, done>>

\* The threads not_empty.notify_one() may wake.
MutantEmptyWaiters == {w \in Workers : pc[w] = "waitEmpty" /\ buffer_len = 1}
EmptyWaiters == {w \in Workers : pc[w] = "waitEmpty"}

\* not_empty.notify_one() after the unlock, then return true.
SubmitNotifies(t) ==
    /\ pc[t] = "notifyEmpty"
    /\ LET returned == [pc EXCEPT ![t] = AfterSubmit(t)]
       IN  IF EmptyWaiters = {}
           THEN pc' = returned
           ELSE \E w \in EmptyWaiters : pc' = [returned EXCEPT ![w] = "remove"]
    /\ SubmitReturns(t)
    /\ UNCHANGED <<queueVars, accepted>>

RemoveWaits(w) ==
    /\ pc[w] = "remove"
    /\ ~MayRemove
    /\ pc' = [pc EXCEPT ![w] = "waitEmpty"]
    /\ UNCHANGED <<queueVars, job, accepted, done>>

MutantRemoveEnds == shutdown
RemoveEnds == buffer_len = 0 /\ shutdown

\* remove() returns an empty function and worker() leaves its loop.
WorkerExits(w) ==
    /\ pc[w] = "remove"
    /\ MayRemove /\ RemoveEnds
    /\ pc' = [pc EXCEPT ![w] = "exited"]
    /\ UNCHANGED <<queueVars, job, accepted, done>>

RemoveTakes(w) ==
    /\ pc[w] = "remove"
    /\ MayRemove /\ ~RemoveEnds
    /\ job' = [job EXCEPT ![w] = tasks[head]]
    /\ tasks' = [tasks EXCEPT ![head] = NoTask]
    /\ head' = NextIndex(head)
    /\ buffer_len' = buffer_len - 1
    /\ pc' = [pc EXCEPT ![w] = "notifyFull"]
    /\ UNCHANGED <<tail, shutdown, accepted, done>>

\* The threads not_full.notify_one() may wake.
FullWaiters == {t \in Threads : pc[t] = "waitFull"}

\* not_full.notify_one() after the unlock, then the worker calls task().
RemoveNotifies(w) ==
    /\ pc[w] = "notifyFull"
    /\ LET running == [pc EXCEPT ![w] = "run"]
       IN  IF FullWaiters = {}
           THEN pc' = running
           ELSE \E t \in FullWaiters : pc' = [running EXCEPT ![t] = "submit"]
    /\ UNCHANGED <<queueVars, job, accepted, done>>

\* A condition variable may wake a waiter that nobody notified.
SpuriousWakeup(t) ==
    /\ pc[t] \in {"waitFull", "waitEmpty"}
    /\ pc' = [pc EXCEPT ![t] = IF @ = "waitFull" THEN "submit" ELSE "remove"]
    /\ UNCHANGED <<queueVars, job, accepted, done>>

-----------------------------------------------------------------------------
(* ThreadPool and the thread that owns it *)

\* task(): the body ends here, or goes on to submit the child task.
RunTask(w) ==
    /\ pc[w] = "run"
    /\ IF Child[job[w]] = NoTask
       THEN /\ pc' = [pc EXCEPT ![w] = "remove"]
            /\ job' = [job EXCEPT ![w] = NoTask]
            /\ done' = done \cup {job[w]}
       ELSE /\ pc' = [pc EXCEPT ![w] = "submit"]
            /\ UNCHANGED <<job, done>>
    /\ UNCHANGED <<queueVars, accepted>>

\* The event loop hands a task to ThreadPool::submit().
MainSubmits(t) ==
    /\ pc[Main] = "idle"
    /\ t \in Roots \ accepted
    /\ pc' = [pc EXCEPT ![Main] = "submit"]
    /\ job' = [job EXCEPT ![Main] = t]
    /\ UNCHANGED <<queueVars, accepted, done>>

\* ~ThreadPool calls TaskQueue::stop(): the flag is set under the mutex.
MainStops ==
    /\ pc[Main] = "idle"
    /\ shutdown' = TRUE
    /\ pc' = [pc EXCEPT ![Main] = "notifyAll"]
    /\ UNCHANGED <<tasks, head, tail, buffer_len, job, accepted, done>>

\* The threads the two notify_all() calls of stop() wake.
MutantStopWakes == {t \in Threads : pc[t] = "waitFull"}
StopWakes == {t \in Threads : pc[t] \in {"waitEmpty", "waitFull"}}

MainNotifiesAll ==
    /\ pc[Main] = "notifyAll"
    /\ pc' = [t \in Threads |->
                IF t = Main THEN "join"
                ELSE IF t \notin StopWakes THEN pc[t]
                ELSE IF pc[t] = "waitFull" THEN "submit" ELSE "remove"]
    /\ UNCHANGED <<queueVars, job, accepted, done>>

MainJoins ==
    /\ pc[Main] = "join"
    /\ \A w \in Workers : pc[w] = "exited"
    /\ pc' = [pc EXCEPT ![Main] = "joined"]
    /\ UNCHANGED <<queueVars, job, accepted, done>>

\* The pool is gone; nothing happens any more.
Terminated == pc[Main] = "joined" /\ UNCHANGED vars

-----------------------------------------------------------------------------

Submit(t) ==
    SubmitWaits(t) \/ SubmitRefused(t) \/ SubmitPuts(t) \/ SubmitNotifies(t)

Remove(w) ==
    RemoveWaits(w) \/ WorkerExits(w) \/ RemoveTakes(w) \/ RemoveNotifies(w)

WorkerStep(w) == Submit(w) \/ Remove(w) \/ RunTask(w)

StopAndJoin == MainStops \/ MainNotifiesAll \/ MainJoins

Next ==
    \/ \E w \in Workers : WorkerStep(w)
    \/ Submit(Main)
    \/ \E t \in Tasks : MainSubmits(t)
    \/ StopAndJoin
    \/ \E t \in Threads : SpuriousWakeup(t)
    \/ Terminated

\* Every thread that can move is eventually scheduled.  Whether Main submits
\* another task or destroys the pool is up to the program, except that a
\* destructor that has begun goes on.
Fairness ==
    /\ \A w \in Workers : WF_vars(WorkerStep(w))
    /\ WF_vars(Submit(Main))
    /\ WF_vars(MainNotifiesAll \/ MainJoins)

Spec == Init /\ [][Next]_vars
FairSpec == Spec /\ Fairness

-----------------------------------------------------------------------------
(* Properties *)

PCs == {"idle", "submit", "waitFull", "notifyEmpty", "remove", "waitEmpty",
        "notifyFull", "run", "exited", "notifyAll", "join", "joined"}

\* Every variable keeps the type its C++ declaration gives it; in particular
\* the indices stay inside the array and buffer_len inside the capacity.
TypeOK ==
    /\ tasks \in [Slots -> Tasks \cup {NoTask}]
    /\ head \in Slots /\ tail \in Slots
    /\ buffer_len \in 0 .. QUEUE_CAPACITY
    /\ shutdown \in BOOLEAN
    /\ pc \in [Threads -> PCs]
    /\ job \in [Threads -> Tasks \cup {NoTask}]
    /\ accepted \subseteq Tasks
    /\ done \subseteq Tasks

\* The contents of the ring buffer, oldest first.
Contents == [i \in 1 .. buffer_len |-> tasks[(head + i - 1) % QUEUE_CAPACITY]]

\* The tasks in the buffer and the tasks workers have taken but not finished.
Queued == {Contents[i] : i \in 1 .. buffer_len}
InHand == {job[w] : w \in {v \in Workers : job[v] # NoTask}}

\* When ~ThreadPool has joined the workers, every task that was ever accepted
\* has run, although stop() may come while tasks are queued and while workers
\* are about to submit more.
JoinedMeansDrained == pc[Main] = "joined" => accepted = done

\* No wakeup is lost, whichever of the sleeping threads notify_one() picks: as long
\* as a worker sleeps there is a notification or a worker under way for each queued
\* task, as long as a producer sleeps there is one for each free slot, and behind
\* stop() nobody sleeps.
At(place) == {t \in Threads : pc[t] = place}
NoLostWakeup ==
    /\ ~shutdown /\ At("waitEmpty") # {} =>
          buffer_len <= Cardinality(At("notifyEmpty")) + Cardinality(At("remove"))
    /\ ~shutdown /\ At("waitFull") # {} =>
          QUEUE_CAPACITY - buffer_len <= Cardinality(At("notifyFull")) + Cardinality(At("submit"))
    /\ shutdown /\ pc[Main] # "notifyAll" => At("waitEmpty") = {} /\ At("waitFull") = {}

\* The queue implements the bounded closable FIFO.
Fifo == INSTANCE TaskFifo WITH Capacity <- QUEUE_CAPACITY,
                               queue <- Contents, closed <- shutdown
ImplementsFifo == Fifo!Spec

\* A task that was accepted is eventually run.
AcceptedTasksRun == \A t \in Tasks : t \in accepted ~> t \in done

\* The destructor returns: every worker leaves its loop, the ones blocked in
\* submit() included.
DestructorReturns == pc[Main] = "notifyAll" ~> pc[Main] = "joined"

\* A submit() of the event loop returns, so that the loop goes on to look at
\* its shutdown state.
EventLoopSubmitReturns == pc[Main] = "submit" ~> pc[Main] # "submit" /\ pc[Main] # "waitFull"
=============================================================================
