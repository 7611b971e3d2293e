--------------------------- MODULE LifecycleProofs ----------------------------
(***************************************************************************)
(* The server uses the logger as Logger specifies it: every step of the    *)
(* server is a step of the logger or leaves it alone.  So what LoggerProofs*)
(* shows of the logger holds in the server, for any number of workers,     *)
(* clients and signals.  Then the server's own invariants: its types, who  *)
(* uses event_loop after its destructor, and the time for draining.        *)
(***************************************************************************)
EXTENDS Lifecycle, SequenceTheorems, TLAPS

Proved == INSTANCE LoggerProofs WITH
    Callers <- Threads, running <- logRunning, queue <- logQueue, consumer <- logWriter,
    caller <- logCaller, stopper <- logStopper

\* What main() does before run(), and in the loop, touches the logger only to
\* start it.
LEMMA BeginsIsLogStep == Begins => Proved!Start \/ UNCHANGED logVars
  BY DEF Begins, InitLogger, StartFails, StartSucceeds, SetRunning, Run, StoreRunning,
         Log!Start, Proved!Start

LEMMA LoopsIsLogStep == Loops \/ WaitFails => UNCHANGED logVars
  BY DEF Loops, LoopHead, WaitReturns, Lookup, Submit, RemoveBegins, RemoveEnds, AcceptTests,
         Admit, Check, Sweep, SweepLooks, SweepEnds, Reap, Cleanup, WaitReports, WaitHangsUp,
         WaitFails

LEMMA EndsIsLogStep == Ends => Proved!Stop \/ UNCHANGED logVars
  BY DEF Ends, LoggerStops, LoggerStopped, ServerStops, LoopDestroyed, PoolStops,
         PoolJoins, Log!StopClears, Log!StopNotifies, Log!StopJoins, Log!Woken, Proved!Stop,
         Proved!StopClears, Proved!StopNotifies, Proved!StopJoins, Proved!Woken

\* A thread that logs takes the three steps of log().
LEMMA CallIsLogStep ==
    ASSUME NEW t \in Threads, LogCall(t) \/ LogReturns(t)
    PROVE  Proved!Log(t) \/ UNCHANGED logVars
  BY DEF LogCall, LogReturns, Log!LogEnters, Log!LogPushes, Log!LogNotifies, Log!Woken,
         Proved!Log, Proved!LogEnters, Proved!LogPushes, Proved!LogNotifies, Proved!Woken

LEMMA WorkerIsLogStep ==
    ASSUME NEW w \in Workers, WorkerSteps(w)
    PROVE  Proved!Log(w) \/ UNCHANGED logVars
<1>1. CASE LogCall(w) \/ LogReturns(w)
  BY <1>1, CallIsLogStep DEF Threads
<1>2. CASE ~(LogCall(w) \/ LogReturns(w))
  BY <1>2
     DEF WorkerSteps, TakeTask, WorkerExits, Recv, Serve, ServeMore, Resubmit, ServeCloses,
         Again, Find, SubmitAgain, Flush, WriteRearms, WriteCloses, RemoveBegins, RemoveEnds,
         TaskOutlivesLoop, TaskEnds
<1>. QED  BY <1>1, <1>2

LEMMA HandlerLeavesLog ==
    ASSUME NEW t \in SignalThreads, SignalArrives(t) \/ Handler(t)
    PROVE  UNCHANGED logVars
  BY DEF SignalArrives, Handler, HandlerTests, HandlerSwaps, HandlerStamps, HandlerWakes

LEMMA LogThreadIsLogStep == LogThread \/ LogThreadWakes => Proved!Consumer \/ Proved!SpuriousWakeup
  BY DEF LogThread, LogThreadWakes, Log!Consumer, Log!ConsumerWaits, Log!ConsumerTakes,
         Log!ConsumerWrites, Log!ConsumerExits, Log!MayExit, Log!SpuriousWakeup,
         Proved!Consumer, Proved!ConsumerWaits, Proved!ConsumerTakes, Proved!ConsumerWrites,
         Proved!ConsumerExits, Proved!MayExit, Proved!SpuriousWakeup

\* A step of the server is a step of the logger or leaves it alone.
LEMMA StepIsLogStep == [Next]_vars => [Proved!Next]_(Proved!vars)
<1>. SUFFICES ASSUME [Next]_vars PROVE Proved!Next \/ UNCHANGED logVars
  BY DEF logVars, Proved!vars
<1>1. CASE MainSteps
  <2>1. Main \in Threads
    BY DEF Threads
  <2>. QED
    BY <1>1, <2>1, BeginsIsLogStep, LoopsIsLogStep, EndsIsLogStep, CallIsLogStep
       DEF MainSteps, Proved!Next
<1>2. CASE WaitFails
  BY <1>2, LoopsIsLogStep
<1>3. CASE Tick
  BY <1>3 DEF Tick
<1>4. CASE LogThread \/ LogThreadWakes
  BY <1>4, LogThreadIsLogStep DEF Proved!Next
<1>5. ASSUME NEW w \in Workers, WorkerSteps(w) PROVE Proved!Next \/ UNCHANGED logVars
  BY <1>5, WorkerIsLogStep DEF Threads, Proved!Next
<1>6. ASSUME NEW t \in SignalThreads, SignalArrives(t) \/ Handler(t) PROVE UNCHANGED logVars
  BY <1>6, HandlerLeavesLog
<1>7. ASSUME NEW c \in Conns, Connect(c) PROVE UNCHANGED logVars
  BY <1>7 DEF Connect
<1>8. CASE UNCHANGED vars
  BY <1>8 DEF vars
<1>. QED  BY <1>1, <1>2, <1>3, <1>4, <1>5, <1>6, <1>7, <1>8 DEF Next

\* The server implements the logger.
THEOREM UsesLoggerAsSpecified == Spec => Proved!Spec
<1>1. Init => Proved!Init
  BY DEF Init, Log!Init, Proved!Init
<1>. QED  BY <1>1, StepIsLogStep, PTL DEF Spec, Proved!Spec

\* In the server, when Logger::stop has returned everything logged before is in
\* the file, although workers still run and log.
THEOREM NothingLoggedIsLost == Spec => []StoppedMeansWritten
<1>1. Proved!StoppedMeansWritten => StoppedMeansWritten
  BY DEF StoppedMeansWritten, Log!StoppedMeansWritten, Proved!StoppedMeansWritten
<1>. QED  BY <1>1, UsesLoggerAsSpecified, Proved!StopWritesAll, PTL

\* In the server the log thread never sleeps on an entry or on the request to stop.
THEOREM LogThreadIsWoken == Spec => []NoLostWakeup
<1>1. Proved!NoLostWakeup => NoLostWakeup
  BY DEF NoLostWakeup, Log!NoLostWakeup, Proved!NoLostWakeup
<1>. QED  BY <1>1, UsesLoggerAsSpecified, Proved!NoWakeupIsLost, PTL

-----------------------------------------------------------------------------
(* The server's own invariants *)

\* pc is a function on the threads; a worker that runs a task has one, main() has
\* a removal while it removes, and something to submit while it looks it up.
TaskInv ==
    /\ pc \in [Threads -> MainLabels \cup WorkerLabels]
    /\ pc[Main] # "crashed" =>
          \A w \in Workers : pc[w] \notin {"idle", "gone"} => task[w] \in Tasks
    /\ pc[Main] \in {"remove", "rmLock"} => task[Main] \in Removals
    /\ pc[Main] \in {"lookup", "submit"} => report # <<>>

IndInv == LoopOK /\ ConnsOK /\ PoolOK /\ TaskInv

\* Where main() is once event_loop is destroyed.
Destroyed == {"dtorPool", "joinPool", "exit", "exited", "crashed"}

\* event_loop is destroyed by main() after it has taken the last request to stop,
\* and whoever finds nothing left of its tasks leaves none behind.
DestroyInv ==
    /\ loop = "destroyed" => pc[Main] \in Destroyed
    /\ pc[Main] \in {"dtorLoop"} \cup Destroyed => ~is_running
    /\ loop = "destroyed" /\ ~leftover =>
          tasks = <<>> /\ \A w \in Workers : pc[w] \in {"idle", "gone"}

\* A handler that goes on to use event_loop has interrupted main() before that.
HandlerInv ==
    /\ \A t \in SignalThreads : handler[t] \in {"cas", "stamp", "wake"} => loop # "destroyed"
    /\ undefined => loop = "destroyed" /\ leftover

\* Where main() is in EventLoop::run.
InRun ==
    {"loop", "drain", "wait", "lookup", "submit", "remove", "rmLock", "accept", "admit",
     "check", "sweep", "scan", "reap", "cleanup"}

\* shutdown_start is written when main() sees that the loop is stopping, and it
\* stops with connections left only when their time is over.
DrainInv ==
    /\ pc[Main] \in {"drain", "wait", "lookup", "submit", "accept", "admit", "check"} =>
          state # "STOPPED"
    /\ pc[Main] \in {"remove", "rmLock"} /\ task[Main].kind = "hangup" => state # "STOPPED"
    /\ pc[Main] \in InRun /\ state # "RUNNING" =>
          shutdown_start # Epoch \/ \E t \in SignalThreads : handler[t] = "stamp"
    /\ pc[Main] \in {"sweep", "scan", "reap", "remove", "rmLock", "loop", "cleanup"}
          /\ state = "STOPPED" =>
          mapped = {} \/ now >= SHUTDOWN_TIMEOUT

-----------------------------------------------------------------------------
(* Types *)

LEMMA ThreadFacts ==
    /\ Threads = Workers \cup {Main} /\ Main \notin Workers /\ Main \in Threads
    /\ \A w \in Workers : w \in Threads /\ w # Main
BY LifecycleAssumption DEF Threads

LEMMA EpochIs == Epoch \in Int /\ Epoch < 0 /\ Epoch = -SHUTDOWN_TIMEOUT /\ SHUTDOWN_TIMEOUT \in Nat
BY LifecycleAssumption DEF Epoch

LEMMA TasksForType ==
    ASSUME NEW c \in Conns, NEW evs
    PROVE  TasksFor(c, evs) \in Seq(Tasks)
<1>1. [kind |-> "read", conn |-> c] \in Tasks /\ [kind |-> "write", conn |-> c] \in Tasks
  BY DEF Tasks
<1>2. /\ <<>> \in Seq(Tasks)
      /\ <<[kind |-> "read", conn |-> c]>> \in Seq(Tasks)
      /\ <<[kind |-> "write", conn |-> c]>> \in Seq(Tasks)
  BY <1>1
<1>3. /\ (IF "IN" \in evs THEN <<[kind |-> "read", conn |-> c]>> ELSE <<>>) \in Seq(Tasks)
      /\ (IF "OUT" \in evs THEN <<[kind |-> "write", conn |-> c]>> ELSE <<>>) \in Seq(Tasks)
  BY <1>2
<1>. QED
  BY <1>3, ConcatProperties DEF TasksFor

\* An event asks for at least one task.
LEMMA TasksForSome ==
    ASSUME NEW c \in Conns, NEW evs \in SUBSET {"IN", "OUT"}, evs # {}
    PROVE  TasksFor(c, evs) # <<>>
<1>1. "IN" \in evs \/ "OUT" \in evs
  OBVIOUS
<1>2. Len(TasksFor(c, evs)) >= 1
  BY <1>1 DEF TasksFor
<1>. QED
  BY <1>2

\* submit() keeps the queue within its capacity.
LEMMA EnqueueType ==
    ASSUME tasks \in Seq(Tasks), Len(tasks) <= QUEUE_CAPACITY, NEW r \in Tasks, Enqueue(r)
    PROVE  tasks' \in Seq(Tasks) /\ Len(tasks') <= QUEUE_CAPACITY
<1>1. CASE tasks' = tasks
  BY <1>1
<1>2. CASE Len(tasks) < QUEUE_CAPACITY /\ tasks' = Append(tasks, r)
  <2>1. tasks' \in Seq(Tasks) /\ Len(tasks') = Len(tasks) + 1 /\ Len(tasks) \in Nat
    BY <1>2, AppendProperties, LenProperties
  <2>. QED
    BY <1>2, <2>1, LifecycleAssumption
<1>. QED
  BY <1>1, <1>2 DEF Enqueue, HasRoom

\* What is left of an event.
LEMMA NextOfReportIs ==
    ASSUME IndInv, report # <<>>, NextOfReport
    PROVE  /\ report' \in Seq(Tasks) /\ UNCHANGED <<unscanned, doomed>>
           /\ \E l \in {"lookup", "check"} :
                 pc' = [pc EXCEPT ![Main] = l] /\ (l = "lookup" => report' # <<>>)
<1>1. report \in Seq(Tasks) /\ report' = Tail(report)
  BY DEF IndInv, PoolOK, NextOfReport
<1>2. report' \in Seq(Tasks) /\ Len(report') = Len(report) - 1 /\ Len(report) \in Nat
  BY <1>1, HeadTailProperties, LenProperties
<1>3. CASE Len(report) > 1
  <2>1. pc' = [pc EXCEPT ![Main] = "lookup"] /\ UNCHANGED <<unscanned, doomed>>
    BY <1>3 DEF NextOfReport, Goto
  <2>2. Len(report') >= 1
    BY <1>2, <1>3
  <2>3. report' # <<>>
    BY <2>2
  <2>. QED
    BY <1>2, <2>1, <2>3
<1>4. CASE ~(Len(report) > 1)
  <2>1. pc' = [pc EXCEPT ![Main] = "check"] /\ UNCHANGED <<unscanned, doomed>>
    BY <1>4 DEF NextOfReport, Goto
  <2>. QED
    BY <1>2, <2>1
<1>. QED
  BY <1>3, <1>4

\* Where a thread goes when it has removed a connection.
LEMMA AfterRemovalIs ==
    ASSUME IndInv, ~Ended, NEW t \in Threads, pc[t] \in {"remove", "rmLock"}
    PROVE  /\ t = Main => \/ task[Main].kind = "hangup" /\ AfterRemoval(t) = "check"
                          \/ task[Main].kind = "timeout" /\ AfterRemoval(t) \in {"loop", "reap"}
           /\ t \in Workers => AfterRemoval(t) = "idle"
<1>1. ASSUME t = Main
      PROVE  \/ task[Main].kind = "hangup" /\ AfterRemoval(t) = "check"
             \/ task[Main].kind = "timeout" /\ AfterRemoval(t) \in {"loop", "reap"}
  <2>1. task[Main].kind \in {"hangup", "timeout"}
    BY <1>1 DEF IndInv, TaskInv, Removals
  <2>. QED
    BY <1>1, <2>1 DEF AfterRemoval
<1>2. ASSUME t \in Workers PROVE AfterRemoval(t) = "idle"
  <2>1. task[t].kind \in {"read", "write", "again"}
    BY <1>2 DEF IndInv, TaskInv, Ended, Tasks
  <2>. QED
    BY <2>1 DEF AfterRemoval
<1>. QED
  BY <1>1, <1>2

\* The task of a worker that is neither idle nor gone belongs to a connection.
LEMMA RunningTask ==
    ASSUME IndInv, ~Ended, NEW w \in Workers, pc[w] \notin {"idle", "gone"}
    PROVE  task[w] \in Tasks /\ task[w].conn \in Conns
BY DEF IndInv, TaskInv, Ended, Tasks

\* main() up to run().
LEMMA BeginsKeepsInv ==
    ASSUME IndInv, Begins
    PROVE  IndInv'
<1> USE DEF IndInv, Goto, MainGoes, At, serverVars, fdVars, signalVars, clientVars, connVars,
            poolVars, mainVars, observerVars, noLogVars
<1>1. CASE InitLogger
  <2>1. PoolOK'
    BY <1>1, ThreadFacts DEF InitLogger, PoolOK, TaskInv, MainLabels, WorkerLabels
  <2>2. TaskInv'
    BY <1>1, ThreadFacts DEF InitLogger, PoolOK, TaskInv, MainLabels, WorkerLabels
  <2>3. LoopOK' /\ ConnsOK'
    BY <1>1 DEF InitLogger, LoopOK, ConnsOK
  <2>. QED
    BY <2>1, <2>2, <2>3
<1>2. CASE StartFails
  <2>1. LoopOK'
    BY <1>2, LifecycleAssumption, EpochIs DEF StartFails, LoopOK
  <2>2. PoolOK'
    BY <1>2, ThreadFacts DEF StartFails, PoolOK, TaskInv, MainLabels, WorkerLabels
  <2>3. TaskInv'
    BY <1>2, ThreadFacts DEF StartFails, PoolOK, TaskInv, MainLabels, WorkerLabels
  <2>4. ConnsOK'
    BY <1>2 DEF StartFails, ConnsOK
  <2>. QED
    BY <2>1, <2>2, <2>3, <2>4
<1>3. CASE StartSucceeds
  <2>1. LoopOK'
    BY <1>3, LifecycleAssumption, EpochIs DEF StartSucceeds, LoopOK
  <2>2. PoolOK'
    BY <1>3, ThreadFacts DEF StartSucceeds, PoolOK, TaskInv, MainLabels, WorkerLabels
  <2>3. TaskInv'
    BY <1>3, ThreadFacts DEF StartSucceeds, PoolOK, TaskInv, MainLabels, WorkerLabels
  <2>4. ConnsOK'
    BY <1>3 DEF StartSucceeds, ConnsOK
  <2>. QED
    BY <2>1, <2>2, <2>3, <2>4
<1>4. CASE SetRunning
  <2>1. LoopOK'
    BY <1>4, LifecycleAssumption, EpochIs DEF SetRunning, LoopOK
  <2>2. PoolOK'
    BY <1>4, ThreadFacts DEF SetRunning, PoolOK, TaskInv, MainLabels, WorkerLabels
  <2>3. TaskInv'
    BY <1>4, ThreadFacts DEF SetRunning, PoolOK, TaskInv, MainLabels, WorkerLabels
  <2>4. ConnsOK'
    BY <1>4 DEF SetRunning, ConnsOK
  <2>. QED
    BY <2>1, <2>2, <2>3, <2>4
<1>5. CASE Run
  <2>1. PoolOK'
    BY <1>5, ThreadFacts DEF Run, PoolOK, TaskInv, MainLabels, WorkerLabels
  <2>2. TaskInv'
    BY <1>5, ThreadFacts DEF Run, PoolOK, TaskInv, MainLabels, WorkerLabels
  <2>3. LoopOK' /\ ConnsOK'
    BY <1>5 DEF Run, LoopOK, ConnsOK
  <2>. QED
    BY <2>1, <2>2, <2>3
<1>6. CASE StoreRunning
  <2>1. LoopOK'
    BY <1>6, LifecycleAssumption, EpochIs DEF StoreRunning, LoopOK
  <2>2. PoolOK'
    BY <1>6, ThreadFacts DEF StoreRunning, PoolOK, TaskInv, MainLabels, WorkerLabels
  <2>3. TaskInv'
    BY <1>6, ThreadFacts DEF StoreRunning, PoolOK, TaskInv, MainLabels, WorkerLabels
  <2>4. ConnsOK'
    BY <1>6 DEF StoreRunning, ConnsOK
  <2>. QED
    BY <2>1, <2>2, <2>3, <2>4
<1>. QED
  BY <1>1, <1>2, <1>3, <1>4, <1>5, <1>6 DEF Begins

\* remove_connection, by main() or by a worker.
LEMMA RemovalKeepsInv ==
    ASSUME IndInv, ~Ended, NEW t \in Threads, RemoveBegins(t) \/ RemoveEnds(t)
    PROVE  IndInv'
<1> USE DEF IndInv, Goto, At, serverVars, fdVars, signalVars, clientVars, connVars, poolVars,
            mainVars, observerVars
<1>1. /\ pc[t] \in {"remove", "rmLock"}
      /\ UNCHANGED <<now, serverVars, fdVars, signalVars, clientVars, unsent, tasks, poolStopped,
                     mainVars, observerVars>>
  BY DEF RemoveBegins, RemoveEnds
<1>2. /\ mapped' \subseteq mapped
      /\ armed' = armed \/ armed' = [c \in Conns |-> IF c \in {task[t].conn} THEN {} ELSE armed[c]]
  BY DEF RemoveBegins, RemoveEnds, Remove
<1>3. \/ pc[t] = "remove" /\ pc' = [pc EXCEPT ![t] = "rmLock"] /\ task' = task
      \/ pc' = [pc EXCEPT ![t] = AfterRemoval(t)] /\ task' = [task EXCEPT ![t] = NoTask]
  BY DEF RemoveBegins, RemoveEnds, RemoveReturns
<1>4. LoopOK'
  BY <1>1 DEF LoopOK
<1>5. ConnsOK'
  BY <1>1, <1>2 DEF ConnsOK
<1>6. CASE t = Main
  <2>1. task[Main] \in Removals
    BY <1>1, <1>6 DEF TaskInv
  <2>2. AfterRemoval(t) \in {"check", "loop", "reap"}
    BY <1>1, <1>6, AfterRemovalIs
  <2>3. \/ pc' = [pc EXCEPT ![Main] = "rmLock"] /\ task' = task
        \/ /\ \E l \in {"check", "loop", "reap"} : pc' = [pc EXCEPT ![Main] = l]
           /\ task' = [task EXCEPT ![Main] = NoTask]
    BY <1>3, <1>6, <2>2
  <2>4. PoolOK'
    BY <1>1, <2>3, ThreadFacts DEF PoolOK, TaskInv, MainLabels, WorkerLabels
  <2>5. TaskInv'
    <3>1. CASE pc' = [pc EXCEPT ![Main] = "rmLock"] /\ task' = task
      BY <1>1, <2>1, <3>1, ThreadFacts DEF Ended, TaskInv, MainLabels, WorkerLabels
    <3>2. CASE /\ \E l \in {"check", "loop", "reap"} : pc' = [pc EXCEPT ![Main] = l]
               /\ task' = [task EXCEPT ![Main] = NoTask]
      <4>1. \A w \in Workers : task'[w] = task[w] /\ pc'[w] = pc[w]
        BY <3>2, ThreadFacts DEF PoolOK, TaskInv
      <4>. QED
        BY <1>1, <3>2, <4>1, ThreadFacts DEF Ended, TaskInv, MainLabels, WorkerLabels
    <3>. QED
      BY <2>3, <3>1, <3>2
  <2>. QED
    BY <1>4, <1>5, <2>4, <2>5
<1>7. CASE t \in Workers
  <2>1. AfterRemoval(t) = "idle"
    BY <1>1, <1>7, AfterRemovalIs
  <2>2. \/ pc' = [pc EXCEPT ![t] = "rmLock"] /\ task' = task
        \/ pc' = [pc EXCEPT ![t] = "idle"] /\ task' = [task EXCEPT ![t] = NoTask]
    BY <1>3, <2>1
  <2>3. PoolOK'
    BY <1>1, <1>7, <2>2, ThreadFacts DEF PoolOK, TaskInv, MainLabels, WorkerLabels
  <2>4. TaskInv'
    BY <1>1, <1>7, <2>2, ThreadFacts DEF PoolOK, TaskInv, MainLabels, WorkerLabels
  <2>. QED
    BY <1>4, <1>5, <2>3, <2>4
<1>. QED
  BY <1>6, <1>7, ThreadFacts

\* What epoll_wait reports of a connection, and what is submitted for it.
LEMMA LoopReportsKeepsInv ==
    ASSUME IndInv, Lookup \/ Submit \/ \E c \in Conns : WaitReports(c) \/ WaitHangsUp(c)
    PROVE  IndInv'
<1> USE DEF IndInv, Goto, MainGoes, At, serverVars, fdVars, signalVars, clientVars, connVars,
            poolVars, mainVars, observerVars, noLogVars
<1>1. ASSUME NEW c \in Conns, WaitReports(c) PROVE IndInv'
  <2>1. report' \in Seq(Tasks) /\ report' # <<>>
    <3>1. PICK evs \in (SUBSET armed[c]) \ {{}} : report' = TasksFor(c, evs)
      BY <1>1 DEF WaitReports
    <3>2. evs \in SUBSET {"IN", "OUT"} /\ evs # {}
      BY <3>1 DEF ConnsOK
    <3>. QED
      BY <3>1, <3>2, TasksForType, TasksForSome
  <2>2. ConnsOK'
    BY <1>1 DEF WaitReports, ConnsOK
  <2>3. PoolOK'
    BY <1>1, <2>1, ThreadFacts DEF WaitReports, PoolOK, TaskInv, MainLabels, WorkerLabels
  <2>4. TaskInv'
    BY <1>1, <2>1, ThreadFacts DEF WaitReports, PoolOK, TaskInv, MainLabels, WorkerLabels
  <2>5. LoopOK'
    BY <1>1 DEF WaitReports, LoopOK
  <2>. QED
    BY <2>2, <2>3, <2>4, <2>5
<1>2. ASSUME NEW c \in Conns, WaitHangsUp(c) PROVE IndInv'
  <2>1. /\ [kind |-> "hangup", conn |-> c] \in Removals
        /\ task' = [task EXCEPT ![Main] = [kind |-> "hangup", conn |-> c]]
    BY <1>2 DEF Removals, WaitHangsUp
  <2>2. ConnsOK'
    BY <1>2 DEF WaitHangsUp, ConnsOK
  <2>3. PoolOK'
    BY <1>2, <2>1, ThreadFacts DEF WaitHangsUp, PoolOK, TaskInv, MainLabels, WorkerLabels
  <2>4. TaskInv'
    BY <1>2, <2>1, ThreadFacts DEF WaitHangsUp, PoolOK, TaskInv, MainLabels, WorkerLabels
  <2>5. LoopOK'
    BY <1>2 DEF WaitHangsUp, LoopOK
  <2>. QED
    BY <2>2, <2>3, <2>4, <2>5
<1>3. CASE Lookup \/ Submit
  <2>1. pc[Main] \in {"lookup", "submit"}
    BY <1>3 DEF Lookup, Submit
  <2>2. report # <<>> /\ report \in Seq(Tasks)
    BY <2>1 DEF TaskInv, PoolOK
  <2>3. tasks' \in Seq(Tasks) /\ Len(tasks') <= QUEUE_CAPACITY
    <3>1. CASE Lookup
      BY <3>1 DEF Lookup, PoolOK
    <3>2. CASE Submit
      <4>1. Head(report) \in Tasks
        BY <2>2, HeadTailProperties
      <4>. QED
        BY <3>2, <4>1, EnqueueType DEF Submit, PoolOK
    <3>. QED
      BY <1>3, <3>1, <3>2
  <2>4. /\ report' \in Seq(Tasks) /\ UNCHANGED <<unscanned, doomed>>
        /\ \E l \in {"lookup", "submit", "check"} :
              pc' = [pc EXCEPT ![Main] = l] /\ (l # "check" => report' # <<>>)
    <3>1. CASE NextOfReport
      BY <2>2, <3>1, NextOfReportIs
    <3>2. CASE Goto(Main, "submit") /\ UNCHANGED mainVars
      BY <2>2, <3>2
    <3>. QED
      BY <1>3, <3>1, <3>2 DEF Lookup, Submit
  <2>5. /\ UNCHANGED <<now, serverVars, fdVars, signalVars, clientVars, connVars, task,
                       poolStopped, observerVars>>
    BY <1>3 DEF Lookup, Submit
  <2>6. LoopOK' /\ ConnsOK'
    BY <2>5 DEF LoopOK, ConnsOK
  <2>7. PoolOK'
    BY <2>3, <2>4, <2>5, ThreadFacts DEF PoolOK, TaskInv, MainLabels, WorkerLabels
  <2>8. TaskInv'
    BY <2>1, <2>4, <2>5, ThreadFacts DEF PoolOK, TaskInv, MainLabels, WorkerLabels
  <2>. QED
    BY <2>6, <2>7, <2>8
<1>. QED
  BY <1>1, <1>2, <1>3

\* EventLoop::run.
LEMMA LoopsKeepsInv ==
    ASSUME IndInv, ~Ended, Loops \/ WaitFails
    PROVE  IndInv'
<1> USE DEF IndInv, Goto, MainGoes, At, serverVars, fdVars, signalVars, clientVars, connVars,
            poolVars, mainVars, observerVars, noLogVars
<1>1. CASE LoopHead
  <2>1. LoopOK'
    BY <1>1, LifecycleAssumption, EpochIs DEF LoopHead, LoopOK
  <2>2. ConnsOK'
    BY <1>1 DEF LoopHead, ConnsOK
  <2>3. PoolOK'
    BY <1>1, ThreadFacts DEF LoopHead, PoolOK, TaskInv, MainLabels, WorkerLabels
  <2>4. TaskInv'
    BY <1>1, ThreadFacts DEF LoopHead, PoolOK, TaskInv, MainLabels, WorkerLabels
  <2>. QED
    BY <2>1, <2>2, <2>3, <2>4
<1>2. CASE WaitReturns
  <2>1. PoolOK'
    BY <1>2, ThreadFacts DEF WaitReturns, PoolOK, TaskInv, MainLabels, WorkerLabels
  <2>2. TaskInv'
    BY <1>2, ThreadFacts DEF WaitReturns, PoolOK, TaskInv, MainLabels, WorkerLabels
  <2>3. LoopOK' /\ ConnsOK'
    BY <1>2 DEF WaitReturns, LoopOK, ConnsOK
  <2>. QED
    BY <2>1, <2>2, <2>3
<1>3. CASE AcceptTests
  <2>1. PoolOK'
    BY <1>3, ThreadFacts DEF AcceptTests, PoolOK, TaskInv, MainLabels, WorkerLabels
  <2>2. TaskInv'
    BY <1>3, ThreadFacts DEF AcceptTests, PoolOK, TaskInv, MainLabels, WorkerLabels
  <2>3. LoopOK' /\ ConnsOK'
    BY <1>3 DEF AcceptTests, LoopOK, ConnsOK
  <2>. QED
    BY <2>1, <2>2, <2>3
<1>4. CASE Admit
  <2>1. ConnsOK'
    BY <1>4 DEF Admit, ConnsOK
  <2>2. PoolOK'
    BY <1>4, ThreadFacts DEF Admit, PoolOK, TaskInv, MainLabels, WorkerLabels
  <2>3. TaskInv'
    BY <1>4, ThreadFacts DEF Admit, PoolOK, TaskInv, MainLabels, WorkerLabels
  <2>4. LoopOK'
    BY <1>4 DEF Admit, LoopOK
  <2>. QED
    BY <2>1, <2>2, <2>3, <2>4
<1>5. CASE Check
  <2>1. LoopOK'
    BY <1>5, LifecycleAssumption, EpochIs DEF Check, LoopOK
  <2>2. PoolOK'
    BY <1>5, ThreadFacts DEF Check, PoolOK, TaskInv, MainLabels, WorkerLabels
  <2>3. TaskInv'
    BY <1>5, ThreadFacts DEF Check, PoolOK, TaskInv, MainLabels, WorkerLabels
  <2>4. ConnsOK'
    BY <1>5 DEF Check, ConnsOK
  <2>. QED
    BY <2>1, <2>2, <2>3, <2>4
<1>6. CASE Sweep \/ SweepLooks \/ SweepEnds \/ Reap
  <2>1. /\ UNCHANGED <<now, serverVars, fdVars, signalVars, clientVars, connVars, tasks,
                       poolStopped, report, observerVars>>
        /\ pc[Main] \in {"sweep", "scan", "reap"}
    BY <1>6 DEF Sweep, SweepLooks, SweepEnds, Reap
  <2>2. mapped \subseteq Conns /\ unscanned \cup doomed \subseteq Conns
    BY DEF ConnsOK, PoolOK
  <2>3. unscanned' \cup doomed' \subseteq Conns
    BY <1>6, <2>2 DEF Sweep, SweepLooks, SweepEnds, Reap
  <2>4. \/ /\ \E l \in {"loop", "scan", "reap"} : pc' = [pc EXCEPT ![Main] = l]
           /\ task' = task
        \/ pc' = pc /\ task' = task
        \/ /\ pc' = [pc EXCEPT ![Main] = "remove"]
           /\ \E r \in Removals : task' = [task EXCEPT ![Main] = r]
    <3>1. CASE Sweep \/ SweepLooks
      BY <3>1 DEF Sweep, SweepLooks
    <3>2. CASE SweepEnds
      BY <3>2 DEF SweepEnds
    <3>3. CASE Reap
      <4>1. PICK c \in doomed : task' = [task EXCEPT ![Main] = [kind |-> "timeout", conn |-> c]]
        BY <3>3 DEF Reap
      <4>2. [kind |-> "timeout", conn |-> c] \in Removals
        BY <2>2, <4>1 DEF Removals
      <4>. QED
        BY <3>3, <4>1, <4>2 DEF Reap
    <3>. QED
      BY <1>6, <3>1, <3>2, <3>3
  <2>5. PoolOK'
    BY <2>1, <2>3, <2>4, ThreadFacts DEF PoolOK, TaskInv, MainLabels, WorkerLabels
  <2>6. TaskInv'
    BY <2>1, <2>4, ThreadFacts DEF PoolOK, TaskInv, MainLabels, WorkerLabels
  <2>7. LoopOK' /\ ConnsOK'
    BY <2>1 DEF LoopOK, ConnsOK
  <2>. QED
    BY <2>5, <2>6, <2>7
<1>7. CASE Cleanup
  <2>1. LoopOK'
    BY <1>7, LifecycleAssumption, EpochIs DEF Cleanup, LoopOK
  <2>2. ConnsOK'
    BY <1>7 DEF Cleanup, Remove, ConnsOK
  <2>3. PoolOK'
    BY <1>7, ThreadFacts DEF Cleanup, PoolOK, TaskInv, MainLabels, WorkerLabels
  <2>4. TaskInv'
    BY <1>7, ThreadFacts DEF Cleanup, PoolOK, TaskInv, MainLabels, WorkerLabels
  <2>. QED
    BY <2>1, <2>2, <2>3, <2>4
<1>8. CASE WaitFails
  <2>1. PoolOK'
    BY <1>8, ThreadFacts DEF WaitFails, PoolOK, TaskInv, MainLabels, WorkerLabels
  <2>2. TaskInv'
    BY <1>8, ThreadFacts DEF WaitFails, PoolOK, TaskInv, MainLabels, WorkerLabels
  <2>3. LoopOK' /\ ConnsOK'
    BY <1>8 DEF WaitFails, LoopOK, ConnsOK
  <2>. QED
    BY <2>1, <2>2, <2>3
<1>. QED
  BY <1>1, <1>2, <1>3, <1>4, <1>5, <1>6, <1>7, <1>8, LoopReportsKeepsInv, RemovalKeepsInv,
     ThreadFacts
     DEF Loops

\* main() after run(), and the destructors.
LEMMA EndsKeepsInv ==
    ASSUME IndInv, Ends
    PROVE  IndInv'
<1> USE DEF IndInv, Goto, MainGoes, At, serverVars, fdVars, signalVars, clientVars, connVars,
            poolVars, mainVars, observerVars, noLogVars
<1>1. CASE LoggerStops
  <2>1. LoopOK' /\ ConnsOK' /\ PoolOK' /\ TaskInv'
    BY <1>1 DEF LoggerStops, LoopOK, ConnsOK, PoolOK, TaskInv
  <2>. QED
    BY <2>1
<1>2. CASE LoggerStopped
  <2>1. /\ \E l \in {"dtor", "exited"} : pc' = [pc EXCEPT ![Main] = l]
        /\ pc[Main] # "crashed" /\ task' = task
    <3>1. /\ pc[Main] \in {"stopLogger", "exit"}
          /\ pc' = [pc EXCEPT ![Main] = AfterStop[pc[Main]]]
      BY <1>2 DEF LoggerStopped, AfterStop
    <3>2. AfterStop[pc[Main]] \in {"dtor", "exited"}
      BY <3>1 DEF AfterStop
    <3>. QED
      BY <1>2, <3>1, <3>2 DEF LoggerStopped
  <2>2. PoolOK'
    BY <1>2, <2>1, ThreadFacts DEF LoggerStopped, PoolOK, TaskInv, MainLabels, WorkerLabels
  <2>3. TaskInv'
    BY <1>2, <2>1, ThreadFacts DEF LoggerStopped, PoolOK, TaskInv, MainLabels, WorkerLabels
  <2>4. LoopOK' /\ ConnsOK'
    BY <1>2 DEF LoggerStopped, LoopOK, ConnsOK
  <2>. QED
    BY <2>2, <2>3, <2>4
<1>3. CASE ServerStops
  <2>1. LoopOK'
    BY <1>3, LifecycleAssumption, EpochIs DEF ServerStops, TakeRequest, StopLoop, LoopOK
  <2>2. PoolOK'
    BY <1>3, ThreadFacts DEF ServerStops, PoolOK, TaskInv, MainLabels, WorkerLabels
  <2>3. TaskInv'
    BY <1>3, ThreadFacts DEF ServerStops, PoolOK, TaskInv, MainLabels, WorkerLabels
  <2>4. ConnsOK'
    BY <1>3 DEF ServerStops, ConnsOK
  <2>. QED
    BY <2>1, <2>2, <2>3, <2>4
<1>4. CASE LoopDestroyed
  <2>1. LoopOK'
    BY <1>4, LifecycleAssumption, EpochIs DEF LoopDestroyed, StopLoop, LoopOK
  <2>2. ConnsOK'
    BY <1>4 DEF LoopDestroyed, Remove, ConnsOK
  <2>3. PoolOK'
    BY <1>4, ThreadFacts DEF LoopDestroyed, PoolOK, TaskInv, MainLabels, WorkerLabels
  <2>4. TaskInv'
    BY <1>4, ThreadFacts DEF LoopDestroyed, PoolOK, TaskInv, MainLabels, WorkerLabels
  <2>. QED
    BY <2>1, <2>2, <2>3, <2>4
<1>5. CASE PoolStops
  <2>1. PoolOK'
    BY <1>5, ThreadFacts DEF PoolStops, PoolOK, TaskInv, MainLabels, WorkerLabels
  <2>2. TaskInv'
    BY <1>5, ThreadFacts DEF PoolStops, PoolOK, TaskInv, MainLabels, WorkerLabels
  <2>3. LoopOK' /\ ConnsOK'
    BY <1>5 DEF PoolStops, LoopOK, ConnsOK
  <2>. QED
    BY <2>1, <2>2, <2>3
<1>6. CASE PoolJoins
  <2>1. PoolOK'
    BY <1>6, ThreadFacts DEF PoolJoins, PoolOK, TaskInv, MainLabels, WorkerLabels
  <2>2. TaskInv'
    BY <1>6, ThreadFacts DEF PoolJoins, PoolOK, TaskInv, MainLabels, WorkerLabels
  <2>3. LoopOK' /\ ConnsOK'
    BY <1>6 DEF PoolJoins, LoopOK, ConnsOK
  <2>. QED
    BY <2>1, <2>2, <2>3
<1>. QED
  BY <1>1, <1>2, <1>3, <1>4, <1>5, <1>6 DEF Ends

\* The signal handler.
LEMMA HandlerKeepsInv ==
    ASSUME IndInv, NEW t \in SignalThreads, SignalArrives(t) \/ Handler(t)
    PROVE  IndInv'
<1> USE DEF IndInv, Goto, MainGoes, At, serverVars, fdVars, signalVars, clientVars, connVars,
            poolVars, mainVars, observerVars, noLogVars
<1>1. CASE SignalArrives(t)
  <2>1. LoopOK'
    BY <1>1, LifecycleAssumption, EpochIs DEF SignalArrives, LoopOK
  <2>2. ConnsOK' /\ PoolOK' /\ TaskInv'
    BY <1>1 DEF SignalArrives, ConnsOK, PoolOK, TaskInv
  <2>. QED
    BY <2>1, <2>2
<1>2. CASE HandlerTests(t)
  <2>1. LoopOK'
    BY <1>2, LifecycleAssumption, EpochIs DEF HandlerTests, TakeRequest, HandlerReturns, LoopOK
  <2>2. PoolOK'
    BY <1>2, ThreadFacts
       DEF HandlerTests, HandlerReturns, PoolOK, TaskInv, MainLabels, WorkerLabels
  <2>3. TaskInv'
    BY <1>2, ThreadFacts
       DEF HandlerTests, HandlerReturns, PoolOK, TaskInv, MainLabels, WorkerLabels
  <2>4. ConnsOK'
    BY <1>2 DEF HandlerTests, ConnsOK
  <2>. QED
    BY <2>1, <2>2, <2>3, <2>4
<1>3. CASE HandlerSwaps(t)
  <2>1. LoopOK'
    BY <1>3, LifecycleAssumption, EpochIs DEF HandlerSwaps, HandlerReturns, LoopOK
  <2>2. PoolOK'
    BY <1>3, ThreadFacts
       DEF HandlerSwaps, HandlerReturns, PoolOK, TaskInv, MainLabels, WorkerLabels
  <2>3. TaskInv'
    BY <1>3, ThreadFacts
       DEF HandlerSwaps, HandlerReturns, PoolOK, TaskInv, MainLabels, WorkerLabels
  <2>4. ConnsOK'
    BY <1>3 DEF HandlerSwaps, ConnsOK
  <2>. QED
    BY <2>1, <2>2, <2>3, <2>4
<1>4. CASE HandlerStamps(t)
  <2>1. LoopOK'
    BY <1>4, LifecycleAssumption, EpochIs DEF HandlerStamps, TimeStamp, LoopOK
  <2>2. PoolOK'
    BY <1>4, ThreadFacts DEF HandlerStamps, PoolOK, TaskInv, MainLabels, WorkerLabels
  <2>3. TaskInv'
    BY <1>4, ThreadFacts DEF HandlerStamps, PoolOK, TaskInv, MainLabels, WorkerLabels
  <2>4. ConnsOK'
    BY <1>4 DEF HandlerStamps, ConnsOK
  <2>. QED
    BY <2>1, <2>2, <2>3, <2>4
<1>5. CASE HandlerWakes(t)
  <2>1. LoopOK'
    BY <1>5, LifecycleAssumption, EpochIs DEF HandlerWakes, HandlerReturns, LoopOK
  <2>2. PoolOK'
    BY <1>5, ThreadFacts
       DEF HandlerWakes, HandlerReturns, PoolOK, TaskInv, MainLabels, WorkerLabels
  <2>3. TaskInv'
    BY <1>5, ThreadFacts
       DEF HandlerWakes, HandlerReturns, PoolOK, TaskInv, MainLabels, WorkerLabels
  <2>4. ConnsOK'
    BY <1>5 DEF HandlerWakes, ConnsOK
  <2>. QED
    BY <2>1, <2>2, <2>3, <2>4
<1>. QED
  BY <1>1, <1>2, <1>3, <1>4, <1>5 DEF Handler

\* Workers, but for their calls of the logger.
LEMMA WorkerKeepsInv ==
    ASSUME IndInv, ~Ended, NEW w \in Workers, WorkerSteps(w), ~LogCall(w), ~LogReturns(w)
    PROVE  IndInv'
<1> USE DEF IndInv, Goto, MainGoes, At, serverVars, fdVars, signalVars, clientVars, connVars,
            poolVars, mainVars, observerVars, noLogVars
<1>1. CASE TakeTask(w)
  <2>1. /\ Head(tasks) \in Tasks /\ Tail(tasks) \in Seq(Tasks)
        /\ Len(Tail(tasks)) <= QUEUE_CAPACITY
        /\ task' = [task EXCEPT ![w] = Head(tasks)]
        /\ pc[w] = "idle"
        /\ \E l \in {"read", "write", "again"} : pc' = [pc EXCEPT ![w] = l]
    <3>1. tasks \in Seq(Tasks) /\ tasks # <<>> /\ Len(tasks) <= QUEUE_CAPACITY
      BY <1>1 DEF TakeTask, PoolOK
    <3>2. /\ Head(tasks) \in Tasks /\ Tail(tasks) \in Seq(Tasks)
          /\ Len(Tail(tasks)) <= QUEUE_CAPACITY
      BY <3>1, HeadTailProperties, LifecycleAssumption
    <3>3. Head(tasks).kind \in {"read", "write", "again"}
      BY <3>2 DEF Tasks
    <3>. QED
      BY <1>1, <3>2, <3>3 DEF TakeTask
  <2>2. PoolOK'
    BY <1>1, <2>1, ThreadFacts DEF TakeTask, PoolOK, TaskInv, MainLabels, WorkerLabels
  <2>3. TaskInv'
    BY <1>1, <2>1, ThreadFacts DEF TakeTask, PoolOK, TaskInv, MainLabels, WorkerLabels
  <2>4. LoopOK' /\ ConnsOK'
    BY <1>1 DEF TakeTask, LoopOK, ConnsOK
  <2>. QED
    BY <2>2, <2>3, <2>4
<1>2. CASE WorkerExits(w)
  <2>1. PoolOK'
    BY <1>2, ThreadFacts DEF WorkerExits, PoolOK, TaskInv, MainLabels, WorkerLabels
  <2>2. TaskInv'
    BY <1>2, ThreadFacts DEF WorkerExits, PoolOK, TaskInv, MainLabels, WorkerLabels
  <2>3. LoopOK' /\ ConnsOK'
    BY <1>2 DEF WorkerExits, LoopOK, ConnsOK
  <2>. QED
    BY <2>1, <2>2, <2>3
<1>3. CASE Recv(w)
  <2>1. PoolOK'
    BY <1>3, ThreadFacts DEF Recv, PoolOK, TaskInv, MainLabels, WorkerLabels
  <2>2. TaskInv'
    BY <1>3, ThreadFacts DEF Recv, PoolOK, TaskInv, MainLabels, WorkerLabels
  <2>3. LoopOK' /\ ConnsOK'
    BY <1>3 DEF Recv, LoopOK, ConnsOK
  <2>. QED
    BY <2>1, <2>2, <2>3
<1>4. CASE Serve(w) \/ ServeMore(w)
  <2>1. /\ \/ pc' = [pc EXCEPT ![w] = "idle"] /\ task' = [task EXCEPT ![w] = NoTask]
           \/ pc' = [pc EXCEPT ![w] = "resubmit"] /\ task' = task /\ pc[w] = "serve"
        /\ UNCHANGED <<now, serverVars, fdVars, signalVars, clientVars, mapped, tasks,
                       poolStopped, mainVars, observerVars>>
    BY <1>4 DEF Serve, ServeMore, Answers, TaskEnds
  <2>2. task[w].conn \in Conns
    BY <1>4, RunningTask DEF Serve, ServeMore
  <2>3. ConnsOK'
    <3>1. PICK evs \in SUBSET {"IN", "OUT"} : Answers(task[w].conn, evs)
      BY <1>4 DEF Serve, ServeMore
    <3>. QED
      BY <2>1, <2>2, <3>1 DEF Answers, Rearm, ConnsOK
  <2>4. PoolOK'
    BY <2>1, ThreadFacts DEF PoolOK, TaskInv, MainLabels, WorkerLabels
  <2>5. TaskInv'
    BY <2>1, ThreadFacts DEF PoolOK, TaskInv, MainLabels, WorkerLabels
  <2>6. LoopOK'
    BY <2>1 DEF LoopOK
  <2>. QED
    BY <2>3, <2>4, <2>5, <2>6
<1>5. CASE Resubmit(w) \/ SubmitAgain(w)
  <2>1. /\ pc' = [pc EXCEPT ![w] = "idle"] /\ task' = [task EXCEPT ![w] = NoTask]
        /\ UNCHANGED <<now, serverVars, fdVars, signalVars, clientVars, connVars, poolStopped,
                       mainVars, observerVars>>
    BY <1>5 DEF Resubmit, SubmitAgain, TaskEnds
  <2>2. tasks' \in Seq(Tasks) /\ Len(tasks') <= QUEUE_CAPACITY
    <3>1. task[w].conn \in Conns
      BY <1>5, RunningTask DEF Resubmit, SubmitAgain
    <3>2. /\ [kind |-> "again", conn |-> task[w].conn] \in Tasks
          /\ [kind |-> "read", conn |-> task[w].conn] \in Tasks
      BY <3>1 DEF Tasks
    <3>3. \E r \in Tasks : Enqueue(r)
      BY <1>5, <3>2 DEF Resubmit, SubmitAgain
    <3>. QED
      BY <3>3, EnqueueType DEF PoolOK
  <2>3. PoolOK'
    BY <2>1, <2>2, ThreadFacts DEF PoolOK, TaskInv, MainLabels, WorkerLabels
  <2>4. TaskInv'
    BY <2>1, ThreadFacts DEF PoolOK, TaskInv, MainLabels, WorkerLabels
  <2>5. LoopOK' /\ ConnsOK'
    BY <2>1 DEF LoopOK, ConnsOK
  <2>. QED
    BY <2>3, <2>4, <2>5
<1>6. CASE Flush(w)
  <2>1. ConnsOK'
    BY <1>6 DEF Flush, ConnsOK
  <2>2. PoolOK'
    BY <1>6, ThreadFacts DEF Flush, PoolOK, TaskInv, MainLabels, WorkerLabels
  <2>3. TaskInv'
    <3>1. /\ pc[w] = "write" /\ task' = task /\ UNCHANGED report
          /\ \E l \in {"flushed", "blocked", "remove"} : pc' = [pc EXCEPT ![w] = l]
      BY <1>6 DEF Flush
    <3>. QED
      BY <3>1, ThreadFacts DEF TaskInv, MainLabels, WorkerLabels
  <2>4. LoopOK'
    BY <1>6 DEF Flush, LoopOK
  <2>. QED
    BY <2>1, <2>2, <2>3, <2>4
<1>7. CASE WriteRearms(w)
  <2>1. /\ pc' = [pc EXCEPT ![w] = "idle"] /\ task' = [task EXCEPT ![w] = NoTask]
        /\ tasks' = tasks
    BY <1>7 DEF WriteRearms, TaskEnds
  <2>2. task[w].conn \in Conns
    BY <1>7, RunningTask DEF WriteRearms
  <2>3. ConnsOK'
    BY <1>7, <2>1, <2>2 DEF WriteRearms, TaskEnds, Rearm, ConnsOK
  <2>4. PoolOK'
    BY <1>7, <2>1, ThreadFacts
       DEF WriteRearms, TaskEnds, PoolOK, TaskInv, MainLabels, WorkerLabels
  <2>5. TaskInv'
    <3>1. report' = report /\ pc[w] \notin {"idle", "gone"}
      BY <1>7 DEF WriteRearms, TaskEnds
    <3>. QED
      BY <2>1, <3>1, ThreadFacts DEF PoolOK, TaskInv, MainLabels, WorkerLabels
  <2>6. LoopOK'
    BY <1>7 DEF WriteRearms, TaskEnds, LoopOK
  <2>. QED
    BY <2>3, <2>4, <2>5, <2>6
<1>8. CASE ServeCloses(w) \/ WriteCloses(w) \/ Again(w) \/ Find(w)
  <2>1. /\ pc[w] \notin {"idle", "gone"}
        /\ \/ pc' = [pc EXCEPT ![w] = "idle"] /\ task' = [task EXCEPT ![w] = NoTask]
           \/ \E l \in {"remove", "find", "submit"} :
                 pc' = [pc EXCEPT ![w] = l] /\ task' = task
        /\ UNCHANGED <<now, serverVars, fdVars, signalVars, clientVars, connVars, tasks,
                       poolStopped, mainVars, observerVars>>
    BY <1>8 DEF ServeCloses, WriteCloses, Again, Find, TaskEnds
  <2>2. PoolOK'
    BY <2>1, ThreadFacts DEF PoolOK, TaskInv, MainLabels, WorkerLabels
  <2>3. TaskInv'
    BY <2>1, ThreadFacts DEF PoolOK, TaskInv, MainLabels, WorkerLabels
  <2>4. LoopOK' /\ ConnsOK'
    BY <2>1 DEF LoopOK, ConnsOK
  <2>. QED
    BY <2>2, <2>3, <2>4
<1>9. CASE TaskOutlivesLoop(w)
  <2>1. PoolOK'
    BY <1>9, ThreadFacts DEF TaskOutlivesLoop, PoolOK, TaskInv, MainLabels, WorkerLabels
  <2>2. TaskInv'
    BY <1>9, ThreadFacts DEF TaskOutlivesLoop, PoolOK, TaskInv, MainLabels, WorkerLabels
  <2>3. LoopOK' /\ ConnsOK'
    BY <1>9 DEF TaskOutlivesLoop, LoopOK, ConnsOK
  <2>. QED
    BY <2>1, <2>2, <2>3
<1>. QED
  BY <1>1, <1>2, <1>3, <1>4, <1>5, <1>6, <1>7, <1>8, <1>9, RemovalKeepsInv, ThreadFacts
     DEF WorkerSteps

\* Calls of the logger.
LEMMA CallKeepsInv ==
    ASSUME IndInv, NEW t \in Threads, LogCall(t) \/ LogReturns(t)
    PROVE  IndInv'
<1> USE DEF IndInv, noLogVars, serverVars, fdVars, signalVars, clientVars, connVars, poolVars,
            mainVars, observerVars
<1>1. CASE LogCall(t)
  BY <1>1 DEF LogCall, LoopOK, ConnsOK, PoolOK, TaskInv
<1>2. CASE LogReturns(t)
  <2>1. pc[t] \in {"announce", "drain", "ended", "failed", "recvLog"}
    BY <1>2 DEF LogReturns, CanLog, AfterLog
  <2>2. pc' = [pc EXCEPT ![t] = AfterLog[pc[t]]]
    BY <1>2 DEF LogReturns, Goto
  <2>3. LoopOK' /\ ConnsOK'
    BY <1>2 DEF LogReturns, LoopOK, ConnsOK
  <2>4. CASE t = Main
    <3>1. AfterLog[pc[t]] \in {"run", "wait", "stopLogger", "dtor"}
      BY <2>1, <2>4 DEF AfterLog, PoolOK, MainLabels
    <3>2. pc[Main] # "crashed" /\ UNCHANGED <<poolVars, mainVars, leftover, undefined>>
      BY <1>2, <2>1, <2>4 DEF LogReturns
    <3>3. PoolOK'
      BY <2>2, <2>4, <3>1, <3>2, ThreadFacts DEF PoolOK, TaskInv, MainLabels, WorkerLabels
    <3>4. TaskInv'
      BY <2>2, <2>4, <3>1, <3>2, ThreadFacts DEF TaskInv, MainLabels, WorkerLabels
    <3>. QED
      BY <2>3, <3>3, <3>4
  <2>5. CASE t \in Workers
    <3>1. pc[t] = "recvLog"
      BY <2>1, <2>5 DEF PoolOK, WorkerLabels
    <3>2. AfterLog[pc[t]] = "serve"
      BY <3>1 DEF AfterLog
    <3>3. PoolOK' /\ TaskInv'
      BY <1>2, <2>2, <2>5, <3>1, <3>2, ThreadFacts
         DEF LogReturns, PoolOK, TaskInv, MainLabels, WorkerLabels
    <3>. QED
      BY <2>3, <3>3
  <2>. QED
    BY <2>4, <2>5, ThreadFacts
<1>. QED
  BY <1>1, <1>2

\* Time, clients and the log thread.
LEMMA OthersKeepInv ==
    ASSUME IndInv, Tick \/ LogThread \/ LogThreadWakes \/ UNCHANGED vars
                       \/ \E c \in Conns : Connect(c)
    PROVE  IndInv'
<1> USE DEF IndInv, noLogVars, serverVars, fdVars, signalVars, clientVars, connVars, poolVars,
            mainVars, observerVars
<1>1. CASE Tick
  BY <1>1, LifecycleAssumption DEF Tick, LoopOK, ConnsOK, PoolOK, TaskInv
<1>2. CASE LogThread \/ LogThreadWakes \/ UNCHANGED vars
  BY <1>2 DEF LogThread, LogThreadWakes, vars, LoopOK, ConnsOK, PoolOK, TaskInv
<1>3. CASE \E c \in Conns : Connect(c)
  BY <1>3 DEF Connect, LoopOK, ConnsOK, PoolOK, TaskInv
<1>. QED
  BY <1>1, <1>2, <1>3

LEMMA NextKeepsInv ==
    ASSUME IndInv, [Next]_vars
    PROVE  IndInv'
<1>1. ASSUME ~Ended, MainSteps PROVE IndInv'
  BY <1>1, BeginsKeepsInv, LoopsKeepsInv, EndsKeepsInv, CallKeepsInv, ThreadFacts DEF MainSteps
<1>2. ASSUME ~Ended, NEW w \in Workers, WorkerSteps(w) PROVE IndInv'
  BY <1>2, WorkerKeepsInv, CallKeepsInv, ThreadFacts
<1>3. ASSUME ~Ended, WaitFails PROVE IndInv'
  BY <1>3, LoopsKeepsInv
<1>. QED
  BY <1>1, <1>2, <1>3, HandlerKeepsInv, OthersKeepInv DEF Next

LEMMA InitInv == Init => IndInv
<1> SUFFICES ASSUME Init PROVE IndInv
  OBVIOUS
<1>1. LoopOK
  <2>1. /\ is_running \in BOOLEAN /\ listening \in BOOLEAN /\ epollOpen \in BOOLEAN
        /\ handler \in [SignalThreads -> {"no", "flag", "cas", "stamp", "wake"}]
    BY DEF Init
  <2>2. /\ now \in 0 .. SHUTDOWN_TIMEOUT /\ loop = "none" /\ state = "STOPPED"
        /\ shutdown_start = Epoch /\ signals \in 0 .. MaxSignals
    BY LifecycleAssumption DEF Init
  <2>. QED
    BY <2>1, <2>2 DEF LoopOK
<1>2. ConnsOK
  BY DEF Init, ConnsOK
<1>3. PoolOK
  <2>1. tasks \in Seq(Tasks) /\ report \in Seq(Tasks) /\ Len(tasks) <= QUEUE_CAPACITY
    BY LifecycleAssumption DEF Init
  <2>. QED
    BY <2>1, ThreadFacts DEF Init, PoolOK, MainLabels, WorkerLabels
<1>4. TaskInv
  BY ThreadFacts DEF Init, TaskInv, MainLabels, WorkerLabels
<1>. QED
  BY <1>1, <1>2, <1>3, <1>4 DEF IndInv

LEMMA InvAlways == Spec => []IndInv
BY InitInv, NextKeepsInv, PTL DEF Spec

\* Every variable of the server keeps its range, the logger's included; the task
\* queue never exceeds its capacity.
THEOREM TypeCorrect == Spec => []TypeOK
<1>1. IndInv /\ Proved!TypeOK => TypeOK
  BY DEF IndInv, TypeOK, Log!TypeOK, Proved!TypeOK, Log!Classes, Proved!Classes
<1>. QED
  BY <1>1, InvAlways, UsesLoggerAsSpecified, Proved!TypeCorrect, PTL

\* Mutexes and conn_map_mtx alone never stop everybody, however many workers
\* there are: whoever holds a conn_mutex waits for nothing but room in the queue,
\* and the sweep, which holds conn_map_mtx, for a conn_mutex.  So if all threads
\* wait, some worker waits in submit().
LEMMA OnlySubmitsJam ==
    ASSUME Workers # {}, \A t \in Threads : Blocked(t)
    PROVE  Jammed
<1>1. PICK w \in Workers : TRUE
  OBVIOUS
<1>2. Blocked(w) /\ Blocked(Main)
  BY ThreadFacts
<1>3. SUFFICES ASSUME \A v \in Workers : pc[v] \notin {"submit", "resubmit"} PROVE FALSE
  BY DEF Jammed
<1>4. \A v \in Workers : pc[v] \notin {"recvLog", "serve", "resubmit"}
  BY <1>3, ThreadFacts DEF Blocked
<1>5. \A c : ~Held(c)
  BY <1>4 DEF Held
<1>6. pc[Main] # "scan"
  BY <1>2, <1>5 DEF Blocked
<1>. QED
  BY <1>2, <1>3, <1>5, <1>6 DEF Blocked, MapFree

-----------------------------------------------------------------------------
(* event_loop is destroyed under nobody but leftover tasks *)

\* What the steps of EventLoop::run leave alone.
LEMMA LoopsStayInRun ==
    ASSUME IndInv, ~Ended, Loops \/ WaitFails
    PROVE  /\ pc[Main] \in InRun /\ pc'[Main] \in InRun \cup {"ended"}
           /\ UNCHANGED <<loop, is_running, handler, undefined, leftover>>
<1> USE DEF Goto, MainGoes, At, serverVars, fdVars, signalVars, clientVars, connVars, poolVars,
            mainVars, observerVars, noLogVars, InRun
<1>1. pc \in [Threads -> MainLabels \cup WorkerLabels]
  BY DEF IndInv, TaskInv
<1>2. CASE RemoveBegins(Main) \/ RemoveEnds(Main)
  <2>1. pc[Main] \in {"remove", "rmLock"} /\ UNCHANGED <<loop, is_running, handler, observerVars>>
    BY <1>2 DEF RemoveBegins, RemoveEnds
  <2>2. AfterRemoval(Main) \in {"check", "loop", "reap"}
    BY <2>1, AfterRemovalIs, ThreadFacts
  <2>3. pc'[Main] \in {"rmLock", AfterRemoval(Main)}
    BY <1>1, <1>2, ThreadFacts DEF RemoveBegins, RemoveEnds, RemoveReturns
  <2>. QED
    BY <2>1, <2>2, <2>3
<1>3. CASE Lookup \/ Submit
  <2>1. UNCHANGED <<loop, is_running, handler, observerVars>>
    BY <1>3 DEF Lookup, Submit
  <2>2. pc[Main] \in InRun /\ pc'[Main] \in InRun
    BY <1>1, <1>3, ThreadFacts DEF Lookup, Submit, NextOfReport
  <2>. QED
    BY <2>1, <2>2
<1>4. CASE Sweep \/ SweepLooks \/ SweepEnds \/ Reap
  BY <1>1, <1>4, ThreadFacts DEF Sweep, SweepLooks, SweepEnds, Reap
<1>5. CASE \/ LoopHead \/ WaitReturns \/ AcceptTests \/ Admit \/ Check \/ Cleanup \/ WaitFails
           \/ \E c \in Conns : WaitReports(c) \/ WaitHangsUp(c)
  BY <1>1, <1>5, ThreadFacts
     DEF LoopHead, WaitReturns, AcceptTests, Admit, Check, Cleanup, WaitFails, WaitReports,
         WaitHangsUp
<1>. QED
  BY <1>2, <1>3, <1>4, <1>5 DEF Loops

LEMMA MainKeepsDestroy ==
    ASSUME IndInv, DestroyInv, ~Ended,
           Begins \/ Loops \/ WaitFails \/ Ends \/ LogCall(Main) \/ LogReturns(Main)
    PROVE  DestroyInv'
<1> USE DEF Goto, MainGoes, At, serverVars, fdVars, signalVars, clientVars, connVars, poolVars,
            mainVars, observerVars, noLogVars, Destroyed
<1>1. pc \in [Threads -> MainLabels \cup WorkerLabels] /\ tasks \in Seq(Tasks)
  BY DEF IndInv, TaskInv, PoolOK
<1>2. CASE Begins
  BY <1>1, <1>2, ThreadFacts
     DEF Begins, InitLogger, StartFails, StartSucceeds, SetRunning, Run, StoreRunning,
         DestroyInv
<1>3. CASE Loops \/ WaitFails
  <2>1. /\ pc[Main] \in InRun /\ pc'[Main] \in InRun \cup {"ended"}
        /\ UNCHANGED <<loop, is_running>>
    BY <1>3, LoopsStayInRun
  <2>. QED
    BY <2>1 DEF DestroyInv, InRun
<1>4. CASE LoggerStops
  BY <1>4 DEF LoggerStops, DestroyInv
<1>5. CASE LoggerStopped
  <2>1. /\ pc[Main] \in {"stopLogger", "exit"}
        /\ pc' = [pc EXCEPT ![Main] = AfterStop[pc[Main]]]
        /\ UNCHANGED <<loop, is_running, tasks, leftover>>
    BY <1>5 DEF LoggerStopped, AfterStop
  <2>2. AfterStop[pc[Main]] = IF pc[Main] = "exit" THEN "exited" ELSE "dtor"
    BY <2>1 DEF AfterStop
  <2>. QED
    BY <1>1, <2>1, <2>2, ThreadFacts DEF DestroyInv
<1>6. CASE ServerStops
  BY <1>1, <1>6, ThreadFacts DEF ServerStops, TakeRequest, DestroyInv
<1>7. CASE LoopDestroyed
  BY <1>1, <1>7, ThreadFacts DEF LoopDestroyed, DestroyInv
<1>8. CASE PoolStops \/ PoolJoins
  BY <1>1, <1>8, ThreadFacts DEF PoolStops, PoolJoins, DestroyInv
<1>9. CASE LogCall(Main)
  BY <1>9 DEF LogCall, DestroyInv
<1>10. CASE LogReturns(Main)
  <2>1. /\ pc[Main] \in {"announce", "drain", "ended", "failed"}
        /\ pc' = [pc EXCEPT ![Main] = AfterLog[pc[Main]]]
        /\ UNCHANGED <<loop, is_running, tasks, leftover>>
    BY <1>10 DEF LogReturns, CanLog, AfterLog, IndInv, PoolOK, MainLabels
  <2>2. AfterLog[pc[Main]] \in {"run", "wait", "stopLogger", "dtor"}
    BY <2>1 DEF AfterLog
  <2>. QED
    BY <1>1, <2>1, <2>2, ThreadFacts DEF DestroyInv
<1>. QED
  BY <1>2, <1>3, <1>4, <1>5, <1>6, <1>7, <1>8, <1>9, <1>10 DEF Ends

LEMMA WorkerKeepsDestroy ==
    ASSUME IndInv, DestroyInv, ~Ended, NEW w \in Workers, WorkerSteps(w)
    PROVE  DestroyInv'
<1> USE DEF Goto, At, serverVars, fdVars, signalVars, clientVars, connVars, poolVars,
            mainVars, observerVars, noLogVars
<1>1. pc \in [Threads -> MainLabels \cup WorkerLabels] /\ w \in Threads /\ w # Main
  BY ThreadFacts DEF IndInv, TaskInv
<1>2. /\ UNCHANGED <<loop, is_running, leftover>>
      /\ pc'[Main] = pc[Main] \/ (pc'[Main] = "crashed" /\ loop = "destroyed")
  <2>1. CASE \/ TakeTask(w) \/ WorkerExits(w) \/ Recv(w) \/ Flush(w) \/ ServeMore(w)
             \/ ServeCloses(w) \/ WriteCloses(w)
    BY <1>1, <2>1, ThreadFacts
       DEF TakeTask, WorkerExits, Recv, Flush, ServeMore, ServeCloses, WriteCloses
  <2>2. CASE Serve(w) \/ Resubmit(w) \/ Again(w) \/ Find(w) \/ SubmitAgain(w) \/ WriteRearms(w)
    BY <1>1, <2>2, ThreadFacts
       DEF Serve, Resubmit, Again, Find, SubmitAgain, WriteRearms, TaskEnds
  <2>3. CASE TaskOutlivesLoop(w)
    BY <1>1, <2>3, ThreadFacts DEF TaskOutlivesLoop
  <2>4. CASE LogCall(w) \/ LogReturns(w)
    BY <1>1, <2>4, ThreadFacts DEF LogCall, LogReturns
  <2>5. CASE RemoveBegins(w) \/ RemoveEnds(w)
    BY <1>1, <2>5, ThreadFacts DEF RemoveBegins, RemoveEnds, RemoveReturns
  <2>. QED
    BY <2>1, <2>2, <2>3, <2>4, <2>5 DEF WorkerSteps
<1>3. ASSUME loop = "destroyed", tasks = <<>>, \A v \in Workers : pc[v] \in {"idle", "gone"}
      PROVE  tasks' = <<>> /\ \A v \in Workers : pc'[v] \in {"idle", "gone"}
  <2>1. CASE WorkerExits(w)
    BY <1>1, <1>3, <2>1 DEF WorkerExits
  <2>2. CASE LogCall(w) \/ LogReturns(w)
    BY <1>1, <1>3, <2>2 DEF LogCall, LogReturns, CanLog, AfterLog
  <2>3. /\ ~TakeTask(w) /\ ~Recv(w) /\ ~Serve(w) /\ ~ServeMore(w) /\ ~Resubmit(w)
        /\ ~ServeCloses(w) /\ ~Again(w) /\ ~Find(w) /\ ~SubmitAgain(w) /\ ~Flush(w)
        /\ ~WriteRearms(w) /\ ~WriteCloses(w) /\ ~RemoveBegins(w) /\ ~RemoveEnds(w)
        /\ ~TaskOutlivesLoop(w)
    BY <1>3
       DEF TakeTask, Recv, Serve, ServeMore, Resubmit, ServeCloses, Again, Find, SubmitAgain,
           Flush, WriteRearms, WriteCloses, RemoveBegins, RemoveEnds, TaskOutlivesLoop
  <2>. QED
    BY <2>1, <2>2, <2>3 DEF WorkerSteps
<1>. QED
  BY <1>2, <1>3 DEF DestroyInv, Destroyed

LEMMA HandlerKeepsDestroy ==
    ASSUME IndInv, DestroyInv, NEW t \in SignalThreads, SignalArrives(t) \/ Handler(t)
    PROVE  DestroyInv'
<1> USE DEF Goto, serverVars, poolVars, mainVars, observerVars
<1>1. pc \in [Threads -> MainLabels \cup WorkerLabels]
  BY DEF IndInv, TaskInv
<1>2. UNCHANGED <<loop, tasks, leftover>>
  BY DEF SignalArrives, Handler, HandlerTests, HandlerSwaps, HandlerStamps, HandlerWakes
<1>3. ASSUME is_running' PROVE is_running
  BY <1>3
     DEF SignalArrives, Handler, HandlerTests, TakeRequest, HandlerSwaps, HandlerStamps,
         HandlerWakes
<1>4. /\ \A w \in Workers : pc'[w] = pc[w]
      /\ pc'[Main] = pc[Main] \/ (pc[Main] = "wait" /\ pc'[Main] = "loop")
  BY <1>1, ThreadFacts
     DEF SignalArrives, Handler, HandlerTests, HandlerSwaps, HandlerStamps, HandlerWakes,
         HandlerReturns
<1>. QED
  BY <1>2, <1>3, <1>4 DEF DestroyInv, Destroyed

LEMMA NextKeepsDestroy ==
    ASSUME IndInv, DestroyInv, [Next]_vars
    PROVE  DestroyInv'
<1>1. CASE Tick \/ LogThread \/ LogThreadWakes \/ UNCHANGED vars \/ \E c \in Conns : Connect(c)
  BY <1>1
     DEF Tick, LogThread, LogThreadWakes, Connect, vars, noLogVars, serverVars, fdVars,
         signalVars, connVars, poolVars, mainVars, observerVars, DestroyInv
<1>. QED
  BY <1>1, MainKeepsDestroy, WorkerKeepsDestroy, HandlerKeepsDestroy DEF Next, MainSteps

LEMMA DestroyAlways == Spec => []DestroyInv
<1>1. Init => DestroyInv
  BY ThreadFacts DEF Init, DestroyInv, Destroyed
<1>2. IndInv /\ DestroyInv /\ [Next]_vars => DestroyInv'
  BY NextKeepsDestroy
<1>. QED
  BY <1>1, <1>2, InvAlways, PTL DEF Spec

\* With the handler on the thread of main(), main() does not move while it runs.
LEMMA SignalKeepsHandler ==
    ASSUME IndInv, DestroyInv, HandlerInv, NEW t \in SignalThreads, SignalArrives(t) \/ Handler(t)
    PROVE  HandlerInv'
<1> USE DEF serverVars, observerVars
<1>1. handler \in [SignalThreads -> {"no", "flag", "cas", "stamp", "wake"}]
  BY DEF IndInv, LoopOK
<1>2. UNCHANGED <<loop, leftover>>
  BY DEF SignalArrives, Handler, HandlerTests, HandlerSwaps, HandlerStamps, HandlerWakes
<1>3. ASSUME undefined' PROVE undefined
  <2>1. handler[t] \in {"cas", "stamp", "wake"} => loop # "destroyed"
    BY DEF HandlerInv
  <2>. QED
    BY <1>3, <2>1
       DEF SignalArrives, Handler, HandlerTests, HandlerSwaps, HandlerStamps, HandlerWakes
<1>4. handler'[t] \in {"cas", "stamp", "wake"} => loop # "destroyed"
  <2>1. CASE SignalArrives(t)
    BY <1>1, <2>1 DEF SignalArrives
  <2>2. CASE HandlerTests(t)
    BY <1>1, <2>2 DEF HandlerTests, HandlerReturns, DestroyInv, Destroyed
  <2>3. CASE HandlerSwaps(t) \/ HandlerStamps(t) \/ HandlerWakes(t)
    BY <2>3 DEF HandlerSwaps, HandlerStamps, HandlerWakes, HandlerInv
  <2>. QED
    BY <2>1, <2>2, <2>3 DEF Handler
<1>5. \A u \in SignalThreads : u # t => handler'[u] = handler[u]
  BY <1>1
     DEF SignalArrives, Handler, HandlerTests, HandlerSwaps, HandlerStamps, HandlerWakes,
         HandlerReturns
<1>. QED
  BY <1>2, <1>3, <1>4, <1>5 DEF HandlerInv

LEMMA NextKeepsHandler ==
    ASSUME SignalThreads \subseteq {Main}, IndInv, DestroyInv, HandlerInv, [Next]_vars
    PROVE  HandlerInv'
<1> USE DEF MainGoes, At, serverVars, fdVars, signalVars, clientVars, connVars, poolVars,
            mainVars, observerVars, noLogVars
<1>1. ASSUME NEW t \in SignalThreads, SignalArrives(t) \/ Handler(t) PROVE HandlerInv'
  BY <1>1, SignalKeepsHandler
<1>2. CASE LoopDestroyed
  <2>1. \A t \in SignalThreads : handler[t] = "no"
    BY <1>2 DEF LoopDestroyed, Free
  <2>2. loop # "destroyed"
    BY <1>2 DEF LoopDestroyed, DestroyInv, Destroyed
  <2>3. ~undefined
    BY <2>2 DEF HandlerInv
  <2>4. ~undefined'
    BY <1>2, <2>3 DEF LoopDestroyed
  <2>. QED
    BY <1>2, <2>1, <2>4 DEF LoopDestroyed, HandlerInv
<1>3. CASE Begins
  <2>1. loop # "destroyed"
    BY <1>3
       DEF Begins, InitLogger, StartFails, StartSucceeds, SetRunning, Run, StoreRunning,
           DestroyInv, Destroyed
  <2>2. ~undefined
    BY <2>1 DEF HandlerInv
  <2>3. UNCHANGED <<handler, undefined>> /\ loop' \in {loop, "live"}
    BY <1>3 DEF Begins, InitLogger, StartFails, StartSucceeds, SetRunning, Run, StoreRunning
  <2>4. ~undefined'
    BY <2>2, <2>3
  <2>. QED
    BY <2>1, <2>3, <2>4 DEF HandlerInv
<1>4. CASE Tick \/ LogThread \/ LogThreadWakes \/ UNCHANGED vars \/ \E c \in Conns : Connect(c)
  BY <1>4 DEF Tick, LogThread, LogThreadWakes, Connect, vars, HandlerInv
<1>5. ASSUME ~Ended, Loops \/ WaitFails PROVE HandlerInv'
  <2>1. UNCHANGED <<handler, loop, undefined, leftover>>
    BY <1>5, LoopsStayInRun
  <2>. QED
    BY <2>1 DEF HandlerInv
<1>6. CASE LoggerStops \/ LoggerStopped \/ ServerStops \/ PoolStops \/ PoolJoins
  BY <1>6 DEF LoggerStops, LoggerStopped, ServerStops, PoolStops, PoolJoins, HandlerInv
<1>7. ASSUME NEW t \in Threads, LogCall(t) \/ LogReturns(t) PROVE HandlerInv'
  BY <1>7 DEF LogCall, LogReturns, HandlerInv
<1>8. ASSUME NEW w \in Workers, TaskOutlivesLoop(w) PROVE HandlerInv'
  <2>1. loop = "destroyed" /\ pc[w] \notin {"idle", "gone"}
        /\ UNCHANGED <<handler, loop, leftover>>
    BY <1>8 DEF TaskOutlivesLoop
  <2>2. leftover
    BY <2>1 DEF DestroyInv
  <2>. QED
    BY <2>1, <2>2 DEF HandlerInv
<1>9. ASSUME NEW w \in Workers, WorkerSteps(w), ~TaskOutlivesLoop(w), ~LogCall(w), ~LogReturns(w)
      PROVE  HandlerInv'
  <2>1. UNCHANGED <<handler, loop, undefined, leftover>>
    BY <1>9
       DEF WorkerSteps, TakeTask, WorkerExits, Recv, Serve, ServeMore, Resubmit, ServeCloses,
           Again, Find, SubmitAgain, Flush, WriteRearms, WriteCloses, RemoveBegins, RemoveEnds,
           TaskEnds
  <2>. QED
    BY <2>1 DEF HandlerInv
<1>. QED
  BY <1>1, <1>2, <1>3, <1>4, <1>5, <1>6, <1>7, <1>8, <1>9, ThreadFacts DEF Next, MainSteps, Ends

\* event_loop is destroyed before the workers are joined (TcpServer.h declares
\* it after thread_pool).  If signals are handled on the thread of main(), nothing
\* uses it after that but a task that was queued or under way at that moment:
\* no handler is between the test of is_running and the end of EventLoop::stop, and
\* no task starts later.
THEOREM OnlyLeftoversUseDestroyedLoop ==
    ASSUME SignalThreads \subseteq {Main}
    PROVE  Spec => []OnlyLeftoversAreUndefined
<1>1. Init => HandlerInv
  BY DEF Init, HandlerInv
<1>2. IndInv /\ DestroyInv /\ HandlerInv /\ [Next]_vars => HandlerInv'
  BY NextKeepsHandler
<1>3. HandlerInv => OnlyLeftoversAreUndefined
  BY DEF HandlerInv, OnlyLeftoversAreUndefined
<1>. QED
  BY <1>1, <1>2, <1>3, InvAlways, DestroyAlways, PTL DEF Spec

-----------------------------------------------------------------------------
(* The time for draining *)

\* A step that leaves state, shutdown_start and the handler alone, keeps main()
\* where it is, and adds no connection.
LEMMA DrainIsStable ==
    ASSUME DrainInv, UNCHANGED <<state, shutdown_start, handler>>, now \in Nat, now' \in Nat,
           now <= now', mapped' \subseteq mapped, task'[Main] = task[Main],
           pc'[Main] = pc[Main] \/ pc'[Main] \notin InRun
    PROVE  DrainInv'
BY LifecycleAssumption DEF DrainInv, InRun

LEMMA SignalKeepsDrain ==
    ASSUME IndInv, DrainInv, NEW t \in SignalThreads, SignalArrives(t) \/ Handler(t)
    PROVE  DrainInv'
<1> USE DEF serverVars, connVars, poolVars, Goto
<1>1. /\ handler \in [SignalThreads -> {"no", "flag", "cas", "stamp", "wake"}]
      /\ pc \in [Threads -> MainLabels \cup WorkerLabels]
      /\ now \in 0 .. SHUTDOWN_TIMEOUT
  BY DEF IndInv, LoopOK, TaskInv
<1>2. UNCHANGED <<now, mapped, task>>
  BY DEF SignalArrives, Handler, HandlerTests, HandlerSwaps, HandlerStamps, HandlerWakes
<1>3. pc'[Main] = pc[Main] \/ (pc[Main] = "wait" /\ pc'[Main] = "loop")
  BY <1>1, ThreadFacts
     DEF SignalArrives, Handler, HandlerTests, HandlerSwaps, HandlerStamps, HandlerWakes,
         HandlerReturns
<1>4. \A u \in SignalThreads : u # t => handler'[u] = handler[u]
  BY <1>1
     DEF SignalArrives, Handler, HandlerTests, HandlerSwaps, HandlerStamps, HandlerWakes,
         HandlerReturns
<1>5. CASE SignalArrives(t) \/ HandlerTests(t) \/ HandlerWakes(t)
  <2>1. UNCHANGED <<state, shutdown_start>> /\ handler[t] # "stamp"
    BY <1>5 DEF SignalArrives, HandlerTests, HandlerWakes
  <2>. QED
    BY <1>2, <1>3, <1>4, <2>1 DEF DrainInv, InRun
<1>6. CASE HandlerSwaps(t)
  <2>1. CASE state = "RUNNING"
    <3>1. state' = "STOPPING" /\ handler'[t] = "stamp"
      BY <1>1, <1>6, <2>1 DEF HandlerSwaps
    <3>. QED
      BY <3>1 DEF DrainInv
  <2>2. CASE state # "RUNNING"
    <3>1. UNCHANGED <<state, shutdown_start>> /\ handler[t] # "stamp"
      BY <1>6, <2>2 DEF HandlerSwaps
    <3>. QED
      BY <1>2, <1>3, <1>4, <3>1 DEF DrainInv, InRun
  <2>. QED
    BY <2>1, <2>2
<1>7. CASE HandlerStamps(t)
  <2>1. shutdown_start' # Epoch /\ UNCHANGED state
    BY <1>1, <1>7, EpochIs DEF HandlerStamps, TimeStamp
  <2>. QED
    BY <1>2, <1>3, <2>1 DEF DrainInv, InRun
<1>. QED
  BY <1>5, <1>6, <1>7 DEF Handler

LEMMA LoopKeepsDrain ==
    ASSUME SignalThreads \subseteq {Main}, IndInv, ~Ended, DrainInv, Loops \/ WaitFails
    PROVE  DrainInv'
<1> USE DEF MainGoes, At, Goto, serverVars, fdVars, signalVars, clientVars, connVars, poolVars,
            mainVars, observerVars, noLogVars, InRun
<1>1. /\ pc \in [Threads -> MainLabels \cup WorkerLabels]
      /\ now \in 0 .. SHUTDOWN_TIMEOUT
      /\ shutdown_start \in {Epoch} \cup 0 .. SHUTDOWN_TIMEOUT
  BY DEF IndInv, LoopOK, TaskInv
<1>2. CASE LoopHead
  BY <1>1, <1>2, ThreadFacts DEF LoopHead, DrainInv
<1>3. CASE WaitReturns \/ WaitFails \/ AcceptTests
  BY <1>1, <1>3, ThreadFacts DEF WaitReturns, WaitFails, AcceptTests, DrainInv
<1>4. ASSUME NEW c \in Conns, WaitReports(c) \/ WaitHangsUp(c) PROVE DrainInv'
  <2>1. /\ pc[Main] = "wait" /\ pc'[Main] \in {"lookup", "remove"}
        /\ UNCHANGED <<now, mapped, state, shutdown_start, handler>>
    BY <1>1, <1>4, ThreadFacts DEF WaitReports, WaitHangsUp
  <2>. QED
    BY <2>1 DEF DrainInv
<1>9. CASE Lookup \/ Submit
  <2>1. /\ pc[Main] \in {"lookup", "submit"} /\ pc'[Main] \in {"lookup", "submit", "check"}
        /\ UNCHANGED <<state, shutdown_start, handler>>
    BY <1>1, <1>9, ThreadFacts DEF Lookup, Submit, NextOfReport
  <2>. QED
    BY <2>1 DEF DrainInv
<1>10. CASE RemoveBegins(Main) \/ RemoveEnds(Main)
  <2>1. /\ pc[Main] \in {"remove", "rmLock"} /\ mapped' \subseteq mapped
        /\ UNCHANGED <<now, state, shutdown_start, handler>>
    BY <1>10 DEF RemoveBegins, RemoveEnds, Remove
  <2>2. \/ pc'[Main] = "rmLock" /\ task' = task
        \/ pc'[Main] = AfterRemoval(Main)
    BY <1>1, <1>10, ThreadFacts DEF RemoveBegins, RemoveEnds, RemoveReturns
  <2>3. \/ task[Main].kind = "hangup" /\ AfterRemoval(Main) = "check"
        \/ task[Main].kind = "timeout" /\ AfterRemoval(Main) \in {"loop", "reap"}
    BY <2>1, AfterRemovalIs, ThreadFacts
  <2>4. CASE pc'[Main] = "rmLock" /\ task' = task
    BY <2>1, <2>4 DEF DrainInv
  <2>5. CASE pc'[Main] = "check" /\ task[Main].kind = "hangup"
    BY <2>1, <2>5 DEF DrainInv
  <2>6. CASE pc'[Main] \in {"loop", "reap"}
    BY <2>1, <2>6 DEF DrainInv
  <2>. QED
    BY <2>2, <2>3, <2>4, <2>5, <2>6
<1>5. CASE Admit
  <2>1. pc[Main] = "admit" /\ pc'[Main] = "check" /\ UNCHANGED <<state, shutdown_start, handler>>
    BY <1>1, <1>5, ThreadFacts DEF Admit
  <2>. QED
    BY <2>1 DEF DrainInv
<1>6. CASE Check
  <2>1. /\ pc[Main] = "check" /\ pc'[Main] = "sweep"
        /\ UNCHANGED <<now, mapped, shutdown_start, handler>>
        /\ state' = IF state = "STOPPING" /\ ShutdownComplete THEN "STOPPED" ELSE state
    BY <1>1, <1>6, ThreadFacts DEF Check
  <2>2. \A t \in SignalThreads : handler[t] # "stamp"
    BY <1>6 DEF Check, Free
  <2>3. state # "STOPPED" /\ (state # "RUNNING" => shutdown_start # Epoch)
    BY <2>1, <2>2 DEF DrainInv
  <2>4. state' = "STOPPED" => mapped = {} \/ now >= SHUTDOWN_TIMEOUT
    <3>1. CASE state = "STOPPING" /\ Elapsed >= SHUTDOWN_TIMEOUT
      BY <1>1, <2>3, <3>1, LifecycleAssumption DEF Elapsed
    <3>. QED
      BY <2>1, <2>3, <3>1 DEF ShutdownComplete
  <2>5. state' # "RUNNING" => shutdown_start # Epoch
    BY <2>1, <2>3
  <2>. QED
    BY <2>1, <2>4, <2>5 DEF DrainInv
<1>7. CASE Sweep \/ SweepLooks \/ SweepEnds \/ Reap
  <2>1. /\ pc[Main] \in {"sweep", "scan", "reap"}
        /\ pc'[Main] \in {"loop", "scan", "reap", "remove"}
        /\ UNCHANGED <<now, mapped, state, shutdown_start, handler>>
    BY <1>1, <1>7, ThreadFacts DEF Sweep, SweepLooks, SweepEnds, Reap
  <2>2. pc'[Main] = "remove" => task'[Main].kind = "timeout"
    <3>1. pc'[Main] = "remove" => Reap
      BY <1>1, <1>7, ThreadFacts DEF Sweep, SweepLooks, SweepEnds
    <3>2. task \in [Threads -> Tasks \cup Removals \cup {NoTask}]
      BY DEF IndInv, PoolOK
    <3>3. ASSUME Reap PROVE task'[Main].kind = "timeout"
      <4>1. PICK c \in doomed : task' = [task EXCEPT ![Main] = [kind |-> "timeout", conn |-> c]]
        BY <3>3 DEF Reap
      <4>2. task'[Main] = [kind |-> "timeout", conn |-> c]
        BY <3>2, <4>1, ThreadFacts
      <4>. QED
        BY <4>2
    <3>. QED
      BY <3>1, <3>3
  <2>. QED
    BY <2>1, <2>2 DEF DrainInv
<1>8. CASE Cleanup
  BY <1>1, <1>8, ThreadFacts DEF Cleanup, DrainInv
<1>. QED
  BY <1>2, <1>3, <1>4, <1>5, <1>6, <1>7, <1>8, <1>9, <1>10 DEF Loops

LEMMA NextKeepsDrain ==
    ASSUME SignalThreads \subseteq {Main}, IndInv, DrainInv, [Next]_vars
    PROVE  DrainInv'
<1> USE DEF MainGoes, At, Goto, serverVars, fdVars, signalVars, clientVars, connVars, poolVars,
            mainVars, observerVars, noLogVars
<1>1. /\ pc \in [Threads -> MainLabels \cup WorkerLabels] /\ now \in Nat
  BY LifecycleAssumption DEF IndInv, LoopOK, TaskInv
<1>2. ASSUME NEW t \in SignalThreads, SignalArrives(t) \/ Handler(t) PROVE DrainInv'
  BY <1>2, SignalKeepsDrain
<1>3. ASSUME ~Ended, Loops \/ WaitFails PROVE DrainInv'
  BY <1>3, LoopKeepsDrain
<1>4. CASE Begins
  BY <1>1, <1>4, ThreadFacts
     DEF Begins, InitLogger, StartFails, StartSucceeds, SetRunning, Run, StoreRunning,
         DrainInv, InRun
<1>5. CASE Ends
  <2>1. pc'[Main] = pc[Main] \/ pc'[Main] \notin InRun
    BY <1>1, <1>5, ThreadFacts
       DEF Ends, LoggerStops, LoggerStopped, ServerStops, LoopDestroyed, PoolStops, PoolJoins,
           AfterStop, InRun
  <2>2. pc[Main] \notin InRun
    BY <1>5
       DEF Ends, LoggerStops, LoggerStopped, ServerStops, LoopDestroyed, PoolStops, PoolJoins,
           AfterStop, InRun
  <2>. QED
    BY <2>1, <2>2 DEF DrainInv, InRun
<1>6. CASE LogReturns(Main)
  <2>1. /\ pc[Main] \in {"announce", "drain", "ended", "failed"}
        /\ pc' = [pc EXCEPT ![Main] = AfterLog[pc[Main]]]
        /\ UNCHANGED <<now, state, shutdown_start, handler, mapped>>
    BY <1>6 DEF LogReturns, CanLog, AfterLog, IndInv, PoolOK, MainLabels
  <2>2. /\ pc[Main] = "drain" => AfterLog[pc[Main]] = "wait"
        /\ pc[Main] # "drain" => AfterLog[pc[Main]] \in {"run", "stopLogger", "dtor"}
    BY <2>1 DEF AfterLog
  <2>3. CASE pc[Main] = "drain"
    BY <1>1, <2>1, <2>2, <2>3, ThreadFacts DEF DrainInv, InRun
  <2>4. CASE pc[Main] # "drain"
    BY <1>1, <2>1, <2>2, <2>4, ThreadFacts DEF DrainInv, InRun
  <2>. QED
    BY <2>3, <2>4
<1>7. CASE Tick
  <2>1. now' = now + 1 /\ UNCHANGED <<pc, state, shutdown_start, handler, mapped, task>>
    BY <1>7 DEF Tick
  <2>. QED
    BY <1>1, <2>1, DrainIsStable
<1>8. CASE \/ LogThread \/ LogThreadWakes \/ UNCHANGED vars \/ LogCall(Main)
           \/ \E c \in Conns : Connect(c)
  <2>1. UNCHANGED <<pc, now, state, shutdown_start, handler, mapped, task>>
    BY <1>8 DEF LogThread, LogThreadWakes, Connect, LogCall, vars
  <2>. QED
    BY <1>1, <2>1, DrainIsStable
<1>9. ASSUME NEW w \in Workers, WorkerSteps(w) PROVE DrainInv'
  <2>1. UNCHANGED <<now, state, shutdown_start, handler>> /\ mapped' \subseteq mapped
    BY <1>9
       DEF WorkerSteps, TakeTask, WorkerExits, Recv, Serve, ServeMore, Resubmit, ServeCloses,
           Again, Find, SubmitAgain, Answers, Flush, WriteRearms, WriteCloses, RemoveBegins,
           RemoveEnds, TaskEnds, TaskOutlivesLoop, LogCall, LogReturns, Remove
  <2>2. pc'[Main] = pc[Main] \/ pc'[Main] = "crashed"
    BY <1>1, <1>9, ThreadFacts
       DEF WorkerSteps, TakeTask, WorkerExits, Recv, Serve, ServeMore, Resubmit, ServeCloses,
           Again, Find, SubmitAgain, Flush, WriteRearms, WriteCloses, RemoveBegins,
           RemoveReturns, RemoveEnds, TaskEnds, TaskOutlivesLoop, LogCall, LogReturns
  <2>4. task'[Main] = task[Main]
    <3>1. task \in [Threads -> Tasks \cup Removals \cup {NoTask}]
      BY DEF IndInv, PoolOK
    <3>. QED
      BY <1>9, <3>1, ThreadFacts
         DEF WorkerSteps, TakeTask, WorkerExits, Recv, Serve, ServeMore, Resubmit, ServeCloses,
             Again, Find, SubmitAgain, Flush, WriteRearms, WriteCloses, RemoveBegins,
             RemoveReturns, RemoveEnds, TaskEnds, TaskOutlivesLoop, LogCall, LogReturns
  <2>3. "crashed" \notin InRun
    BY DEF InRun
  <2>. QED
    BY <1>1, <2>1, <2>2, <2>3, <2>4, DrainIsStable
<1>. QED
  BY <1>2, <1>3, <1>4, <1>5, <1>6, <1>7, <1>8, <1>9 DEF Next, MainSteps

\* If signals are handled on the thread of main(), run() stops with a connection
\* that has unsent bytes only when the time for draining has passed since the
\* request: it never compares the clock with a shutdown_start that EventLoop::stop
\* has yet to write.
THEOREM DrainingGetsItsTime ==
    ASSUME SignalThreads \subseteq {Main}
    PROVE  Spec => []DrainTimeIsGranted
<1>1. Init => DrainInv
  BY ThreadFacts DEF Init, DrainInv, InRun
<1>2. IndInv /\ DrainInv /\ [Next]_vars => DrainInv'
  BY NextKeepsDrain
<1>3. DrainInv => DrainTimeIsGranted
  BY DEF DrainInv, DrainTimeIsGranted
<1>. QED
  BY <1>1, <1>2, <1>3, InvAlways, PTL DEF Spec
=============================================================================
