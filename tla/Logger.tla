-------------------------------- MODULE Logger --------------------------------
(***************************************************************************)
(* The asynchronous logger: threads push entries onto a queue, a thread of *)
(* its own writes them, and stop() has that thread finish and joins it.    *)
(*                                                                         *)
(* A stretch under queue_mtx is one action.  log() reads running before it *)
(* takes the mutex and notifies after it has released it, so each call has *)
(* three steps that others interleave with.  Of an entry only its class is *)
(* kept: "early" when it was pushed before stop() cleared running.         *)
(***************************************************************************)
EXTENDS Naturals, Sequences

CONSTANT Callers   \* the threads that log

VARIABLES running,    \* init() was called and stop() was not
          queue,      \* entries pushed and not taken
          consumer,   \* where process_queue is
          caller,     \* where each thread is in log() or log_http()
          stopper     \* where stop() is

vars == <<running, queue, consumer, caller, stopper>>

Classes == {"early", "late"}

Init ==
    /\ running = FALSE
    /\ queue = <<>>
    /\ consumer = "none"
    /\ caller = [t \in Callers |-> "out"]
    /\ stopper = "no"

-----------------------------------------------------------------------------
(* init *)

Start ==
    /\ ~running /\ consumer = "none"
    /\ running' = TRUE
    /\ consumer' = "test"
    /\ UNCHANGED <<queue, caller, stopper>>

-----------------------------------------------------------------------------
(* log, log_http *)

\* The test of running without the mutex; a caller that finds it FALSE returns.
\* running is no atomic: a caller that reads the old TRUE races like one that
\* came earlier.
LogEnters(t) ==
    /\ caller[t] = "out" /\ running
    /\ caller' = [caller EXCEPT ![t] = "in"]
    /\ UNCHANGED <<running, queue, consumer, stopper>>

LogPushes(t) ==
    /\ caller[t] = "in"
    /\ queue' = Append(queue, IF running THEN "early" ELSE "late")
    /\ caller' = [caller EXCEPT ![t] = "notify"]
    /\ UNCHANGED <<running, consumer, stopper>>

\* What notify_one and notify_all make of the consumer.
MutantWoken == consumer
Woken == IF consumer = "wait" THEN "test" ELSE consumer

LogNotifies(t) ==
    /\ caller[t] = "notify"
    /\ consumer' = Woken
    /\ caller' = [caller EXCEPT ![t] = "out"]
    /\ UNCHANGED <<running, queue, stopper>>

-----------------------------------------------------------------------------
(* process_queue *)

ConsumerWaits ==
    /\ consumer = "test"
    /\ queue = <<>> /\ running
    /\ consumer' = "wait"
    /\ UNCHANGED <<running, queue, caller, stopper>>

SpuriousWakeup ==
    /\ consumer = "wait"
    /\ consumer' = "test"
    /\ UNCHANGED <<running, queue, caller, stopper>>

\* The predicate of the wait holds and it is not the end: one entry is taken ...
ConsumerTakes ==
    /\ consumer = "test" /\ queue # <<>>
    /\ queue' = Tail(queue)
    /\ consumer' = "write"
    /\ UNCHANGED <<running, caller, stopper>>

\* ... and, the mutex released, formatted and written.
ConsumerWrites ==
    /\ consumer = "write"
    /\ consumer' = "test"
    /\ UNCHANGED <<running, queue, caller, stopper>>

\* The end: stopped, and nothing left to write.
MutantMayExit == ~running
MayExit == ~running /\ queue = <<>>

ConsumerExits ==
    /\ consumer = "test" /\ MayExit
    /\ consumer' = "exited"
    /\ UNCHANGED <<running, queue, caller, stopper>>

Consumer == ConsumerWaits \/ ConsumerTakes \/ ConsumerWrites \/ ConsumerExits

-----------------------------------------------------------------------------
(* stop; a second call finds running FALSE and returns *)

StopClears ==
    /\ running /\ stopper = "no"
    /\ running' = FALSE
    /\ stopper' = "notify"
    /\ UNCHANGED <<queue, consumer, caller>>

StopNotifies ==
    /\ stopper = "notify"
    /\ consumer' = Woken
    /\ stopper' = "join"
    /\ UNCHANGED <<running, queue, caller>>

StopJoins ==
    /\ stopper = "join" /\ consumer = "exited"
    /\ stopper' = "done"
    /\ UNCHANGED <<running, queue, consumer, caller>>

-----------------------------------------------------------------------------

Log(t) == LogEnters(t) \/ LogPushes(t) \/ LogNotifies(t)
Stop == StopClears \/ StopNotifies \/ StopJoins

Next == Start \/ Consumer \/ SpuriousWakeup \/ Stop \/ \E t \in Callers : Log(t)

Spec == Init /\ [][Next]_vars

-----------------------------------------------------------------------------
(* Properties *)

TypeOK ==
    /\ running \in BOOLEAN
    /\ queue \in Seq(Classes)
    /\ consumer \in {"none", "test", "wait", "write", "exited"}
    /\ caller \in [Callers -> {"out", "in", "notify"}]
    /\ stopper \in {"no", "notify", "join", "done"}

\* When stop() returns, every entry pushed before it cleared running has been
\* written: what is still queued was pushed by a caller that had passed the
\* unlocked test earlier.
StoppedMeansWritten ==
    stopper = "done" => \A i \in 1 .. Len(queue) : queue[i] = "late"

\* The consumer never sleeps on work: with an entry queued or stop() under way,
\* a notification is still to come, although it is sent after the unlock.
NoLostWakeup ==
    consumer = "wait" =>
        \/ queue = <<>> /\ running
        \/ stopper = "notify"
        \/ \E t \in Callers : caller[t] = "notify"
=============================================================================
