----------------------------- MODULE LoggerProofs -----------------------------
(***************************************************************************)
(* Proofs about Logger, for any set of threads that log: types, no lost    *)
(* wakeup, and that stop() returns only when everything logged before it   *)
(* was written.                                                            *)
(***************************************************************************)
EXTENDS Logger, SequenceTheorems, TLAPS

\* What the last property needs: the log thread left when the queue held nothing,
\* and whoever pushes after that pushes late; stop() waits for the log thread.
ExitInv ==
    /\ consumer = "exited" => ~running /\ \A i \in 1 .. Len(queue) : queue[i] = "late"
    /\ stopper = "done" => consumer = "exited"

IndInv == TypeOK /\ ExitInv

-----------------------------------------------------------------------------
(* Types *)

\* Whoever is notified is the consumer, in one of its places.
LEMMA WokenType == TypeOK => Woken \in {"none", "test", "write", "exited"}
  BY DEF TypeOK, Woken

\* Every step of log(), of the log thread and of stop() keeps the types.
LEMMA TypeStep == TypeOK /\ [Next]_vars => TypeOK'
<1>. SUFFICES ASSUME TypeOK, [Next]_vars PROVE TypeOK'
  OBVIOUS
<1>. USE DEF TypeOK
<1>1. CASE Start
  BY <1>1 DEF Start
<1>2. ASSUME NEW t \in Callers, LogEnters(t) PROVE TypeOK'
  BY <1>2 DEF LogEnters
<1>3. ASSUME NEW t \in Callers, LogPushes(t) PROVE TypeOK'
  <2>1. queue' \in Seq(Classes)
    <3>1. (IF running THEN "early" ELSE "late") \in Classes
      BY DEF Classes
    <3>. QED  BY <1>3, <3>1, AppendProperties DEF LogPushes
  <2>. QED  BY <1>3, <2>1 DEF LogPushes
<1>4. ASSUME NEW t \in Callers, LogNotifies(t) PROVE TypeOK'
  BY <1>4, WokenType DEF LogNotifies
<1>5. CASE ConsumerWaits
  BY <1>5 DEF ConsumerWaits
<1>6. CASE SpuriousWakeup
  BY <1>6 DEF SpuriousWakeup
<1>7. CASE ConsumerTakes
  <2>1. queue' \in Seq(Classes)
    BY <1>7, HeadTailProperties DEF ConsumerTakes
  <2>. QED  BY <1>7, <2>1 DEF ConsumerTakes
<1>8. CASE ConsumerWrites
  BY <1>8 DEF ConsumerWrites
<1>9. CASE ConsumerExits
  BY <1>9 DEF ConsumerExits
<1>10. CASE StopClears
  BY <1>10 DEF StopClears
<1>11. CASE StopNotifies
  BY <1>11, WokenType DEF StopNotifies
<1>12. CASE StopJoins
  BY <1>12 DEF StopJoins
<1>13. CASE UNCHANGED vars
  BY <1>13 DEF vars
<1>. QED
  BY <1>1, <1>2, <1>3, <1>4, <1>5, <1>6, <1>7, <1>8, <1>9, <1>10, <1>11, <1>12, <1>13
  DEF Next, Consumer, Stop, Log

\* The variables of the logger keep their types, whatever the threads that log.
THEOREM TypeCorrect == Spec => []TypeOK
<1>1. Init => TypeOK
  BY EmptySeq DEF Init, TypeOK
<1>. QED  BY <1>1, TypeStep, PTL DEF Spec

-----------------------------------------------------------------------------
(* stop() and what was logged before it *)

\* ExitInv survives every step: only the log thread reaches "exited", with an
\* empty queue, and an entry pushed with running cleared is late.
LEMMA ExitStep == IndInv /\ [Next]_vars => ExitInv'
<1>. SUFFICES ASSUME TypeOK, ExitInv, [Next]_vars PROVE ExitInv'
  BY DEF IndInv
<1>. USE DEF ExitInv
<1>1. CASE Start
  BY <1>1 DEF Start
<1>2. ASSUME NEW t \in Callers, LogEnters(t) PROVE ExitInv'
  BY <1>2 DEF LogEnters
<1>3. ASSUME NEW t \in Callers, LogPushes(t) PROVE ExitInv'
  <2>1. ASSUME consumer = "exited"
        PROVE  \A i \in 1 .. Len(queue') : queue'[i] = "late"
    <3>1. queue' = Append(queue, "late")
      BY <1>3, <2>1 DEF LogPushes
    <3>2. /\ Len(queue') = Len(queue) + 1
          /\ \A i \in 1 .. Len(queue) : queue'[i] = queue[i]
          /\ queue'[Len(queue) + 1] = "late"
      BY <3>1, AppendProperties DEF TypeOK, Classes
    <3>3. Len(queue) \in Nat
      BY LenProperties DEF TypeOK
    <3>. QED  BY <2>1, <3>2, <3>3
  <2>. QED  BY <1>3, <2>1 DEF LogPushes
<1>4. ASSUME NEW t \in Callers, LogNotifies(t) PROVE ExitInv'
  BY <1>4 DEF LogNotifies, Woken
<1>5. CASE ConsumerWaits
  BY <1>5 DEF ConsumerWaits
<1>6. CASE SpuriousWakeup
  BY <1>6 DEF SpuriousWakeup
<1>7. CASE ConsumerTakes
  BY <1>7 DEF ConsumerTakes
<1>8. CASE ConsumerWrites
  BY <1>8 DEF ConsumerWrites
<1>9. CASE ConsumerExits
  <2>1. Len(queue) = 0
    BY <1>9, EmptySeq DEF ConsumerExits, MayExit
  <2>. QED  BY <1>9, <2>1 DEF ConsumerExits, MayExit
<1>10. CASE StopClears
  BY <1>10 DEF StopClears
<1>11. CASE StopNotifies
  BY <1>11 DEF StopNotifies, Woken
<1>12. CASE StopJoins
  BY <1>12 DEF StopJoins
<1>13. CASE UNCHANGED vars
  BY <1>13 DEF vars
<1>. QED
  BY <1>1, <1>2, <1>3, <1>4, <1>5, <1>6, <1>7, <1>8, <1>9, <1>10, <1>11, <1>12, <1>13
  DEF Next, Consumer, Stop, Log

\* When stop() has returned, only entries pushed after it cleared running can be
\* unwritten, however many threads log and wherever they are in log().
THEOREM StopWritesAll == Spec => []StoppedMeansWritten
<1>1. Init => IndInv
  BY EmptySeq DEF Init, IndInv, TypeOK, ExitInv
<1>2. IndInv /\ [Next]_vars => IndInv'
  BY TypeStep, ExitStep DEF IndInv
<1>3. IndInv => StoppedMeansWritten
  BY DEF IndInv, ExitInv, StoppedMeansWritten
<1>. QED  BY <1>1, <1>2, <1>3, PTL DEF Spec

-----------------------------------------------------------------------------
(* Wakeups *)

\* A step that gives the consumer something to do leaves a notification behind,
\* and a notification is consumed only by waking it.
LEMMA WakeupStep == TypeOK /\ NoLostWakeup /\ [Next]_vars => NoLostWakeup'
<1>. SUFFICES ASSUME TypeOK, NoLostWakeup, [Next]_vars PROVE NoLostWakeup'
  OBVIOUS
<1>. USE DEF NoLostWakeup
<1>1. CASE Start
  BY <1>1 DEF Start
<1>2. ASSUME NEW t \in Callers, LogEnters(t) PROVE NoLostWakeup'
  <2>1. \A u \in Callers : caller[u] = "notify" => caller'[u] = "notify"
    BY <1>2 DEF LogEnters, TypeOK
  <2>. QED  BY <1>2, <2>1 DEF LogEnters
<1>3. ASSUME NEW t \in Callers, LogPushes(t) PROVE NoLostWakeup'
  BY <1>3 DEF LogPushes, TypeOK
<1>4. ASSUME NEW t \in Callers, LogNotifies(t) PROVE NoLostWakeup'
  BY <1>4, WokenType DEF LogNotifies
<1>5. CASE ConsumerWaits
  BY <1>5 DEF ConsumerWaits
<1>6. CASE SpuriousWakeup
  BY <1>6 DEF SpuriousWakeup
<1>7. CASE ConsumerTakes
  BY <1>7 DEF ConsumerTakes
<1>8. CASE ConsumerWrites
  BY <1>8 DEF ConsumerWrites
<1>9. CASE ConsumerExits
  BY <1>9 DEF ConsumerExits
<1>10. CASE StopClears
  BY <1>10 DEF StopClears
<1>11. CASE StopNotifies
  BY <1>11, WokenType DEF StopNotifies
<1>12. CASE StopJoins
  BY <1>12 DEF StopJoins
<1>13. CASE UNCHANGED vars
  BY <1>13 DEF vars
<1>. QED
  BY <1>1, <1>2, <1>3, <1>4, <1>5, <1>6, <1>7, <1>8, <1>9, <1>10, <1>11, <1>12, <1>13
  DEF Next, Consumer, Stop, Log

\* The log thread never sleeps with an entry queued or stop() under way unless a
\* notification is still to come, for any number of threads.
THEOREM NoWakeupIsLost == Spec => []NoLostWakeup
<1>1. Init => TypeOK /\ NoLostWakeup
  BY EmptySeq DEF Init, TypeOK, NoLostWakeup
<1>2. TypeOK /\ NoLostWakeup /\ [Next]_vars => (TypeOK /\ NoLostWakeup)'
  BY TypeStep, WakeupStep
<1>. QED  BY <1>1, <1>2, PTL DEF Spec
=============================================================================
