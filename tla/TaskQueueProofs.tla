-------------------------- MODULE TaskQueueProofs ---------------------------
(***************************************************************************)
(* Proofs about TaskQueue for any number of workers, any set of tasks, any *)
(* nesting of submissions and any capacity.                                *)
(***************************************************************************)
EXTENDS TaskQueue, SequenceTheorems, FiniteSetTheorems, TLAPS

\* Where the two kinds of thread can be.
MainPCs == {"idle", "submit", "waitFull", "notifyEmpty", "notifyAll", "join", "joined"}
BusyPCs == {"notifyFull", "run", "submit", "waitFull", "notifyEmpty"}
WorkerPCs == BusyPCs \cup {"remove", "waitEmpty", "exited"}
SubmitPCs == {"submit", "waitFull", "notifyEmpty"}

\* The indices of the ring agree with its length, and every slot between them
\* holds a task.
RingInv ==
    /\ tail = (head + buffer_len) % QUEUE_CAPACITY
    /\ \A i \in 1 .. buffer_len : tasks[(head + i - 1) % QUEUE_CAPACITY] \in Tasks

\* A thread holds a task exactly when it is busy with one, and a submitting
\* thread has a task to submit.
ThreadInv ==
    /\ pc[Main] \in MainPCs
    /\ \A w \in Workers : pc[w] \in WorkerPCs
    /\ \A w \in Workers : pc[w] \in BusyPCs <=> job[w] # NoTask
    /\ \A t \in Threads : pc[t] \in SubmitPCs => Argument(t) \in Tasks

\* A worker that left its loop saw the closed and empty queue, which stays so.
ExitInv ==
    /\ (\E w \in Workers : pc[w] = "exited") => shutdown /\ buffer_len = 0
    /\ pc[Main] = "joined" => \A w \in Workers : pc[w] = "exited"

\* Every accepted task is waiting, in hand or done.
AccountInv == accepted = Queued \cup InHand \cup done

IndInv == TypeOK /\ RingInv /\ ThreadInv /\ ExitInv /\ AccountInv

-----------------------------------------------------------------------------
(* Arithmetic of the ring *)

\* Stepping the head of the ring shifts every position by one, and distinct
\* positions are distinct slots.
LEMMA RingPositions ==
    ASSUME NEW C \in Nat \ {0}, NEW h \in 0 .. C - 1,
           NEW j \in 0 .. C - 1, NEW k \in 0 .. C - 1
    PROVE  /\ (h + j) % C \in 0 .. C - 1
           /\ (h + j) % C = (h + k) % C => j = k
           /\ (((h + 1) % C) + j) % C = (h + 1 + j) % C
           /\ (((h + j) % C) + 1) % C = (h + j + 1) % C
<1>1. (h + j) % C = IF h + j < C THEN h + j ELSE h + j - C
  BY SMT
<1>2. (h + k) % C = IF h + k < C THEN h + k ELSE h + k - C
  BY SMT
<1>3. (h + 1) % C = IF h + 1 < C THEN h + 1 ELSE h + 1 - C
  BY SMT
<1>4. (h + 1 + j) % C = IF h + 1 + j < C THEN h + 1 + j ELSE h + 1 + j - C
  BY SMT
<1>5. (((h + 1) % C) + j) % C = (h + 1 + j) % C
  <2>1. CASE h + 1 < C
    BY <2>1, <1>3
  <2>2. CASE h + 1 = C
    <3>1. (h + 1) % C = 0
      BY <2>2, <1>3
    <3>2. j % C = j
      BY SMT
    <3>. QED
      BY <2>2, <3>1, <3>2, <1>4
  <2>. QED
    BY <2>1, <2>2
<1>6. (((h + j) % C) + 1) % C = (h + j + 1) % C
  <2>1. CASE h + j < C
    BY <2>1, <1>1
  <2>2. CASE h + j >= C
    <3>1. ((h + j) % C) + 1 = h + j + 1 - C /\ h + j + 1 - C \in Nat /\ h + j + 1 - C < C
      BY <2>2, <1>1
    <3>2. (h + j + 1 - C) % C = h + j + 1 - C
      BY <3>1, SMT
    <3>3. (h + j + 1) % C = h + j + 1 - C
      BY <2>2, <1>4
    <3>. QED
      BY <3>1, <3>2, <3>3
  <2>. QED
    BY <2>1, <2>2
<1>. QED
  BY <1>1, <1>2, <1>5, <1>6

-----------------------------------------------------------------------------
(* What the two critical sections do to the contents of the ring *)

\* The contents are a sequence of tasks.
LEMMA ContentsIsSeq ==
    ASSUME TypeOK, RingInv
    PROVE  Contents \in Seq(Tasks) /\ Len(Contents) = buffer_len
<1>1. buffer_len \in Nat
  BY TaskQueueAssumption DEF TypeOK
<1>2. Contents \in [1 .. buffer_len -> Tasks]
  BY DEF Contents, RingInv
<1>. QED
  BY <1>1, <1>2

\* submit() appends its argument to the contents: the slot it fills is free.
LEMMA PutAppends ==
    ASSUME TypeOK, RingInv, ThreadInv, NEW t \in Threads, SubmitPuts(t)
    PROVE  /\ Contents' = Append(Contents, Argument(t))
           /\ Argument(t) \in Tasks
           /\ RingInv'
<1> DEFINE C == QUEUE_CAPACITY
<1>1. /\ C \in Nat \ {0} /\ head \in 0 .. C - 1
      /\ buffer_len \in Nat /\ buffer_len < C
      /\ tail = (head + buffer_len) % C
      /\ head' = head /\ buffer_len' = buffer_len + 1
      /\ Argument(t) \in Tasks
  BY TaskQueueAssumption DEF SubmitPuts, MaySubmit, TypeOK, Slots, RingInv, ThreadInv, SubmitPCs
<1>2. tail' = (head + buffer_len + 1) % C
  BY <1>1, RingPositions DEF SubmitPuts, NextIndex
<1>3. \A i \in 1 .. buffer_len + 1 :
         tasks'[(head + i - 1) % C] =
            IF i = buffer_len + 1 THEN Argument(t) ELSE tasks[(head + i - 1) % C]
  <2> TAKE i \in 1 .. buffer_len + 1
  <2>1. i - 1 \in 0 .. C - 1 /\ buffer_len \in 0 .. C - 1 /\ head + i - 1 = head + (i - 1)
    BY <1>1
  <2>2. (head + i - 1) % C \in Slots
    BY <1>1, <2>1, RingPositions DEF Slots
  <2>3. (head + i - 1) % C = tail <=> i = buffer_len + 1
    BY <1>1, <2>1, RingPositions
  <2>. QED
    BY <2>2, <2>3 DEF SubmitPuts, TypeOK
<1>4. RingInv'
  <2>1. tail' = (head' + buffer_len') % C
    BY <1>1, <1>2
  <2>2. \A i \in 1 .. buffer_len + 1 : tasks'[(head + i - 1) % C] \in Tasks
    <3> TAKE i \in 1 .. buffer_len + 1
    <3>1. CASE i = buffer_len + 1
      BY <1>1, <1>3, <3>1
    <3>2. CASE i # buffer_len + 1
      <4>1. i \in 1 .. buffer_len
        BY <1>1, <3>2
      <4>. QED
        BY <1>3, <3>2, <4>1 DEF RingInv
    <3>. QED
      BY <3>1, <3>2
  <2>. QED
    BY <1>1, <2>1, <2>2 DEF RingInv
<1>5. Contents' = Append(Contents, Argument(t))
  <2> DEFINE A == Append(Contents, Argument(t))
  <2>1. Contents \in Seq(Tasks) /\ Len(Contents) = buffer_len
    BY ContentsIsSeq
  <2>2. /\ A \in Seq(Tasks) /\ Len(A) = buffer_len + 1
        /\ \A i \in 1 .. buffer_len + 1 :
              A[i] = IF i = buffer_len + 1 THEN Argument(t) ELSE Contents[i]
    BY <1>1, <2>1
  <2>3. \A i \in 1 .. buffer_len + 1 : Contents'[i] = A[i]
    <3> TAKE i \in 1 .. buffer_len + 1
    <3>1. Contents'[i] = tasks'[(head + i - 1) % C]
      BY <1>1 DEF Contents
    <3>2. CASE i = buffer_len + 1
      BY <1>3, <2>2, <3>1, <3>2
    <3>3. CASE i # buffer_len + 1
      <4>1. i \in 1 .. buffer_len
        BY <1>1, <3>3
      <4>2. Contents[i] = tasks[(head + i - 1) % C]
        BY <4>1 DEF Contents
      <4>. QED
        BY <1>3, <2>2, <3>1, <3>3, <4>2
    <3>. QED
      BY <3>2, <3>3
  <2>4. Contents' \in Seq(Tasks) /\ Len(Contents') = buffer_len + 1
    <3>1. Contents' \in [1 .. buffer_len + 1 -> Tasks]
      BY <1>1, <1>4 DEF Contents, RingInv
    <3>. QED
      BY <1>1, <3>1
  <2> HIDE DEF A
  <2>5. Contents' = A
    BY <2>2, <2>3, <2>4, SeqEqual
  <2>. QED
    BY <2>5 DEF A
<1>. QED
  BY <1>1, <1>4, <1>5

\* remove() takes the oldest task and leaves the others in their order.
LEMMA TakeRemovesHead ==
    ASSUME TypeOK, RingInv, NEW w \in Workers, RemoveTakes(w)
    PROVE  /\ buffer_len > 0
           /\ tasks[head] = Contents[1] /\ tasks[head] \in Tasks
           /\ Contents' = Tail(Contents)
           /\ RingInv'
<1> DEFINE C == QUEUE_CAPACITY
<1>1. /\ C \in Nat \ {0} /\ head \in 0 .. C - 1
      /\ buffer_len \in Nat /\ buffer_len > 0 /\ buffer_len <= C
      /\ tail = (head + buffer_len) % C /\ tail' = tail
      /\ head' = (head + 1) % C /\ buffer_len' = buffer_len - 1
      /\ tasks' = [tasks EXCEPT ![head] = NoTask]
  BY TaskQueueAssumption DEF RemoveTakes, MayRemove, RemoveEnds, TypeOK, Slots, RingInv, NextIndex
<1>2. (head + 1 - 1) % C = head
  BY <1>1
<1>3. \A i \in 1 .. buffer_len - 1 :
         tasks'[(head' + i - 1) % C] = tasks[(head + (i + 1) - 1) % C]
  <2> TAKE i \in 1 .. buffer_len - 1
  <2>1. i \in 0 .. C - 1 /\ i - 1 \in 0 .. C - 1 /\ 0 \in 0 .. C - 1 /\ i # 0
    BY <1>1
  <2>2. (head' + i - 1) % C = (head + i) % C
    <3>1. (((head + 1) % C) + (i - 1)) % C = (head + 1 + (i - 1)) % C
      BY <1>1, <2>1, RingPositions
    <3>2. head' \in Int
      BY <1>1
    <3>. QED
      BY <1>1, <2>1, <3>1, <3>2
  <2>3. (head + i) % C \in Slots /\ (head + i) % C # head
    <3>1. (head + 0) % C = head
      BY <1>1
    <3>. QED
      BY <1>1, <2>1, <3>1, RingPositions DEF Slots
  <2>. QED
    BY <1>1, <2>1, <2>2, <2>3 DEF TypeOK
<1>4. \A i \in 1 .. buffer_len - 1 : tasks'[(head' + i - 1) % C] \in Tasks
  <2> TAKE i \in 1 .. buffer_len - 1
  <2>1. i + 1 \in 1 .. buffer_len
    BY <1>1
  <2>2. tasks[(head + (i + 1) - 1) % C] \in Tasks
    BY <2>1 DEF RingInv
  <2>. QED
    BY <1>3, <2>2
<1>5. Contents' = Tail(Contents)
  <2> DEFINE T == Tail(Contents)
  <2>1. Contents \in Seq(Tasks) /\ Len(Contents) = buffer_len
    BY ContentsIsSeq
  <2>2. /\ T \in Seq(Tasks) /\ Len(T) = buffer_len - 1
        /\ \A i \in 1 .. buffer_len - 1 : T[i] = Contents[i + 1]
    BY <1>1, <2>1, HeadTailProperties
  <2>3. \A i \in 1 .. buffer_len - 1 : Contents'[i] = T[i]
    <3> TAKE i \in 1 .. buffer_len - 1
    <3>1. Contents'[i] = tasks'[(head' + i - 1) % C]
      BY <1>1 DEF Contents
    <3>2. i + 1 \in 1 .. buffer_len
      BY <1>1
    <3>3. Contents[i + 1] = tasks[(head + (i + 1) - 1) % C]
      BY <3>2 DEF Contents
    <3>. QED
      BY <1>3, <2>2, <3>1, <3>3
  <2>4. Contents' \in Seq(Tasks) /\ Len(Contents') = buffer_len - 1
    <3>1. Contents' \in [1 .. buffer_len - 1 -> Tasks]
      BY <1>1, <1>4 DEF Contents
    <3>. QED
      BY <1>1, <3>1
  <2> HIDE DEF T
  <2>5. Contents' = T
    BY <2>2, <2>3, <2>4, SeqEqual
  <2>. QED
    BY <2>5 DEF T
<1>6. tail' = (head' + buffer_len') % C
  <2>1. buffer_len - 1 \in 0 .. C - 1
    BY <1>1
  <2>2. (((head + 1) % C) + (buffer_len - 1)) % C = (head + 1 + (buffer_len - 1)) % C
    BY <1>1, <2>1, RingPositions
  <2>. QED
    BY <1>1, <2>2
<1>7. RingInv'
  BY <1>1, <1>4, <1>6 DEF RingInv
<1>8. tasks[head] = Contents[1] /\ tasks[head] \in Tasks
  <2>1. 1 \in 1 .. buffer_len
    BY <1>1
  <2>. QED
    BY <1>2, <2>1 DEF Contents, RingInv
<1>. QED
  BY <1>1, <1>7, <1>5, <1>8

-----------------------------------------------------------------------------
(* Every step preserves the invariant *)

\* What a step that leaves the queue alone cannot disturb.
LEMMA QueueKept ==
    ASSUME IndInv, UNCHANGED queueVars
    PROVE  /\ RingInv' /\ Queued' = Queued /\ Contents' = Contents
           /\ tasks' \in [Slots -> Tasks \cup {NoTask}] /\ head' \in Slots /\ tail' \in Slots
           /\ buffer_len' \in 0 .. QUEUE_CAPACITY /\ shutdown' \in BOOLEAN
BY DEF IndInv, TypeOK, RingInv, Queued, Contents, queueVars

\* A thread that only moves, and wakes others from a wait, keeps every task
\* where it is.
LEMMA OnlyMoves ==
    ASSUME IndInv, UNCHANGED <<queueVars, job, accepted, done>>,
           pc' \in [Threads -> PCs], ThreadInv', ExitInv'
    PROVE  IndInv'
<1>1. TypeOK'
  BY QueueKept DEF IndInv, TypeOK
<1>2. AccountInv'
  <2>1. InHand' = InHand
    BY DEF InHand
  <2>. QED
    BY <2>1, QueueKept DEF IndInv, AccountInv
<1>. QED
  BY <1>1, <1>2, QueueKept DEF IndInv

\* A submit() that returns ends the task of a worker: the task in hand is done.
LEMMA SubmitReturnsAccounts ==
    ASSUME IndInv, NEW t \in Threads, SubmitReturns(t), pc[t] \in SubmitPCs,
           UNCHANGED <<queueVars, accepted>>, pc' \in [Threads -> PCs]
    PROVE  TypeOK' /\ AccountInv'
<1>1. t # Main => t \in Workers /\ job[t] \in Tasks
  BY DEF IndInv, TypeOK, ThreadInv, Threads, SubmitPCs, BusyPCs
<1>2. TypeOK'
  BY <1>1, QueueKept DEF IndInv, TypeOK, SubmitReturns
<1>3. InHand' \cup done' = InHand \cup done
  <2>1. CASE t = Main
    BY <2>1, TaskQueueAssumption DEF InHand, SubmitReturns, IndInv, TypeOK
  <2>2. CASE t # Main
    <3>1. \A v \in Workers : job'[v] = IF v = t THEN NoTask ELSE job[v]
      BY DEF SubmitReturns, IndInv, TypeOK, Threads
    <3>2. done' = done \cup {job[t]}
      BY <2>2 DEF SubmitReturns
    <3>. QED
      BY <1>1, <2>2, <3>1, <3>2, TaskQueueAssumption DEF InHand
  <2>. QED
    BY <2>1, <2>2
<1>4. AccountInv'
  BY <1>3, QueueKept DEF IndInv, AccountInv
<1>. QED
  BY <1>2, <1>4

LEMMA SubmitPreserves ==
    ASSUME IndInv, NEW t \in Threads, Submit(t)
    PROVE  IndInv'
<1> USE DEF MainPCs, BusyPCs, WorkerPCs, SubmitPCs
<1>a. /\ pc \in [Threads -> PCs] /\ job \in [Threads -> Tasks \cup {NoTask}]
      /\ Main \notin Workers /\ NoTask \notin Tasks
  BY TaskQueueAssumption DEF IndInv, TypeOK
<1>1. CASE SubmitWaits(t)
  <2>1. pc' = [pc EXCEPT ![t] = "waitFull"] /\ pc[t] = "submit" /\ job' = job
    BY <1>1 DEF SubmitWaits
  <2>2. pc' \in [Threads -> PCs]
    BY <1>a, <2>1 DEF PCs
  <2>3. ThreadInv'
    BY <1>a, <2>1 DEF IndInv, ThreadInv, Argument, Threads
  <2>4. ExitInv'
    BY <1>1, <1>a, <2>1 DEF IndInv, ExitInv, Threads, SubmitWaits, queueVars
  <2>. QED
    BY <1>1, <2>2, <2>3, <2>4, OnlyMoves DEF SubmitWaits
<1>2. CASE SubmitRefused(t)
  <2>1. pc' = [pc EXCEPT ![t] = AfterSubmit(t)] /\ pc[t] = "submit" /\ SubmitReturns(t)
    BY <1>2 DEF SubmitRefused
  <2>2. pc' \in [Threads -> PCs]
    BY <1>a, <2>1 DEF PCs, AfterSubmit
  <2>3. ThreadInv'
    BY <1>a, <2>1 DEF IndInv, ThreadInv, Argument, Threads, AfterSubmit, SubmitReturns
  <2>4. ExitInv'
    BY <1>2, <1>a, <2>1 DEF IndInv, ExitInv, Threads, SubmitRefused, queueVars, AfterSubmit
  <2>5. TypeOK' /\ AccountInv'
    BY <1>2, <2>1, <2>2, SubmitReturnsAccounts DEF SubmitRefused
  <2>. QED
    BY <1>2, <2>3, <2>4, <2>5, QueueKept DEF SubmitRefused, IndInv
<1>3. CASE SubmitPuts(t)
  <2>1. /\ Contents' = Append(Contents, Argument(t))
        /\ Argument(t) \in Tasks /\ RingInv'
    BY <1>3, PutAppends DEF IndInv
  <2>2. /\ pc' = [pc EXCEPT ![t] = "notifyEmpty"] /\ pc[t] = "submit" /\ job' = job
        /\ accepted' = accepted \cup {Argument(t)} /\ done' = done
        /\ ~shutdown /\ shutdown' = shutdown /\ buffer_len' = buffer_len + 1
    BY <1>3 DEF SubmitPuts
  <2>3. TypeOK'
    <3>1. buffer_len' \in 0 .. QUEUE_CAPACITY
      BY <1>3, <2>2, TaskQueueAssumption DEF SubmitPuts, MaySubmit, IndInv, TypeOK
    <3>2. tail' \in Slots
      BY <1>3, TaskQueueAssumption DEF SubmitPuts, NextIndex, IndInv, TypeOK, Slots
    <3>. QED
      BY <1>3, <2>1, <2>2, <3>1, <3>2 DEF SubmitPuts, IndInv, TypeOK, PCs
  <2>4. ThreadInv'
    BY <1>a, <2>2 DEF IndInv, ThreadInv, Argument, Threads
  <2>5. ExitInv'
    BY <1>a, <2>2 DEF IndInv, ExitInv, Threads
  <2>6. AccountInv'
    <3>1. Queued' = Queued \cup {Argument(t)}
      <4>1. Contents \in Seq(Tasks) /\ Len(Contents) = buffer_len /\ buffer_len \in Nat
        BY ContentsIsSeq, TaskQueueAssumption DEF IndInv, TypeOK
      <4>2. /\ \A i \in 1 .. buffer_len : Contents'[i] = Contents[i]
            /\ Contents'[buffer_len + 1] = Argument(t)
        BY <2>1, <4>1, AppendProperties
      <4>3. 1 .. buffer_len' = (1 .. buffer_len) \cup {buffer_len + 1}
        BY <2>2, <4>1
      <4>. QED
        BY <4>2, <4>3 DEF Queued
    <3>2. InHand' = InHand
      BY <2>2 DEF InHand
    <3>. QED
      BY <2>2, <3>1, <3>2 DEF IndInv, AccountInv
  <2>. QED
    BY <2>1, <2>3, <2>4, <2>5, <2>6 DEF IndInv
<1>4. CASE SubmitNotifies(t)
  <2>1. /\ pc[t] = "notifyEmpty" /\ SubmitReturns(t)
        /\ UNCHANGED <<queueVars, accepted>>
    BY <1>4 DEF SubmitNotifies
  <2>2. /\ pc' \in [Threads -> PCs] /\ pc'[t] = AfterSubmit(t)
        /\ \A u \in Threads \ {t} : \/ pc'[u] = pc[u]
                                         \/ (u \in Workers /\ pc[u] = "waitEmpty" /\ pc'[u] = "remove")
    <3> DEFINE returned == [pc EXCEPT ![t] = AfterSubmit(t)]
    <3>1. /\ returned \in [Threads -> PCs] /\ returned[t] = AfterSubmit(t)
          /\ \A u \in Threads \ {t} : returned[u] = pc[u]
      BY <1>a DEF PCs, AfterSubmit
    <3> HIDE DEF returned
    <3>2. CASE pc' = returned
      BY <3>1, <3>2
    <3>3. CASE \E w \in Workers : pc[w] = "waitEmpty" /\ pc' = [returned EXCEPT ![w] = "remove"]
      <4>1. PICK w \in Workers : pc[w] = "waitEmpty" /\ pc' = [returned EXCEPT ![w] = "remove"]
        BY <3>3
      <4>2. w # t /\ w \in Threads
        BY <2>1, <4>1 DEF Threads
      <4>3. "remove" \in PCs
        BY DEF PCs
      <4>4. pc'[w] = "remove" /\ \A u \in Threads \ {w} : pc'[u] = returned[u]
        BY <3>1, <4>1, <4>2
      <4>5. pc' \in [Threads -> PCs]
        BY <3>1, <4>1, <4>3
      <4>. QED
        BY <3>1, <4>1, <4>2, <4>4, <4>5
    <3>. QED
      BY <1>4, <3>2, <3>3 DEF SubmitNotifies, EmptyWaiters, returned
  <2>3. ThreadInv'
    BY <1>a, <2>1, <2>2 DEF IndInv, ThreadInv, Argument, Threads, AfterSubmit, SubmitReturns
  <2>4. ExitInv'
    BY <1>a, <2>1, <2>2 DEF IndInv, ExitInv, Threads, queueVars, AfterSubmit
  <2>5. TypeOK' /\ AccountInv'
    BY <2>1, <2>2, SubmitReturnsAccounts
  <2>. QED
    BY <2>1, <2>3, <2>4, <2>5, QueueKept DEF IndInv
<1>. QED
  BY <1>1, <1>2, <1>3, <1>4 DEF Submit

LEMMA RemovePreserves ==
    ASSUME IndInv, NEW w \in Workers, Remove(w)
    PROVE  IndInv'
<1> USE DEF MainPCs, BusyPCs, WorkerPCs, SubmitPCs
<1>a. /\ pc \in [Threads -> PCs] /\ job \in [Threads -> Tasks \cup {NoTask}]
      /\ Main \notin Workers /\ NoTask \notin Tasks /\ w \in Threads
  BY TaskQueueAssumption DEF IndInv, TypeOK, Threads
<1>1. CASE RemoveWaits(w)
  <2>1. pc' = [pc EXCEPT ![w] = "waitEmpty"] /\ pc[w] = "remove" /\ job' = job
    BY <1>1 DEF RemoveWaits
  <2>2. pc' \in [Threads -> PCs]
    BY <1>a, <2>1 DEF PCs
  <2>3. ThreadInv'
    BY <1>a, <2>1 DEF IndInv, ThreadInv, Argument, Threads
  <2>4. ExitInv'
    BY <1>1, <1>a, <2>1 DEF IndInv, ExitInv, Threads, RemoveWaits, queueVars
  <2>. QED
    BY <1>1, <2>2, <2>3, <2>4, OnlyMoves DEF RemoveWaits
<1>2. CASE WorkerExits(w)
  <2>1. pc' = [pc EXCEPT ![w] = "exited"] /\ pc[w] = "remove" /\ job' = job
    BY <1>2 DEF WorkerExits
  <2>2. pc' \in [Threads -> PCs]
    BY <1>a, <2>1 DEF PCs
  <2>3. ThreadInv'
    BY <1>a, <2>1 DEF IndInv, ThreadInv, Argument, Threads
  <2>4. ExitInv'
    BY <1>2, <1>a, <2>1 DEF IndInv, ExitInv, Threads, WorkerExits, RemoveEnds, queueVars
  <2>. QED
    BY <1>2, <2>2, <2>3, <2>4, OnlyMoves DEF WorkerExits
<1>3. CASE RemoveTakes(w)
  <2>1. /\ buffer_len > 0 /\ tasks[head] = Contents[1] /\ tasks[head] \in Tasks
        /\ Contents' = Tail(Contents) /\ RingInv'
    BY <1>3, TakeRemovesHead DEF IndInv
  <2>2. /\ pc' = [pc EXCEPT ![w] = "notifyFull"] /\ pc[w] = "remove"
        /\ job' = [job EXCEPT ![w] = tasks[head]]
        /\ accepted' = accepted /\ done' = done
        /\ shutdown' = shutdown /\ buffer_len' = buffer_len - 1
    BY <1>3 DEF RemoveTakes
  <2>3. TypeOK'
    <3>1. buffer_len' \in 0 .. QUEUE_CAPACITY
      BY <2>1, <2>2, TaskQueueAssumption DEF IndInv, TypeOK
    <3>2. head' \in Slots
      BY <1>3, TaskQueueAssumption DEF RemoveTakes, NextIndex, IndInv, TypeOK, Slots
    <3>. QED
      BY <1>3, <2>1, <2>2, <3>1, <3>2 DEF RemoveTakes, IndInv, TypeOK, PCs
  <2>4. ThreadInv'
    BY <1>a, <2>1, <2>2 DEF IndInv, ThreadInv, Argument, Threads
  <2>5. ExitInv'
    <3>1. \A v \in Workers : pc[v] # "exited"
      BY <2>1 DEF IndInv, ExitInv, TypeOK
    <3>. QED
      BY <1>a, <2>2, <3>1 DEF IndInv, ExitInv, Threads
  <2>6. AccountInv'
    <3>1. Queued = Queued' \cup {tasks[head]}
      <4>1. Contents \in Seq(Tasks) /\ Len(Contents) = buffer_len /\ buffer_len \in Nat
        BY ContentsIsSeq, TaskQueueAssumption DEF IndInv, TypeOK
      <4>2. \A i \in 1 .. buffer_len' : Contents'[i] = Contents[i + 1]
        BY <2>1, <2>2, <4>1, HeadTailProperties
      <4>3. \A i \in 1 .. buffer_len' : i + 1 \in 1 .. buffer_len
        BY <2>2, <4>1
      <4>4. \A i \in 1 .. buffer_len : i = 1 \/ (i - 1 \in 1 .. buffer_len' /\ (i - 1) + 1 = i)
        BY <2>2, <4>1
      <4>5. 1 \in 1 .. buffer_len
        BY <2>1, <4>1
      <4>6. Queued \subseteq Queued' \cup {tasks[head]}
        <5> SUFFICES ASSUME NEW i \in 1 .. buffer_len
                     PROVE  Contents[i] \in Queued' \cup {tasks[head]}
          BY DEF Queued
        <5>1. CASE i = 1
          BY <2>1, <5>1
        <5>2. CASE i # 1
          <6>1. i - 1 \in 1 .. buffer_len' /\ Contents'[i - 1] = Contents[i]
            BY <4>2, <4>4, <5>2
          <6>. QED
            BY <6>1 DEF Queued
        <5>. QED
          BY <5>1, <5>2
      <4>7. Queued' \subseteq Queued
        <5> SUFFICES ASSUME NEW i \in 1 .. buffer_len'
                     PROVE  Contents'[i] \in Queued
          BY DEF Queued
        <5>. QED
          BY <4>2, <4>3 DEF Queued
      <4>8. tasks[head] \in Queued
        BY <2>1, <4>5 DEF Queued
      <4>. QED
        BY <4>6, <4>7, <4>8
    <3>2. InHand' = InHand \cup {tasks[head]}
      <4>1. job[w] = NoTask
        BY <2>2 DEF IndInv, ThreadInv
      <4>2. \A v \in Workers : job'[v] = IF v = w THEN tasks[head] ELSE job[v]
        BY <1>a, <2>2 DEF Threads
      <4>. QED
        BY <1>a, <2>1, <4>1, <4>2 DEF InHand
    <3>. QED
      BY <2>2, <3>1, <3>2 DEF IndInv, AccountInv
  <2>. QED
    BY <2>1, <2>3, <2>4, <2>5, <2>6 DEF IndInv
<1>4. CASE RemoveNotifies(w)
  <2>1. pc[w] = "notifyFull" /\ UNCHANGED <<queueVars, job, accepted, done>>
    BY <1>4 DEF RemoveNotifies
  <2>2. /\ pc' \in [Threads -> PCs] /\ pc'[w] = "run"
        /\ \A u \in Threads \ {w} : \/ pc'[u] = pc[u]
                                     \/ (pc[u] = "waitFull" /\ pc'[u] = "submit")
    <3> DEFINE running == [pc EXCEPT ![w] = "run"]
    <3>1. /\ running \in [Threads -> PCs] /\ running[w] = "run"
          /\ \A u \in Threads \ {w} : running[u] = pc[u]
      BY <1>a DEF PCs
    <3> HIDE DEF running
    <3>2. CASE pc' = running
      BY <3>1, <3>2
    <3>3. CASE \E t \in Threads : pc[t] = "waitFull" /\ pc' = [running EXCEPT ![t] = "submit"]
      <4>1. PICK t \in Threads : pc[t] = "waitFull" /\ pc' = [running EXCEPT ![t] = "submit"]
        BY <3>3
      <4>2. t # w /\ "submit" \in PCs
        BY <2>1, <4>1 DEF PCs
      <4>3. pc'[t] = "submit" /\ \A u \in Threads \ {t} : pc'[u] = running[u]
        BY <3>1, <4>1, <4>2
      <4>4. pc' \in [Threads -> PCs]
        BY <3>1, <4>1, <4>2
      <4>. QED
        BY <1>a, <3>1, <4>1, <4>2, <4>3, <4>4
    <3>. QED
      BY <1>4, <3>2, <3>3 DEF RemoveNotifies, FullWaiters, running
  <2>3. ThreadInv'
    BY <1>a, <2>1, <2>2 DEF IndInv, ThreadInv, Argument, Threads
  <2>4. ExitInv'
    BY <1>a, <2>1, <2>2 DEF IndInv, ExitInv, Threads, queueVars
  <2>. QED
    BY <2>1, <2>2, <2>3, <2>4, OnlyMoves
<1>. QED
  BY <1>1, <1>2, <1>3, <1>4 DEF Remove

LEMMA RunTaskPreserves ==
    ASSUME IndInv, NEW w \in Workers, RunTask(w)
    PROVE  IndInv'
<1> USE DEF MainPCs, BusyPCs, WorkerPCs, SubmitPCs
<1>a. /\ pc \in [Threads -> PCs] /\ job \in [Threads -> Tasks \cup {NoTask}]
      /\ Main \notin Workers /\ NoTask \notin Tasks /\ w \in Threads
      /\ pc[w] = "run" /\ job[w] \in Tasks /\ Child \in [Tasks -> Tasks \cup {NoTask}]
      /\ UNCHANGED <<queueVars, accepted>>
  BY TaskQueueAssumption DEF IndInv, TypeOK, Threads, RunTask, ThreadInv
<1>1. CASE Child[job[w]] = NoTask
  <2>1. /\ pc' = [pc EXCEPT ![w] = "remove"] /\ job' = [job EXCEPT ![w] = NoTask]
        /\ done' = done \cup {job[w]}
    BY <1>1 DEF RunTask
  <2>2. TypeOK'
    BY <1>a, <2>1, QueueKept DEF IndInv, TypeOK, PCs
  <2>3. ThreadInv'
    BY <1>a, <2>1 DEF IndInv, ThreadInv, Argument, Threads
  <2>4. ExitInv'
    BY <1>a, <2>1 DEF IndInv, ExitInv, Threads, queueVars
  <2>5. AccountInv'
    <3>1. \A v \in Workers : job'[v] = IF v = w THEN NoTask ELSE job[v]
      BY <1>a, <2>1 DEF Threads
    <3>2. InHand' \cup done' = InHand \cup done
      BY <1>a, <2>1, <3>1 DEF InHand
    <3>. QED
      BY <1>a, <3>2, QueueKept DEF IndInv, AccountInv
  <2>. QED
    BY <1>a, <2>2, <2>3, <2>4, <2>5, QueueKept DEF IndInv
<1>2. CASE Child[job[w]] # NoTask
  <2>1. pc' = [pc EXCEPT ![w] = "submit"] /\ UNCHANGED <<job, done>>
    BY <1>2 DEF RunTask
  <2>2. pc' \in [Threads -> PCs]
    BY <1>a, <2>1 DEF PCs
  <2>3. ThreadInv'
    BY <1>2, <1>a, <2>1 DEF IndInv, ThreadInv, Argument, Threads
  <2>4. ExitInv'
    BY <1>a, <2>1 DEF IndInv, ExitInv, Threads, queueVars
  <2>. QED
    BY <1>a, <2>1, <2>2, <2>3, <2>4, OnlyMoves
<1>. QED
  BY <1>1, <1>2

LEMMA MainPreserves ==
    ASSUME IndInv, StopAndJoin \/ \E t \in Tasks : MainSubmits(t)
    PROVE  IndInv'
<1> USE DEF MainPCs, BusyPCs, WorkerPCs, SubmitPCs
<1>a. /\ pc \in [Threads -> PCs] /\ job \in [Threads -> Tasks \cup {NoTask}]
      /\ Main \notin Workers /\ NoTask \notin Tasks /\ Main \in Threads
  BY TaskQueueAssumption DEF IndInv, TypeOK, Threads
<1>1. ASSUME NEW t \in Tasks, MainSubmits(t) PROVE IndInv'
  <2>1. /\ pc' = [pc EXCEPT ![Main] = "submit"] /\ pc[Main] = "idle"
        /\ job' = [job EXCEPT ![Main] = t]
        /\ UNCHANGED <<queueVars, accepted, done>>
    BY <1>1 DEF MainSubmits
  <2>2. TypeOK'
    BY <1>a, <2>1, QueueKept DEF IndInv, TypeOK, PCs
  <2>3. ThreadInv'
    BY <1>a, <2>1 DEF IndInv, ThreadInv, Argument, Threads
  <2>4. ExitInv'
    BY <1>a, <2>1 DEF IndInv, ExitInv, Threads, queueVars
  <2>5. AccountInv'
    <3>1. InHand' = InHand
      BY <1>a, <2>1 DEF InHand, Threads
    <3>. QED
      BY <2>1, <3>1, QueueKept DEF IndInv, AccountInv
  <2>. QED
    BY <2>1, <2>2, <2>3, <2>4, <2>5, QueueKept DEF IndInv
<1>2. CASE MainStops
  <2>1. /\ pc' = [pc EXCEPT ![Main] = "notifyAll"] /\ pc[Main] = "idle" /\ shutdown' = TRUE
        /\ UNCHANGED <<tasks, head, tail, buffer_len, job, accepted, done>>
    BY <1>2 DEF MainStops
  <2>2. TypeOK'
    BY <1>a, <2>1 DEF IndInv, TypeOK, PCs
  <2>3. ThreadInv'
    BY <1>a, <2>1 DEF IndInv, ThreadInv, Argument, Threads
  <2>4. ExitInv'
    BY <1>a, <2>1 DEF IndInv, ExitInv, Threads
  <2>5. RingInv' /\ AccountInv'
    BY <2>1 DEF IndInv, RingInv, AccountInv, Queued, Contents, InHand
  <2>. QED
    BY <2>2, <2>3, <2>4, <2>5 DEF IndInv
<1>3. CASE MainNotifiesAll
  <2>1. /\ UNCHANGED <<queueVars, job, accepted, done>> /\ pc[Main] = "notifyAll"
        /\ pc' \in [Threads -> PCs] /\ pc'[Main] = "join"
        /\ \A u \in Threads \ {Main} : \/ pc'[u] = pc[u]
                                        \/ (pc[u] = "waitFull" /\ pc'[u] = "submit")
                                        \/ (pc[u] = "waitEmpty" /\ pc'[u] = "remove")
    BY <1>3, <1>a DEF MainNotifiesAll, StopWakes, PCs
  <2>2. ThreadInv'
    BY <1>a, <2>1 DEF IndInv, ThreadInv, Argument, Threads
  <2>3. ExitInv'
    BY <1>a, <2>1 DEF IndInv, ExitInv, Threads, queueVars
  <2>. QED
    BY <2>1, <2>2, <2>3, OnlyMoves
<1>4. CASE MainJoins
  <2>1. /\ pc' = [pc EXCEPT ![Main] = "joined"] /\ pc[Main] = "join"
        /\ \A w \in Workers : pc[w] = "exited"
        /\ UNCHANGED <<queueVars, job, accepted, done>>
    BY <1>4 DEF MainJoins
  <2>2. pc' \in [Threads -> PCs]
    BY <1>a, <2>1 DEF PCs
  <2>3. ThreadInv'
    BY <1>a, <2>1 DEF IndInv, ThreadInv, Argument, Threads
  <2>4. ExitInv'
    BY <1>a, <2>1 DEF IndInv, ExitInv, Threads, queueVars
  <2>. QED
    BY <2>1, <2>2, <2>3, <2>4, OnlyMoves
<1>. QED
  BY <1>1, <1>2, <1>3, <1>4 DEF StopAndJoin

LEMMA SpuriousWakeupPreserves ==
    ASSUME IndInv, NEW t \in Threads, SpuriousWakeup(t)
    PROVE  IndInv'
<1> USE DEF MainPCs, BusyPCs, WorkerPCs, SubmitPCs
<1>1. /\ pc \in [Threads -> PCs] /\ Main \notin Workers
      /\ UNCHANGED <<queueVars, job, accepted, done>>
      /\ \/ (pc[t] = "waitFull" /\ pc' = [pc EXCEPT ![t] = "submit"])
         \/ (pc[t] = "waitEmpty" /\ pc' = [pc EXCEPT ![t] = "remove"])
  BY TaskQueueAssumption DEF IndInv, TypeOK, SpuriousWakeup
<1>2. pc' \in [Threads -> PCs]
  BY <1>1 DEF PCs
<1>3. ThreadInv'
  BY <1>1 DEF IndInv, ThreadInv, Argument, Threads
<1>4. ExitInv'
  BY <1>1 DEF IndInv, ExitInv, Threads, queueVars
<1>. QED
  BY <1>1, <1>2, <1>3, <1>4, OnlyMoves

\* The invariant holds initially and every step of any thread keeps it.
THEOREM Invariance == Spec => []IndInv
<1>1. Init => IndInv
  <2> SUFFICES ASSUME Init PROVE IndInv
    OBVIOUS
  <2>1. TypeOK
    <3>1. head \in Slots /\ tail \in Slots /\ buffer_len \in 0 .. QUEUE_CAPACITY
      BY TaskQueueAssumption DEF Init, Slots
    <3>2. pc \in [Threads -> PCs]
      BY DEF Init, PCs
    <3>. QED
      BY <3>1, <3>2 DEF Init, TypeOK
  <2>2. RingInv
    BY TaskQueueAssumption DEF Init, RingInv
  <2>3. ThreadInv
    <3>1. pc[Main] = "idle" /\ \A w \in Workers : pc[w] = "remove" /\ job[w] = NoTask
      BY TaskQueueAssumption DEF Init, Threads
    <3>. QED
      BY <3>1 DEF ThreadInv, MainPCs, BusyPCs, WorkerPCs, SubmitPCs, Threads
  <2>4. ExitInv
    BY TaskQueueAssumption DEF Init, ExitInv, Threads
  <2>5. AccountInv
    <3>1. Queued = {}
      BY DEF Init, Queued
    <3>2. InHand = {}
      BY DEF Init, InHand, Threads
    <3>. QED
      BY <3>1, <3>2 DEF Init, AccountInv
  <2>. QED
    BY <2>1, <2>2, <2>3, <2>4, <2>5 DEF IndInv
<1>2. IndInv /\ [Next]_vars => IndInv'
  <2> SUFFICES ASSUME IndInv, [Next]_vars PROVE IndInv'
    OBVIOUS
  <2>1. CASE \E w \in Workers : WorkerStep(w)
    BY <2>1, SubmitPreserves, RemovePreserves, RunTaskPreserves DEF WorkerStep, Threads
  <2>2. CASE Submit(Main)
    BY <2>2, SubmitPreserves DEF Threads
  <2>3. CASE StopAndJoin \/ \E t \in Tasks : MainSubmits(t)
    BY <2>3, MainPreserves
  <2>4. CASE \E t \in Threads : SpuriousWakeup(t)
    BY <2>4, SpuriousWakeupPreserves
  <2>5. CASE UNCHANGED vars
    BY <2>5 DEF vars, IndInv, TypeOK, RingInv, ThreadInv, ExitInv, AccountInv, Argument,
                Queued, Contents, InHand
  <2>. QED
    BY <2>1, <2>2, <2>3, <2>4, <2>5 DEF Next, Terminated
<1>. QED
  BY <1>1, <1>2, PTL DEF Spec

\* The indices of the ring never leave the array, its length never exceeds the
\* capacity and every variable keeps its type.
THEOREM TypeCorrect == Spec => []TypeOK
<1>1. IndInv => TypeOK
  BY DEF IndInv
<1>. QED
  BY <1>1, Invariance, PTL

\* When the destructor of the pool has joined the workers, every accepted task
\* has run: no worker leaves before the queue is closed and empty, nothing is
\* accepted afterwards, and a worker that left has no task in hand.
THEOREM ShutdownDrains == Spec => []JoinedMeansDrained
<1>1. IndInv => JoinedMeansDrained
  <2> SUFFICES ASSUME IndInv, pc[Main] = "joined" PROVE accepted = done
    BY DEF JoinedMeansDrained
  <2>1. \A w \in Workers : pc[w] = "exited" /\ job[w] = NoTask
    BY DEF IndInv, ExitInv, ThreadInv, BusyPCs
  <2>2. InHand = {}
    BY <2>1 DEF InHand
  <2>3. Queued = {}
    BY <2>1, TaskQueueAssumption DEF IndInv, ExitInv, Queued
  <2>. QED
    BY <2>2, <2>3 DEF IndInv, AccountInv
<1>. QED
  BY <1>1, Invariance, PTL

-----------------------------------------------------------------------------
(* The queue implements the bounded closable FIFO *)

\* A step that leaves the ring and the flag alone is a stutter of the FIFO.
LEMMA QueueKeptIsStutter ==
    ASSUME UNCHANGED queueVars
    PROVE  UNCHANGED Fifo!vars
BY DEF queueVars, Fifo!vars, Contents

\* Every step of the threads is a step of the bounded closable FIFO or a
\* stutter: submit() accepts, remove() delivers the oldest task and stop()
\* closes, whatever the interleaving of producers and workers.
THEOREM Refinement == Spec => ImplementsFifo
<1>1. Init => Fifo!Init
  <2> SUFFICES ASSUME Init PROVE Fifo!Init
    OBVIOUS
  <2>1. buffer_len = 0 /\ shutdown = FALSE
    BY DEF Init
  <2>2. Contents = << >>
    BY <2>1 DEF Contents
  <2>. QED
    BY <2>1, <2>2 DEF Fifo!Init
<1>2. IndInv /\ [Next]_vars => [Fifo!Next]_(Fifo!vars)
  <2> SUFFICES ASSUME IndInv, [Next]_vars PROVE [Fifo!Next]_(Fifo!vars)
    OBVIOUS
  <2>1. ASSUME NEW t \in Threads, SubmitPuts(t) PROVE Fifo!Next
    <3>1. Contents' = Append(Contents, Argument(t)) /\ Argument(t) \in Tasks
      BY <2>1, PutAppends DEF IndInv
    <3>2. Len(Contents) = buffer_len
      BY ContentsIsSeq DEF IndInv
    <3>3. buffer_len < QUEUE_CAPACITY /\ ~shutdown /\ shutdown' = shutdown
      BY <2>1 DEF SubmitPuts, MaySubmit
    <3>4. Fifo!Accept(Argument(t))
      BY <3>1, <3>2, <3>3 DEF Fifo!Accept
    <3>. QED
      BY <3>1, <3>4 DEF Fifo!Next
  <2>2. ASSUME NEW w \in Workers, RemoveTakes(w) PROVE Fifo!Next
    <3>1. Contents' = Tail(Contents) /\ buffer_len > 0
      BY <2>2, TakeRemovesHead DEF IndInv
    <3>2. Contents \in Seq(Tasks) /\ Len(Contents) = buffer_len
      BY ContentsIsSeq DEF IndInv
    <3>3. Contents # << >>
      BY <3>1, <3>2
    <3>4. Fifo!Deliver
      BY <2>2, <3>1, <3>3 DEF Fifo!Deliver, RemoveTakes
    <3>. QED
      BY <3>4 DEF Fifo!Next
  <2>3. CASE MainStops
    <3>1. Fifo!Close
      BY <2>3 DEF MainStops, Fifo!Close, Contents
    <3>. QED
      BY <3>1 DEF Fifo!Next
  <2>4. CASE UNCHANGED queueVars
    BY <2>4, QueueKeptIsStutter
  <2>5. ASSUME NEW t \in Threads, Submit(t) PROVE SubmitPuts(t) \/ UNCHANGED queueVars
    BY <2>5 DEF Submit, SubmitWaits, SubmitRefused, SubmitNotifies
  <2>6. ASSUME NEW w \in Workers, Remove(w) PROVE RemoveTakes(w) \/ UNCHANGED queueVars
    BY <2>6 DEF Remove, RemoveWaits, WorkerExits, RemoveNotifies
  <2>7. CASE \E w \in Workers : WorkerStep(w)
    <3>1. PICK w \in Workers : WorkerStep(w)
      BY <2>7
    <3>2. CASE Submit(w)
      BY <2>1, <2>4, <2>5, <3>2 DEF Threads
    <3>3. CASE Remove(w)
      BY <2>2, <2>4, <2>6, <3>3
    <3>4. CASE RunTask(w)
      BY <2>4, <3>4 DEF RunTask
    <3>. QED
      BY <3>1, <3>2, <3>3, <3>4 DEF WorkerStep
  <2>8. CASE Submit(Main)
    BY <2>1, <2>4, <2>5, <2>8 DEF Threads
  <2>9. CASE \E t \in Tasks : MainSubmits(t)
    BY <2>4, <2>9 DEF MainSubmits
  <2>10. CASE StopAndJoin
    BY <2>3, <2>4, <2>10 DEF StopAndJoin, MainNotifiesAll, MainJoins
  <2>11. CASE \E t \in Threads : SpuriousWakeup(t)
    BY <2>4, <2>11 DEF SpuriousWakeup
  <2>12. CASE UNCHANGED vars
    BY <2>4, <2>12 DEF vars, queueVars
  <2>. QED
    BY <2>7, <2>8, <2>9, <2>10, <2>11, <2>12 DEF Next, Terminated
<1>. QED
  BY <1>1, <1>2, Invariance, PTL DEF Spec, ImplementsFifo, Fifo!Spec

-----------------------------------------------------------------------------
(* No wakeup is lost *)

\* The threads at a place, and their number.
Where(f, p) == {t \in Threads : f[t] = p}
Count(f, p) == Cardinality(Where(f, p))

\* Threads can be counted.
LEMMA CountIsNat == ASSUME NEW f, NEW p PROVE IsFiniteSet(Where(f, p)) /\ Count(f, p) \in Nat
<1>1. IsFiniteSet(Threads)
  BY TaskQueueAssumption, FS_AddElement DEF Threads
<1>2. Where(f, p) \in SUBSET Threads
  BY DEF Where
<1>3. IsFiniteSet(Where(f, p))
  BY <1>1, <1>2, FS_Subset
<1>. QED
  BY <1>3, FS_CardinalityType DEF Count

\* g is f but for thread t, which has moved to q.
Moved(f, g, t, q) == f[t] # q /\ g[t] = q /\ \A u \in Threads \ {t} : g[u] = f[u]

\* A thread that moves is one more where it goes,
LEMMA MoveAdds ==
    ASSUME NEW f, NEW g, NEW t \in Threads, NEW q, Moved(f, g, t, q)
    PROVE  Count(g, q) = Count(f, q) + 1
<1>1. Where(g, q) = Where(f, q) \cup {t} /\ t \notin Where(f, q)
  BY DEF Where, Moved
<1>. QED
  BY <1>1, CountIsNat, FS_AddElement DEF Count

\* missing where it was,
LEMMA MoveRemoves ==
    ASSUME NEW f, NEW g, NEW t \in Threads, NEW q, Moved(f, g, t, q)
    PROVE  Count(g, f[t]) = Count(f, f[t]) - 1
<1>1. Where(g, f[t]) = Where(f, f[t]) \ {t} /\ t \in Where(f, f[t])
  BY DEF Where, Moved
<1>. QED
  BY <1>1, CountIsNat, FS_RemoveElement DEF Count

\* and makes no difference elsewhere.
LEMMA MoveKeeps ==
    ASSUME NEW f, NEW g, NEW t \in Threads, NEW q, Moved(f, g, t, q),
           NEW r, r # q, r # f[t]
    PROVE  Count(g, r) = Count(f, r)
<1>1. Where(g, r) = Where(f, r)
  BY DEF Where, Moved
<1>. QED
  BY <1>1 DEF Count

\* The three parts of NoLostWakeup.
Sleeping(p) == \E t \in Threads : pc[t] = p
TasksAnnounced ==
    ~shutdown /\ Sleeping("waitEmpty") =>
        buffer_len <= Count(pc, "notifyEmpty") + Count(pc, "remove")
SlotsAnnounced ==
    ~shutdown /\ Sleeping("waitFull") =>
        QUEUE_CAPACITY - buffer_len <= Count(pc, "notifyFull") + Count(pc, "submit")
StopAnnounced ==
    shutdown /\ pc[Main] # "notifyAll" => ~Sleeping("waitEmpty") /\ ~Sleeping("waitFull")
WakeInv == TasksAnnounced /\ SlotsAnnounced /\ StopAnnounced

\* They are NoLostWakeup.
LEMMA WakeInvIs == WakeInv <=> NoLostWakeup
BY DEF WakeInv, TasksAnnounced, SlotsAnnounced, StopAnnounced, Sleeping, NoLostWakeup, At,
       Count, Where

\* What a step of one thread leaves of the invariant.
LEMMA MovePreserves ==
    ASSUME IndInv, WakeInv, NEW t \in Threads, NEW q \in PCs, pc[t] # q,
           pc' = [pc EXCEPT ![t] = q], UNCHANGED queueVars,
           \* it falls asleep only if it has to,
           q = "waitEmpty" => pc[t] = "remove" /\ ~MayRemove,
           q = "waitFull" => pc[t] = "submit" /\ ~MaySubmit,
           \* and does not leave behind what it was to see to
           pc[t] = "notifyEmpty" => EmptyWaiters = {},
           pc[t] = "notifyFull" => FullWaiters = {},
           pc[t] \in {"remove", "submit"} /\ q \notin {"waitEmpty", "waitFull"} => shutdown,
           pc[t] = "notifyAll" => t # Main
    PROVE  WakeInv'
<1>1. /\ pc \in [Threads -> PCs] /\ Main \in Threads
      /\ buffer_len \in Nat /\ QUEUE_CAPACITY \in Nat /\ buffer_len <= QUEUE_CAPACITY
      /\ shutdown \in BOOLEAN
  BY TaskQueueAssumption DEF IndInv, TypeOK, Threads
<1>2. \A f, p : Count(f, p) \in Nat
  BY CountIsNat
<1>3. Moved(pc, pc', t, q)
  BY <1>1 DEF Moved
<1>4. shutdown' = shutdown /\ buffer_len' = buffer_len
  BY DEF queueVars
<1>5. ASSUME NEW r, r # pc[t] PROVE Count(pc', r) >= Count(pc, r)
  <2>1. Count(pc', r) \in Nat /\ Count(pc, r) \in Nat
    BY <1>2
  <2>2. CASE r = q
    BY <1>3, <2>1, <2>2, MoveAdds
  <2>3. CASE r # q
    <3>1. Count(pc', r) = Count(pc, r)
      BY <1>3, <1>5, <2>3, MoveKeeps
    <3>. QED
      BY <2>1, <3>1
  <2>. QED
    BY <2>2, <2>3
<1>6. TasksAnnounced'
  <2>. SUFFICES ASSUME ~shutdown, Sleeping("waitEmpty")'
                PROVE  buffer_len <= Count(pc', "notifyEmpty") + Count(pc', "remove")
    BY <1>4 DEF TasksAnnounced
  <2>1. CASE buffer_len = 0
    BY <1>2, <2>1
  <2>2. CASE buffer_len # 0
    <3>1. q # "waitEmpty"
      BY <1>1, <2>2 DEF MayRemove
    <3>2. Sleeping("waitEmpty")
      BY <1>3, <3>1 DEF Sleeping, Moved
    <3>3. buffer_len <= Count(pc, "notifyEmpty") + Count(pc, "remove")
      BY <3>2 DEF WakeInv, TasksAnnounced
    <3>4. pc[t] # "notifyEmpty"
      BY <3>2 DEF Sleeping, EmptyWaiters, IndInv, ThreadInv, MainPCs, Threads
    <3>5. pc[t] # "remove"
      BY <3>1 
    <3>6. /\ Count(pc', "notifyEmpty") >= Count(pc, "notifyEmpty")
          /\ Count(pc', "remove") >= Count(pc, "remove")
      BY <1>5, <3>4, <3>5
    <3>. QED
      BY <1>1, <1>2, <3>3, <3>6
  <2>. QED
    BY <2>1, <2>2
<1>7. SlotsAnnounced'
  <2>. SUFFICES ASSUME ~shutdown, Sleeping("waitFull")'
                PROVE  QUEUE_CAPACITY - buffer_len <= Count(pc', "notifyFull") + Count(pc', "submit")
    BY <1>4 DEF SlotsAnnounced
  <2>1. CASE buffer_len = QUEUE_CAPACITY
    BY <1>1, <1>2, <2>1
  <2>2. CASE buffer_len # QUEUE_CAPACITY
    <3>1. q # "waitFull"
      BY <1>1, <2>2 DEF MaySubmit
    <3>2. Sleeping("waitFull")
      BY <1>3, <3>1 DEF Sleeping, Moved
    <3>3. QUEUE_CAPACITY - buffer_len <= Count(pc, "notifyFull") + Count(pc, "submit")
      BY <3>2 DEF WakeInv, SlotsAnnounced
    <3>4. pc[t] # "notifyFull"
      BY <3>2 DEF Sleeping, FullWaiters
    <3>5. pc[t] # "submit"
      BY <3>1
    <3>6. /\ Count(pc', "notifyFull") >= Count(pc, "notifyFull")
          /\ Count(pc', "submit") >= Count(pc, "submit")
      BY <1>5, <3>4, <3>5
    <3>. QED
      BY <1>1, <1>2, <3>3, <3>6
  <2>. QED
    BY <2>1, <2>2
<1>8. StopAnnounced'
  <2>. SUFFICES ASSUME shutdown, pc'[Main] # "notifyAll"
                PROVE  ~Sleeping("waitEmpty")' /\ ~Sleeping("waitFull")'
    BY <1>4 DEF StopAnnounced
  <2>1. pc[Main] # "notifyAll"
    BY <1>1, <1>3 DEF Moved
  <2>2. ~Sleeping("waitEmpty") /\ ~Sleeping("waitFull")
    BY <2>1 DEF WakeInv, StopAnnounced
  <2>3. q # "waitEmpty" /\ q # "waitFull"
    BY DEF MayRemove, MaySubmit
  <2>. QED
    BY <1>3, <2>2, <2>3 DEF Sleeping, Moved
<1>. QED
  BY <1>6, <1>7, <1>8 DEF WakeInv

\* The invariant stays if nobody falls asleep and nothing under way is given up.
LEMMA AnnouncedStill ==
    ASSUME IndInv, WakeInv, UNCHANGED queueVars,
           Sleeping("waitEmpty")' => Sleeping("waitEmpty"),
           Sleeping("waitFull")' => Sleeping("waitFull"),
           pc'[Main] # "notifyAll" => pc[Main] # "notifyAll",
           Count(pc', "notifyEmpty") + Count(pc', "remove")
               >= Count(pc, "notifyEmpty") + Count(pc, "remove"),
           Count(pc', "notifyFull") + Count(pc', "submit")
               >= Count(pc, "notifyFull") + Count(pc, "submit")
    PROVE  WakeInv'
<1>1. /\ buffer_len \in Nat /\ QUEUE_CAPACITY \in Nat
      /\ shutdown' = shutdown /\ buffer_len' = buffer_len
  BY TaskQueueAssumption DEF IndInv, TypeOK, queueVars
<1>2. \A g, p : Count(g, p) \in Nat
  BY CountIsNat
<1>3. TasksAnnounced'
  BY <1>1, <1>2 DEF WakeInv, TasksAnnounced
<1>4. SlotsAnnounced'
  BY <1>1, <1>2 DEF WakeInv, SlotsAnnounced
<1>5. StopAnnounced'
  BY <1>1 DEF WakeInv, StopAnnounced
<1>. QED
  BY <1>3, <1>4, <1>5 DEF WakeInv

\* A notification that finds somebody asleep: t goes on to a, and u wakes up at b.
LEMMA WakePreserves ==
    ASSUME IndInv, WakeInv, UNCHANGED queueVars,
           NEW f, NEW t \in Threads, NEW a, Moved(pc, f, t, a),
           NEW u \in Threads, NEW b, Moved(f, pc', u, b), t # u,
           a \notin {"waitEmpty", "waitFull", "notifyAll"},
           \/ pc[t] = "notifyEmpty" /\ pc[u] = "waitEmpty" /\ b = "remove"
           \/ pc[t] = "notifyFull" /\ pc[u] = "waitFull" /\ b = "submit"
    PROVE  WakeInv'
<1>1. /\ buffer_len \in Nat /\ QUEUE_CAPACITY \in Nat /\ Main \in Threads
      /\ shutdown' = shutdown /\ buffer_len' = buffer_len /\ shutdown \in BOOLEAN
  BY TaskQueueAssumption DEF IndInv, TypeOK, Threads, queueVars
<1>2. \A g, p : Count(g, p) \in Nat
  BY CountIsNat
<1>3. f[u] = pc[u]
  BY DEF Moved
<1>4. ASSUME NEW r, r # pc[t] PROVE Count(f, r) >= Count(pc, r)
  <2>1. Count(f, r) \in Nat /\ Count(pc, r) \in Nat
    BY <1>2
  <2>2. CASE r = a
    BY <2>1, <2>2, MoveAdds
  <2>3. CASE r # a
    <3>1. Count(f, r) = Count(pc, r)
      BY <1>4, <2>3, MoveKeeps
    <3>. QED
      BY <2>1, <3>1
  <2>. QED
    BY <2>2, <2>3
<1>5. ASSUME NEW r, r # pc[u] PROVE Count(pc', r) >= Count(f, r)
  <2>1. Count(f, r) \in Nat /\ Count(pc', r) \in Nat
    BY <1>2
  <2>2. CASE r = b
    BY <2>1, <2>2, MoveAdds
  <2>3. CASE r # b
    <3>1. Count(pc', r) = Count(f, r)
      BY <1>3, <1>5, <2>3, MoveKeeps
    <3>. QED
      BY <2>1, <3>1
  <2>. QED
    BY <2>2, <2>3
<1>6. /\ Count(f, pc[t]) = Count(pc, pc[t]) - 1
      /\ Count(pc', b) = Count(f, b) + 1
  BY MoveAdds, MoveRemoves
<1>7. ASSUME NEW p, p \in {"waitEmpty", "waitFull"}, Sleeping(p)' PROVE Sleeping(p)
  BY <1>7 DEF Sleeping, Moved
<1>8. pc[Main] # "notifyAll" \/ pc'[Main] = "notifyAll"
  BY <1>1, <1>3 DEF Moved
<1>9. CASE pc[t] = "notifyEmpty" /\ pc[u] = "waitEmpty" /\ b = "remove"
  <2>1. /\ Count(pc', "notifyEmpty") >= Count(pc, "notifyEmpty") - 1
        /\ Count(pc', "remove") >= Count(pc, "remove") + 1
    <3>1. Count(pc', "notifyEmpty") >= Count(f, "notifyEmpty")
      BY <1>5, <1>9
    <3>2. Count(f, "remove") >= Count(pc, "remove")
      BY <1>4, <1>9
    <3>. QED
      BY <1>2, <1>6, <1>9, <3>1, <3>2
  <2>2. /\ Count(pc', "notifyFull") >= Count(pc, "notifyFull")
        /\ Count(pc', "submit") >= Count(pc, "submit")
    <3>1. Count(f, "notifyFull") >= Count(pc, "notifyFull") /\ Count(f, "submit") >= Count(pc, "submit")
      BY <1>4, <1>9
    <3>2. Count(pc', "notifyFull") >= Count(f, "notifyFull") /\ Count(pc', "submit") >= Count(f, "submit")
      BY <1>5, <1>9
    <3>. QED
      BY <1>2, <3>1, <3>2
  <2>3. /\ Count(pc', "notifyEmpty") + Count(pc', "remove")
               >= Count(pc, "notifyEmpty") + Count(pc, "remove")
        /\ Count(pc', "notifyFull") + Count(pc', "submit")
               >= Count(pc, "notifyFull") + Count(pc, "submit")
    BY <1>2, <2>1, <2>2
  <2>. QED
    BY <1>7, <1>8, <2>3, AnnouncedStill
<1>10. CASE pc[t] = "notifyFull" /\ pc[u] = "waitFull" /\ b = "submit"
  <2>1. /\ Count(pc', "notifyFull") >= Count(pc, "notifyFull") - 1
        /\ Count(pc', "submit") >= Count(pc, "submit") + 1
    <3>1. Count(pc', "notifyFull") >= Count(f, "notifyFull")
      BY <1>5, <1>10
    <3>2. Count(f, "submit") >= Count(pc, "submit")
      BY <1>4, <1>10
    <3>. QED
      BY <1>2, <1>6, <1>10, <3>1, <3>2
  <2>2. /\ Count(pc', "notifyEmpty") >= Count(pc, "notifyEmpty")
        /\ Count(pc', "remove") >= Count(pc, "remove")
    <3>1. Count(f, "notifyEmpty") >= Count(pc, "notifyEmpty") /\ Count(f, "remove") >= Count(pc, "remove")
      BY <1>4, <1>10
    <3>2. Count(pc', "notifyEmpty") >= Count(f, "notifyEmpty") /\ Count(pc', "remove") >= Count(f, "remove")
      BY <1>5, <1>10
    <3>. QED
      BY <1>2, <3>1, <3>2
  <2>3. /\ Count(pc', "notifyEmpty") + Count(pc', "remove")
               >= Count(pc, "notifyEmpty") + Count(pc, "remove")
        /\ Count(pc', "notifyFull") + Count(pc', "submit")
               >= Count(pc, "notifyFull") + Count(pc, "submit")
    BY <1>2, <2>1, <2>2
  <2>. QED
    BY <1>7, <1>8, <2>3, AnnouncedStill
<1>. QED
  BY <1>9, <1>10

\* submit() leaves a task and sets out to announce it.
LEMMA PutPreserves ==
    ASSUME IndInv, WakeInv, NEW t \in Threads, SubmitPuts(t)
    PROVE  WakeInv'
<1>1. /\ pc \in [Threads -> PCs] /\ pc[t] = "submit" /\ pc' = [pc EXCEPT ![t] = "notifyEmpty"]
      /\ buffer_len \in Nat /\ QUEUE_CAPACITY \in Nat /\ buffer_len' = buffer_len + 1
      /\ ~shutdown /\ shutdown' = shutdown
  BY TaskQueueAssumption DEF IndInv, TypeOK, SubmitPuts
<1>2. \A g, p : Count(g, p) \in Nat
  BY CountIsNat
<1>3. Moved(pc, pc', t, "notifyEmpty")
  BY <1>1 DEF Moved
<1>4. /\ Count(pc', "notifyEmpty") = Count(pc, "notifyEmpty") + 1
      /\ Count(pc', "submit") = Count(pc, "submit") - 1
  BY <1>1, <1>3, MoveAdds, MoveRemoves
<1>5. Count(pc', "remove") = Count(pc, "remove") /\ Count(pc', "notifyFull") = Count(pc, "notifyFull")
  BY <1>1, <1>3, MoveKeeps
<1>6. ASSUME NEW p, p \in {"waitEmpty", "waitFull"}, Sleeping(p)' PROVE Sleeping(p)
  BY <1>3, <1>6 DEF Sleeping, Moved
<1>7. TasksAnnounced'
  BY <1>1, <1>2, <1>4, <1>5, <1>6 DEF WakeInv, TasksAnnounced
<1>8. SlotsAnnounced'
  BY <1>1, <1>2, <1>4, <1>5, <1>6 DEF WakeInv, SlotsAnnounced
<1>9. StopAnnounced'
  BY <1>1 DEF StopAnnounced
<1>. QED
  BY <1>7, <1>8, <1>9 DEF WakeInv

\* remove() frees a slot and sets out to announce it.
LEMMA TakePreserves ==
    ASSUME IndInv, WakeInv, NEW w \in Workers, RemoveTakes(w)
    PROVE  WakeInv'
<1>1. /\ pc \in [Threads -> PCs] /\ pc[w] = "remove" /\ pc' = [pc EXCEPT ![w] = "notifyFull"]
      /\ buffer_len \in Nat /\ QUEUE_CAPACITY \in Nat /\ buffer_len' = buffer_len - 1
      /\ shutdown' = shutdown /\ shutdown \in BOOLEAN /\ w \in Threads /\ w # Main
      /\ Main \in Threads
  BY TaskQueueAssumption DEF IndInv, TypeOK, RemoveTakes, Threads
<1>2. \A g, p : Count(g, p) \in Nat
  BY CountIsNat
<1>3. Moved(pc, pc', w, "notifyFull")
  BY <1>1 DEF Moved
<1>4. /\ Count(pc', "notifyFull") = Count(pc, "notifyFull") + 1
      /\ Count(pc', "remove") = Count(pc, "remove") - 1
  BY <1>1, <1>3, MoveAdds, MoveRemoves
<1>5. /\ Count(pc', "notifyEmpty") = Count(pc, "notifyEmpty")
      /\ Count(pc', "submit") = Count(pc, "submit")
  BY <1>1, <1>3, MoveKeeps
<1>6. ASSUME NEW p, p \in {"waitEmpty", "waitFull"}, Sleeping(p)' PROVE Sleeping(p)
  BY <1>3, <1>6 DEF Sleeping, Moved
<1>7. TasksAnnounced'
  BY <1>1, <1>2, <1>4, <1>5, <1>6 DEF WakeInv, TasksAnnounced
<1>8. SlotsAnnounced'
  BY <1>1, <1>2, <1>4, <1>5, <1>6 DEF WakeInv, SlotsAnnounced
<1>9. StopAnnounced'
  <2>1. pc'[Main] = pc[Main]
    BY <1>1
  <2>. QED
    BY <1>1, <1>6, <2>1 DEF WakeInv, StopAnnounced
<1>. QED
  BY <1>7, <1>8, <1>9 DEF WakeInv

\* No step of any thread loses a wakeup.
LEMMA NextPreservesWakeInv ==
    ASSUME IndInv, WakeInv, [Next]_vars
    PROVE  WakeInv'
<1>. USE DEF PCs
<1>a. /\ pc \in [Threads -> PCs] /\ Main \in Threads /\ Main \notin Workers
      /\ Workers \subseteq Threads
      /\ pc[Main] \in MainPCs /\ \A w \in Workers : pc[w] \in WorkerPCs
  BY TaskQueueAssumption DEF IndInv, TypeOK, Threads, ThreadInv
<1>1. ASSUME NEW t \in Threads, Submit(t) PROVE WakeInv'
  <2>1. CASE SubmitWaits(t)
    BY <1>a, <2>1, MovePreserves DEF SubmitWaits
  <2>2. CASE SubmitRefused(t)
    BY <1>a, <2>2, MovePreserves DEF SubmitRefused, AfterSubmit
  <2>3. CASE SubmitPuts(t)
    BY <2>3, PutPreserves
  <2>4. CASE SubmitNotifies(t)
    <3>. DEFINE returned == [pc EXCEPT ![t] = AfterSubmit(t)]
    <3>1. pc[t] = "notifyEmpty" /\ UNCHANGED queueVars /\ AfterSubmit(t) \in {"idle", "remove"}
      BY <2>4 DEF SubmitNotifies, AfterSubmit
    <3>2. CASE EmptyWaiters = {} /\ pc' = returned
      BY <1>a, <3>1, <3>2, MovePreserves
    <3>3. CASE \E w \in EmptyWaiters : pc' = [returned EXCEPT ![w] = "remove"]
      <4>1. PICK w \in EmptyWaiters : pc' = [returned EXCEPT ![w] = "remove"]
        BY <3>3
      <4>2. w \in Threads /\ pc[w] = "waitEmpty" /\ w # t
        BY <1>a, <3>1 DEF EmptyWaiters
      <4>3. /\ returned \in [Threads -> PCs]
            /\ Moved(pc, returned, t, AfterSubmit(t)) /\ returned[w] = "waitEmpty"
        BY <1>a, <3>1, <4>2 DEF Moved
      <4>. HIDE DEF returned
      <4>4. Moved(returned, pc', w, "remove")
        BY <4>1, <4>2, <4>3 DEF Moved
      <4>. QED
        BY <3>1, <4>2, <4>3, <4>4, WakePreserves
    <3>. QED
      BY <2>4, <3>2, <3>3 DEF SubmitNotifies
  <2>. QED
    BY <1>1, <2>1, <2>2, <2>3, <2>4 DEF Submit
<1>2. ASSUME NEW w \in Workers, Remove(w) PROVE WakeInv'
  <2>1. CASE RemoveWaits(w)
    BY <1>a, <2>1, MovePreserves DEF RemoveWaits
  <2>2. CASE WorkerExits(w)
    BY <1>a, <2>2, MovePreserves DEF WorkerExits, RemoveEnds
  <2>3. CASE RemoveTakes(w)
    BY <2>3, TakePreserves
  <2>4. CASE RemoveNotifies(w)
    <3>. DEFINE running == [pc EXCEPT ![w] = "run"]
    <3>1. pc[w] = "notifyFull" /\ UNCHANGED queueVars /\ w \in Threads
      BY <1>a, <2>4 DEF RemoveNotifies
    <3>2. CASE FullWaiters = {} /\ pc' = running
      BY <1>a, <3>1, <3>2, MovePreserves
    <3>3. CASE \E t \in FullWaiters : pc' = [running EXCEPT ![t] = "submit"]
      <4>1. PICK t \in FullWaiters : pc' = [running EXCEPT ![t] = "submit"]
        BY <3>3
      <4>2. t \in Threads /\ pc[t] = "waitFull" /\ t # w
        BY <3>1 DEF FullWaiters
      <4>3. /\ running \in [Threads -> PCs]
            /\ Moved(pc, running, w, "run") /\ running[t] = "waitFull"
        BY <1>a, <3>1, <4>2 DEF Moved
      <4>. HIDE DEF running
      <4>4. Moved(running, pc', t, "submit")
        BY <4>1, <4>2, <4>3 DEF Moved
      <4>. QED
        BY <3>1, <4>2, <4>3, <4>4, WakePreserves
    <3>. QED
      BY <2>4, <3>2, <3>3 DEF RemoveNotifies
  <2>. QED
    BY <1>2, <2>1, <2>2, <2>3, <2>4 DEF Remove
<1>3. ASSUME NEW w \in Workers, RunTask(w) PROVE WakeInv'
  <2>1. /\ pc[w] = "run" /\ UNCHANGED queueVars /\ w \in Threads
        /\ \/ pc' = [pc EXCEPT ![w] = "remove"]
           \/ pc' = [pc EXCEPT ![w] = "submit"]
    BY <1>a, <1>3 DEF RunTask
  <2>. QED
    BY <1>a, <2>1, MovePreserves
<1>4. ASSUME NEW t \in Tasks, MainSubmits(t) PROVE WakeInv'
  BY <1>a, <1>4, MovePreserves DEF MainSubmits
<1>5. CASE MainStops
  <2>1. shutdown' /\ pc'[Main] = "notifyAll"
    BY <1>a, <1>5 DEF MainStops
  <2>. QED
    BY <2>1 DEF WakeInv, TasksAnnounced, SlotsAnnounced, StopAnnounced
<1>6. CASE MainNotifiesAll
  <2>1. \A t \in Threads : pc'[t] # "waitEmpty" /\ pc'[t] # "waitFull"
    BY <1>a, <1>6 DEF MainNotifiesAll, StopWakes, MainPCs
  <2>. QED
    BY <2>1 DEF WakeInv, TasksAnnounced, SlotsAnnounced, StopAnnounced, Sleeping
<1>7. CASE MainJoins
  BY <1>a, <1>7, MovePreserves DEF MainJoins
<1>8. ASSUME NEW t \in Threads, SpuriousWakeup(t) PROVE WakeInv'
  BY <1>a, <1>8, MovePreserves DEF SpuriousWakeup
<1>9. CASE UNCHANGED vars
  BY <1>9 DEF vars, WakeInv, TasksAnnounced, SlotsAnnounced, StopAnnounced, Sleeping
<1>. QED
  BY <1>1, <1>2, <1>3, <1>4, <1>5, <1>6, <1>7, <1>8, <1>9, <1>a
     DEF Next, WorkerStep, StopAndJoin, Terminated

\* For any number of workers, any capacity and any choice of notify_one(): no queued
\* task waits for a sleeping worker and no free slot for a sleeping producer without
\* somebody under way to it, and nobody sleeps behind stop().
THEOREM NoWakeupIsLost == Spec => []NoLostWakeup
<1>1. Init => WakeInv
  <2>. SUFFICES ASSUME Init PROVE WakeInv
    OBVIOUS
  <2>1. /\ \A t \in Threads : pc[t] \in {"idle", "remove"}
        /\ ~shutdown
    BY DEF Init
  <2>. QED
    BY <2>1 DEF WakeInv, TasksAnnounced, SlotsAnnounced, StopAnnounced, Sleeping
<1>2. IndInv /\ WakeInv /\ [Next]_vars => WakeInv'
  BY NextPreservesWakeInv
<1>. QED
  BY <1>1, <1>2, Invariance, WakeInvIs, PTL DEF Spec

\* There are tasks, every worker sleeps and nobody is about to wake one.
Stalled ==
    /\ buffer_len > 0
    /\ \A w \in Workers : pc[w] \in {"waitEmpty", "waitFull"}
    /\ pc[Main] \notin {"notifyEmpty", "notifyAll"}

\* The pool can stall on queued tasks in one way only: every worker runs a task that
\* is itself inside submit(), as the read task of the event loop may be.
THEOREM StallsOnlyInNestedSubmit ==
    Spec => [](Stalled => \A w \in Workers : pc[w] = "waitFull" /\ Child[job[w]] \in Tasks)
<1>1. IndInv /\ WakeInv /\ Stalled =>
         \A w \in Workers : pc[w] = "waitFull" /\ Child[job[w]] \in Tasks
  <2>. SUFFICES ASSUME IndInv, WakeInv, Stalled, NEW w \in Workers
                PROVE  pc[w] = "waitFull" /\ Child[job[w]] \in Tasks
    OBVIOUS
  <2>1. w \in Threads /\ w # Main /\ pc[w] \in {"waitEmpty", "waitFull"} /\ buffer_len \in Nat
    BY TaskQueueAssumption DEF Threads, Stalled, IndInv, TypeOK
  <2>2. pc[w] # "waitEmpty"
    <3>. SUFFICES ASSUME pc[w] = "waitEmpty" PROVE FALSE
      OBVIOUS
    <3>1. Sleeping("waitEmpty")
      BY <2>1 DEF Sleeping
    <3>2. ~shutdown
      BY <3>1 DEF Stalled, WakeInv, StopAnnounced
    <3>3. Where(pc, "notifyEmpty") = {} /\ Where(pc, "remove") = {}
      BY DEF Where, Stalled, Threads, IndInv, ThreadInv, MainPCs
    <3>4. Count(pc, "notifyEmpty") = 0 /\ Count(pc, "remove") = 0
      BY <3>3, FS_EmptySet DEF Count
    <3>5. buffer_len <= 0
      BY <3>1, <3>2, <3>4 DEF WakeInv, TasksAnnounced
    <3>. QED
      BY <2>1, <3>5 DEF Stalled
  <2>3. Argument(w) \in Tasks
    BY <2>1, <2>2 DEF IndInv, ThreadInv, SubmitPCs
  <2>. QED
    BY <2>1, <2>2, <2>3 DEF Argument
<1>. QED
  BY <1>1, Invariance, NoWakeupIsLost, WakeInvIs, PTL
=============================================================================
