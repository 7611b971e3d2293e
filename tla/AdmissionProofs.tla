-------------------------- MODULE AdmissionProofs ---------------------------
(***************************************************************************)
(* Proofs about Admission for any number of workers and clients, any       *)
(* limits and any number of descriptors.                                   *)
(***************************************************************************)
EXTENDS Admission, FiniteSetTheorems, TLAPS

\* Where a thread is inside handle_accept, before and after the client is in
\* the map and in the error path of EPOLL_CTL_ADD, and in remove_connection.
FreshPCs == {"limit", "reject", "insert"}
UndoPCs == {"undoErase", "undoClose", "undoDrop"}
NewPCs == FreshPCs \cup {"epollAdd", "count"} \cup UndoPCs
AcceptPCs == {"accept", "acceptCall"} \cup NewPCs
RmPCs == {"rmRelease", "rmCount", "rmLock", "rmAccept", "rmDrop"}
HoldPCs == {"rmAccept", "rmDrop"} \cup AcceptPCs

\* The local variables of a thread agree with where it is.
ThreadInv ==
    /\ \A t \in Threads : new[t] # None <=> pc[t] \in NewPCs
    /\ \A t \in Threads : rm[t] # None => pc[t] \in RmPCs \cup AcceptPCs
    /\ \A t \in Threads : pc[t] \in RmPCs => rm[t] # None
    /\ \A w \in Workers : pc[w] \in AcceptPCs => rm[w] # None
    /\ pc[Main] \notin {"find", "task", "io", "resubmit"}
    /\ task[Main] # None <=> pc[Main] = "submit"
    /\ \A w \in Workers : pc[w] # "scan"
    /\ \A w \in Workers : task[w] # None <=> pc[w] \notin {"idle", "find"}
    /\ \A t \in Threads : pc[t] \in {"rmFind", "find"} => target[t].fd \in Fds
    /\ \A w \in Workers : pc[w] = "rmFind" => target[w] = [fd |-> fdOf[task[w]], conn |-> task[w]]
    /\ \A r \in todo : r.fd \in Fds
    /\ \A q \in Range(queue) : q.fd \in Fds

\* A client gets a descriptor number when it is accepted, once; the map and
\* the descriptor table agree with it.
FdInv ==
    /\ \A c \in Conns : c \notin arrived \/ c \in backlog => fdOf[c] = 0
    /\ \A c \in Conns : Referenced(c) => fdOf[c] \in Fds
    /\ \A f \in Fds : sock[f] # None => fdOf[sock[f]] = f
    /\ \A f \in Fds : connections[f] # None => fdOf[connections[f]] = f

\* A connection is admitted by one thread and removed by one thread, off the
\* map before and after; a mutex that is held is held by the thread that
\* removes, or by a worker in the middle of its task.
OwnInv ==
    /\ \A t, u \in Threads : new[t] # None /\ new[t] = new[u] => t = u
    /\ \A t, u \in Threads : rm[t] # None /\ rm[t] = rm[u] => t = u
    /\ \A t \in Threads : pc[t] \in FreshPCs =>
          /\ \A f \in Fds : connections[f] # new[t]
          /\ \A q \in Range(queue) : q.conn # new[t]
          /\ \A u \in Threads : new[t] # rm[u] /\ new[t] # task[u]
    /\ \A t \in Threads, f \in Fds : rm[t] # None => connections[f] # rm[t]
    /\ \A c \in Conns : mutex[c] # None =>
          \/ rm[mutex[c]] = c /\ pc[mutex[c]] \in HoldPCs
          \/ task[mutex[c]] = c /\ pc[mutex[c]] \in {"io", "resubmit"}

IndInv == TypeOK /\ ThreadInv /\ FdInv /\ OwnInv

\* When EPOLL_CTL_ADD does not fail: whoever is referred to has its own open
\* socket, and every open socket is somebody's who is referred to.
SockInv ==
    /\ \A t \in Threads : pc[t] \notin UndoPCs
    /\ \A c \in Conns : Referenced(c) => sock[fdOf[c]] = c
    /\ \A f \in Fds : sock[f] # None => Referenced(sock[f])

\* Threads that have passed the check of the cap and may insert, that have
\* inserted and not counted, that have erased and not discounted.
Admitting == At({"acceptCall", "limit", "insert"})
Uncounted == At({"epollAdd", "count", "undoErase"})
Undiscounted == At({"rmRelease", "rmCount"})

\* What active_connections stands for; it is negative when connections are
\* discounted before they are counted.
TrueActive == Cardinality(Mapped) + Cardinality(Undiscounted) - Cardinality(Uncounted)

CountInv ==
    /\ active_connections = IF TrueActive >= 0 THEN TrueActive ELSE TrueActive + SizeModulus
    /\ Cardinality(Mapped) + Cardinality(Admitting)
          <= MAX_TOTAL_CONNECTIONS + Cardinality(Threads) - 1

\* Somebody will look at the accept queue again.
BacklogInv ==
    /\ running => listening
    /\ running /\ ~edge /\ backlog # {} /\ HasCapacity =>
          \E t \in Threads : pc[t] \in AcceptPCs \cup {"rmLock", "rmAccept"}

-----------------------------------------------------------------------------
(* Facts about the operators *)

\* Min() of a set of numbers is its least element.
LEMMA MinIsLeast ==
    ASSUME NEW S \in SUBSET Nat, S # {}
    PROVE  Min(S) \in S /\ \A y \in S : Min(S) <= y
<1> DEFINE R == {p \in Nat \X Nat : p[1] < p[2]}
<1>1. IsWellFoundedOn(R, Nat)
  BY NatLessThanWellFounded, Zenon DEF OpToRel
<1> HIDE DEF R
<1>2. PICK x \in S : \A y \in S : ~ (<<y, x>> \in R)
  BY <1>1, WFMin, Zenon
<1>3. \A y \in S : x <= y
  <2> TAKE y \in S
  <2>1. <<y, x>> \in Nat \X Nat /\ <<y, x>>[1] = y /\ <<y, x>>[2] = x
    OBVIOUS
  <2>2. ~ (y < x)
    BY <1>2, <2>1, Zenon DEF R
  <2>. QED
    BY <2>2
<1>. QED
  BY <1>3, Zenon DEF Min

\* accept() returns a free descriptor.
LEMMA LowestFree ==
    ASSUME FreeFds # {}
    PROVE  Min(FreeFds) \in Fds /\ sock[Min(FreeFds)] = None
<1>1. FreeFds \in SUBSET Nat
  BY AdmissionAssumption DEF FreeFds, Fds
<1>. QED
  BY <1>1, MinIsLeast DEF FreeFds

\* Threads are Main and the workers, and no number or thread is None.
LEMMA ThreadFacts ==
    /\ Threads = Workers \cup {Main} /\ Main \notin Workers
    /\ None \notin Threads /\ None \notin Conns /\ 0 \notin Fds
BY AdmissionAssumption DEF Threads, Fds

\* Releasing a slot of a connection keeps the type of the counts.
LEMMA ReleaseType ==
    ASSUME counts_ \in [Ips -> Nat], NEW c \in Conns, Release(c)
    PROVE  counts_' \in [Ips -> Nat]
<1>1. IpOf[c] \in Ips
  BY DEF Ips
<1>. QED
  BY <1>1 DEF Release

\* A connection a thread refers to has a descriptor number.
LEMMA ReferredHasFd ==
    ASSUME TypeOK, FdInv
    PROVE  /\ \A t \in Threads : new[t] # None => new[t] \in Conns /\ fdOf[new[t]] \in Fds
           /\ \A t \in Threads : task[t] # None => task[t] \in Conns /\ fdOf[task[t]] \in Fds
           /\ \A t \in Threads : rm[t] # None => rm[t] \in Conns /\ fdOf[rm[t]] \in Fds
BY DEF TypeOK, FdInv, Referenced

-----------------------------------------------------------------------------
(* Every step keeps the invariant *)

\* accept() takes a client nobody refers to and gives it a free descriptor.
LEMMA AcceptCallTakes ==
    ASSUME IndInv, NEW t \in Threads, AcceptCall(t)
    PROVE  \E c \in backlog, f \in Fds :
              /\ c \in Conns /\ fdOf[c] = 0 /\ ~Referenced(c) /\ sock[f] = None
              /\ backlog' = backlog \ {c}
              /\ sock' = [sock EXCEPT ![f] = c]
              /\ fdOf' = [fdOf EXCEPT ![c] = f]
              /\ new' = [new EXCEPT ![t] = c] /\ new[t] = None
              /\ pc[t] = "acceptCall" /\ pc' = [pc EXCEPT ![t] = "limit"]
              /\ UNCHANGED <<running, listening, arrived, edge, epoll, connections, mutex,
                             counts_, active_connections, task, rm, target, queue, events,
                             todo, sweeping, unscanned>>
<1>1. Min(FreeFds) \in Fds /\ sock[Min(FreeFds)] = None
  BY LowestFree DEF AcceptCall
<1>2. PICK c \in backlog :
         /\ backlog' = backlog \ {c}
         /\ sock' = [sock EXCEPT ![Min(FreeFds)] = c]
         /\ fdOf' = [fdOf EXCEPT ![c] = Min(FreeFds)]
         /\ new' = [new EXCEPT ![t] = c]
  BY DEF AcceptCall
<1>3. c \in Conns /\ fdOf[c] = 0 /\ ~Referenced(c)
  BY <1>2, ThreadFacts DEF IndInv, TypeOK, FdInv
<1>4. new[t] = None
  BY DEF AcceptCall, IndInv, ThreadInv, NewPCs, FreshPCs, UndoPCs
<1>. QED
  BY <1>1, <1>2, <1>3, <1>4 DEF AcceptCall, Goto, limitVars, poolVars, mainVars

\* The steps of handle_accept.
LEMMA HandleAcceptKeepsInv ==
    ASSUME IndInv, NEW t \in Threads, HandleAccept(t)
    PROVE  IndInv'
<1> USE DEF IndInv, Goto, kernelVars, fdVars, tableVars, limitVars, poolVars, threadVars,
            mainVars
<1>1. CASE AcceptLoop(t)
  <2> PICK l \in {"acceptCall", "rmDrop", "idle"} :
         /\ pc[t] = "accept" /\ pc' = [pc EXCEPT ![t] = l]
         /\ l = "rmDrop" => rm[t] # None
         /\ l = "idle" => rm[t] = None
    <3>1. CASE running /\ HasCapacity
      BY <1>1, <3>1 DEF AcceptLoop
    <3>2. CASE ~(running /\ HasCapacity) /\ rm[t] = None
      BY <1>1, <3>2 DEF AcceptLoop, AcceptReturns
    <3>3. CASE ~(running /\ HasCapacity) /\ rm[t] # None
      BY <1>1, <3>3 DEF AcceptLoop, AcceptReturns
    <3>. QED
      BY <3>1, <3>2, <3>3
  <2>0. UNCHANGED <<running, listening, backlog, arrived, edge, sock, epoll, connections, fdOf,
                    mutex, counts_, active_connections, queue, events, new, task, rm, target,
                    todo, sweeping, unscanned>>
    BY <1>1 DEF AcceptLoop
  <2>1. TypeOK'
    BY <2>0, ThreadFacts DEF TypeOK, PCs
  <2>2. ThreadInv'
    BY <2>0, ThreadFacts
       DEF TypeOK, ThreadInv, NewPCs, FreshPCs, UndoPCs, AcceptPCs, RmPCs
  <2>3. FdInv'
    BY <2>0, ThreadFacts DEF TypeOK, FdInv, Referenced
  <2>4. OwnInv'
    BY <2>0, ThreadFacts
       DEF TypeOK, OwnInv, FreshPCs, NewPCs, UndoPCs, AcceptPCs, HoldPCs
  <2>. QED
    BY <2>1, <2>2, <2>3, <2>4
<1>2. CASE AcceptCall(t)
  <2> PICK c \in backlog, f \in Fds :
              /\ c \in Conns /\ fdOf[c] = 0 /\ ~Referenced(c) /\ sock[f] = None
              /\ backlog' = backlog \ {c}
              /\ sock' = [sock EXCEPT ![f] = c]
              /\ fdOf' = [fdOf EXCEPT ![c] = f]
              /\ new' = [new EXCEPT ![t] = c] /\ new[t] = None
              /\ pc[t] = "acceptCall" /\ pc' = [pc EXCEPT ![t] = "limit"]
              /\ UNCHANGED <<running, listening, arrived, edge, epoll, connections, mutex,
                             counts_, active_connections, task, rm, target, queue, events,
                             todo, sweeping, unscanned>>
    BY <1>2, AcceptCallTakes
  <2>1. TypeOK'
    BY ThreadFacts DEF TypeOK, PCs
  <2>2. ThreadInv'
    BY ThreadFacts
       DEF TypeOK, ThreadInv, Referenced, NewPCs, FreshPCs, UndoPCs, AcceptPCs, RmPCs
  <2>3. FdInv'
    BY ThreadFacts DEF TypeOK, FdInv, Referenced
  <2>4. OwnInv'
    BY ThreadFacts
       DEF TypeOK, ThreadInv, OwnInv, Referenced, NewPCs, FreshPCs, UndoPCs, AcceptPCs, RmPCs,
           HoldPCs
  <2>. QED
    BY <2>1, <2>2, <2>3, <2>4
<1>3. CASE AcceptTransient(t)
  <2>1. TypeOK'
    BY <1>3, ThreadFacts DEF AcceptTransient, TypeOK, PCs, ThreadInv
  <2>2. ThreadInv'
    BY <1>3, ThreadFacts
       DEF AcceptTransient, TypeOK, ThreadInv, NewPCs, FreshPCs, UndoPCs, AcceptPCs, RmPCs
  <2>3. FdInv'
    BY <1>3, ThreadFacts DEF AcceptTransient, TypeOK, ThreadInv, FdInv, Referenced
  <2>4. OwnInv'
    BY <1>3, ThreadFacts
       DEF AcceptTransient, TypeOK, ThreadInv, FdInv, OwnInv, NewPCs, FreshPCs, UndoPCs,
           AcceptPCs, RmPCs, HoldPCs, Referenced
  <2>. QED
    BY <2>1, <2>2, <2>3, <2>4
<1>4. CASE AcceptFails(t)
  <2>1. TypeOK'
    BY <1>4, ThreadFacts DEF AcceptFails, AcceptReturns, TypeOK, PCs, ThreadInv
  <2>2. ThreadInv'
    <3>1. CASE rm[t] = None
      BY <1>4, <3>1, ThreadFacts
         DEF AcceptFails, AcceptReturns, TypeOK, ThreadInv, NewPCs, FreshPCs, UndoPCs,
             AcceptPCs, RmPCs
    <3>2. CASE rm[t] # None
      BY <1>4, <3>2, ThreadFacts
         DEF AcceptFails, AcceptReturns, TypeOK, ThreadInv, NewPCs, FreshPCs, UndoPCs,
             AcceptPCs, RmPCs
    <3>. QED
      BY <3>1, <3>2
  <2>3. FdInv'
    BY <1>4, ThreadFacts DEF AcceptFails, AcceptReturns, TypeOK, ThreadInv, FdInv, Referenced
  <2>4. OwnInv'
    BY <1>4, ThreadFacts
       DEF AcceptFails, AcceptReturns, TypeOK, ThreadInv, FdInv, OwnInv, NewPCs, FreshPCs,
           UndoPCs, AcceptPCs, RmPCs, HoldPCs, Referenced
  <2>. QED
    BY <2>1, <2>2, <2>3, <2>4
<1>5. CASE TryAcquire(t)
  <2> PICK l \in {"insert", "reject"} : pc[t] = "limit" /\ pc' = [pc EXCEPT ![t] = l]
    <3>1. CASE UnderIpLimit(new[t])
      BY <1>5, <3>1 DEF TryAcquire
    <3>2. CASE ~UnderIpLimit(new[t])
      BY <1>5, <3>2 DEF TryAcquire
    <3>. QED
      BY <3>1, <3>2
  <2>0. UNCHANGED <<running, listening, backlog, arrived, edge, sock, epoll, connections, fdOf,
                    mutex, active_connections, queue, events, new, task, rm, target,
                    todo, sweeping, unscanned>>
    BY <1>5 DEF TryAcquire
  <2>1. TypeOK'
    <3>1. counts_' \in [Ips -> Nat]
      <4>1. CASE UnderIpLimit(new[t])
        BY <1>5, <4>1 DEF TryAcquire, Acquire, TypeOK
      <4>2. CASE ~UnderIpLimit(new[t])
        BY <1>5, <4>2 DEF TryAcquire, TypeOK
      <4>. QED
        BY <4>1, <4>2
    <3>. QED
      BY <2>0, <3>1, ThreadFacts DEF TypeOK, PCs
  <2>2. ThreadInv'
    BY <2>0, ThreadFacts
       DEF TypeOK, ThreadInv, NewPCs, FreshPCs, UndoPCs, AcceptPCs, RmPCs
  <2>3. FdInv'
    BY <2>0, ThreadFacts DEF TypeOK, FdInv, Referenced
  <2>4. OwnInv'
    BY <2>0, ThreadFacts
       DEF TypeOK, OwnInv, FreshPCs, NewPCs, UndoPCs, AcceptPCs, HoldPCs
  <2>. QED
    BY <2>1, <2>2, <2>3, <2>4
<1>6. CASE Reject(t)
  <2>1. TypeOK'
    BY <1>6, ThreadFacts DEF Reject, RejectCloses, Close, TypeOK, PCs, ThreadInv
  <2>2. ThreadInv'
    BY <1>6, ThreadFacts
       DEF Reject, RejectCloses, Close, TypeOK, ThreadInv, NewPCs, FreshPCs, UndoPCs,
           AcceptPCs, RmPCs
  <2>3. FdInv'
    BY <1>6, ThreadFacts DEF Reject, RejectCloses, Close, TypeOK, ThreadInv, FdInv, Referenced
  <2>4. OwnInv'
    BY <1>6, ThreadFacts
       DEF Reject, RejectCloses, Close, TypeOK, ThreadInv, FdInv, OwnInv, NewPCs, FreshPCs,
           UndoPCs, AcceptPCs, RmPCs, HoldPCs, Referenced
  <2>. QED
    BY <2>1, <2>2, <2>3, <2>4
<1>7. CASE Insert(t)
  <2>1. TypeOK'
    BY <1>7, ThreadFacts DEF Insert, CloseUnreferenced, Close, TypeOK, PCs, ThreadInv
  <2>2. ThreadInv'
    BY <1>7, ThreadFacts
       DEF Insert, CloseUnreferenced, Close, TypeOK, ThreadInv, NewPCs, FreshPCs, UndoPCs,
           AcceptPCs, RmPCs
  <2>3. FdInv'
    BY <1>7, ThreadFacts DEF Insert, CloseUnreferenced, Close, TypeOK, ThreadInv, FdInv, Referenced
  <2>4. OwnInv'
    BY <1>7, ThreadFacts
       DEF Insert, CloseUnreferenced, Close, TypeOK, ThreadInv, FdInv, OwnInv, NewPCs, FreshPCs,
           UndoPCs, AcceptPCs,
           RmPCs, HoldPCs, Referenced
  <2>. QED
    BY <2>1, <2>2, <2>3, <2>4
<1>8. CASE EpollAdd(t)
  <2>1. TypeOK'
    BY <1>8, ReferredHasFd, ThreadFacts DEF EpollAdd, TypeOK, PCs, ThreadInv, NewPCs
  <2>2. ThreadInv'
    BY <1>8, ThreadFacts
       DEF EpollAdd, TypeOK, ThreadInv, NewPCs, FreshPCs, UndoPCs, AcceptPCs, RmPCs
  <2>3. FdInv'
    BY <1>8, ThreadFacts DEF EpollAdd, TypeOK, ThreadInv, FdInv, Referenced
  <2>4. OwnInv'
    BY <1>8, ThreadFacts
       DEF EpollAdd, TypeOK, ThreadInv, FdInv, OwnInv, NewPCs, FreshPCs, UndoPCs, AcceptPCs,
           RmPCs, HoldPCs, Referenced
  <2>. QED
    BY <2>1, <2>2, <2>3, <2>4
<1>9. CASE Count(t)
  <2>1. TypeOK'
    BY <1>9, ThreadFacts, AdmissionAssumption
       DEF Count, CloseUnreferenced, Close, TypeOK, PCs, ThreadInv
  <2>2. ThreadInv'
    BY <1>9, ThreadFacts, AdmissionAssumption
       DEF Count, CloseUnreferenced, Close, TypeOK, ThreadInv, NewPCs, FreshPCs, UndoPCs,
           AcceptPCs, RmPCs
  <2>3. FdInv'
    BY <1>9, ThreadFacts, AdmissionAssumption
       DEF Count, CloseUnreferenced, Close, TypeOK, ThreadInv, FdInv, Referenced
  <2>4. OwnInv'
    BY <1>9, ThreadFacts, AdmissionAssumption
       DEF Count, CloseUnreferenced, Close, TypeOK, ThreadInv, FdInv, OwnInv, NewPCs, FreshPCs,
           UndoPCs, AcceptPCs, RmPCs, HoldPCs, Referenced
  <2>. QED
    BY <2>1, <2>2, <2>3, <2>4
<1>10. CASE EpollAddFails(t)
  <2>1. TypeOK'
    <3>1. new[t] \in Conns
      BY <1>10, ReferredHasFd DEF EpollAddFails, ThreadInv, NewPCs
    <3>2. counts_' \in [Ips -> Nat]
      BY <1>10, <3>1, ReleaseType DEF EpollAddFails, TypeOK
    <3>. QED
      BY <1>10, <3>2 DEF EpollAddFails, TypeOK, PCs
  <2>2. ThreadInv'
    BY <1>10, ThreadFacts
       DEF EpollAddFails, Release, TypeOK, ThreadInv, NewPCs, FreshPCs, UndoPCs, AcceptPCs,
           RmPCs
  <2>3. FdInv'
    BY <1>10, ThreadFacts DEF EpollAddFails, Release, TypeOK, ThreadInv, FdInv, Referenced
  <2>4. OwnInv'
    BY <1>10, ThreadFacts
       DEF EpollAddFails, Release, TypeOK, ThreadInv, FdInv, OwnInv, NewPCs, FreshPCs, UndoPCs,
           AcceptPCs, RmPCs, HoldPCs, Referenced
  <2>. QED
    BY <2>1, <2>2, <2>3, <2>4
<1>11. CASE UndoErase(t)
  <2>1. TypeOK'
    BY <1>11, ThreadFacts DEF UndoErase, CloseUnreferenced, Close, TypeOK, PCs, ThreadInv
  <2>2. ThreadInv'
    BY <1>11, ThreadFacts
       DEF UndoErase, CloseUnreferenced, Close, TypeOK, ThreadInv, NewPCs, FreshPCs, UndoPCs,
           AcceptPCs, RmPCs
  <2>3. FdInv'
    BY <1>11, ThreadFacts DEF UndoErase, CloseUnreferenced, Close, TypeOK, ThreadInv, FdInv,
       Referenced
  <2>4. OwnInv'
    BY <1>11, ThreadFacts
       DEF UndoErase, CloseUnreferenced, Close, TypeOK, ThreadInv, FdInv, OwnInv, NewPCs,
           FreshPCs, UndoPCs, AcceptPCs,
           RmPCs, HoldPCs, Referenced
  <2>. QED
    BY <2>1, <2>2, <2>3, <2>4
<1>12. CASE UndoClose(t)
  <2>1. TypeOK'
    BY <1>12, ThreadFacts DEF UndoClose, Close, TypeOK, PCs, ThreadInv
  <2>2. ThreadInv'
    BY <1>12, ThreadFacts
       DEF UndoClose, Close, TypeOK, ThreadInv, NewPCs, FreshPCs, UndoPCs, AcceptPCs, RmPCs
  <2>3. FdInv'
    BY <1>12, ThreadFacts DEF UndoClose, Close, TypeOK, ThreadInv, FdInv, Referenced
  <2>4. OwnInv'
    BY <1>12, ThreadFacts
       DEF UndoClose, Close, TypeOK, ThreadInv, FdInv, OwnInv, NewPCs, FreshPCs, UndoPCs,
           AcceptPCs, RmPCs, HoldPCs, Referenced
  <2>. QED
    BY <2>1, <2>2, <2>3, <2>4
<1>13. CASE UndoDrop(t)
  <2>1. TypeOK'
    BY <1>13, ThreadFacts DEF UndoDrop, CloseUnreferenced, Close, TypeOK, PCs, ThreadInv
  <2>2. ThreadInv'
    BY <1>13, ThreadFacts
       DEF UndoDrop, CloseUnreferenced, Close, TypeOK, ThreadInv, NewPCs, FreshPCs, UndoPCs,
           AcceptPCs, RmPCs
  <2>3. FdInv'
    BY <1>13, ThreadFacts
       DEF UndoDrop, CloseUnreferenced, Close, TypeOK, ThreadInv, FdInv, Referenced
  <2>4. OwnInv'
    BY <1>13, ThreadFacts
       DEF UndoDrop, CloseUnreferenced, Close, TypeOK, ThreadInv, FdInv, OwnInv, NewPCs,
           FreshPCs, UndoPCs, AcceptPCs, RmPCs, HoldPCs, Referenced
  <2>. QED
    BY <2>1, <2>2, <2>3, <2>4
<1>. QED
  BY <1>1, <1>2, <1>3, <1>4, <1>5, <1>6, <1>7, <1>8, <1>9, <1>10, <1>11, <1>12, <1>13
     DEF HandleAccept

\* The steps of remove_connection.
LEMMA RemoveConnectionKeepsInv ==
    ASSUME IndInv, NEW t \in Threads, RemoveConnection(t)
    PROVE  IndInv'
<1> USE DEF IndInv, Goto, kernelVars, fdVars, tableVars, limitVars, poolVars, threadVars,
            mainVars
<1>1. CASE RmAbsent(t)
  <2>1. TypeOK'
    BY <1>1, ThreadFacts
       DEF RmAbsent, RemoveReturns, CloseUnreferenced, Close, TypeOK, PCs, NoTarget, Targets
  <2>2. ThreadInv'
    BY <1>1, ThreadFacts
       DEF RmAbsent, RemoveReturns, CloseUnreferenced, Close, TypeOK, ThreadInv, NewPCs,
           FreshPCs, UndoPCs, AcceptPCs, RmPCs
  <2>3. FdInv'
    BY <1>1, ThreadFacts
       DEF RmAbsent, RemoveReturns, CloseUnreferenced, Close, TypeOK, ThreadInv, FdInv,
           Referenced
  <2>4. OwnInv'
    BY <1>1, ThreadFacts
       DEF RmAbsent, RemoveReturns, CloseUnreferenced, Close, TypeOK, ThreadInv, FdInv, OwnInv,
           NewPCs, FreshPCs, UndoPCs, AcceptPCs, RmPCs, HoldPCs, Referenced
  <2>. QED
    BY <2>1, <2>2, <2>3, <2>4
<1>2. CASE RmFind(t)
  <2>1. TypeOK'
    BY <1>2, ThreadFacts DEF RmFind, Erase, TypeOK, PCs, ThreadInv
  <2>2. ThreadInv'
    BY <1>2, ThreadFacts
       DEF RmFind, Erase, TypeOK, ThreadInv, NewPCs, FreshPCs, UndoPCs, AcceptPCs, RmPCs
  <2>3. FdInv'
    BY <1>2, ThreadFacts DEF RmFind, Erase, TypeOK, ThreadInv, FdInv, Referenced
  <2>4. OwnInv'
    BY <1>2, ThreadFacts
       DEF RmFind, Erase, TypeOK, ThreadInv, FdInv, OwnInv, NewPCs, FreshPCs, UndoPCs,
           AcceptPCs, RmPCs, HoldPCs, Referenced
  <2>. QED
    BY <2>1, <2>2, <2>3, <2>4
<1>3. CASE RmRelease(t)
  <2>1. TypeOK'
    <3>1. rm[t] \in Conns
      BY <1>3, ReferredHasFd DEF RmRelease, ThreadInv, RmPCs
    <3>2. counts_' \in [Ips -> Nat]
      BY <1>3, <3>1, ReleaseType DEF RmRelease, TypeOK
    <3>. QED
      BY <1>3, <3>2 DEF RmRelease, TypeOK, PCs
  <2>2. ThreadInv'
    BY <1>3, ThreadFacts
       DEF RmRelease, Release, TypeOK, ThreadInv, NewPCs, FreshPCs, UndoPCs, AcceptPCs, RmPCs
  <2>3. FdInv'
    BY <1>3, ThreadFacts DEF RmRelease, Release, TypeOK, ThreadInv, FdInv, Referenced
  <2>4. OwnInv'
    BY <1>3, ThreadFacts
       DEF RmRelease, Release, TypeOK, ThreadInv, FdInv, OwnInv, NewPCs, FreshPCs, UndoPCs,
           AcceptPCs, RmPCs, HoldPCs, Referenced
  <2>. QED
    BY <2>1, <2>2, <2>3, <2>4
<1>4. CASE RmCount(t)
  <2>1. TypeOK'
    BY <1>4, ThreadFacts, AdmissionAssumption DEF RmCount, Discount, TypeOK, PCs, ThreadInv
  <2>2. ThreadInv'
    BY <1>4, ThreadFacts, AdmissionAssumption
       DEF RmCount, Discount, TypeOK, ThreadInv, NewPCs, FreshPCs, UndoPCs, AcceptPCs, RmPCs
  <2>3. FdInv'
    BY <1>4, ThreadFacts, AdmissionAssumption
       DEF RmCount, Discount, TypeOK, ThreadInv, FdInv, Referenced
  <2>4. OwnInv'
    BY <1>4, ThreadFacts, AdmissionAssumption
       DEF RmCount, Discount, TypeOK, ThreadInv, FdInv, OwnInv, NewPCs, FreshPCs, UndoPCs,
           AcceptPCs, RmPCs, HoldPCs, Referenced
  <2>. QED
    BY <2>1, <2>2, <2>3, <2>4
<1>5. CASE RmLock(t)
  <2>1. TypeOK'
    BY <1>5, ThreadFacts DEF RmLock, TypeOK, PCs, ThreadInv
  <2>2. ThreadInv'
    BY <1>5, ThreadFacts
       DEF RmLock, TypeOK, ThreadInv, NewPCs, FreshPCs, UndoPCs, AcceptPCs, RmPCs
  <2>3. FdInv'
    BY <1>5, ThreadFacts DEF RmLock, TypeOK, ThreadInv, FdInv, Referenced
  <2>4. OwnInv'
    BY <1>5, ThreadFacts
       DEF RmLock, TypeOK, ThreadInv, FdInv, OwnInv, NewPCs, FreshPCs, UndoPCs, AcceptPCs,
           RmPCs, HoldPCs, Referenced
  <2>. QED
    BY <2>1, <2>2, <2>3, <2>4
<1>6. CASE RmAccept(t)
  <2>1. TypeOK'
    BY <1>6, ThreadFacts DEF RmAccept, TypeOK, PCs, ThreadInv
  <2>2. ThreadInv'
    BY <1>6, ThreadFacts
       DEF RmAccept, TypeOK, ThreadInv, NewPCs, FreshPCs, UndoPCs, AcceptPCs, RmPCs
  <2>3. FdInv'
    BY <1>6, ThreadFacts DEF RmAccept, TypeOK, ThreadInv, FdInv, Referenced
  <2>4. OwnInv'
    BY <1>6, ThreadFacts
       DEF RmAccept, TypeOK, ThreadInv, FdInv, OwnInv, NewPCs, FreshPCs, UndoPCs, AcceptPCs,
           RmPCs, HoldPCs, Referenced
  <2>. QED
    BY <2>1, <2>2, <2>3, <2>4
<1>7. CASE RmDrop(t)
  <2>1. TypeOK'
    BY <1>7, ThreadFacts
       DEF RmDrop, RemoveReturns, CloseUnreferenced, Close, TypeOK, PCs, NoTarget, Targets
  <2>2. ThreadInv'
    BY <1>7, ThreadFacts
       DEF RmDrop, RemoveReturns, CloseUnreferenced, Close, TypeOK, ThreadInv, NewPCs,
           FreshPCs, UndoPCs, AcceptPCs, RmPCs
  <2>3. FdInv'
    BY <1>7, ThreadFacts
       DEF RmDrop, RemoveReturns, CloseUnreferenced, Close, TypeOK, ThreadInv, FdInv,
           Referenced
  <2>4. OwnInv'
    BY <1>7, ThreadFacts
       DEF RmDrop, RemoveReturns, CloseUnreferenced, Close, TypeOK, ThreadInv, FdInv, OwnInv,
           NewPCs, FreshPCs, UndoPCs, AcceptPCs, RmPCs, HoldPCs, Referenced
  <2>. QED
    BY <2>1, <2>2, <2>3, <2>4
<1>. QED
  BY <1>1, <1>2, <1>3, <1>4, <1>5, <1>6, <1>7 DEF RemoveConnection

\* submit() appends a closure to the queue, a worker takes the first.
LEMMA QueueGrows ==
    ASSUME queue \in Seq(Targets), NEW q \in Targets, Enqueue(q)
    PROVE  /\ queue' \in Seq(Targets) /\ Len(queue') <= QUEUE_CAPACITY
           /\ Range(queue') = Range(queue) \cup {q}
<1>1. Len(queue) \in Nat /\ QUEUE_CAPACITY \in Nat
  BY AdmissionAssumption
<1>2. queue' = Append(queue, q) /\ Len(queue) < QUEUE_CAPACITY
  BY DEF Enqueue
<1>3. Range(Append(queue, q)) = Range(queue) \cup {q}
  BY DEF Range
<1>. QED
  BY <1>1, <1>2, <1>3

LEMMA QueueShrinks ==
    ASSUME queue \in Seq(Targets), queue # <<>>, queue' = Tail(queue)
    PROVE  /\ Head(queue) \in Targets /\ queue' \in Seq(Targets) /\ Len(queue') <= Len(queue)
           /\ Range(queue) = Range(queue') \cup {Head(queue)}
<1>1. Len(queue) \in Nat \ {0}
  OBVIOUS
<1>2. Range(queue) = Range(Tail(queue)) \cup {Head(queue)}
  <2>1. \A i \in 1 .. Len(queue) : i = 1 \/ (i - 1 \in 1 .. Len(Tail(queue))
                                             /\ Tail(queue)[i - 1] = queue[i])
    BY <1>1
  <2>2. \A i \in 1 .. Len(Tail(queue)) : i + 1 \in 1 .. Len(queue)
                                          /\ Tail(queue)[i] = queue[i + 1]
    BY <1>1
  <2>3. Head(queue) = queue[1] /\ 1 \in 1 .. Len(queue)
    BY <1>1
  <2>4. DOMAIN queue = 1 .. Len(queue) /\ DOMAIN Tail(queue) = 1 .. Len(Tail(queue))
    OBVIOUS
  <2> DEFINE R == Range(queue)
             S == Range(Tail(queue))
  <2>5. \A x : x \in R <=> \E i \in 1 .. Len(queue) : queue[i] = x
    BY <2>4, Zenon DEF Range
  <2>6. \A x : x \in S <=> \E i \in 1 .. Len(Tail(queue)) : Tail(queue)[i] = x
    BY <2>4, Zenon DEF Range
  <2> HIDE DEF R, S
  <2>7. \A x \in R : x \in S \/ x = Head(queue)
    BY <2>1, <2>3, <2>5, <2>6
  <2>8. \A x \in S : x \in R
    BY <2>2, <2>5, <2>6
  <2>9. Head(queue) \in R
    BY <2>3, <2>5
  <2>10. R = S \cup {Head(queue)}
    BY <2>7, <2>8, <2>9
  <2>. QED
    BY <2>10 DEF R, S
<1>. QED
  BY <1>1, <1>2

\* The steps of submit() and of a task.
LEMMA SubmitKeepsInv ==
    ASSUME IndInv, NEW t \in Threads, Submit(t)
    PROVE  IndInv'
<1> USE DEF IndInv, Goto, kernelVars, fdVars, tableVars, limitVars, poolVars, threadVars,
            mainVars
<1>0. /\ task[t] \in Conns /\ fdOf[task[t]] \in Fds
      /\ queue' \in Seq(Targets) /\ Len(queue') <= QUEUE_CAPACITY
      /\ Range(queue') = Range(queue) \cup {[fd |-> fdOf[task[t]], conn |-> task[t]]}
  <2>1. task[t] \in Conns /\ fdOf[task[t]] \in Fds
    BY ReferredHasFd, ThreadFacts DEF Submit, ThreadInv
  <2>2. [fd |-> fdOf[task[t]], conn |-> task[t]] \in Targets
    BY <2>1 DEF Targets
  <2>. QED
    BY <2>1, <2>2, QueueGrows DEF Submit, TypeOK
<1>1. TypeOK'
  BY <1>0, ThreadFacts
     DEF Submit, NoTarget, Targets, TypeOK, PCs, ThreadInv
<1>2. ThreadInv'
  <2>1. \A q \in Range(queue') : q.fd \in Fds
    BY <1>0 DEF ThreadInv
  <2>2. /\ pc[t] = "submit" /\ pc' = [pc EXCEPT ![t] = "idle"]
        /\ task' = [task EXCEPT ![t] = None]
        /\ target' = [target EXCEPT ![t] = NoTarget]
        /\ UNCHANGED <<new, rm, todo, fdOf>>
    BY DEF Submit
  <2>3. CASE t = Main
    BY <2>1, <2>2, <2>3, ThreadFacts
       DEF TypeOK, ThreadInv, NewPCs, FreshPCs, UndoPCs, AcceptPCs, RmPCs
  <2>4. CASE t \in Workers
    BY <2>1, <2>2, <2>4, ThreadFacts
       DEF TypeOK, ThreadInv, NewPCs, FreshPCs, UndoPCs, AcceptPCs, RmPCs
  <2>. QED
    BY <2>3, <2>4, ThreadFacts
<1>3. FdInv'
  BY <1>0, ThreadFacts
     DEF Submit, NoTarget, Targets, TypeOK, ThreadInv, FdInv, Referenced
<1>4. OwnInv'
  BY <1>0, ThreadFacts
     DEF Submit, NoTarget, Targets, TypeOK, ThreadInv, FdInv, OwnInv, NewPCs, FreshPCs, UndoPCs,
         AcceptPCs, RmPCs, HoldPCs, Referenced
<1>. QED
  BY <1>1, <1>2, <1>3, <1>4

\* The steps of a worker in a task.
LEMMA TasksKeepInv ==
    ASSUME IndInv, NEW w \in Workers,
           \/ TakeTask(w) \/ FindAgain(w) \/ TaskLocks(w) \/ TaskKeeps(w) \/ TaskResubmits(w)
           \/ Resubmit(w) \/ TaskRemoves(w)
    PROVE  IndInv'
<1> USE DEF IndInv, Goto, kernelVars, fdVars, tableVars, limitVars, poolVars, threadVars,
            mainVars
<1>1. CASE TakeTask(w)
  <2> DEFINE q == Head(queue)
  <2>0. /\ q \in Targets /\ queue' \in Seq(Targets) /\ Len(queue') <= Len(queue)
        /\ Range(queue) = Range(queue') \cup {q}
    BY <1>1, QueueShrinks DEF TakeTask, TypeOK
  <2> HIDE DEF q
  <2>a. q.fd \in Fds /\ q.conn \in Conns \cup {None}
    BY <2>0 DEF ThreadInv, Targets
  <2>b. q.conn # None => Referenced(q.conn)
    BY <2>0 DEF Referenced
  <2>c. Len(queue') <= QUEUE_CAPACITY
    BY <2>0, AdmissionAssumption DEF TypeOK
  <2>d. pc[w] = "idle" /\ task' = [task EXCEPT ![w] = q.conn]
    BY <1>1 DEF TakeTask, q
  <2>e. PICK l \in {"find", "task"} :
           /\ pc' = [pc EXCEPT ![w] = l]
           /\ l = "find" => q.conn = None /\ target' = [target EXCEPT ![w] = q]
           /\ l = "task" => q.conn # None /\ UNCHANGED target
    <3>1. CASE q.conn = None
      BY <1>1, <3>1 DEF TakeTask, q
    <3>2. CASE q.conn # None
      BY <1>1, <3>2 DEF TakeTask, q
    <3>. QED
      BY <3>1, <3>2
  <2>f. UNCHANGED <<running, listening, backlog, arrived, edge, sock, epoll, connections, fdOf,
                    mutex, counts_, active_connections, events, new, rm,
                    todo, sweeping, unscanned>>
    BY <1>1 DEF TakeTask
  <2>1. TypeOK'
    <3>1. pc' \in [Threads -> PCs]
      BY <2>e, ThreadFacts DEF TypeOK, PCs
    <3>2. task' \in [Threads -> Conns \cup {None}]
      BY <2>a, <2>d DEF TypeOK
    <3>3. target' \in [Threads -> Targets]
      BY <2>0, <2>e DEF TypeOK
    <3>. QED
      BY <2>0, <2>c, <2>f, <3>1, <3>2, <3>3 DEF TypeOK
  <2>2. ThreadInv'
    <3>1. CASE l = "find"
      BY <3>1, <2>0, <2>a, <2>d, <2>e, <2>f, ThreadFacts
         DEF TypeOK, ThreadInv, NewPCs, FreshPCs, UndoPCs, AcceptPCs, RmPCs
    <3>2. CASE l = "task"
      BY <3>2, <2>0, <2>a, <2>d, <2>e, <2>f, ThreadFacts
         DEF TypeOK, ThreadInv, NewPCs, FreshPCs, UndoPCs, AcceptPCs, RmPCs
    <3>. QED
      BY <3>1, <3>2
  <2>3. FdInv'
    <3>1. \A c \in Conns : Referenced(c)' => Referenced(c)
      BY <2>0, <2>b, <2>d, <2>f, ThreadFacts DEF TypeOK, Referenced
    <3>. QED
      BY <3>1, <2>f DEF FdInv
  <2>4. OwnInv'
    BY <2>0, <2>d, <2>e, <2>f, ThreadFacts
       DEF TypeOK, ThreadInv, OwnInv, NewPCs, FreshPCs, UndoPCs, AcceptPCs, HoldPCs
  <2>. QED
    BY <2>1, <2>2, <2>3, <2>4
<1>2. CASE FindAgain(w)
  <2> DEFINE f == target[w].fd
  <2>0. f \in Fds /\ pc[w] = "find"
    BY <1>2, ThreadFacts DEF FindAgain, ThreadInv
  <2>a. UNCHANGED <<running, listening, backlog, arrived, edge, sock, epoll, connections, fdOf,
                    mutex, counts_, active_connections, queue, events, new, rm,
                    todo, sweeping, unscanned>>
    BY <1>2 DEF FindAgain
  <2>b. CASE running /\ f \in Mapped
    <3>0. /\ task' = [task EXCEPT ![w] = connections[f]]
          /\ pc' = [pc EXCEPT ![w] = "submit"] /\ UNCHANGED target
          /\ connections[f] \in Conns
      BY <1>2, <2>0, <2>b DEF FindAgain, Mapped, TypeOK
    <3> HIDE DEF f
    <3>1. TypeOK'
      BY <2>a, <3>0, ThreadFacts DEF TypeOK, PCs
    <3>2. ThreadInv'
      BY <2>0, <2>a, <3>0, ThreadFacts
         DEF TypeOK, ThreadInv, NewPCs, FreshPCs, UndoPCs, AcceptPCs, RmPCs
    <3>3. FdInv'
      BY <2>0, <2>a, <3>0, ThreadFacts DEF TypeOK, FdInv, Referenced
    <3>4. OwnInv'
      BY <2>0, <2>a, <3>0, ThreadFacts
         DEF TypeOK, ThreadInv, OwnInv, NewPCs, FreshPCs, UndoPCs, AcceptPCs, HoldPCs
    <3>. QED
      BY <3>1, <3>2, <3>3, <3>4
  <2>c. CASE ~(running /\ f \in Mapped)
    <3>0. /\ target' = [target EXCEPT ![w] = NoTarget]
          /\ pc' = [pc EXCEPT ![w] = "idle"] /\ UNCHANGED task
      BY <1>2, <2>c DEF FindAgain
    <3>1. TypeOK'
      BY <2>a, <3>0, ThreadFacts DEF TypeOK, PCs, NoTarget, Targets
    <3>2. ThreadInv'
      BY <2>0, <2>a, <3>0, ThreadFacts
         DEF TypeOK, ThreadInv, NewPCs, FreshPCs, UndoPCs, AcceptPCs, RmPCs
    <3>3. FdInv'
      BY <2>0, <2>a, <3>0, ThreadFacts DEF TypeOK, FdInv, Referenced
    <3>4. OwnInv'
      BY <2>0, <2>a, <3>0, ThreadFacts
         DEF TypeOK, ThreadInv, OwnInv, NewPCs, FreshPCs, UndoPCs, AcceptPCs, HoldPCs
    <3>. QED
      BY <3>1, <3>2, <3>3, <3>4
  <2>. QED
    BY <2>b, <2>c
<1>3. CASE TaskLocks(w)
  <2>1. TypeOK'
    BY <1>3, ThreadFacts
       DEF TaskLocks, TypeOK, PCs, ThreadInv
  <2>2. ThreadInv'
    BY <1>3, ThreadFacts
       DEF TaskLocks, TypeOK, ThreadInv, NewPCs, FreshPCs, UndoPCs, AcceptPCs, RmPCs
  <2>3. FdInv'
    BY <1>3, ThreadFacts
       DEF TaskLocks, TypeOK, ThreadInv, FdInv, Referenced
  <2>4. OwnInv'
    BY <1>3, ThreadFacts
       DEF TaskLocks, TypeOK, ThreadInv, FdInv, OwnInv, NewPCs, FreshPCs, UndoPCs, AcceptPCs,
           RmPCs, HoldPCs, Referenced
  <2>. QED
    BY <2>1, <2>2, <2>3, <2>4
<1>4. CASE TaskKeeps(w)
  <2>1. TypeOK'
    BY <1>4, ThreadFacts
       DEF TaskKeeps, TaskEnds, CloseUnreferenced, Close, TypeOK, PCs, ThreadInv
  <2>2. ThreadInv'
    BY <1>4, ThreadFacts
       DEF TaskKeeps, TaskEnds, CloseUnreferenced, Close, TypeOK, ThreadInv, NewPCs, FreshPCs,
           UndoPCs, AcceptPCs, RmPCs
  <2>3. FdInv'
    BY <1>4, ThreadFacts
       DEF TaskKeeps, TaskEnds, CloseUnreferenced, Close, TypeOK, ThreadInv, FdInv, Referenced
  <2>4. OwnInv'
    BY <1>4, ThreadFacts
       DEF TaskKeeps, TaskEnds, CloseUnreferenced, Close, TypeOK, ThreadInv, FdInv, OwnInv, NewPCs,
           FreshPCs, UndoPCs, AcceptPCs, RmPCs, HoldPCs, Referenced
  <2>. QED
    BY <2>1, <2>2, <2>3, <2>4
<1>5. CASE TaskResubmits(w)
  <2>1. TypeOK'
    BY <1>5, ThreadFacts, AdmissionAssumption
       DEF TaskResubmits, Happens, TypeOK, PCs, ThreadInv
  <2>2. ThreadInv'
    BY <1>5, ThreadFacts
       DEF TaskResubmits, Happens, TypeOK, ThreadInv, NewPCs, FreshPCs, UndoPCs, AcceptPCs, RmPCs
  <2>3. FdInv'
    BY <1>5, ThreadFacts
       DEF TaskResubmits, Happens, TypeOK, ThreadInv, FdInv, Referenced
  <2>4. OwnInv'
    BY <1>5, ThreadFacts
       DEF TaskResubmits, Happens, TypeOK, ThreadInv, FdInv, OwnInv, NewPCs, FreshPCs, UndoPCs,
           AcceptPCs, RmPCs, HoldPCs, Referenced
  <2>. QED
    BY <2>1, <2>2, <2>3, <2>4
<1>6. CASE Resubmit(w)
  <2>0. /\ task[w] \in Conns /\ fdOf[task[w]] \in Fds
        /\ queue' \in Seq(Targets) /\ Len(queue') <= QUEUE_CAPACITY
        /\ Range(queue') = Range(queue) \cup {[fd |-> fdOf[task[w]], conn |-> None]}
    <3>1. task[w] \in Conns /\ fdOf[task[w]] \in Fds
      BY <1>6, ReferredHasFd, ThreadFacts DEF Resubmit, ThreadInv
    <3>2. [fd |-> fdOf[task[w]], conn |-> None] \in Targets
      BY <3>1 DEF Targets
    <3>. QED
      BY <1>6, <3>1, <3>2, QueueGrows DEF Resubmit, TypeOK
  <2>1. TypeOK'
    BY <1>6, ThreadFacts, <2>0
       DEF Resubmit, TaskEnds, CloseUnreferenced, Close, TypeOK, PCs, ThreadInv
  <2>2. ThreadInv'
    <3>1. \A q \in Range(queue') : q.fd \in Fds
      BY <2>0 DEF ThreadInv
    <3>2. /\ pc[w] = "resubmit" /\ pc' = [pc EXCEPT ![w] = "idle"]
          /\ task' = [task EXCEPT ![w] = None]
          /\ UNCHANGED <<new, rm, target, todo, fdOf>>
      BY <1>6 DEF Resubmit, TaskEnds
    <3>. QED
      BY <3>1, <3>2, ThreadFacts
         DEF TypeOK, ThreadInv, NewPCs, FreshPCs, UndoPCs, AcceptPCs, RmPCs
  <2>3. FdInv'
    BY <1>6, ThreadFacts, <2>0
       DEF Resubmit, TaskEnds, CloseUnreferenced, Close, TypeOK, ThreadInv, FdInv, Referenced
  <2>4. OwnInv'
    BY <1>6, ThreadFacts, <2>0
       DEF Resubmit, TaskEnds, CloseUnreferenced, Close, TypeOK, ThreadInv, FdInv, OwnInv, NewPCs,
           FreshPCs, UndoPCs, AcceptPCs, RmPCs, HoldPCs, Referenced
  <2>. QED
    BY <2>1, <2>2, <2>3, <2>4
<1>7. CASE TaskRemoves(w)
  <2>1. TypeOK'
    BY <1>7, ThreadFacts, ReferredHasFd
       DEF TaskRemoves, UnlockBeforeRemoving, Targets, TypeOK, PCs, ThreadInv
  <2>2. ThreadInv'
    BY <1>7, ThreadFacts, ReferredHasFd
       DEF TaskRemoves, UnlockBeforeRemoving, Targets, TypeOK, ThreadInv, NewPCs, FreshPCs,
           UndoPCs, AcceptPCs, RmPCs
  <2>3. FdInv'
    BY <1>7, ThreadFacts, ReferredHasFd
       DEF TaskRemoves, UnlockBeforeRemoving, Targets, TypeOK, ThreadInv, FdInv, Referenced
  <2>4. OwnInv'
    BY <1>7, ThreadFacts, ReferredHasFd
       DEF TaskRemoves, UnlockBeforeRemoving, Targets, TypeOK, ThreadInv, FdInv, OwnInv, NewPCs,
           FreshPCs, UndoPCs, AcceptPCs, RmPCs, HoldPCs, Referenced
  <2>. QED
    BY <2>1, <2>2, <2>3, <2>4
<1>. QED
  BY <1>1, <1>2, <1>3, <1>4, <1>5, <1>6, <1>7

\* The steps of the event loop and the clients.
LEMMA LoopKeepsInv ==
    ASSUME IndInv, 
           \/ ListenerEvent \/ RemoveNext \/ HangupEvents \/ SweepBegins
           \/ SweepLooks \/ SweepEnds \/ ClientEvent
           \/ CloseListener \/ Stop \/ \E c \in Conns : Connect(c)
    PROVE  IndInv'
<1> USE DEF IndInv, Goto, kernelVars, fdVars, tableVars, limitVars, poolVars, threadVars,
            mainVars
<1>1. CASE ListenerEvent
  <2>1. TypeOK'
    BY <1>1, ThreadFacts DEF ListenerEvent, TypeOK, PCs, ThreadInv
  <2>2. ThreadInv'
    BY <1>1, ThreadFacts
       DEF ListenerEvent, TypeOK, ThreadInv, NewPCs, FreshPCs, UndoPCs, AcceptPCs, RmPCs
  <2>3. FdInv'
    BY <1>1, ThreadFacts DEF ListenerEvent, TypeOK, ThreadInv, FdInv, Referenced
  <2>4. OwnInv'
    BY <1>1, ThreadFacts
       DEF ListenerEvent, TypeOK, ThreadInv, FdInv, OwnInv, NewPCs, FreshPCs, UndoPCs,
           AcceptPCs, RmPCs, HoldPCs, Referenced
  <2>. QED
    BY <2>1, <2>2, <2>3, <2>4
<1>2. CASE HangupEvents
  <2>1. TypeOK'
    <3>1. PICK F \in SUBSET {f \in epoll : sock[f] \in MayHangUp} :
             todo' = {[fd |-> f, conn |-> sock[f]] : f \in F}
      BY <1>2 DEF HangupEvents
    <3>2. \A f \in F : f \in Fds /\ sock[f] \in Conns \cup {None}
      BY <3>1 DEF TypeOK
    <3>3. todo' \subseteq Targets
      BY <3>1, <3>2 DEF Targets
    <3>. QED
      BY <1>2, <3>3 DEF HangupEvents, TypeOK
  <2>2. ThreadInv'
    BY <1>2, ThreadFacts
       DEF HangupEvents, Targets, TypeOK, ThreadInv, NewPCs, FreshPCs, UndoPCs, AcceptPCs, RmPCs
  <2>3. FdInv'
    BY <1>2, ThreadFacts
       DEF HangupEvents, Targets, TypeOK, ThreadInv, FdInv, Referenced
  <2>4. OwnInv'
    BY <1>2, ThreadFacts
       DEF HangupEvents, Targets, TypeOK, ThreadInv, FdInv, OwnInv, NewPCs, FreshPCs, UndoPCs,
           AcceptPCs, RmPCs, HoldPCs, Referenced
  <2>. QED
    BY <2>1, <2>2, <2>3, <2>4
<1>3. CASE SweepBegins
  <2>1. TypeOK'
    BY <1>3, ThreadFacts, AdmissionAssumption
       DEF SweepBegins, Happens, Mapped, TypeOK, PCs, ThreadInv
  <2>2. ThreadInv'
    BY <1>3, ThreadFacts
       DEF SweepBegins, Happens, Mapped, TypeOK, ThreadInv, NewPCs, FreshPCs, UndoPCs, AcceptPCs,
           RmPCs
  <2>3. FdInv'
    BY <1>3, ThreadFacts
       DEF SweepBegins, Happens, Mapped, TypeOK, ThreadInv, FdInv, Referenced
  <2>4. OwnInv'
    BY <1>3, ThreadFacts
       DEF SweepBegins, Happens, Mapped, TypeOK, ThreadInv, FdInv, OwnInv, NewPCs, FreshPCs,
           UndoPCs, AcceptPCs, RmPCs, HoldPCs, Referenced
  <2>. QED
    BY <2>1, <2>2, <2>3, <2>4
<1>4. CASE RemoveNext
  <2>1. TypeOK'
    BY <1>4, ThreadFacts DEF RemoveNext, TypeOK, PCs, ThreadInv
  <2>2. ThreadInv'
    BY <1>4, ThreadFacts
       DEF RemoveNext, TypeOK, ThreadInv, NewPCs, FreshPCs, UndoPCs, AcceptPCs, RmPCs
  <2>3. FdInv'
    BY <1>4, ThreadFacts DEF RemoveNext, TypeOK, ThreadInv, FdInv, Referenced
  <2>4. OwnInv'
    BY <1>4, ThreadFacts
       DEF RemoveNext, TypeOK, ThreadInv, FdInv, OwnInv, NewPCs, FreshPCs, UndoPCs, AcceptPCs,
           RmPCs, HoldPCs, Referenced
  <2>. QED
    BY <2>1, <2>2, <2>3, <2>4
<1>5. CASE CloseListener
  <2>1. TypeOK'
    BY <1>5, ThreadFacts DEF CloseListener, TypeOK, PCs, ThreadInv
  <2>2. ThreadInv'
    BY <1>5, ThreadFacts
       DEF CloseListener, TypeOK, ThreadInv, NewPCs, FreshPCs, UndoPCs, AcceptPCs, RmPCs
  <2>3. FdInv'
    BY <1>5, ThreadFacts DEF CloseListener, TypeOK, ThreadInv, FdInv, Referenced
  <2>4. OwnInv'
    BY <1>5, ThreadFacts
       DEF CloseListener, TypeOK, ThreadInv, FdInv, OwnInv, NewPCs, FreshPCs, UndoPCs,
           AcceptPCs, RmPCs, HoldPCs, Referenced
  <2>. QED
    BY <2>1, <2>2, <2>3, <2>4
<1>6. CASE Stop
  <2>1. TypeOK'
    BY <1>6, ThreadFacts DEF Stop, TypeOK, PCs, ThreadInv
  <2>2. ThreadInv'
    BY <1>6, ThreadFacts
       DEF Stop, TypeOK, ThreadInv, NewPCs, FreshPCs, UndoPCs, AcceptPCs, RmPCs
  <2>3. FdInv'
    BY <1>6, ThreadFacts DEF Stop, TypeOK, ThreadInv, FdInv, Referenced
  <2>4. OwnInv'
    BY <1>6, ThreadFacts
       DEF Stop, TypeOK, ThreadInv, FdInv, OwnInv, NewPCs, FreshPCs, UndoPCs, AcceptPCs, RmPCs,
           HoldPCs, Referenced
  <2>. QED
    BY <2>1, <2>2, <2>3, <2>4
<1>7. CASE \E c \in Conns : Connect(c)
  <2>1. TypeOK'
    BY <1>7, ThreadFacts DEF Connect, TypeOK, PCs, ThreadInv
  <2>2. ThreadInv'
    BY <1>7, ThreadFacts
       DEF Connect, TypeOK, ThreadInv, NewPCs, FreshPCs, UndoPCs, AcceptPCs, RmPCs
  <2>3. FdInv'
    BY <1>7, ThreadFacts DEF Connect, TypeOK, ThreadInv, FdInv, Referenced
  <2>4. OwnInv'
    BY <1>7, ThreadFacts
       DEF Connect, TypeOK, ThreadInv, FdInv, OwnInv, NewPCs, FreshPCs, UndoPCs, AcceptPCs,
           RmPCs, HoldPCs, Referenced
  <2>. QED
    BY <2>1, <2>2, <2>3, <2>4
<1>8. CASE SweepLooks
  <2>1. TypeOK'
    BY <1>8, ThreadFacts
       DEF SweepLooks, Targets, TypeOK, PCs, ThreadInv
  <2>2. ThreadInv'
    BY <1>8, ThreadFacts
       DEF SweepLooks, Targets, TypeOK, ThreadInv, NewPCs, FreshPCs, UndoPCs, AcceptPCs, RmPCs
  <2>3. FdInv'
    BY <1>8, ThreadFacts
       DEF SweepLooks, Targets, TypeOK, ThreadInv, FdInv, Referenced
  <2>4. OwnInv'
    BY <1>8, ThreadFacts
       DEF SweepLooks, Targets, TypeOK, ThreadInv, FdInv, OwnInv, NewPCs, FreshPCs, UndoPCs,
           AcceptPCs, RmPCs, HoldPCs, Referenced
  <2>. QED
    BY <2>1, <2>2, <2>3, <2>4
<1>9. CASE SweepEnds
  <2>1. TypeOK'
    BY <1>9, ThreadFacts
       DEF SweepEnds, TypeOK, PCs, ThreadInv
  <2>2. ThreadInv'
    BY <1>9, ThreadFacts
       DEF SweepEnds, TypeOK, ThreadInv, NewPCs, FreshPCs, UndoPCs, AcceptPCs, RmPCs
  <2>3. FdInv'
    BY <1>9, ThreadFacts
       DEF SweepEnds, TypeOK, ThreadInv, FdInv, Referenced
  <2>4. OwnInv'
    BY <1>9, ThreadFacts
       DEF SweepEnds, TypeOK, ThreadInv, FdInv, OwnInv, NewPCs, FreshPCs, UndoPCs, AcceptPCs,
           RmPCs, HoldPCs, Referenced
  <2>. QED
    BY <2>1, <2>2, <2>3, <2>4
<1>10. CASE ClientEvent
  <2>1. TypeOK'
    BY <1>10, ThreadFacts, AdmissionAssumption
       DEF ClientEvent, Happens, Mapped, TypeOK, PCs, ThreadInv
  <2>2. ThreadInv'
    BY <1>10, ThreadFacts
       DEF ClientEvent, Happens, Mapped, TypeOK, ThreadInv, NewPCs, FreshPCs, UndoPCs, AcceptPCs,
           RmPCs
  <2>3. FdInv'
    BY <1>10, ThreadFacts
       DEF ClientEvent, Happens, Mapped, TypeOK, ThreadInv, FdInv, Referenced
  <2>4. OwnInv'
    BY <1>10, ThreadFacts
       DEF ClientEvent, Happens, Mapped, TypeOK, ThreadInv, FdInv, OwnInv, NewPCs, FreshPCs,
           UndoPCs, AcceptPCs, RmPCs, HoldPCs, Referenced
  <2>. QED
    BY <2>1, <2>2, <2>3, <2>4
<1>. QED
  BY <1>1, <1>2, <1>3, <1>4, <1>5, <1>6, <1>7, <1>8, <1>9, <1>10

\* Every step keeps the invariant.
LEMMA NextKeepsInv == IndInv /\ [Next]_vars => IndInv'
<1> SUFFICES ASSUME IndInv, [Next]_vars PROVE IndInv'
  OBVIOUS
<1>1. CASE Next
  <2>1. ASSUME NEW t \in Threads, Proceeds(t) PROVE IndInv'
    BY <2>1, HandleAcceptKeepsInv, RemoveConnectionKeepsInv, SubmitKeepsInv DEF Proceeds
  <2>. QED
    BY <1>1, <2>1, TasksKeepInv, LoopKeepsInv, ThreadFacts
       DEF Next, MainProceeds, WorkerProceeds
<1>2. CASE UNCHANGED vars
  BY <1>2
     DEF vars, IndInv, TypeOK, ThreadInv, FdInv, OwnInv, Referenced, kernelVars, fdVars,
         tableVars, limitVars, poolVars, threadVars,
            mainVars
<1>. QED
  BY <1>1, <1>2

LEMMA InitInv == Init => IndInv
<1> SUFFICES ASSUME Init PROVE IndInv
  OBVIOUS
<1>1. Cardinality(Threads) \in Nat
  BY AdmissionAssumption, FS_CardinalityType
<1>a. 0 \in 0 .. SizeModulus - 1
  BY <1>1, AdmissionAssumption
<1>b. queue \in Seq(Targets) /\ Len(queue) = 0 /\ Range(queue) = {}
  BY DEF Init, Range
<1>c. 0 \in 0 .. MaxEvents /\ 0 <= QUEUE_CAPACITY
  BY AdmissionAssumption
<1>d. "idle" \in PCs /\ NoTarget \in Targets
  BY DEF PCs, Targets, NoTarget
<1>2. TypeOK
  BY <1>a, <1>b, <1>c, <1>d, ThreadFacts DEF Init, TypeOK
<1>3. ThreadInv /\ FdInv /\ OwnInv
  BY <1>b, ThreadFacts
     DEF Init, ThreadInv, FdInv, OwnInv, Referenced, NewPCs, FreshPCs, UndoPCs, AcceptPCs,
         RmPCs
<1>. QED
  BY <1>2, <1>3 DEF IndInv

LEMMA InvAlways == Spec => []IndInv
BY InitInv, NextKeepsInv, PTL DEF Spec

\* Every variable of the accept and remove paths keeps its type, whatever
\* threads do in between and whether or not EPOLL_CTL_ADD fails.
THEOREM TypeCorrect == Spec => []TypeOK
<1>1. IndInv => TypeOK
  BY DEF IndInv
<1>. QED
  BY <1>1, InvAlways, PTL

\* A connection in the map is being removed by nobody, so that whoever holds its
\* mutex is in the middle of a task.
LEMMA InvOrdersLocks ==
    ASSUME IndInv
    PROVE  MapBeforeMutex
<1> SUFFICES ASSUME NEW f \in Fds, connections[f] # None,
                    mutex[connections[f]] # None
             PROVE  pc[mutex[connections[f]]] \notin MapPCs
  BY DEF MapBeforeMutex, Mapped
<1>1. connections[f] \in Conns /\ mutex[connections[f]] \in Threads
  BY DEF IndInv, TypeOK
<1>2. rm[mutex[connections[f]]] # connections[f]
  BY <1>1, ThreadFacts DEF IndInv, OwnInv
<1>. QED
  BY <1>1, <1>2 DEF IndInv, OwnInv, MapPCs

\* No mutex of a connection in the map is held by a thread that goes on to take
\* conn_map_mtx: the two lock orders of handle_accept under remove_connection
\* and of check_idle_timeouts cannot deadlock.
THEOREM LockOrderIsSafe == Spec => []MapBeforeMutex
BY InvOrdersLocks, InvAlways, PTL

-----------------------------------------------------------------------------
(* Waiting *)

\* What the idle sweep has yet to look at stays in the map: nobody else changes
\* the map while Main holds conn_map_mtx.
ScanInv == pc[Main] = "scan" => unscanned \subseteq Mapped

LEMMA ScanStep ==
    ASSUME IndInv, ScanInv, [Next]_vars
    PROVE  ScanInv'
<1> USE DEF IndInv, Goto, kernelVars, fdVars, tableVars, limitVars, poolVars, threadVars,
            mainVars
<1>a. pc \in [Threads -> PCs] /\ Main \in Threads /\ Main \notin Workers
  BY ThreadFacts DEF TypeOK
<1>b. ASSUME pc'[Main] = "scan" => pc[Main] = "scan" /\ connections' = connections,
             unscanned' \in SUBSET unscanned
      PROVE  ScanInv'
  BY <1>b DEF ScanInv, Mapped
<1>c. ASSUME NEW t \in Threads, NEW l, Goto(t, l), t = Main => l # "scan",
             pc[Main] = "scan" => connections' = connections, UNCHANGED unscanned
      PROVE  ScanInv'
  BY <1>a, <1>b, <1>c
<1>1. ASSUME NEW t \in Threads, HandleAccept(t) PROVE ScanInv'
  <2>1. pc[Main] = "scan" => connections' = connections
    BY <1>1
       DEF HandleAccept, AcceptLoop, AcceptCall, AcceptTransient, AcceptFails, TryAcquire,
           Reject, Insert, EpollAdd, Count, EpollAddFails, UndoErase, UndoClose, UndoDrop, MapFree
  <2>2. UNCHANGED unscanned
    BY <1>1
       DEF HandleAccept, AcceptLoop, AcceptCall, AcceptTransient, AcceptFails, TryAcquire,
           Reject, Insert, EpollAdd, Count, EpollAddFails, UndoErase, UndoClose, UndoDrop
  <2>3. \E l \in PCs \ {"scan"} : Goto(t, l)
    BY <1>1
       DEF HandleAccept, AcceptLoop, AcceptCall, AcceptTransient, AcceptFails, TryAcquire,
           Reject, Insert, EpollAdd, Count, EpollAddFails, UndoErase, UndoClose, UndoDrop,
           AcceptReturns, PCs
  <2>. QED
    BY <1>c, <2>1, <2>2, <2>3
<1>2. ASSUME NEW t \in Threads, RemoveConnection(t) \/ Submit(t) PROVE ScanInv'
  <2>1. pc[Main] = "scan" => connections' = connections
    BY <1>2
       DEF RemoveConnection, RmAbsent, RmFind, RmRelease, RmCount, RmLock, RmAccept, RmDrop,
           MapFree, Submit
  <2>2. UNCHANGED unscanned
    BY <1>2
       DEF RemoveConnection, RmAbsent, RmFind, RmRelease, RmCount, RmLock, RmAccept, RmDrop,
           Submit
  <2>3. \E l \in PCs \ {"scan"} : Goto(t, l)
    BY <1>2
       DEF RemoveConnection, RmAbsent, RmFind, RmRelease, RmCount, RmLock, RmAccept, RmDrop,
           RemoveReturns, Submit, PCs
  <2>. QED
    BY <1>c, <2>1, <2>2, <2>3
<1>3. ASSUME NEW w \in Workers,
             \/ TakeTask(w) \/ FindAgain(w) \/ TaskLocks(w) \/ TaskKeeps(w)
             \/ TaskResubmits(w) \/ Resubmit(w) \/ TaskRemoves(w)
      PROVE  ScanInv'
  <2>1. UNCHANGED <<connections, unscanned>>
    BY <1>3
       DEF TakeTask, FindAgain, TaskLocks, TaskKeeps, TaskResubmits, Resubmit, TaskRemoves,
           TaskEnds
  <2>2. \E l \in PCs : Goto(w, l)
    BY <1>3
       DEF TakeTask, FindAgain, TaskLocks, TaskKeeps, TaskResubmits, Resubmit, TaskRemoves,
           TaskEnds, PCs
  <2>. QED
    BY <1>a, <1>c, <2>1, <2>2, ThreadFacts
<1>4. CASE SweepBegins
  BY <1>4 DEF SweepBegins, ScanInv, Mapped
<1>5. CASE SweepLooks
  <2>1. UNCHANGED <<pc, connections>> /\ unscanned' \in SUBSET unscanned
    BY <1>5 DEF SweepLooks
  <2>. QED
    BY <1>b, <2>1
<1>6. CASE ListenerEvent
  BY <1>6, <1>a, <1>c DEF ListenerEvent
<1>7. CASE SweepEnds \/ RemoveNext \/ ClientEvent
  BY <1>7, <1>a, <1>c DEF SweepEnds, RemoveNext, ClientEvent
<1>8. CASE \/ HangupEvents \/ CloseListener \/ Stop \/ UNCHANGED vars
           \/ \E c \in Conns : Connect(c)
  BY <1>8, <1>b DEF HangupEvents, CloseListener, Stop, Connect, vars
<1>9. ASSUME NEW t \in Threads, Proceeds(t) PROVE ScanInv'
  BY <1>1, <1>2, <1>9 DEF Proceeds
<1> HIDE DEF IndInv
<1>. QED
  BY <1>3, <1>4, <1>5, <1>6, <1>7, <1>8, <1>9, ThreadFacts DEF Next, MainProceeds, WorkerProceeds

\* No thread waits for ever for another one's conn_map_mtx or conn_mutex, and
\* Main waits for room in the queue only while a worker takes tasks: when
\* nobody can move, all are at rest or a worker waits in submit().  The
\* argument follows the locks: without a nested submit the owner of a
\* conn_mutex can only wait for conn_map_mtx, which only the idle sweep keeps,
\* and the sweep waits for owners that LockOrderIsSafe says do not.
THEOREM OnlyNestedSubmitsBlock == Spec => []StuckOnlyInSubmit
<1>1. IndInv => MapBeforeMutex
  BY InvOrdersLocks
<1>2. ASSUME IndInv, ScanInv PROVE StuckOnlyInSubmit
  <2> SUFFICES ASSUME \A t \in Threads : Resting(t) \/ Blocked(t), ~NestedSubmit
               PROVE  \A t \in Threads : Resting(t)
    BY DEF StuckOnlyInSubmit
  <2>1. ASSUME NEW c \in Conns, mutex[c] # None
        PROVE  mutex[c] \in Threads /\ pc[mutex[c]] \in MapPCs /\ ~MapFree
    <3>1. mutex[c] \in Threads
      BY <1>2, <2>1 DEF IndInv, TypeOK
    <3> DEFINE o == mutex[c]
    <3>2. pc[o] \notin {"io", "resubmit"}
      <4>1. pc[o] # "resubmit"
        BY <1>2, <3>1, ThreadFacts DEF IndInv, ThreadInv, NestedSubmit
      <4>2. pc[o] = "io" => ~Resting(o) /\ ~Blocked(o)
        BY DEF Resting, Blocked, MapPCs
      <4>. QED
        BY <3>1, <4>1, <4>2
    <3>3. pc[o] \in HoldPCs
      BY <1>2, <2>1, <3>2 DEF IndInv, OwnInv
    <3>4. Blocked(o)
      BY <3>1, <3>3
         DEF Resting, HoldPCs, AcceptPCs, NewPCs, FreshPCs, UndoPCs
    <3>. QED
      BY <3>1, <3>3, <3>4
         DEF Blocked, HoldPCs, AcceptPCs, NewPCs, FreshPCs, UndoPCs, MapPCs
  <2>2. MapFree
    <3> SUFFICES ASSUME pc[Main] = "scan" PROVE FALSE
      BY DEF MapFree
    <3>1. unscanned # {} /\ \A f \in unscanned : mutex[connections[f]] # None
      BY ThreadFacts DEF Resting, Blocked, MapPCs
    <3>2. PICK f \in Mapped : mutex[connections[f]] # None
      BY <1>2, <3>1 DEF ScanInv
    <3>3. connections[f] \in Conns
      BY <1>2 DEF Mapped, IndInv, TypeOK
    <3>. QED
      BY <1>1, <1>2, <2>1, <3>2, <3>3 DEF MapBeforeMutex
  <2>3. \A c \in Conns : mutex[c] = None
    BY <2>1, <2>2
  <2>4. ASSUME NEW t \in Threads, Blocked(t)
        PROVE  pc[t] \in {"submit", "resubmit"} /\ Len(queue) = QUEUE_CAPACITY
    <3>1. ~(pc[t] = "task" /\ mutex[task[t]] # None)
      <4> SUFFICES ASSUME pc[t] = "task" PROVE mutex[task[t]] = None
        OBVIOUS
      <4>1. task[t] # None
        BY <1>2, ThreadFacts DEF IndInv, ThreadInv
      <4>. QED
        BY <1>2, <2>3, <4>1, ReferredHasFd DEF IndInv
    <3>2. ~(pc[t] = "rmLock" /\ mutex[rm[t]] # None)
      <4> SUFFICES ASSUME pc[t] = "rmLock" PROVE mutex[rm[t]] = None
        OBVIOUS
      <4>1. rm[t] # None
        BY <1>2 DEF IndInv, ThreadInv, RmPCs
      <4>. QED
        BY <1>2, <2>3, <4>1, ReferredHasFd DEF IndInv
    <3>3. pc[t] # "scan"
      BY <1>2, <2>2, ThreadFacts DEF MapFree, IndInv, ThreadInv
    <3>. QED
      BY <2>2, <2>4, <3>1, <3>2, <3>3 DEF Blocked
  <2>5. \A w \in Workers : Resting(w)
    BY <2>4, ThreadFacts DEF NestedSubmit
  <2>6. Len(queue) # QUEUE_CAPACITY
    <3>1. queue = <<>>
      BY <2>5, AdmissionAssumption DEF Resting
    <3>. QED
      BY <3>1, AdmissionAssumption
  <2>. QED
    BY <2>4, <2>6
<1>3. IndInv /\ ScanInv /\ [Next]_vars => ScanInv'
  BY ScanStep
<1>4. Init => ScanInv
  BY ThreadFacts DEF Init, ScanInv
<1>. QED
  BY <1>2, <1>3, <1>4, InvAlways, PTL DEF Spec

-----------------------------------------------------------------------------
(* Descriptors *)

\* Whoever keeps all references and closes nothing keeps them in agreement.
LEMMA SockKept ==
    ASSUME SockInv, UNCHANGED <<sock, fdOf>>, \A t \in Threads : pc'[t] \notin UndoPCs,
           \A c \in Conns \cup {None} : Referenced(c)' <=> Referenced(c),
           sock \in [Fds -> Conns \cup {None}]
    PROVE  SockInv'
<1>1. \A c \in Conns : Referenced(c)' => sock'[fdOf'[c]] = c
  BY DEF SockInv
<1>2. \A f \in Fds : sock'[f] # None => Referenced(sock[f])'
  BY DEF SockInv
<1>. QED
  BY <1>1, <1>2 DEF SockInv

\* Dropping references closes the descriptors of those that were the last.
LEMMA SockDrops ==
    ASSUME TypeOK, FdInv, SockInv, UNCHANGED fdOf, \A t \in Threads : pc'[t] \notin UndoPCs,
           NEW C \in SUBSET (Conns \cup {None}), CloseUnreferenced(C),
           \A c \in C \ {None} : Referenced(c),
           \A c \in Conns : Referenced(c)' => Referenced(c),
           \A c \in Conns \ C : Referenced(c) => Referenced(c)'
    PROVE  SockInv'
<1> DEFINE Lost == {d \in C \ {None} : ~Referenced(d)'}
<1>1. /\ sock \in [Fds -> Conns \cup {None}]
      /\ \A f \in Fds : sock'[f] = IF \E d \in Lost : fdOf[d] = f THEN None ELSE sock[f]
  BY DEF CloseUnreferenced, Close, TypeOK
<1>2. \A d \in Lost : d \in Conns /\ sock[fdOf[d]] = d
  BY DEF SockInv
<1>3. ASSUME NEW c \in Conns, Referenced(c)' PROVE sock'[fdOf'[c]] = c
  <2>1. Referenced(c) /\ c \notin Lost
    BY <1>3
  <2>2. sock[fdOf[c]] = c /\ fdOf[c] \in Fds
    BY <2>1 DEF SockInv, FdInv
  <2>. QED
    BY <1>1, <1>2, <2>1, <2>2
<1>4. ASSUME NEW f \in Fds, sock'[f] # None PROVE Referenced(sock[f])' /\ sock'[f] = sock[f]
  <2>1. sock'[f] = sock[f] /\ sock[f] \in Conns /\ fdOf[sock[f]] = f
    BY <1>1, <1>4 DEF FdInv
  <2>2. Referenced(sock[f])
    BY <1>4, <2>1 DEF SockInv
  <2>3. sock[f] \notin Lost
    BY <1>1, <1>4, <2>1
  <2>4. sock[f] # None
    BY <1>4, <2>1
  <2>. QED
    BY <2>1, <2>2, <2>3, <2>4
<1>. QED
  BY <1>3, <1>4 DEF SockInv

\* Unless EPOLL_CTL_ADD fails, every step keeps sockets and references in
\* agreement: a number is closed with the last reference and not before.
LEMMA SockStep ==
    ASSUME EpollAddMayFail = FALSE, IndInv, SockInv, [Next]_vars
    PROVE  SockInv'
<1> USE DEF IndInv, Goto, kernelVars, fdVars, tableVars, limitVars, poolVars, threadVars,
            mainVars, UndoPCs
<1>a. ASSUME UNCHANGED <<sock, fdOf, connections, queue, new, task, rm>>,
             \A t \in Threads : pc'[t] \notin UndoPCs
      PROVE  SockInv'
  <2>1. \A c \in Conns \cup {None} : Referenced(c)' <=> Referenced(c)
    BY <1>a DEF Referenced
  <2>. QED
    BY <1>a, <2>1, SockKept DEF TypeOK
<1>b. pc \in [Threads -> PCs] /\ \A t \in Threads : pc[t] \notin UndoPCs
  BY DEF TypeOK, SockInv
<1>c. ASSUME NEW t \in Threads, NEW l \in PCs \ UndoPCs, Goto(t, l)
      PROVE  \A u \in Threads : pc'[u] \notin UndoPCs
  BY <1>b, <1>c
<1>d. ASSUME NEW t \in Threads, NEW l \in PCs \ UndoPCs, Goto(t, l),
             UNCHANGED <<sock, fdOf, connections, queue, new, task, rm>>
      PROVE  SockInv'
  BY <1>a, <1>c, <1>d
<1>1. ASSUME NEW t \in Threads, AcceptLoop(t) \/ AcceptFails(t) PROVE SockInv'
  <2>1. \E l \in {"acceptCall", "rmDrop", "idle"} : Goto(t, l)
    BY <1>1 DEF AcceptLoop, AcceptFails, AcceptReturns
  <2>2. UNCHANGED <<sock, fdOf, connections, queue, new, task, rm>>
    BY <1>1 DEF AcceptLoop, AcceptFails
  <2>. QED
    BY <1>d, <2>1, <2>2 DEF PCs
<1>2. ASSUME NEW t \in Threads, AcceptCall(t) PROVE SockInv'
  <2> PICK c \in backlog, f \in Fds :
              /\ c \in Conns /\ fdOf[c] = 0 /\ ~Referenced(c) /\ sock[f] = None
              /\ backlog' = backlog \ {c}
              /\ sock' = [sock EXCEPT ![f] = c]
              /\ fdOf' = [fdOf EXCEPT ![c] = f]
              /\ new' = [new EXCEPT ![t] = c] /\ new[t] = None
              /\ pc[t] = "acceptCall" /\ pc' = [pc EXCEPT ![t] = "limit"]
              /\ UNCHANGED <<running, listening, arrived, edge, epoll, connections, mutex,
                             counts_, active_connections, task, rm, target, queue, events,
                             todo, sweeping, unscanned>>
    BY <1>2, AcceptCallTakes
  <2>1. \A d \in Conns : Referenced(d)' <=> Referenced(d) \/ d = c
    BY ThreadFacts DEF TypeOK, Referenced
  <2>2. \A d \in Conns : Referenced(d)' => sock'[fdOf'[d]] = d
    BY <2>1, ThreadFacts DEF TypeOK, FdInv, SockInv
  <2>3. \A g \in Fds : sock'[g] # None => Referenced(sock[g])'
    <3> TAKE g \in Fds
    <3>1. CASE g = f
      BY <2>1, <3>1 DEF TypeOK
    <3>2. CASE g # f
      BY <2>1, <3>2 DEF TypeOK, SockInv
    <3>. QED
      BY <3>1, <3>2
  <2>4. \A u \in Threads : pc'[u] \notin UndoPCs
    BY <1>b
  <2>. QED
    BY <2>2, <2>3, <2>4 DEF SockInv
<1>3. ASSUME NEW t \in Threads, AcceptTransient(t) \/ EpollAdd(t) PROVE SockInv'
  BY <1>3, <1>d DEF AcceptTransient, EpollAdd, PCs
<1>4. ASSUME NEW t \in Threads, TryAcquire(t) PROVE SockInv'
  <2>1. \E l \in {"insert", "reject"} : Goto(t, l)
    BY <1>4 DEF TryAcquire
  <2>. QED
    BY <1>4, <1>d, <2>1 DEF TryAcquire, PCs
<1>5. ASSUME NEW t \in Threads, Reject(t) PROVE SockInv'
  <2>1. new[t] \in Conns /\ Referenced(new[t])
    BY <1>5, ReferredHasFd DEF Reject, ThreadInv, NewPCs, FreshPCs, Referenced
  <2>2. \A c \in Conns : Referenced(c)' <=> Referenced(c) /\ c # new[t]
    BY <1>5, <2>1, ThreadFacts
       DEF Reject, TypeOK, ThreadInv, OwnInv, NewPCs, FreshPCs, Referenced
  <2>3. \A f \in Fds : sock'[f] = IF f = fdOf[new[t]] THEN None ELSE sock[f]
    BY <1>5 DEF Reject, RejectCloses, Close
  <2>4. \A c \in Conns : Referenced(c)' => sock'[fdOf'[c]] = c
    BY <1>5, <2>1, <2>2, <2>3 DEF Reject, SockInv, FdInv
  <2>5. \A f \in Fds : sock'[f] # None => Referenced(sock[f])'
    BY <2>1, <2>2, <2>3 DEF TypeOK, SockInv, FdInv
  <2>6. \A u \in Threads : pc'[u] \notin UndoPCs
    BY <1>5, <1>c DEF Reject, PCs
  <2>. QED
    BY <2>4, <2>5, <2>6 DEF SockInv
<1>6. ASSUME NEW t \in Threads, Insert(t) PROVE SockInv'
  <2> DEFINE f == fdOf[new[t]]
  <2>1. new[t] \in Conns /\ f \in Fds /\ sock[f] = new[t]
    BY <1>6, ReferredHasFd DEF Insert, ThreadInv, NewPCs, FreshPCs, SockInv, Referenced
  <2>2. connections[f] = None
    BY <1>6, <2>1, ThreadFacts DEF Insert, TypeOK, FdInv, OwnInv, FreshPCs, SockInv, Referenced
  <2>3. \A c \in Conns : Referenced(c)' <=> Referenced(c)
    BY <1>6, <2>1, <2>2, ThreadFacts DEF Insert, TypeOK, Referenced
  <2>4. CloseUnreferenced({None}) /\ UNCHANGED fdOf
    BY <1>6, <2>2 DEF Insert
  <2>5. \A u \in Threads : pc'[u] \notin UndoPCs
    BY <1>6, <1>c DEF Insert, PCs
  <2>. QED
    BY <2>3, <2>4, <2>5, SockDrops
<1>7. ASSUME NEW t \in Threads, Count(t) PROVE SockInv'
  <2>1. new[t] \in Conns /\ Referenced(new[t])
    BY <1>7, ReferredHasFd DEF Count, ThreadInv, NewPCs, Referenced
  <2>2. /\ \A c \in Conns : Referenced(c)' => Referenced(c)
        /\ \A c \in Conns \ {new[t]} : Referenced(c) => Referenced(c)'
    BY <1>7, <2>1, ThreadFacts DEF Count, TypeOK, Referenced
  <2>3. CloseUnreferenced({new[t]}) /\ UNCHANGED fdOf
    BY <1>7 DEF Count
  <2>4. \A u \in Threads : pc'[u] \notin UndoPCs
    BY <1>7, <1>c DEF Count, PCs
  <2>. QED
    BY <2>1, <2>2, <2>3, <2>4, SockDrops
<1>8. ASSUME NEW t \in Threads,
              EpollAddFails(t) \/ UndoErase(t) \/ UndoClose(t) \/ UndoDrop(t)
       PROVE  SockInv'
  BY <1>8, <1>b DEF EpollAddFails, UndoErase, UndoClose, UndoDrop
<1>9. ASSUME NEW t \in Threads, RmAbsent(t) PROVE SockInv'
  <2>1. /\ task[t] # None => task[t] \in Conns /\ Referenced(task[t])
        /\ {task[t]} \in SUBSET (Conns \cup {None})
    BY ReferredHasFd DEF Referenced, TypeOK
  <2>2. /\ \A c \in Conns : Referenced(c)' => Referenced(c)
        /\ \A c \in Conns \ {task[t]} : Referenced(c) => Referenced(c)'
    BY <1>9, ThreadFacts DEF RmAbsent, RemoveReturns, TypeOK, Referenced
  <2>3. CloseUnreferenced({task[t]}) /\ UNCHANGED fdOf
    BY <1>9 DEF RmAbsent
  <2>4. \A u \in Threads : pc'[u] \notin UndoPCs
    BY <1>9, <1>c DEF RmAbsent, RemoveReturns, PCs
  <2>. QED
    BY <2>1, <2>2, <2>3, <2>4, SockDrops
<1>10. ASSUME NEW t \in Threads, RmFind(t) PROVE SockInv'
  <2>1. target[t].fd \in Fds
    BY <1>10 DEF RmFind, ThreadInv
  <2>2. rm[t] = None
    BY <1>10 DEF RmFind, ThreadInv, AcceptPCs, NewPCs, FreshPCs, RmPCs
  <2>3. \A c \in Conns : Referenced(c)' <=> Referenced(c)
    BY <1>10, <2>1, <2>2, ThreadFacts DEF RmFind, Erase, TypeOK, Referenced
  <2>4. \A u \in Threads : pc'[u] \notin UndoPCs
    BY <1>10, <1>c DEF RmFind, PCs
  <2>. QED
    BY <1>10, <2>3, <2>4 DEF RmFind, TypeOK, SockInv
<1>11. ASSUME NEW t \in Threads, RmRelease(t) \/ RmCount(t) \/ RmLock(t) PROVE SockInv'
  BY <1>11, <1>d DEF RmRelease, RmCount, RmLock, PCs
<1>12. ASSUME NEW t \in Threads, RmAccept(t) PROVE SockInv'
  BY <1>12, <1>d DEF RmAccept, PCs
<1>13. ASSUME NEW t \in Threads, RmDrop(t) PROVE SockInv'
  <2>1. /\ rm[t] \in Conns /\ Referenced(rm[t])
        /\ task[t] # None => task[t] \in Conns /\ Referenced(task[t])
        /\ {rm[t], task[t]} \in SUBSET (Conns \cup {None})
    BY <1>13, ReferredHasFd DEF RmDrop, ThreadInv, RmPCs, Referenced, TypeOK
  <2>2. /\ \A c \in Conns : Referenced(c)' => Referenced(c)
        /\ \A c \in Conns \ {rm[t], task[t]} : Referenced(c) => Referenced(c)'
    BY <1>13, ThreadFacts DEF RmDrop, RemoveReturns, TypeOK, Referenced
  <2>3. CloseUnreferenced({rm[t], task[t]}) /\ UNCHANGED fdOf
    BY <1>13 DEF RmDrop
  <2>4. \A u \in Threads : pc'[u] \notin UndoPCs
    BY <1>13, <1>c DEF RmDrop, RemoveReturns, PCs
  <2>. QED
    BY <2>1, <2>2, <2>3, <2>4, SockDrops
<1>14. ASSUME NEW t \in Workers, TakeTask(t) PROVE SockInv'
  <2>1. Range(queue) = Range(queue') \cup {Head(queue)}
    BY <1>14, QueueShrinks DEF TakeTask, TypeOK
  <2>2. \A c \in Conns : Referenced(c)' <=> Referenced(c)
    BY <1>14, <2>1, ThreadFacts DEF TakeTask, TypeOK, ThreadInv, Referenced
  <2>3. \E l \in {"find", "task"} : Goto(t, l)
    BY <1>14 DEF TakeTask
  <2>4. UNCHANGED <<sock, fdOf>> /\ \A u \in Threads : pc'[u] \notin UndoPCs
    BY <1>14, <1>c, <2>3, ThreadFacts DEF TakeTask, PCs
  <2>. QED
    BY <2>2, <2>4 DEF TypeOK, SockInv
<1>15. ASSUME NEW t \in Workers, FindAgain(t) PROVE SockInv'
  <2>1. target[t].fd \in Fds /\ task[t] = None
    BY <1>15, ThreadFacts DEF FindAgain, ThreadInv
  <2>2. \A c \in Conns : Referenced(c)' <=> Referenced(c)
    BY <1>15, <2>1, ThreadFacts DEF FindAgain, Mapped, TypeOK, Referenced
  <2>3. \E l \in {"submit", "idle"} : Goto(t, l)
    BY <1>15 DEF FindAgain
  <2>4. UNCHANGED <<sock, fdOf>> /\ \A u \in Threads : pc'[u] \notin UndoPCs
    BY <1>15, <1>c, <2>3, ThreadFacts DEF FindAgain, PCs
  <2>. QED
    BY <2>2, <2>4 DEF TypeOK, SockInv
<1>16. ASSUME NEW t \in Workers, TaskLocks(t) \/ TaskResubmits(t) \/ TaskRemoves(t) PROVE SockInv'
  BY <1>16, <1>d, ThreadFacts DEF TaskLocks, TaskResubmits, TaskRemoves, PCs
<1>17. CASE ListenerEvent
  BY <1>17, <1>d, ThreadFacts DEF ListenerEvent, PCs
<1>18. CASE SweepBegins \/ SweepEnds \/ RemoveNext
  BY <1>18, <1>d, ThreadFacts DEF SweepBegins, SweepEnds, RemoveNext, PCs
<1>19. CASE \/ HangupEvents \/ SweepLooks \/ CloseListener \/ Stop
            \/ \E c \in Conns : Connect(c)
  BY <1>19, <1>a, <1>b DEF HangupEvents, SweepLooks, CloseListener, Stop, Connect
<1>20. CASE UNCHANGED vars
  BY <1>20, <1>a, <1>b DEF vars
<1>21. ASSUME NEW t \in Workers, TaskKeeps(t) PROVE SockInv'
  <2>1. task[t] \in Conns /\ Referenced(task[t])
    BY <1>21, ReferredHasFd, ThreadFacts DEF TaskKeeps, ThreadInv, Referenced
  <2>2. /\ \A c \in Conns : Referenced(c)' => Referenced(c)
        /\ \A c \in Conns \ {task[t]} : Referenced(c) => Referenced(c)'
    BY <1>21, ThreadFacts DEF TaskKeeps, TaskEnds, TypeOK, Referenced
  <2>3. CloseUnreferenced({task[t]}) /\ UNCHANGED fdOf
    BY <1>21 DEF TaskKeeps, TaskEnds
  <2>4. \A u \in Threads : pc'[u] \notin UndoPCs
    BY <1>21, <1>c, ThreadFacts DEF TaskKeeps, TaskEnds, PCs
  <2>. QED
    BY <2>1, <2>2, <2>3, <2>4, SockDrops
<1>22. ASSUME NEW t \in Workers, Resubmit(t) PROVE SockInv'
  <2>1. task[t] \in Conns /\ fdOf[task[t]] \in Fds /\ Referenced(task[t])
    BY <1>22, ReferredHasFd, ThreadFacts DEF Resubmit, ThreadInv, Referenced
  <2>2. Range(queue') = Range(queue) \cup {[fd |-> fdOf[task[t]], conn |-> None]}
    <3>1. [fd |-> fdOf[task[t]], conn |-> None] \in Targets
      BY <2>1 DEF Targets
    <3>. QED
      BY <1>22, <3>1, QueueGrows DEF Resubmit, TypeOK
  <2>3. /\ \A c \in Conns : Referenced(c)' => Referenced(c)
        /\ \A c \in Conns \ {task[t]} : Referenced(c) => Referenced(c)'
    BY <1>22, <2>2, ThreadFacts DEF Resubmit, TaskEnds, TypeOK, Referenced
  <2>4. CloseUnreferenced({task[t]}) /\ UNCHANGED fdOf
    BY <1>22 DEF Resubmit, TaskEnds
  <2>5. \A u \in Threads : pc'[u] \notin UndoPCs
    BY <1>22, <1>c, ThreadFacts DEF Resubmit, TaskEnds, PCs
  <2>. QED
    BY <2>1, <2>3, <2>4, <2>5, SockDrops
<1>23. ASSUME NEW t \in Threads, Submit(t) PROVE SockInv'
  <2>1. task[t] \in Conns /\ fdOf[task[t]] \in Fds
    BY <1>23, ReferredHasFd, ThreadFacts DEF Submit, ThreadInv
  <2>2. Range(queue') = Range(queue) \cup {[fd |-> fdOf[task[t]], conn |-> task[t]]}
    <3>1. [fd |-> fdOf[task[t]], conn |-> task[t]] \in Targets
      BY <2>1 DEF Targets
    <3>. QED
      BY <1>23, <3>1, QueueGrows DEF Submit, TypeOK
  <2>3. \A c \in Conns : Referenced(c)' <=> Referenced(c)
    BY <1>23, <2>1, <2>2, ThreadFacts DEF Submit, TypeOK, Referenced
  <2>. QED
    BY <1>23, <1>b, <2>3 DEF Submit, TypeOK, SockInv
<1>24. CASE ClientEvent
  <2>1. task[Main] = None
    BY <1>24, ThreadFacts DEF ClientEvent, ThreadInv
  <2>2. \A c \in Conns : Referenced(c)' <=> Referenced(c)
    BY <1>24, <2>1, ThreadFacts DEF ClientEvent, Mapped, TypeOK, Referenced
  <2>. QED
    BY <1>24, <1>b, <2>2, ThreadFacts DEF ClientEvent, TypeOK, SockInv
<1>. QED
  BY <1>1, <1>2, <1>3, <1>4, <1>5, <1>6, <1>7, <1>8, <1>9, <1>10, <1>11, <1>12, <1>13, <1>14,
     <1>15, <1>16, <1>17, <1>18, <1>19, <1>20, <1>21, <1>22, <1>23, <1>24, ThreadFacts
     DEF Next, MainProceeds, WorkerProceeds, Proceeds, HandleAccept, RemoveConnection

LEMMA InitSock == Init => SockInv
<1> SUFFICES ASSUME Init PROVE SockInv
  OBVIOUS
<1>1. Range(queue) = {}
  BY DEF Init, Range
<1>2. \A c \in Conns : ~Referenced(c)
  BY <1>1, ThreadFacts DEF Init, Referenced
<1>. QED
  BY <1>2 DEF Init, SockInv, UndoPCs

LEMMA SockAlways == ASSUME EpollAddMayFail = FALSE PROVE Spec => [](IndInv /\ SockInv)
<1>1. IndInv /\ SockInv /\ [Next]_vars => SockInv'
  BY SockStep
<1>. QED
  BY <1>1, InvAlways, InitSock, PTL DEF Spec

\* The number of a connection in the map or in the hands of a task is its own
\* open socket: unless EPOLL_CTL_ADD fails, no close() hits a reused number.
THEOREM DescriptorsAreOwned ==
    ASSUME EpollAddMayFail = FALSE
    PROVE  Spec => []FdOwned
<1>1. IndInv /\ SockInv => FdOwned
  BY ThreadFacts DEF IndInv, SockInv, TypeOK, FdOwned, MappedConns, Mapped, Referenced
<1>. QED
  BY <1>1, SockAlways, PTL

\* Unless EPOLL_CTL_ADD fails, every open descriptor belongs to a connection
\* that something refers to, so that ~Connection will close it.
THEOREM NoDescriptorLeaks ==
    ASSUME EpollAddMayFail = FALSE
    PROVE  Spec => []NoFdLeak
<1>1. IndInv /\ SockInv => NoFdLeak
  BY DEF IndInv, SockInv, FdInv, NoFdLeak
<1>. QED
  BY <1>1, SockAlways, PTL

\* Unless EPOLL_CTL_ADD fails, the number a worker hands to remove_connection
\* still means the connection of its task when the map is searched.
THEOREM WorkersRemoveOnlyTheirOwn ==
    ASSUME EpollAddMayFail = FALSE
    PROVE  Spec => WorkersRemoveTheirOwn
<1>1. ASSUME IndInv, SockInv, [Next]_vars, NEW w \in Workers, pc[w] = "rmFind", pc'[w] = "rmRelease"
      PROVE  rm'[w] = target[w].conn
  <2>1. w \in Threads /\ pc \in [Threads -> PCs]
    BY <1>1, ThreadFacts DEF IndInv, TypeOK
  <2>2. ASSUME NEW t \in Threads, Proceeds(t)
        PROVE  RmFind(t) \/ Goto(t, "idle") \/ (pc[t] # "rmFind" /\ \E l : Goto(t, l))
    BY <2>2
       DEF Proceeds, HandleAccept, RemoveConnection, Goto, AcceptLoop, AcceptReturns,
           AcceptCall, AcceptTransient, AcceptFails, TryAcquire, Reject, Insert, EpollAdd, Count,
           EpollAddFails, UndoErase, UndoClose, UndoDrop, RmAbsent, RemoveReturns, RmRelease,
           RmCount, RmLock, RmAccept, RmDrop, Submit
  <2>3. RmFind(w)
    <3>1. ASSUME NEW t \in Threads, Proceeds(t) PROVE RmFind(w)
      <4>1. CASE t = w
        BY <1>1, <2>1, <2>2, <3>1, <4>1 DEF Goto
      <4>2. CASE t # w
        BY <1>1, <2>1, <2>2, <3>1, <4>2 DEF Goto, RmFind
      <4>. QED
        BY <4>1, <4>2
    <3>2. ASSUME NEW v \in Workers,
                 \/ TakeTask(v) \/ FindAgain(v) \/ TaskLocks(v) \/ TaskKeeps(v)
                 \/ TaskResubmits(v) \/ Resubmit(v) \/ TaskRemoves(v)
          PROVE  FALSE
      <4>1. pc[v] # "rmFind" /\ \E l : Goto(v, l) /\ l # "rmRelease"
        BY <3>2
           DEF TakeTask, FindAgain, TaskLocks, TaskKeeps, TaskResubmits, Resubmit, TaskRemoves,
               TaskEnds, Goto
      <4>. QED
        BY <1>1, <2>1, <4>1, ThreadFacts DEF Goto
    <3>3. ASSUME \/ ListenerEvent \/ RemoveNext \/ HangupEvents \/ SweepBegins \/ SweepLooks
                 \/ SweepEnds \/ ClientEvent \/ CloseListener \/ Stop
                 \/ \E c \in Conns : Connect(c)
          PROVE  FALSE
      BY <1>1, <2>1, <3>3, ThreadFacts
         DEF Goto, ListenerEvent, RemoveNext, HangupEvents, SweepBegins, SweepLooks, SweepEnds,
             ClientEvent, CloseListener, Stop, Connect
    <3>. QED
      BY <1>1, <3>1, <3>2, <3>3, ThreadFacts DEF vars, Next, MainProceeds, WorkerProceeds
  <2>4. /\ task[w] \in Conns /\ Referenced(task[w])
        /\ target[w] = [fd |-> fdOf[task[w]], conn |-> task[w]] /\ target[w].fd \in Fds
    BY <1>1, <2>1, ThreadFacts DEF IndInv, TypeOK, ThreadInv, Referenced
  <2>5. connections[target[w].fd] # None => connections[target[w].fd] = task[w]
    BY <1>1, <2>4, ThreadFacts DEF IndInv, TypeOK, FdInv, SockInv, Referenced
  <2>. QED
    BY <1>1, <2>1, <2>3, <2>4, <2>5 DEF RmFind, IndInv, TypeOK
<1>2. IndInv /\ SockInv /\ [Next]_vars =>
         [\A w \in Workers :
             pc[w] = "rmFind" /\ pc'[w] = "rmRelease" => rm'[w] = target[w].conn]_vars
  BY <1>1
<1>. QED
  BY <1>2, SockAlways, PTL DEF Spec, WorkersRemoveTheirOwn

-----------------------------------------------------------------------------
(* Counting *)

One(b) == IF b THEN 1 ELSE 0

\* A thread that moves leaves the set of threads at its old place and joins
\* the one at its new place.
LEMMA AtMoves ==
    ASSUME TypeOK, NEW t \in Threads, NEW l, Goto(t, l), NEW L
    PROVE  /\ IsFiniteSet(At(L)) /\ Cardinality(At(L)) \in Nat
           /\ Cardinality(At(L)') = Cardinality(At(L)) + One(l \in L) - One(pc[t] \in L)
<1>1. At(L) \subseteq Threads
  BY DEF At
<1>2. IsFiniteSet(At(L)) /\ Cardinality(At(L)) \in Nat
  BY <1>1, AdmissionAssumption, FS_Subset, FS_CardinalityType
<1>3. At(L)' = IF l \in L THEN At(L) \cup {t} ELSE At(L) \ {t}
  BY DEF At, Goto, TypeOK
<1>4. t \in At(L) <=> pc[t] \in L
  BY DEF At
<1>5. /\ Cardinality(At(L) \cup {t})
           = IF t \in At(L) THEN Cardinality(At(L)) ELSE Cardinality(At(L)) + 1
      /\ Cardinality(At(L) \ {t})
           = IF t \in At(L) THEN Cardinality(At(L)) - 1 ELSE Cardinality(At(L))
  BY <1>2, FS_AddElement, FS_RemoveElement
<1>. QED
  BY <1>2, <1>3, <1>4, <1>5 DEF One

\* What a move does to the three sets of threads that CountInv counts.
Inserting == {"acceptCall", "limit", "insert"}
Counting == {"epollAdd", "count", "undoErase"}
Discounting == {"rmRelease", "rmCount"}

LEMMA CountsMove ==
    ASSUME TypeOK, NEW t \in Threads, NEW l, Goto(t, l)
    PROVE  /\ Cardinality(Admitting)' =
                 Cardinality(Admitting) + One(l \in Inserting) - One(pc[t] \in Inserting)
           /\ Cardinality(Uncounted)' =
                 Cardinality(Uncounted) + One(l \in Counting) - One(pc[t] \in Counting)
           /\ Cardinality(Undiscounted)' =
                 Cardinality(Undiscounted) + One(l \in Discounting) - One(pc[t] \in Discounting)
BY AtMoves DEF Admitting, Uncounted, Undiscounted, Inserting, Counting, Discounting

\* The sets that are counted are finite, and a thread is in at most one.
LEMMA CountTypes ==
    ASSUME TypeOK
    PROVE  /\ IsFiniteSet(Mapped) /\ Cardinality(Mapped) \in Nat
           /\ Cardinality(Threads) \in Nat \ {0}
           /\ Cardinality(Admitting) \in Nat /\ Cardinality(Uncounted) \in Nat
           /\ Cardinality(Undiscounted) \in Nat
           /\ Cardinality(Uncounted) <= Cardinality(Threads)
           /\ Cardinality(Undiscounted) <= Cardinality(Threads)
           /\ \A t \in Threads :
                 pc[t] \notin Inserting /\ pc[t] \notin Counting =>
                    Cardinality(Admitting) + Cardinality(Uncounted) <= Cardinality(Threads) - 1
<1>1. IsFiniteSet(Fds)
  BY AdmissionAssumption, FS_Interval DEF Fds
<1>2. IsFiniteSet(Mapped) /\ Cardinality(Mapped) \in Nat
  BY <1>1, FS_Subset, FS_CardinalityType DEF Mapped
<1>3. IsFiniteSet(Threads) /\ Cardinality(Threads) \in Nat
  BY AdmissionAssumption, FS_CardinalityType
<1>4. Cardinality(Threads) # 0
  BY <1>3, ThreadFacts, FS_EmptySet
<1>5. /\ Admitting \subseteq Threads /\ Uncounted \subseteq Threads
      /\ Undiscounted \subseteq Threads
  BY DEF Admitting, Uncounted, Undiscounted, At
<1>6. /\ IsFiniteSet(Admitting) /\ IsFiniteSet(Uncounted)
      /\ Cardinality(Admitting) \in Nat /\ Cardinality(Uncounted) \in Nat
      /\ Cardinality(Undiscounted) \in Nat
      /\ Cardinality(Uncounted) <= Cardinality(Threads)
      /\ Cardinality(Undiscounted) <= Cardinality(Threads)
  BY <1>3, <1>5, FS_Subset, FS_CardinalityType
<1>7. ASSUME NEW t \in Threads, pc[t] \notin Inserting, pc[t] \notin Counting
      PROVE  Cardinality(Admitting) + Cardinality(Uncounted) <= Cardinality(Threads) - 1
  <2>1. Admitting \cap Uncounted = {}
    BY DEF Admitting, Uncounted, At
  <2>2. Admitting \cup Uncounted \in SUBSET (Threads \ {t})
    BY <1>7 DEF Admitting, Uncounted, At, Inserting, Counting
  <2>3. IsFiniteSet(Threads \ {t}) /\ Cardinality(Threads \ {t}) = Cardinality(Threads) - 1
    BY <1>3, FS_RemoveElement
  <2>4. Cardinality(Admitting \cup Uncounted) <= Cardinality(Threads) - 1
    BY <2>2, <2>3, FS_Subset
  <2>5. Cardinality(Admitting \cup Uncounted) = Cardinality(Admitting) + Cardinality(Uncounted)
    BY <1>6, <2>1, FS_Union, FS_EmptySet
  <2>. QED
    BY <2>4, <2>5
<1>. QED
  BY <1>2, <1>3, <1>4, <1>6, <1>7

\* Counting up and down modulo the width of size_t.
LEMMA ModStep ==
    ASSUME NEW M \in Nat \ {0}, NEW a \in 0 .. M - 1
    PROVE  /\ (a + 1) % M = IF a + 1 = M THEN 0 ELSE a + 1
           /\ (a - 1) % M = IF a = 0 THEN M - 1 ELSE a - 1
           /\ a % M = a /\ (a + M) % M = a
<1>1. a % M = a /\ (a + M) % M = a
  BY SMT
<1>2. (a + 1) % M = IF a + 1 = M THEN 0 ELSE a + 1
  BY SMT
<1>3. (a - 1) % M = IF a = 0 THEN M - 1 ELSE a - 1
  BY SMT
<1>. QED
  BY <1>1, <1>2, <1>3

\* A move that is none of the four that count keeps CountInv.
LEMMA CountKept ==
    ASSUME TypeOK, CountInv, NEW t \in Threads, NEW l, Goto(t, l),
           UNCHANGED <<connections, active_connections>>,
           l \in Inserting => pc[t] \in Inserting,
           l \in Counting <=> pc[t] \in Counting,
           l \in Discounting <=> pc[t] \in Discounting
    PROVE  CountInv'
<1>1. /\ Cardinality(Admitting)' <= Cardinality(Admitting) /\ Cardinality(Admitting)' \in Int
      /\ Cardinality(Uncounted)' = Cardinality(Uncounted)
      /\ Cardinality(Undiscounted)' = Cardinality(Undiscounted)
  BY CountsMove, CountTypes DEF One
<1>2. Mapped' = Mapped
  BY DEF Mapped
<1>. QED
  BY <1>1, <1>2, CountTypes, AdmissionAssumption DEF CountInv, TrueActive

\* The counter and the cap survive every step of a thread.
LEMMA CountProceeds ==
    ASSUME IndInv, SockInv, EpollAddMayFail = FALSE, CountInv, NEW t \in Threads, Proceeds(t)
    PROVE  CountInv'
<1> DEFINE m == Cardinality(Mapped)
           a == Cardinality(Admitting)
           u == Cardinality(Uncounted)
           d == Cardinality(Undiscounted)
           T == Cardinality(Threads)
<1>a. TypeOK
  BY DEF IndInv
<1>b. /\ m \in Nat /\ a \in Nat /\ u \in Nat /\ d \in Nat /\ T \in Nat \ {0} /\ u <= T /\ d <= T
      /\ MAX_TOTAL_CONNECTIONS \in Nat /\ SizeModulus \in Nat
      /\ SizeModulus > MAX_TOTAL_CONNECTIONS + 2 * T
      /\ m + a <= MAX_TOTAL_CONNECTIONS + T - 1
      /\ active_connections = IF m + d - u >= 0 THEN m + d - u ELSE m + d - u + SizeModulus
      /\ active_connections \in 0 .. SizeModulus - 1
  BY <1>a, CountTypes, AdmissionAssumption DEF CountInv, TrueActive, TypeOK
<1>c. ASSUME NEW l, Goto(t, l)
      PROVE  /\ a' = a + One(l \in Inserting) - One(pc[t] \in Inserting)
             /\ u' = u + One(l \in Counting) - One(pc[t] \in Counting)
             /\ d' = d + One(l \in Discounting) - One(pc[t] \in Discounting)
  BY <1>a, <1>c, CountsMove
<1>d. ASSUME NEW l, Goto(t, l), UNCHANGED <<connections, active_connections>>,
             l \in Inserting => pc[t] \in Inserting,
             l \in Counting <=> pc[t] \in Counting,
             l \in Discounting <=> pc[t] \in Discounting
      PROVE  CountInv'
  BY <1>a, <1>d, CountKept
<1>e. UNCHANGED connections => m' = m
  BY DEF Mapped
<1>f. CountInv' <=>
        /\ active_connections' = IF m' + d' - u' >= 0 THEN m' + d' - u'
                                 ELSE m' + d' - u' + SizeModulus
        /\ m' + a' <= MAX_TOTAL_CONNECTIONS + T - 1
  BY DEF CountInv, TrueActive
<1>g. /\ (active_connections + 1) % SizeModulus =
            IF active_connections + 1 = SizeModulus THEN 0 ELSE active_connections + 1
      /\ (active_connections - 1) % SizeModulus =
            IF active_connections = 0 THEN SizeModulus - 1 ELSE active_connections - 1
  <2>1. SizeModulus \in Nat \ {0} /\ active_connections \in 0 .. SizeModulus - 1
    BY <1>b
  <2>. QED
    BY <2>1, ModStep
<1> HIDE DEF m, a, u, d, T
<1> USE DEF Inserting, Counting, Discounting, One, kernelVars, fdVars, tableVars, limitVars,
            poolVars, threadVars, mainVars
<1>1. CASE AcceptLoop(t)
  <2>1. CASE running /\ HasCapacity
    <3>1. Goto(t, "acceptCall") /\ pc[t] = "accept" /\ UNCHANGED <<connections, active_connections>>
      BY <1>1, <2>1 DEF AcceptLoop
    <3>2. a' = a + 1 /\ u' = u /\ d' = d /\ m' = m
      BY <1>b, <1>c, <1>e, <3>1
    <3>3. a + u <= T - 1
      BY <1>a, <3>1, CountTypes DEF a, u, T
    <3>4. active_connections < MAX_TOTAL_CONNECTIONS
      BY <2>1 DEF HasCapacity
    <3>5. m + a + 1 <= MAX_TOTAL_CONNECTIONS + T - 1
      BY <1>b, <3>3, <3>4
    <3>. QED
      BY <1>b, <1>f, <3>1, <3>2, <3>5
  <2>2. CASE ~(running /\ HasCapacity)
    BY <1>1, <1>d, <2>2 DEF AcceptLoop, AcceptReturns
  <2>. QED
    BY <2>1, <2>2
<1>2. CASE AcceptCall(t) \/ AcceptTransient(t) \/ Reject(t) \/ EpollAdd(t)
  BY <1>2, <1>d DEF AcceptCall, AcceptTransient, Reject, EpollAdd
<1>3. CASE AcceptFails(t)
  BY <1>3, <1>d DEF AcceptFails, AcceptReturns
<1>4. CASE TryAcquire(t)
  BY <1>4, <1>d DEF TryAcquire
<1>5. CASE Insert(t)
  <2> DEFINE f == fdOf[new[t]]
  <2>1. new[t] \in Conns /\ f \in Fds /\ sock[f] = new[t]
    BY <1>5, ReferredHasFd DEF Insert, IndInv, ThreadInv, NewPCs, FreshPCs, SockInv, Referenced
  <2>2. connections[f] = None
    BY <1>5, <2>1, ThreadFacts
       DEF Insert, IndInv, TypeOK, FdInv, OwnInv, FreshPCs, SockInv, Referenced
  <2>3. Mapped' = Mapped \cup {f} /\ f \notin Mapped
    BY <1>5, <2>1, <2>2, ThreadFacts DEF Insert, Mapped, IndInv, TypeOK
  <2>4. m' = m + 1
    BY <1>a, <2>3, CountTypes, FS_AddElement DEF m
  <2>5. a' = a - 1 /\ u' = u + 1 /\ d' = d /\ active_connections' = active_connections
    BY <1>5, <1>b, <1>c DEF Insert
  <2>. QED
    BY <1>b, <1>f, <2>4, <2>5
<1>6. CASE Count(t)
  <2>1. a' = a /\ u' = u - 1 /\ d' = d /\ m' = m
    BY <1>6, <1>b, <1>c, <1>e DEF Count
  <2>2. active_connections' = IF active_connections + 1 = SizeModulus THEN 0
                              ELSE active_connections + 1
    BY <1>6, <1>g DEF Count
  <2>. QED
    BY <1>b, <1>f, <2>1, <2>2
<1>7. CASE EpollAddFails(t) \/ UndoErase(t) \/ UndoClose(t) \/ UndoDrop(t)
  BY <1>7 DEF EpollAddFails, UndoErase, UndoClose, UndoDrop, SockInv, UndoPCs
<1>8. CASE RmAbsent(t) \/ RmDrop(t)
  BY <1>8, <1>d DEF RmAbsent, RmDrop, RemoveReturns
<1>9. CASE RmFind(t)
  <2> DEFINE f == target[t].fd
  <2>1. f \in Fds
    BY <1>9 DEF RmFind, IndInv, ThreadInv
  <2>2. Mapped' = Mapped \ {f} /\ f \in Mapped
    BY <1>9, <2>1 DEF RmFind, Erase, Mapped, IndInv, TypeOK
  <2>3. m' = m - 1
    BY <1>a, <2>2, CountTypes, FS_RemoveElement DEF m
  <2>4. a' = a /\ u' = u /\ d' = d + 1 /\ active_connections' = active_connections
    BY <1>9, <1>b, <1>c DEF RmFind
  <2>. QED
    BY <1>b, <1>f, <2>3, <2>4
<1>10. CASE RmRelease(t) \/ RmLock(t)
  BY <1>10, <1>d DEF RmRelease, RmLock
<1>11. CASE RmCount(t)
  <2>1. a' = a /\ u' = u /\ d' = d - 1 /\ m' = m
    BY <1>11, <1>b, <1>c, <1>e DEF RmCount
  <2>2. active_connections' = IF active_connections = 0 THEN SizeModulus - 1
                              ELSE active_connections - 1
    BY <1>11, <1>g DEF RmCount, Discount
  <2>. QED
    BY <1>b, <1>f, <2>1, <2>2
<1>12. CASE RmAccept(t)
  BY <1>12, <1>d DEF RmAccept
<1>13. CASE Submit(t)
  BY <1>13, <1>d DEF Submit
<1>. QED
  BY <1>1, <1>2, <1>3, <1>4, <1>5, <1>6, <1>7, <1>8, <1>9, <1>10, <1>11, <1>12, <1>13
     DEF Proceeds, HandleAccept, RemoveConnection

\* Tasks and the event loop itself do not count.
LEMMA CountStep ==
    ASSUME IndInv, SockInv, EpollAddMayFail = FALSE, CountInv, [Next]_vars
    PROVE  CountInv'
<1>1. CASE \E t \in Threads : Proceeds(t)
  BY <1>1, CountProceeds
<1>2. ASSUME NEW w \in Workers,
             \/ TakeTask(w) \/ FindAgain(w) \/ TaskLocks(w) \/ TaskKeeps(w)
             \/ TaskResubmits(w) \/ Resubmit(w) \/ TaskRemoves(w)
      PROVE  CountInv'
  <2>1. UNCHANGED <<connections, active_connections>>
    BY <1>2
       DEF TakeTask, FindAgain, TaskLocks, TaskKeeps, TaskResubmits, Resubmit, TaskRemoves,
           TaskEnds, tableVars, limitVars
  <2>2. /\ pc[w] \in {"idle", "find", "task", "io", "resubmit"}
        /\ \E l \in {"find", "task", "submit", "idle", "io", "resubmit", "rmFind"} : Goto(w, l)
    BY <1>2
       DEF TakeTask, FindAgain, TaskLocks, TaskKeeps, TaskResubmits, Resubmit, TaskRemoves,
           TaskEnds
  <2>. QED
    BY <2>1, <2>2, CountKept, ThreadFacts DEF IndInv, Inserting, Counting, Discounting
<1>3. CASE ListenerEvent \/ RemoveNext
  <2>1. CASE ListenerEvent
    BY <2>1, CountKept, ThreadFacts
       DEF ListenerEvent, IndInv, tableVars, limitVars, Inserting, Counting, Discounting
  <2>2. CASE RemoveNext
    BY <2>2, CountKept, ThreadFacts
       DEF RemoveNext, IndInv, tableVars, limitVars, Inserting, Counting, Discounting
  <2>. QED
    BY <1>3, <2>1, <2>2
<1>4. CASE UNCHANGED <<pc, connections, active_connections>>
  BY <1>4 DEF CountInv, TrueActive, Mapped, Admitting, Uncounted, Undiscounted, At
<1>5. CASE \/ HangupEvents \/ SweepLooks \/ CloseListener \/ Stop \/ UNCHANGED vars
           \/ \E c \in Conns : Connect(c)
  BY <1>4, <1>5
     DEF HangupEvents, SweepLooks, CloseListener, Stop, Connect, vars, tableVars, limitVars
<1>6. CASE SweepBegins \/ SweepEnds \/ ClientEvent
  <2>1. /\ UNCHANGED <<connections, active_connections>> /\ pc[Main] \in {"idle", "scan"}
        /\ \E l \in {"scan", "idle", "submit"} : Goto(Main, l)
    BY <1>6 DEF SweepBegins, SweepEnds, ClientEvent, tableVars, limitVars
  <2>. QED
    BY <2>1, CountKept, ThreadFacts DEF IndInv, Inserting, Counting, Discounting
<1>. QED
  BY <1>1, <1>2, <1>3, <1>5, <1>6, ThreadFacts DEF Next, MainProceeds, WorkerProceeds

LEMMA InitCount == Init => CountInv
<1> SUFFICES ASSUME Init PROVE CountInv
  OBVIOUS
<1>1. Mapped = {} /\ Admitting = {} /\ Uncounted = {} /\ Undiscounted = {}
  BY DEF Init, Mapped, Admitting, Uncounted, Undiscounted, At
<1>2. Cardinality(Threads) \in Nat \ {0}
  BY InitInv, CountTypes DEF IndInv
<1>. QED
  BY <1>1, <1>2, FS_EmptySet, AdmissionAssumption DEF Init, CountInv, TrueActive

LEMMA CountAlways ==
    ASSUME EpollAddMayFail = FALSE
    PROVE  Spec => [](IndInv /\ SockInv /\ CountInv)
<1>1. IndInv /\ SockInv /\ CountInv /\ [Next]_vars => CountInv'
  BY CountStep
<1>. QED
  BY <1>1, SockAlways, InitCount, PTL DEF Spec

\* Unless EPOLL_CTL_ADD fails, active_connections is the size of the map up to
\* the connections whose counting or discounting is still to come, across the
\* wrap of the unsigned counter.
THEOREM ActiveCountIsExact ==
    ASSUME EpollAddMayFail = FALSE
    PROVE  Spec => []ActiveExact
<1>1. ASSUME IndInv, CountInv PROVE ActiveExact
  <2> DEFINE m == Cardinality(Mapped)
             u == Cardinality(Uncounted)
             d == Cardinality(Undiscounted)
             A == active_connections
             M == SizeModulus
  <2>1. /\ m \in Nat /\ u \in Nat /\ d \in Nat /\ A \in Nat /\ M \in Nat \ {0}
        /\ m + d < M
        /\ A = IF m + d - u >= 0 THEN m + d - u ELSE m + d - u + M
    <3>1. Cardinality(Threads) \in Nat /\ d <= Cardinality(Threads)
      BY <1>1, CountTypes DEF IndInv
    <3>2. m \in Nat /\ u \in Nat /\ d \in Nat /\ Cardinality(Admitting) \in Nat
      BY <1>1, CountTypes DEF IndInv
    <3>3. A \in Nat /\ M \in Nat \ {0}
      BY <1>1, <3>1, AdmissionAssumption DEF IndInv, TypeOK
    <3>4. m + Cardinality(Admitting) <= MAX_TOTAL_CONNECTIONS + Cardinality(Threads) - 1
      BY <1>1 DEF CountInv
    <3>5. m + d < M
      BY <3>1, <3>2, <3>4, AdmissionAssumption
    <3>. QED
      BY <1>1, <3>2, <3>3, <3>5 DEF CountInv, TrueActive
  <2>2. A + u = m + d \/ A + u = m + d + M
    BY <2>1
  <2>3. m + d \in 0 .. M - 1
    BY <2>1
  <2>4. (A + u) % M = (m + d) % M
    <3> HIDE DEF m, u, d, A, M
    <3>1. (m + d) % M = m + d /\ (m + d + M) % M = m + d
      BY <2>1, <2>3, ModStep
    <3>. QED
      BY <2>2, <3>1
  <2>. QED
    BY <2>4 DEF ActiveExact, Uncounted, Undiscounted
<1>. QED
  BY <1>1, CountAlways, PTL

\* Unless EPOLL_CTL_ADD fails, the check of the cap and the counting being apart
\* lets the map, with the connections that threads past the check may still
\* insert, exceed MAX_TOTAL_CONNECTIONS by at most one for every other thread.
THEOREM OvershootIsBounded ==
    ASSUME EpollAddMayFail = FALSE
    PROVE  Spec => []OvershootBounded
<1>1. CountInv => OvershootBounded
  BY DEF CountInv, OvershootBounded, Admitting
<1>. QED
  BY <1>1, CountAlways, PTL

-----------------------------------------------------------------------------
(* Slots per address *)

\* The connection is in the map, or its slot is acquired and it is about to go
\* in, or it is off the map and its slot is about to be released.
HoldsSlot(c) ==
    \/ \E f \in Fds : connections[f] = c
    \/ \E t \in Threads : pc[t] = "insert" /\ new[t] = c
    \/ \E t \in Threads : pc[t] = "rmRelease" /\ rm[t] = c

LEMMA SlotHoldersAre ==
    ASSUME IndInv, SockInv
    PROVE  SlotHolders = {c \in Conns : HoldsSlot(c)}
<1>1. At({"undoErase"}) = {}
  BY DEF At, SockInv, UndoPCs
<1>2. /\ \A t \in Threads : pc[t] = "insert" => new[t] \in Conns
      /\ \A t \in Threads : pc[t] = "rmRelease" => rm[t] \in Conns
  BY DEF IndInv, TypeOK, ThreadInv, NewPCs, FreshPCs, RmPCs
<1>3. MappedConns = {c \in Conns : \E f \in Fds : connections[f] = c}
  BY ThreadFacts DEF MappedConns, Mapped, IndInv, TypeOK
<1>4. {new[t] : t \in At({"insert"})}
        = {c \in Conns : \E t \in Threads : pc[t] = "insert" /\ new[t] = c}
  BY <1>2 DEF At
<1>5. {rm[t] : t \in At({"rmRelease"})}
        = {c \in Conns : \E t \in Threads : pc[t] = "rmRelease" /\ rm[t] = c}
  BY <1>2 DEF At
<1>. QED
  BY <1>1, <1>3, <1>4, <1>5 DEF SlotHolders, HoldsSlot

\* Steps that leave the counts alone do not change who holds a slot.
LEMMA SlotsKept ==
    ASSUME EpollAddMayFail = FALSE, IndInv, SockInv, [Next]_vars,
           ~ \E t \in Threads : TryAcquire(t) \/ RmRelease(t)
    PROVE  counts_' = counts_ /\ \A c \in Conns : HoldsSlot(c)' <=> HoldsSlot(c)
<1> DEFINE Kept == counts_' = counts_ /\ \A c \in Conns : HoldsSlot(c)' <=> HoldsSlot(c)
<1> USE DEF IndInv, Goto, kernelVars, fdVars, tableVars, limitVars, poolVars, threadVars,
            mainVars
<1>1. ASSUME NEW t \in Threads, Insert(t) PROVE Kept
  <2>1. new[t] \in Conns /\ fdOf[new[t]] \in Fds /\ connections[fdOf[new[t]]] = None
    BY <1>1, ReferredHasFd, ThreadFacts
       DEF Insert, CloseUnreferenced, Close, TypeOK, ThreadInv, FdInv, OwnInv, NewPCs, FreshPCs,
           SockInv, Referenced
  <2>. QED
    BY <1>1, <2>1, ThreadFacts DEF Insert, CloseUnreferenced, Close, TypeOK, HoldsSlot
<1>2. ASSUME NEW t \in Threads, RmFind(t) PROVE Kept
  <2>1. target[t].fd \in Fds
    BY <1>2 DEF RmFind, ThreadInv
  <2>. QED
    BY <1>2, <2>1, ThreadFacts DEF RmFind, Erase, TypeOK, HoldsSlot
<1>3. ASSUME NEW t \in Threads, NEW l, Goto(t, l), UNCHANGED <<connections, counts_>>,
             \A u \in Threads \ {t} : new'[u] = new[u] /\ rm'[u] = rm[u],
             {pc[t], l} \cap {"insert", "rmRelease"} = {}
      PROVE  Kept
  BY <1>3 DEF TypeOK, HoldsSlot
<1>4. ASSUME NEW t \in Threads, HandleAccept(t), ~TryAcquire(t), ~Insert(t) PROVE Kept
  <2>1. ~(EpollAddFails(t) \/ UndoErase(t) \/ UndoClose(t) \/ UndoDrop(t))
    BY DEF EpollAddFails, UndoErase, UndoClose, UndoDrop, SockInv, UndoPCs
  <2>2. CASE AcceptLoop(t) \/ AcceptFails(t)
    BY <1>3, <2>2 DEF AcceptLoop, AcceptFails, AcceptReturns
  <2>3. CASE AcceptCall(t) \/ AcceptTransient(t) \/ Reject(t) \/ EpollAdd(t) \/ Count(t)
    BY <1>3, <2>3 DEF AcceptCall, AcceptTransient, Reject, EpollAdd, Count, TypeOK
  <2>. QED
    BY <1>4, <2>1, <2>2, <2>3 DEF HandleAccept
<1>5. ASSUME NEW t \in Threads, RemoveConnection(t), ~RmFind(t), ~RmRelease(t) PROVE Kept
  <2>1. CASE RmAbsent(t) \/ RmCount(t) \/ RmLock(t)
    BY <1>3, <2>1 DEF RmAbsent, RmCount, RmLock, RemoveReturns
  <2>2. CASE RmAccept(t)
    BY <1>3, <2>2 DEF RmAccept
  <2>3. CASE RmDrop(t)
    BY <1>3, <2>3 DEF RmDrop, RemoveReturns, TypeOK
  <2>. QED
    BY <1>5, <2>1, <2>2, <2>3 DEF RemoveConnection
<1>6. ASSUME NEW t \in Workers,
             \/ TakeTask(t) \/ FindAgain(t) \/ TaskLocks(t) \/ TaskKeeps(t)
             \/ TaskResubmits(t) \/ Resubmit(t) \/ TaskRemoves(t)
      PROVE  Kept
  <2>1. CASE TakeTask(t)
    <3>1. CASE Head(queue).conn = None
      BY <1>3, <2>1, <3>1, ThreadFacts DEF TakeTask
    <3>2. CASE Head(queue).conn # None
      BY <1>3, <2>1, <3>2, ThreadFacts DEF TakeTask
    <3>. QED
      BY <3>1, <3>2
  <2>2. CASE FindAgain(t)
    <3>1. CASE running /\ target[t].fd \in Mapped
      BY <1>3, <2>2, <3>1, ThreadFacts DEF FindAgain
    <3>2. CASE ~(running /\ target[t].fd \in Mapped)
      BY <1>3, <2>2, <3>2, ThreadFacts DEF FindAgain
    <3>. QED
      BY <3>1, <3>2
  <2>3. CASE TaskLocks(t) \/ TaskResubmits(t) \/ TaskRemoves(t)
    BY <1>3, <2>3, ThreadFacts DEF TaskLocks, TaskResubmits, TaskRemoves
  <2>4. CASE TaskKeeps(t) \/ Resubmit(t)
    BY <1>3, <2>4, ThreadFacts DEF TaskKeeps, Resubmit, TaskEnds
  <2>. QED
    BY <1>6, <2>1, <2>2, <2>3, <2>4
<1>7. CASE ListenerEvent
  BY <1>3, <1>7, ThreadFacts DEF ListenerEvent
<1>8. CASE RemoveNext
  BY <1>3, <1>8, ThreadFacts DEF RemoveNext
<1>9. CASE UNCHANGED <<pc, connections, counts_, new, rm>>
  BY <1>9 DEF HoldsSlot
<1>10. CASE \/ HangupEvents \/ SweepLooks \/ CloseListener \/ Stop \/ UNCHANGED vars
            \/ \E c \in Conns : Connect(c)
  BY <1>9, <1>10 DEF HangupEvents, SweepLooks, CloseListener, Stop, Connect, vars
<1>11. ASSUME NEW t \in Threads, Submit(t) PROVE Kept
  BY <1>3, <1>11 DEF Submit
<1>12. ASSUME NEW t \in Threads, Proceeds(t) PROVE Kept
  BY <1>1, <1>2, <1>4, <1>5, <1>11, <1>12 DEF Proceeds
<1>13. CASE SweepBegins \/ SweepEnds \/ ClientEvent
  BY <1>3, <1>13, ThreadFacts DEF SweepBegins, SweepEnds, ClientEvent
<1> HIDE DEF IndInv
<1>. QED
  BY <1>6, <1>7, <1>8, <1>10, <1>12, <1>13, ThreadFacts
     DEF Next, MainProceeds, WorkerProceeds

\* try_acquire gives a slot to a connection that has none, release takes one
\* from a connection that has one.
LEMMA SlotsMove ==
    ASSUME IndInv, SockInv, NEW t \in Threads
    PROVE  /\ TryAcquire(t) /\ UnderIpLimit(new[t]) =>
                 /\ new[t] \in Conns /\ ~HoldsSlot(new[t])
                 /\ \A c \in Conns : HoldsSlot(c)' <=> HoldsSlot(c) \/ c = new[t]
           /\ TryAcquire(t) /\ ~UnderIpLimit(new[t]) =>
                 \A c \in Conns : HoldsSlot(c)' <=> HoldsSlot(c)
           /\ RmRelease(t) =>
                 /\ rm[t] \in Conns /\ HoldsSlot(rm[t])
                 /\ \A c \in Conns : HoldsSlot(c)' <=> HoldsSlot(c) /\ c # rm[t]
<1> USE DEF IndInv, Goto, kernelVars, fdVars, tableVars, limitVars, poolVars, threadVars,
            mainVars
<1>1. ASSUME TryAcquire(t), UnderIpLimit(new[t])
      PROVE  /\ new[t] \in Conns /\ ~HoldsSlot(new[t])
             /\ \A c \in Conns : HoldsSlot(c)' <=> HoldsSlot(c) \/ c = new[t]
  <2>1. new[t] \in Conns /\ ~HoldsSlot(new[t])
    BY <1>1, ReferredHasFd DEF TryAcquire, ThreadInv, OwnInv, NewPCs, FreshPCs, HoldsSlot
  <2>. QED
    BY <1>1, <2>1 DEF TryAcquire, TypeOK, HoldsSlot
<1>2. ASSUME TryAcquire(t), ~UnderIpLimit(new[t])
      PROVE  \A c \in Conns : HoldsSlot(c)' <=> HoldsSlot(c)
  BY <1>2 DEF TryAcquire, TypeOK, HoldsSlot
<1>3. ASSUME RmRelease(t)
      PROVE  /\ rm[t] \in Conns /\ HoldsSlot(rm[t])
             /\ \A c \in Conns : HoldsSlot(c)' <=> HoldsSlot(c) /\ c # rm[t]
  <2>1. rm[t] \in Conns /\ HoldsSlot(rm[t])
    BY <1>3, ReferredHasFd DEF RmRelease, ThreadInv, RmPCs, HoldsSlot
  <2>2. /\ \A f \in Fds : connections[f] # rm[t]
        /\ \A u \in Threads : pc[u] = "insert" => new[u] # rm[t]
        /\ \A u \in Threads : rm[u] = rm[t] => u = t
    BY <1>3, <2>1, ThreadFacts DEF RmRelease, OwnInv, ThreadInv, RmPCs, FreshPCs
  <2>. QED
    BY <1>3, <2>1, <2>2 DEF RmRelease, TypeOK, HoldsSlot
<1>. QED
  BY <1>1, <1>2, <1>3

\* The connections of an address that hold a slot, and the count of them.
Holders(i) == {c \in Conns : HoldsSlot(c) /\ IpOf[c] = i}

SlotInv == \A i \in Ips : counts_[i] = Cardinality(Holders(i)) /\ counts_[i] <= max_per_ip_

LEMMA SlotStep ==
    ASSUME EpollAddMayFail = FALSE, IndInv, SockInv, SlotInv, [Next]_vars
    PROVE  SlotInv'
<1>1. \A i \in Ips : IsFiniteSet(Holders(i)) /\ Cardinality(Holders(i)) \in Nat
  BY AdmissionAssumption, FS_Subset, FS_CardinalityType DEF Holders
<1>2. counts_ \in [Ips -> Nat] /\ \A c \in Conns : IpOf[c] \in Ips
  BY DEF IndInv, TypeOK, Ips
<1>3. ASSUME counts_' = counts_, \A c \in Conns : HoldsSlot(c)' <=> HoldsSlot(c)
      PROVE  SlotInv'
  <2>1. \A i \in Ips : Holders(i)' = Holders(i)
    BY <1>3 DEF Holders
  <2>. QED
    BY <1>3, <2>1 DEF SlotInv
<1>4. CASE ~ \E t \in Threads : TryAcquire(t) \/ RmRelease(t)
  BY <1>3, <1>4, SlotsKept
<1>5. ASSUME NEW t \in Threads, TryAcquire(t) PROVE SlotInv'
  <2>1. CASE UnderIpLimit(new[t])
    <3>1. /\ new[t] \in Conns /\ ~HoldsSlot(new[t]) /\ IpOf[new[t]] \in Ips
          /\ \A c \in Conns : HoldsSlot(c)' <=> HoldsSlot(c) \/ c = new[t]
      BY <1>2, <1>5, <2>1, SlotsMove
    <3>2. PICK k \in Ips : k = IpOf[new[t]]
      BY <3>1
    <3>3. counts_' = [counts_ EXCEPT ![k] = counts_[k] + 1] /\ counts_[k] < max_per_ip_
      BY <1>5, <2>1, <3>2 DEF TryAcquire, Acquire, UnderIpLimit
    <3>4. Holders(k)' = Holders(k) \cup {new[t]} /\ new[t] \notin Holders(k)
      BY <3>1, <3>2 DEF Holders
    <3>5. Cardinality(Holders(k))' = Cardinality(Holders(k)) + 1
      BY <1>1, <3>4, FS_AddElement
    <3>6. \A i \in Ips : i # k => Holders(i)' = Holders(i)
      BY <3>1, <3>2 DEF Holders
    <3>. QED
      BY <1>2, <3>3, <3>5, <3>6, AdmissionAssumption DEF SlotInv
  <2>2. CASE ~UnderIpLimit(new[t])
    BY <1>3, <1>5, <2>2, SlotsMove DEF TryAcquire
  <2>. QED
    BY <2>1, <2>2
<1>6. ASSUME NEW t \in Threads, RmRelease(t) PROVE SlotInv'
  <2>1. /\ rm[t] \in Conns /\ HoldsSlot(rm[t]) /\ IpOf[rm[t]] \in Ips
        /\ \A c \in Conns : HoldsSlot(c)' <=> HoldsSlot(c) /\ c # rm[t]
    BY <1>2, <1>6, SlotsMove
  <2>2. PICK k \in Ips : k = IpOf[rm[t]]
    BY <2>1
  <2>3. counts_' = [counts_ EXCEPT ![k] = IF counts_[k] > 0 THEN counts_[k] - 1 ELSE 0]
    BY <1>6, <2>2 DEF RmRelease, Release
  <2>4. Holders(k)' = Holders(k) \ {rm[t]} /\ rm[t] \in Holders(k)
    BY <2>1, <2>2 DEF Holders
  <2>5. Cardinality(Holders(k))' = Cardinality(Holders(k)) - 1 /\ Cardinality(Holders(k)) # 0
    BY <1>1, <2>4, FS_RemoveElement, FS_EmptySet
  <2>6. \A i \in Ips : i # k => Holders(i)' = Holders(i)
    BY <2>1, <2>2 DEF Holders
  <2>. QED
    BY <1>1, <1>2, <2>3, <2>5, <2>6, AdmissionAssumption DEF SlotInv
<1>. QED
  BY <1>4, <1>5, <1>6

LEMMA InitSlots == Init => SlotInv
<1> SUFFICES ASSUME Init, NEW i \in Ips
             PROVE  counts_[i] = Cardinality(Holders(i)) /\ counts_[i] <= max_per_ip_
  BY DEF SlotInv
<1>1. Holders(i) = {}
  BY ThreadFacts DEF Init, Holders, HoldsSlot
<1>. QED
  BY <1>1, FS_EmptySet, AdmissionAssumption DEF Init

\* Unless EPOLL_CTL_ADD fails, PerIpConnectionLimiter counts for every address
\* exactly the connections that hold a slot, and never more than max_per_ip_:
\* no slot leaks and none is given back twice, whichever thread removes.
THEOREM SlotsAreExact ==
    ASSUME EpollAddMayFail = FALSE
    PROVE  Spec => []PerIpExact
<1>1. IndInv /\ SockInv /\ SlotInv /\ [Next]_vars => SlotInv'
  BY SlotStep
<1>2. ASSUME IndInv, SockInv, SlotInv PROVE PerIpExact
  <2>1. \A i \in Ips : {c \in SlotHolders : IpOf[c] = i} = Holders(i)
    BY <1>2, SlotHoldersAre DEF Holders
  <2>. QED
    BY <1>2, <2>1 DEF SlotInv, PerIpExact
<1>. QED
  BY <1>1, <1>2, SockAlways, InitSlots, PTL DEF Spec

-----------------------------------------------------------------------------
(* The accept queue *)

\* With a descriptor for every client, accept() finds a free one whenever a
\* client waits: open descriptors belong to distinct clients that do not wait.
LEMMA EnoughFds ==
    ASSUME FdLimit >= Cardinality(Conns), IndInv, backlog # {}
    PROVE  FreeFds # {}
<1> SUFFICES ASSUME FreeFds = {} PROVE FALSE
  OBVIOUS
<1>1. PICK c \in Conns : c \in backlog /\ fdOf[c] = 0
  BY DEF IndInv, TypeOK, FdInv
<1>2. \A f \in Fds : sock[f] \in Conns \ {c} /\ fdOf[sock[f]] = f
  BY <1>1, ThreadFacts DEF FreeFds, IndInv, TypeOK, FdInv
<1>3. sock \in Injection(Fds, Conns \ {c})
  BY <1>2 DEF Injection, IsInjective, IndInv, TypeOK
<1>4. /\ IsFiniteSet(Conns \ {c})
      /\ Cardinality(Conns \ {c}) = Cardinality(Conns) - 1 /\ Cardinality(Conns) \in Nat
  BY AdmissionAssumption, FS_RemoveElement, FS_CardinalityType
<1>5. Cardinality(Fds) <= Cardinality(Conns) - 1
  BY <1>3, <1>4, FS_Injection
<1>6. Cardinality(Fds) = FdLimit
  BY AdmissionAssumption, FS_Interval DEF Fds
<1>. QED
  BY <1>4, <1>5, <1>6, AdmissionAssumption

\* Places from which a thread looks at the accept queue before it returns.
LooksAgain == AcceptPCs \cup {"rmLock", "rmAccept"}

LEMMA BacklogStep ==
    ASSUME FdLimit >= Cardinality(Conns), IndInv, BacklogInv, [Next]_vars
    PROVE  BacklogInv'
<1> DEFINE Waiting == running /\ ~edge /\ backlog # {} /\ HasCapacity
<1>a. pc \in [Threads -> PCs]
  BY DEF IndInv, TypeOK
<1>b. BacklogInv' <=> /\ running' => listening'
                      /\ Waiting' => \E t \in Threads : pc'[t] \in LooksAgain
  BY DEF BacklogInv, LooksAgain
<1>c. (running => listening) /\ (Waiting => \E t \in Threads : pc[t] \in LooksAgain)
  BY DEF BacklogInv, LooksAgain
<1> USE DEF Goto, kernelVars, fdVars, tableVars, limitVars, poolVars, threadVars,
            mainVars
<1>1. ASSUME NEW t \in Threads, NEW l, Goto(t, l), l \in LooksAgain,
             UNCHANGED <<running, listening>>
      PROVE  BacklogInv'
  BY <1>a, <1>b, <1>c, <1>1
<1>2. ASSUME NEW t \in Threads, NEW l, Goto(t, l), pc[t] \notin LooksAgain,
             UNCHANGED <<running, listening, edge, backlog, active_connections>>
      PROVE  BacklogInv'
  BY <1>a, <1>b, <1>c, <1>2 DEF HasCapacity
<1>3. ASSUME NEW t \in Threads, NEW l, Goto(t, l), ~Waiting,
             UNCHANGED <<running, listening, edge, backlog, active_connections>>
      PROVE  BacklogInv'
  BY <1>b, <1>c, <1>3 DEF HasCapacity
<1> USE DEF LooksAgain, AcceptPCs, NewPCs, FreshPCs, UndoPCs
<1>4. ASSUME NEW t \in Threads, HandleAccept(t) PROVE BacklogInv'
  <2>1. CASE AcceptLoop(t)
    <3>1. CASE running /\ HasCapacity
      BY <1>1, <2>1, <3>1 DEF AcceptLoop
    <3>2. CASE ~(running /\ HasCapacity)
      BY <1>3, <2>1, <3>2 DEF AcceptLoop, AcceptReturns
    <3>. QED
      BY <3>1, <3>2
  <2>2. CASE AcceptFails(t)
    BY <1>3, <1>c, <2>2, EnoughFds DEF AcceptFails, AcceptReturns
  <2>3. CASE AcceptCall(t) \/ AcceptTransient(t) \/ Reject(t) \/ Insert(t) \/ EpollAdd(t)
    BY <1>1, <2>3 DEF AcceptCall, AcceptTransient, Reject, Insert, EpollAdd
  <2>4. CASE TryAcquire(t)
    BY <1>1, <2>4 DEF TryAcquire
  <2>5. CASE Count(t) \/ EpollAddFails(t) \/ UndoErase(t) \/ UndoClose(t) \/ UndoDrop(t)
    BY <1>1, <2>5 DEF Count, EpollAddFails, UndoErase, UndoClose, UndoDrop
  <2>. QED
    BY <1>4, <2>1, <2>2, <2>3, <2>4, <2>5 DEF HandleAccept
<1>5. ASSUME NEW t \in Threads, RemoveConnection(t) PROVE BacklogInv'
  <2>1. CASE RmAbsent(t) \/ RmFind(t) \/ RmRelease(t) \/ RmDrop(t)
    BY <1>2, <2>1 DEF RmAbsent, RmFind, RmRelease, RmDrop, RemoveReturns
  <2>2. CASE RmCount(t) \/ RmLock(t)
    BY <1>1, <2>2 DEF RmCount, RmLock
  <2>3. CASE RmAccept(t)
    <3>1. CASE Reaccept
      BY <1>1, <2>3, <3>1 DEF RmAccept
    <3>2. CASE ~Reaccept
      BY <1>3, <1>c, <2>3, <3>2 DEF RmAccept, Reaccept
    <3>. QED
      BY <3>1, <3>2
  <2>. QED
    BY <1>5, <2>1, <2>2, <2>3 DEF RemoveConnection
<1>6. ASSUME NEW w \in Workers,
             \/ TakeTask(w) \/ FindAgain(w) \/ TaskLocks(w) \/ TaskKeeps(w)
             \/ TaskResubmits(w) \/ Resubmit(w) \/ TaskRemoves(w)
      PROVE  BacklogInv'
  <2>1. CASE TakeTask(w)
    <3>1. CASE Head(queue).conn = None
      BY <1>2, <2>1, <3>1, ThreadFacts DEF TakeTask
    <3>2. CASE Head(queue).conn # None
      BY <1>2, <2>1, <3>2, ThreadFacts DEF TakeTask
    <3>. QED
      BY <3>1, <3>2
  <2>2. CASE FindAgain(w)
    <3>1. CASE running /\ target[w].fd \in Mapped
      BY <1>2, <2>2, <3>1, ThreadFacts DEF FindAgain
    <3>2. CASE ~(running /\ target[w].fd \in Mapped)
      BY <1>2, <2>2, <3>2, ThreadFacts DEF FindAgain
    <3>. QED
      BY <3>1, <3>2
  <2>3. CASE TaskLocks(w) \/ TaskResubmits(w) \/ TaskRemoves(w)
    BY <1>2, <2>3, ThreadFacts DEF TaskLocks, TaskResubmits, TaskRemoves
  <2>4. CASE TaskKeeps(w) \/ Resubmit(w)
    BY <1>2, <2>4, ThreadFacts DEF TaskKeeps, Resubmit, TaskEnds
  <2>. QED
    BY <1>6, <2>1, <2>2, <2>3, <2>4
<1>7. CASE ListenerEvent
  <2>1. CASE running
    BY <1>1, <1>7, <2>1, ThreadFacts DEF ListenerEvent
  <2>2. CASE ~running
    BY <1>b, <1>7, <2>2 DEF ListenerEvent
  <2>. QED
    BY <2>1, <2>2
<1>8. CASE RemoveNext
  BY <1>2, <1>8, ThreadFacts DEF RemoveNext
<1>9. CASE CloseListener \/ Stop \/ \E c \in Conns : Connect(c)
  BY <1>b, <1>c, <1>9 DEF CloseListener, Stop, Connect
<1>10. CASE HangupEvents \/ SweepLooks \/ UNCHANGED vars
  BY <1>b, <1>c, <1>10 DEF HangupEvents, SweepLooks, vars, HasCapacity
<1>11. CASE SweepBegins \/ SweepEnds \/ ClientEvent
  BY <1>2, <1>11, ThreadFacts DEF SweepBegins, SweepEnds, ClientEvent
<1>12. ASSUME NEW t \in Threads, Submit(t) PROVE BacklogInv'
  BY <1>2, <1>12 DEF Submit
<1>. QED
  BY <1>4, <1>5, <1>6, <1>7, <1>8, <1>9, <1>10, <1>11, <1>12, ThreadFacts
     DEF Next, MainProceeds, WorkerProceeds, Proceeds

\* With a descriptor for every client, clients are never left in the accept
\* queue below the cap when all threads are quiet, although the listening
\* socket is edge-triggered: whoever frees a slot looks at the queue again.
\* This does not depend on EPOLL_CTL_ADD.
THEOREM BacklogIsNeverStranded ==
    ASSUME FdLimit >= Cardinality(Conns)
    PROVE  Spec => []NoStrandedBacklog
<1>1. IndInv /\ BacklogInv /\ [Next]_vars => BacklogInv'
  BY BacklogStep
<1>2. Init => BacklogInv
  BY DEF Init, BacklogInv
<1>3. BacklogInv => NoStrandedBacklog
  BY DEF BacklogInv, NoStrandedBacklog, QuietPCs, AcceptPCs, NewPCs, FreshPCs, UndoPCs
<1>. QED
  BY <1>1, <1>2, <1>3, InvAlways, PTL DEF Spec
=============================================================================
