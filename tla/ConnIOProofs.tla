---------------------------- MODULE ConnIOProofs ----------------------------
(***************************************************************************)
(* Proofs about ConnIO for any number of workers, any requests, sizes and  *)
(* limits.                                                                 *)
(***************************************************************************)
EXTENDS ConnIO, SequenceTheorems, TLAPS

MainPCs == {"idle", "dispatchRead", "dispatchWrite", "remove", "unregister"}

\* Where threads can be, that a removed connection stays removed, and that the
\* units send() took are pending only inside flush().
ThreadInv ==
    /\ pc[Main] \in MainPCs
    /\ \A w \in Workers : pc[w] \notin {"dispatchRead", "dispatchWrite"}
    /\ \A w \in Workers : loc[w].taken > 0 => pc[w] \in Flushing
    /\ \A t \in Threads : pc[t] = "unregister" => ~mapped
    /\ mapped => registered

IndInv == TypeOK /\ ThreadInv

-----------------------------------------------------------------------------
(* The order of what is sent *)

\* Units send() has accepted that are still at the front of write_buffer.
Pending == IF mutex \in Workers THEN loc[mutex].taken ELSE 0

\* What was sent, followed by what is to be sent.
Stream == wire \o SubSeq(write_buffer, Pending + 1, Len(write_buffer))

\* One answer after the other, each complete and in the order of the requests.
Ordered(s) ==
    /\ s # <<>> => s[1].req = 1
    /\ \A k \in 1 .. Len(s) - 1 :
          s[k + 1].req = IF s[k].left > 0 THEN s[k].req ELSE s[k].req + 1
    /\ \A k \in 1 .. Len(s) - 1 : s[k].left > 0 => s[k + 1].left = s[k].left - 1

\* The same, but a request may be answered more than once: a parser that was not
\* reset after a 400 or a 429 yields its request again.
Whole(s) ==
    /\ s # <<>> => s[1].req = 1
    /\ \A k \in 1 .. Len(s) - 1 :
          \/ s[k].left > 0 /\ s[k + 1].req = s[k].req /\ s[k + 1].left = s[k].left - 1
          \/ s[k].left = 0 /\ s[k + 1].req \in {s[k].req, s[k].req + 1}

\* The last answer of a stream is complete, and is that of a request of R.
EndsWith(s, R) ==
    IF s = <<>> THEN 0 \in R ELSE s[Len(s)].left = 0 /\ s[Len(s)].req \in R

StreamInv ==
    /\ Pending <= Len(write_buffer)
    /\ Whole(Stream) /\ EndsWith(Stream, {parsed, parsed + 1})
    /\ ~rejected => Ordered(Stream) /\ EndsWith(Stream, {parsed})

-----------------------------------------------------------------------------
(* What is always attended to *)

HasTask(q, tasks) == \E k \in 1 .. Len(q) : q[k] \in tasks

\* Labels of a worker that will re-arm the descriptor or remove the connection.
Attending == Labels \ {"idle", "again", "unregister", "dispatchRead", "dispatchWrite"}

\* Whoever disarmed the descriptor has handed it on to someone.
ArmedInv ==
    mapped /\ running /\ armed = {} =>
        \/ HasTask(queue, {"read", "write"})
        \/ \E w \in Workers : pc[w] \in Attending
        \/ pc[Main] = "remove"
        \/ pc[Main] = "dispatchRead" /\ evs \cap {"IN", "OUT"} # {}
        \/ pc[Main] = "dispatchWrite" /\ "OUT" \in evs

\* Labels after the decision to take the connection down.
Closing == {"flushError", "dropError", "remove"}

\* A parser that was not reset belongs to a connection that is being taken down.
StuckInv == stuck # "no" /\ mapped => \E t \in Threads : pc[t] \in Closing

\* A worker that will parse what read_buffer holds, or will close.
WillParse(w) ==
    \/ pc[w] \in {"again", "lockRead", "recv", "parse"} \cup Closing
    \/ pc[w] = "flush" /\ (loc[w].closing \/ loc[w].more)
    \/ pc[w] = "rearm" /\ (loc[w].closing \/ loc[w].more \/ loc[w].error)

ParseInv ==
    mapped /\ running /\ ~close_after_write_flag /\ Complete =>
        \/ HasTask(queue, {"read", "again"})
        \/ \E w \in Workers : WillParse(w)
        \/ pc[Main] = "remove"

-----------------------------------------------------------------------------
(* Facts about the operators *)

LEMMA ThreadFacts ==
    /\ Threads = Workers \cup {Main} /\ Main \notin Workers
    /\ Nobody \notin Threads /\ Nobody \notin Workers
BY ConnIOAssumption DEF Threads

\* Min() of two numbers is the smaller one.
LEMMA MinOfTwo ==
    ASSUME NEW a \in Int, NEW b \in Int
    PROVE  Min({a, b}) = IF a <= b THEN a ELSE b
<1> DEFINE m == IF a <= b THEN a ELSE b
<1>1. m \in {a, b} /\ \A y \in {a, b} : m <= y
  OBVIOUS
<1>2. \A x \in {a, b} : (\A y \in {a, b} : x <= y) => x = m
  OBVIOUS
<1> HIDE DEF m
<1>3. Min({a, b}) = m
  BY <1>1, <1>2 DEF Min
<1>. QED
  BY <1>3 DEF m

\* Multiplying by the size of a request keeps the order.
LEMMA TimesParts ==
    ASSUME NEW a \in Nat, NEW b \in Nat
    PROVE  a * Parts \in Nat /\ b * Parts \in Nat /\ (a * Parts <= b * Parts => a <= b)
<1>1. Parts \in Nat /\ Parts > 0
  BY ConnIOAssumption
<1>2. a * Parts \in Nat /\ b * Parts \in Nat
  BY <1>1
<1>3. ASSUME a > b PROVE a * Parts > b * Parts
  <2>1. a * Parts = b * Parts + (a - b) * Parts
    BY <1>1
  <2>2. (a - b) * Parts >= Parts
    BY <1>1, <1>3
  <2>. QED
    BY <1>1, <1>2, <2>1, <2>2
<1>. QED
  BY <1>1, <1>2, <1>3

\* An answer is a sequence of units of one request that counts down to 0.
LEMMA AnswerIs ==
    ASSUME NEW r \in Requests, NEW n \in Nat \ {0}
    PROVE  /\ Answer(r, n) \in Seq(Units)
           /\ Len(Answer(r, n)) = n
           /\ \A k \in 1 .. n : Answer(r, n)[k] = [req |-> r, left |-> n - k]
<1>1. Answer(r, n) \in [1 .. n -> Units]
  BY DEF Answer, Units
<1>2. Answer(r, n) \in Seq(Units) /\ Len(Answer(r, n)) = n
  BY <1>1
<1>. QED
  BY <1>2 DEF Answer

\* A request the parser finishes is one of the client's.
LEMMA ParseableIsRequest ==
    ASSUME IndInv, Parseable
    PROVE  /\ parsed + 1 \in Requests /\ parsed + 1 \in 0 .. MaxRequests
           /\ (parsed + 1) * Parts <= received
<1>1. /\ parsed \in Nat /\ received \in Nat /\ MaxRequests \in Nat
      /\ received <= MaxRequests * Parts
      /\ sent \in Nat
  BY ConnIOAssumption, TimesParts DEF IndInv, TypeOK, SocketOK, ConnectionOK
<1>2. (parsed + 1) * Parts \in Nat
  BY <1>1, TimesParts
<1>3. (parsed + 1) * Parts <= received
  BY <1>1, <1>2 DEF Parseable, Complete
<1>4. (parsed + 1) * Parts <= MaxRequests * Parts
  BY <1>1, <1>2, <1>3, TimesParts
<1>5. parsed + 1 <= MaxRequests
  BY <1>1, <1>4, TimesParts
<1>. QED
  BY <1>1, <1>3, <1>5 DEF Requests

\* What an assignment to local variables changes.
LEMMA CountField ==
    ASSUME NEW x \in Locals
    PROVE  LET y == [x EXCEPT !.count = @ + 1] IN
           /\ y \in Locals /\ y.closing = x.closing /\ y.more = x.more /\ y.taken = x.taken
           /\ y.error = x.error /\ y.flushed = x.flushed /\ y.count = x.count + 1
BY DEF Locals

LEMMA ClosingField ==
    ASSUME NEW x \in Locals, NEW b \in BOOLEAN
    PROVE  LET y == [x EXCEPT !.closing = b] IN
           /\ y \in Locals /\ y.closing = b /\ y.more = x.more /\ y.taken = x.taken
           /\ y.error = x.error /\ y.flushed = x.flushed /\ y.count = x.count
BY DEF Locals

LEMMA MoreField ==
    ASSUME NEW x \in Locals, NEW b \in BOOLEAN
    PROVE  LET y == [x EXCEPT !.more = b] IN
           /\ y \in Locals /\ y.closing = x.closing /\ y.more = b /\ y.taken = x.taken
           /\ y.error = x.error /\ y.flushed = x.flushed /\ y.count = x.count
BY DEF Locals

LEMMA FlushedField ==
    ASSUME NEW x \in Locals, NEW b \in BOOLEAN
    PROVE  LET y == [x EXCEPT !.flushed = b] IN
           /\ y \in Locals /\ y.closing = x.closing /\ y.more = x.more /\ y.taken = x.taken
           /\ y.error = x.error /\ y.flushed = b
BY DEF Locals

LEMMA ErrorField ==
    ASSUME NEW x \in Locals, NEW b \in BOOLEAN
    PROVE  LET y == [x EXCEPT !.error = b] IN
           /\ y \in Locals /\ y.closing = x.closing /\ y.more = x.more /\ y.taken = x.taken
           /\ y.error = b /\ y.flushed = x.flushed
BY DEF Locals

LEMMA TakenField ==
    ASSUME NEW x \in Locals, NEW n \in Nat
    PROVE  LET y == [x EXCEPT !.taken = n] IN
           /\ y \in Locals /\ y.closing = x.closing /\ y.more = x.more /\ y.taken = n
           /\ y.error = x.error /\ y.flushed = x.flushed
BY DEF Locals

\* An answering step: what it does to the task that takes it.
LEMMA AnsweringStep ==
    ASSUME IndInv, NEW w \in Workers, ParseAnswers(w)
    PROVE  \E x \in Locals :
              /\ Parseable
              /\ Commits(x.closing)
              /\ loc' = [loc EXCEPT ![w] = x] /\ x.taken = loc[w].taken
              /\ x.count = loc[w].count + 1 /\ (x.more => x.count > ParseLimit)
              /\ pc[w] = "parse"
              /\ pc' = [pc EXCEPT ![w] = IF x.closing \/ x.more THEN "flush" ELSE "parse"]
<1>1. PICK kind \in Kinds \cap {"keep", "close"} :
          LET closing == kind = "close"
              more    == ~closing /\ loc[w].count + 1 > ParseLimit
          IN
          /\ Parses(kind)
          /\ Commits(closing)
          /\ loc' = [loc EXCEPT ![w].count = @ + 1, ![w].closing = closing, ![w].more = more]
          /\ Goto(w, IF closing \/ more THEN "flush" ELSE "parse")
  BY DEF ParseAnswers
<1> DEFINE closing == kind = "close"
           more    == ~closing /\ loc[w].count + 1 > ParseLimit
           x1 == [loc[w] EXCEPT !.count = @ + 1]
           x2 == [x1 EXCEPT !.closing = closing]
           x  == [x2 EXCEPT !.more = more]
<1>2. /\ Parseable /\ Commits(closing)
      /\ loc' = [loc EXCEPT ![w] = x]
      /\ pc' = [pc EXCEPT ![w] = IF closing \/ more THEN "flush" ELSE "parse"]
  BY <1>1 DEF Parses, Goto
<1>3. loc[w] \in Locals
  BY DEF IndInv, TypeOK, TasksOK
<1>4. x1 \in Locals /\ x1.taken = loc[w].taken /\ x1.count = loc[w].count + 1
  BY <1>3, CountField
<1>5. closing \in BOOLEAN /\ more \in BOOLEAN /\ (more => loc[w].count + 1 > ParseLimit)
  OBVIOUS
<1> HIDE DEF x1, closing, more
<1>6. x2 \in Locals /\ x2.closing = closing /\ x2.taken = x1.taken /\ x2.count = x1.count
  BY <1>4, <1>5, ClosingField
<1> HIDE DEF x2
<1>7. /\ x \in Locals /\ x.closing = closing /\ x.more = more /\ x.taken = x2.taken
      /\ x.count = x2.count
  BY <1>5, <1>6, MoreField
<1> HIDE DEF x
<1>8. pc[w] = "parse"
  BY DEF ParseAnswers
<1>. QED
  BY <1>2, <1>4, <1>5, <1>6, <1>7, <1>8

\* send() takes at least one unit and no more than there are.
LEMMA SendStep ==
    ASSUME IndInv, NEW w \in Workers, Send(w)
    PROVE  \E x \in Locals :
              /\ x.taken \in 1 .. Len(write_buffer)
              /\ wire' = wire \o SubSeq(write_buffer, 1, x.taken)
              /\ loc' = [loc EXCEPT ![w] = x]
              /\ x.closing = loc[w].closing /\ x.more = loc[w].more
<1> DEFINE n == Min({Room, Len(write_buffer)})
           x == [loc[w] EXCEPT !.taken = n]
<1>1. Room \in Int /\ Room > 0
  <2>1. SockBuf \in Nat /\ Len(wire) \in Nat /\ clientRead \in Nat
    BY ConnIOAssumption DEF IndInv, TypeOK, SocketOK
  <2>. QED
    BY <2>1 DEF Send, Room
<1>2. Len(write_buffer) \in Nat /\ Len(write_buffer) > 0
  <2>1. write_buffer \in Seq(Units) /\ write_buffer # <<>>
    BY DEF Send, IndInv, TypeOK, ConnectionOK
  <2>. QED
    BY <2>1
<1>3. n \in 1 .. Len(write_buffer)
  BY <1>1, <1>2, MinOfTwo
<1>4. wire' = wire \o SubSeq(write_buffer, 1, n) /\ loc' = [loc EXCEPT ![w] = x]
  BY DEF Send
<1>5. loc[w] \in Locals
  BY DEF IndInv, TypeOK, TasksOK
<1>6. n \in Nat
  BY <1>3
<1> HIDE DEF n
<1>7. /\ x \in Locals /\ x.taken = n
      /\ x.closing = loc[w].closing /\ x.more = loc[w].more
  BY <1>5, <1>6, TakenField
<1> HIDE DEF x
<1>. QED
  BY <1>3, <1>4, <1>7

\* What was sent is erased.
LEMMA EraseStep ==
    ASSUME IndInv, NEW w \in Workers, EraseSent(w)
    PROVE  \E x \in Locals :
              /\ loc' = [loc EXCEPT ![w] = x] /\ x.taken = 0
              /\ x.closing = loc[w].closing /\ x.more = loc[w].more
<1> DEFINE x == [loc[w] EXCEPT !.taken = 0]
<1>1. loc[w] \in Locals
  BY DEF IndInv, TypeOK, TasksOK
<1>2. /\ x \in Locals /\ x.taken = 0
      /\ x.closing = loc[w].closing /\ x.more = loc[w].more
  BY <1>1, TakenField
<1>3. loc' = [loc EXCEPT ![w] = x]
  BY DEF EraseSent
<1> HIDE DEF x
<1>. QED
  BY <1>2, <1>3

\* flush() returns to where it was called from.
LEMMA FlushStep ==
    ASSUME IndInv, NEW w \in Workers, FlushReturns(w)
    PROVE  \E x \in Locals :
              /\ loc' = [loc EXCEPT ![w] = x] /\ x.taken = 0 /\ loc[w].taken = 0
              /\ x.closing = loc[w].closing /\ x.more = loc[w].more
              /\ x.flushed = (write_buffer = <<>>)
              /\ pc[w] \in Flushing
              /\ pc' = [pc EXCEPT ![w] = AfterFlush[pc[w]]]
              /\ AfterFlush[pc[w]] \in {"rearm", "dropError", "unlock"}
<1> DEFINE b == write_buffer = <<>>
           e == write_buffer # <<>> /\ hangup = "rst"
           y == [loc[w] EXCEPT !.flushed = b]
           x == [y EXCEPT !.error = e]
<1>1. loc[w] \in Locals
  BY DEF IndInv, TypeOK, TasksOK
<1>2. b \in BOOLEAN /\ e \in BOOLEAN
  OBVIOUS
<1>3. loc' = [loc EXCEPT ![w] = x] /\ loc[w].taken = 0
  BY DEF FlushReturns
<1> HIDE DEF b, e
<1>4. /\ x \in Locals /\ x.taken = loc[w].taken /\ x.flushed = b
      /\ x.closing = loc[w].closing /\ x.more = loc[w].more
  <2>1. /\ y \in Locals /\ y.taken = loc[w].taken /\ y.flushed = b
        /\ y.closing = loc[w].closing /\ y.more = loc[w].more
    BY <1>1, <1>2, FlushedField
  <2> HIDE DEF y
  <2>. QED
    BY <1>2, <2>1, ErrorField
<1>5. pc[w] \in Flushing /\ pc' = [pc EXCEPT ![w] = AfterFlush[pc[w]]]
  BY DEF FlushReturns, Goto
<1>6. AfterFlush[pc[w]] \in {"rearm", "dropError", "unlock"}
  BY <1>5 DEF Flushing, AfterFlush
<1> HIDE DEF x
<1>. QED
  BY <1>3, <1>4, <1>5, <1>6 DEF b

\* A write task notes whether it is to close.
LEMMA UnlockStep ==
    ASSUME IndInv, NEW w \in Workers, WriteUnlocks(w)
    PROVE  \E x \in Locals :
              /\ loc' = [loc EXCEPT ![w] = x] /\ x.taken = loc[w].taken
              /\ x.closing = ClosesNow(w) /\ x.more = loc[w].more /\ x.flushed = loc[w].flushed
              /\ pc[w] = "unlock" /\ pc' = [pc EXCEPT ![w] = "decide"] /\ mutex' = Nobody
<1> DEFINE b == ClosesNow(w)
           x == [loc[w] EXCEPT !.closing = b]
<1>1. loc[w] \in Locals
  BY DEF IndInv, TypeOK, TasksOK
<1>2. b \in BOOLEAN
  BY DEF ClosesNow
<1>3. loc' = [loc EXCEPT ![w] = x]
  BY DEF WriteUnlocks
<1> HIDE DEF b
<1>4. /\ x \in Locals /\ x.taken = loc[w].taken
      /\ x.closing = b /\ x.more = loc[w].more /\ x.flushed = loc[w].flushed
  BY <1>1, <1>2, ClosingField
<1> HIDE DEF x
<1>5. pc[w] = "unlock" /\ pc' = [pc EXCEPT ![w] = "decide"] /\ mutex' = Nobody
  BY DEF WriteUnlocks, Leave, Goto
<1>. QED
  BY <1>3, <1>4, <1>5 DEF b

-----------------------------------------------------------------------------
(* Every step keeps the invariant *)

\* The client, the clock and stop().
LEMMA ClientKeepsInv ==
    ASSUME IndInv, Client \/ Tick \/ Stop
    PROVE  IndInv'
<1> USE DEF IndInv, TypeOK, Goto, clientVars, epollVars, connVars, observerVars
<1>1. CASE ClientSends
  <2>1. SocketOK'
    BY <1>1, ConnIOAssumption DEF ClientSends, SocketOK
  <2>2. ConnectionOK' /\ TasksOK' /\ MutexOK' /\ ThreadInv'
    BY <1>1 DEF ClientSends, ConnectionOK, TasksOK, MutexOK, ThreadInv
  <2>. QED
    BY <2>1, <2>2
<1>2. CASE ClientReads
  <2>1. SocketOK'
    BY <1>2 DEF ClientReads, SocketOK
  <2>2. ConnectionOK' /\ TasksOK' /\ MutexOK' /\ ThreadInv'
    BY <1>2 DEF ClientReads, ConnectionOK, TasksOK, MutexOK, ThreadInv
  <2>. QED
    BY <2>1, <2>2
<1>3. CASE ClientLeaves
  <2>1. SocketOK'
    BY <1>3, ConnIOAssumption DEF ClientLeaves, SocketOK
  <2>2. ConnectionOK' /\ TasksOK' /\ MutexOK' /\ ThreadInv'
    BY <1>3 DEF ClientLeaves, ConnectionOK, TasksOK, MutexOK, ThreadInv
  <2>. QED
    BY <2>1, <2>2
<1>4. CASE Tick
  <2>1. SocketOK'
    BY <1>4, ConnIOAssumption DEF Tick, SocketOK
  <2>2. ConnectionOK'
    BY <1>4 DEF Tick, ConnectionOK, SocketOK
  <2>3. TasksOK' /\ MutexOK' /\ ThreadInv'
    BY <1>4 DEF Tick, TasksOK, MutexOK, ThreadInv
  <2>. QED
    BY <2>1, <2>2, <2>3
<1>5. CASE Stop
  <2>1. SocketOK'
    BY <1>5 DEF Stop, SocketOK
  <2>2. ConnectionOK' /\ TasksOK' /\ MutexOK' /\ ThreadInv'
    BY <1>5 DEF Stop, ConnectionOK, TasksOK, MutexOK, ThreadInv
  <2>. QED
    BY <2>1, <2>2
<1>. QED
  BY <1>1, <1>2, <1>3, <1>4, <1>5 DEF Client

\* The event loop, but for removals.
LEMMA LoopKeepsInv ==
    ASSUME IndInv, EpollWait \/ DispatchRead \/ DispatchWrite \/ SweepFindsIdle
    PROVE  IndInv'
<1> USE DEF IndInv, TypeOK, Goto, clientVars, epollVars, connVars, observerVars
<1>1. CASE EpollWait
  <2>1. SocketOK'
    BY <1>1 DEF EpollWait, SocketOK
  <2>2. TasksOK'
    BY <1>1 DEF EpollWait, Readiness, TasksOK
  <2>3. MutexOK'
    BY <1>1, ThreadFacts DEF EpollWait, MutexOK, Labels, InMutex
  <2>4. ThreadInv'
    BY <1>1, ThreadFacts DEF EpollWait, ThreadInv, MutexOK, MainPCs, Flushing
  <2>5. ConnectionOK'
    BY <1>1 DEF EpollWait, ConnectionOK
  <2>. QED
    BY <2>1, <2>2, <2>3, <2>4, <2>5
<1>2. CASE DispatchRead
  <2>1. TasksOK'
    BY <1>2 DEF DispatchRead, HandleClientRead, TasksOK
  <2>2. MutexOK'
    BY <1>2, ThreadFacts DEF DispatchRead, MutexOK, Labels, InMutex
  <2>3. ThreadInv'
    BY <1>2, ThreadFacts DEF DispatchRead, ThreadInv, MutexOK, MainPCs, Flushing
  <2>4. SocketOK' /\ ConnectionOK'
    BY <1>2 DEF DispatchRead, SocketOK, ConnectionOK
  <2>. QED
    BY <2>1, <2>2, <2>3, <2>4
<1>3. CASE DispatchWrite
  <2>1. TasksOK'
    BY <1>3 DEF DispatchWrite, TasksOK
  <2>2. MutexOK'
    BY <1>3, ThreadFacts DEF DispatchWrite, MutexOK, Labels, InMutex
  <2>3. ThreadInv'
    BY <1>3, ThreadFacts DEF DispatchWrite, ThreadInv, MutexOK, MainPCs, Flushing
  <2>4. SocketOK' /\ ConnectionOK'
    BY <1>3 DEF DispatchWrite, SocketOK, ConnectionOK
  <2>. QED
    BY <2>1, <2>2, <2>3, <2>4
<1>4. CASE SweepFindsIdle
  <2>1. MutexOK'
    BY <1>4, ThreadFacts DEF SweepFindsIdle, MutexOK, Labels, InMutex
  <2>2. ThreadInv'
    BY <1>4, ThreadFacts DEF SweepFindsIdle, ThreadInv, MutexOK, MainPCs, Flushing
  <2>3. SocketOK' /\ ConnectionOK' /\ TasksOK'
    BY <1>4 DEF SweepFindsIdle, SocketOK, ConnectionOK, TasksOK
  <2>. QED
    BY <2>1, <2>2, <2>3
<1>. QED
  BY <1>1, <1>2, <1>3, <1>4

\* remove_connection, by any thread.
LEMMA RemovalKeepsInv ==
    ASSUME IndInv, NEW w \in Threads, RemoveConnection(w) \/ Unregister(w)
    PROVE  IndInv'
<1> USE DEF IndInv, TypeOK, Goto, clientVars, epollVars, connVars, observerVars
<1>1. CASE RemoveConnection(w)
  <2>1. ConnectionOK'
    BY <1>1 DEF RemoveConnection, ConnectionOK, SocketOK
  <2>2. TasksOK'
    BY <1>1 DEF RemoveConnection, TasksOK
  <2>3. MutexOK'
    BY <1>1, ThreadFacts DEF RemoveConnection, MutexOK, Labels, InMutex
  <2>4. ThreadInv'
    BY <1>1, ThreadFacts DEF RemoveConnection, ThreadInv, MutexOK, MainPCs, Flushing
  <2>5. SocketOK'
    BY <1>1 DEF RemoveConnection, SocketOK
  <2>. QED
    BY <2>1, <2>2, <2>3, <2>4, <2>5
<1>2. CASE Unregister(w)
  <2>1. SocketOK'
    BY <1>2 DEF Unregister, SocketOK
  <2>2. MutexOK'
    BY <1>2, ThreadFacts DEF Unregister, MutexOK, Labels, InMutex
  <2>3. ThreadInv'
    BY <1>2, ThreadFacts DEF Unregister, ThreadInv, MutexOK, MainPCs, Flushing
  <2>4. ConnectionOK' /\ TasksOK'
    BY <1>2 DEF Unregister, ConnectionOK, TasksOK
  <2>. QED
    BY <2>1, <2>2, <2>3, <2>4
<1>. QED
  BY <1>1, <1>2

\* Taking a task, and a read task outside flush().
LEMMA ReadTaskKeepsInv ==
    ASSUME IndInv, NEW w \in Workers, TakeTask(w) \/ ReadAgain(w) \/ Lock(w) \/ ReadTask(w)
    PROVE  IndInv'
<1> USE DEF IndInv, TypeOK, Goto, clientVars, epollVars, connVars, observerVars
<1>1. CASE TakeTask(w)
  <2>1. /\ Head(queue) \in {"read", "write", "again"}
        /\ Tail(queue) \in Seq({"read", "write", "again"})
    BY <1>1 DEF TakeTask, TasksOK
  <2>2. /\ pc[w] = "idle"
        /\ \E l \in {"lockRead", "lockWrite", "again"} : pc' = [pc EXCEPT ![w] = l]
    BY <1>1, <2>1 DEF TakeTask
  <2>3. NoLocals \in Locals /\ NoLocals.taken = 0
    BY DEF NoLocals, Locals
  <2>4. TasksOK'
    BY <1>1, <2>1, <2>3 DEF TakeTask, TasksOK
  <2>5. MutexOK'
    BY <1>1, <2>2, ThreadFacts DEF TakeTask, MutexOK, Labels, InMutex
  <2>6. ThreadInv'
    BY <1>1, <2>2, <2>3, ThreadFacts
       DEF TakeTask, TasksOK, ThreadInv, MutexOK, MainPCs, Flushing
  <2>7. SocketOK' /\ ConnectionOK'
    BY <1>1 DEF TakeTask, SocketOK, ConnectionOK
  <2>. QED
    BY <2>4, <2>5, <2>6, <2>7
<1>2. CASE ReadAgain(w)
  <2>1. TasksOK'
    BY <1>2 DEF ReadAgain, HandleClientRead, TasksOK
  <2>2. MutexOK'
    BY <1>2, ThreadFacts DEF ReadAgain, MutexOK, Labels, InMutex
  <2>3. ThreadInv'
    BY <1>2, ThreadFacts DEF ReadAgain, ThreadInv, MutexOK, MainPCs, Flushing
  <2>4. SocketOK' /\ ConnectionOK'
    BY <1>2 DEF ReadAgain, SocketOK, ConnectionOK
  <2>. QED
    BY <2>1, <2>2, <2>3, <2>4
<1>3. CASE Lock(w)
  <2>1. MutexOK'
    BY <1>3, ThreadFacts DEF Lock, MayLock, MutexOK, Labels, InMutex
  <2>2. ThreadInv'
    BY <1>3, ThreadFacts DEF Lock, ThreadInv, MutexOK, MainPCs, Flushing
  <2>3. SocketOK' /\ ConnectionOK' /\ TasksOK'
    BY <1>3 DEF Lock, SocketOK, ConnectionOK, TasksOK
  <2>. QED
    BY <2>1, <2>2, <2>3
<1>4. CASE RecvData(w)
  <2>1. parsed * Parts <= received' /\ received' \in Nat
    <3>1. received' \in Nat /\ received' >= received /\ parsed' = parsed
      BY <1>4 DEF RecvData, SocketOK
    <3>2. parsed * Parts \in Nat
      BY TimesParts DEF ConnectionOK
    <3>. QED
      BY <3>1, <3>2 DEF ConnectionOK, SocketOK
  <2>2. SocketOK'
    BY <1>4 DEF RecvData, SocketOK
  <2>3. ConnectionOK'
    BY <1>4, <2>1 DEF RecvData, ConnectionOK, SocketOK
  <2>4. TasksOK' /\ MutexOK' /\ ThreadInv'
    BY <1>4 DEF RecvData, TasksOK, MutexOK, ThreadInv
  <2>. QED
    BY <2>2, <2>3, <2>4
<1>5. CASE RecvStops(w)
  <2>1. MutexOK'
    BY <1>5, ThreadFacts DEF RecvStops, MutexOK, Labels, InMutex
  <2>2. ThreadInv'
    BY <1>5, ThreadFacts DEF RecvStops, ThreadInv, MutexOK, MainPCs, Flushing
  <2>3. SocketOK' /\ ConnectionOK' /\ TasksOK'
    BY <1>5 DEF RecvStops, SocketOK, ConnectionOK, TasksOK
  <2>. QED
    BY <2>1, <2>2, <2>3
<1>6. CASE RecvEnds(w)
  <2>1. MutexOK'
    BY <1>6, ThreadFacts DEF RecvEnds, Leave, MutexOK, Labels, InMutex
  <2>2. ThreadInv'
    BY <1>6, ThreadFacts DEF RecvEnds, Leave, ThreadInv, MutexOK, MainPCs, Flushing
  <2>3. SocketOK' /\ ConnectionOK' /\ TasksOK'
    BY <1>6 DEF RecvEnds, SocketOK, ConnectionOK, TasksOK
  <2>. QED
    BY <2>1, <2>2, <2>3
<1>7. CASE ParseIncomplete(w)
  <2>1. MutexOK'
    BY <1>7, ThreadFacts DEF ParseIncomplete, MutexOK, Labels, InMutex
  <2>2. ThreadInv'
    BY <1>7, ThreadFacts DEF ParseIncomplete, ThreadInv, MutexOK, MainPCs, Flushing
  <2>3. SocketOK' /\ ConnectionOK' /\ TasksOK'
    BY <1>7 DEF ParseIncomplete, SocketOK, ConnectionOK, TasksOK
  <2>. QED
    BY <2>1, <2>2, <2>3
<1>8. CASE ParseRejects(w)
  <2>1. /\ stuck' \in Kinds
        /\ Answer(parsed + 1, ErrorSize) \in Seq(Units)
    <3>1. Parseable /\ stuck' \in Kinds
      BY <1>8 DEF ParseRejects, Parses
    <3>. QED
      BY <3>1, ParseableIsRequest, AnswerIs, ConnIOAssumption
  <2>2. /\ write_buffer' \in Seq(Units)
        /\ answers' \in Nat /\ committed' \in 0 .. answers' /\ last_activity' \in 0 .. now'
    BY <1>8, <2>1 DEF ParseRejects, AppendUnsent, Commits, ConnectionOK, SocketOK
  <2>3. ConnectionOK'
    BY <1>8, <2>1, <2>2 DEF ParseRejects, ConnectionOK, SocketOK
  <2>4. MutexOK'
    BY <1>8, ThreadFacts DEF ParseRejects, AfterReject, MutexOK, Labels, InMutex
  <2>5. ThreadInv'
    BY <1>8, ThreadFacts DEF ParseRejects, AfterReject, ThreadInv, MutexOK, MainPCs, Flushing
  <2>6. SocketOK' /\ TasksOK'
    BY <1>8 DEF ParseRejects, SocketOK, TasksOK
  <2>. QED
    BY <2>3, <2>4, <2>5, <2>6
<1>9. CASE ParseThrows(w)
  <2>1. ConnectionOK'
    BY <1>9 DEF ParseThrows, ConnectionOK, SocketOK
  <2>2. MutexOK'
    BY <1>9, ThreadFacts DEF ParseThrows, Leave, MutexOK, Labels, InMutex
  <2>3. ThreadInv'
    BY <1>9, ThreadFacts DEF ParseThrows, Leave, ThreadInv, MutexOK, MainPCs, Flushing
  <2>4. SocketOK' /\ TasksOK'
    BY <1>9 DEF ParseThrows, SocketOK, TasksOK
  <2>. QED
    BY <2>1, <2>2, <2>3, <2>4
<1>10. CASE ParseAnswers(w)
  <2>1. PICK x \in Locals :
              /\ Parseable
              /\ Commits(x.closing)
              /\ loc' = [loc EXCEPT ![w] = x] /\ x.taken = loc[w].taken
              /\ pc[w] = "parse"
              /\ pc' = [pc EXCEPT ![w] = IF x.closing \/ x.more THEN "flush" ELSE "parse"]
    BY <1>10, AnsweringStep
  <2>2. /\ parsed + 1 \in 0 .. MaxRequests /\ (parsed + 1) * Parts <= received
        /\ Answer(parsed + 1, AnswerSize) \in Seq(Units)
    BY <2>1, ParseableIsRequest, AnswerIs, ConnIOAssumption
  <2>3. /\ write_buffer' \in Seq(Units)
        /\ answers' \in Nat /\ committed' \in 0 .. answers' /\ last_activity' \in 0 .. now'
    BY <1>10, <2>1, <2>2 DEF ParseAnswers, AppendUnsent, Commits, ConnectionOK, SocketOK
  <2>4. ConnectionOK'
    BY <1>10, <2>2, <2>3 DEF ParseAnswers, ConnectionOK
  <2>5. TasksOK'
    BY <1>10, <2>1 DEF ParseAnswers, TasksOK
  <2>6. MutexOK'
    BY <1>10, <2>1, ThreadFacts DEF ParseAnswers, MutexOK, Labels, InMutex
  <2>7. ThreadInv'
    BY <1>10, <2>1, ThreadFacts DEF ParseAnswers, TasksOK, ThreadInv, MutexOK, MainPCs, Flushing
  <2>8. SocketOK'
    BY <1>10 DEF ParseAnswers, SocketOK
  <2>. QED
    BY <2>4, <2>5, <2>6, <2>7, <2>8
<1>11. CASE ReadCloses(w)
  <2>1. MutexOK'
    BY <1>11, ThreadFacts DEF ReadCloses, Leave, MutexOK, Labels, InMutex
  <2>2. ThreadInv'
    BY <1>11, ThreadFacts DEF ReadCloses, Leave, ThreadInv, MutexOK, MainPCs, Flushing
  <2>3. SocketOK' /\ ConnectionOK' /\ TasksOK'
    BY <1>11 DEF ReadCloses, SocketOK, ConnectionOK, TasksOK
  <2>. QED
    BY <2>1, <2>2, <2>3
<1>12. CASE ReadLingers(w)
  <2>1. SocketOK'
    BY <1>12 DEF ReadLingers, ModifyEpoll, SocketOK
  <2>2. ConnectionOK'
    BY <1>12 DEF ReadLingers, ConnectionOK, SocketOK
  <2>3. MutexOK'
    BY <1>12, ThreadFacts DEF ReadLingers, Leave, MutexOK, Labels, InMutex
  <2>4. ThreadInv'
    BY <1>12, ThreadFacts DEF ReadLingers, Leave, ThreadInv, MutexOK, MainPCs, Flushing
  <2>5. TasksOK'
    BY <1>12 DEF ReadLingers, TasksOK
  <2>. QED
    BY <2>1, <2>2, <2>3, <2>4, <2>5
<1>13. CASE ReadRearms(w)
  <2>1. SocketOK'
    BY <1>13 DEF ReadRearms, ModifyEpoll, ReadInterest, SocketOK
  <2>2. TasksOK'
    BY <1>13 DEF ReadRearms, TasksOK
  <2>3. MutexOK'
    BY <1>13, ThreadFacts DEF ReadRearms, Leave, MutexOK, Labels, InMutex
  <2>4. ThreadInv'
    BY <1>13, ThreadFacts DEF ReadRearms, Leave, ThreadInv, MutexOK, MainPCs, Flushing
  <2>5. ConnectionOK'
    BY <1>13 DEF ReadRearms, ConnectionOK
  <2>. QED
    BY <2>1, <2>2, <2>3, <2>4, <2>5
<1>. QED
  BY <1>1, <1>2, <1>3, <1>4, <1>5, <1>6, <1>7, <1>8, <1>9, <1>10, <1>11, <1>12, <1>13
     DEF ReadTask

\* flush(), and a write task.
LEMMA WriteTaskKeepsInv ==
    ASSUME IndInv, NEW w \in Workers,
           Send(w) \/ EraseSent(w) \/ FlushReturns(w) \/ WriteTask(w)
    PROVE  IndInv'
<1> USE DEF IndInv, TypeOK, Goto, clientVars, epollVars, connVars, observerVars
<1>1. CASE Send(w)
  <2>1. PICK x \in Locals :
              /\ x.taken \in 1 .. Len(write_buffer)
              /\ wire' = wire \o SubSeq(write_buffer, 1, x.taken)
              /\ loc' = [loc EXCEPT ![w] = x]
    BY <1>1, SendStep
  <2>2. wire' \in Seq(Units) /\ Len(wire) \in Nat /\ Len(wire') \in Nat /\ Len(wire) <= Len(wire')
    <3>1. /\ SubSeq(write_buffer, 1, x.taken) \in Seq(Units) /\ wire \in Seq(Units)
          /\ Len(SubSeq(write_buffer, 1, x.taken)) = x.taken
      BY <2>1 DEF ConnectionOK, SocketOK
    <3>. QED
      BY <2>1, <3>1
  <2>3. SocketOK'
    <3>1. UNCHANGED <<running, now, clientVars, received, armed, registered>>
      BY <1>1 DEF Send
    <3>. QED
      BY <2>2, <3>1 DEF SocketOK
  <2>4. TasksOK'
    BY <1>1, <2>1 DEF Send, TasksOK
  <2>5. ThreadInv'
    BY <1>1, <2>1, ThreadFacts DEF Send, TasksOK, ThreadInv, MutexOK, MainPCs, Flushing
  <2>6. ConnectionOK' /\ MutexOK'
    BY <1>1 DEF Send, ConnectionOK, MutexOK
  <2>. QED
    BY <2>3, <2>4, <2>5, <2>6
<1>2. CASE EraseSent(w)
  <2>1. PICK x \in Locals : loc' = [loc EXCEPT ![w] = x] /\ x.taken = 0
    BY <1>2, EraseStep
  <2>2. write_buffer' \in Seq(Units)
    <3>1. /\ write_buffer \in Seq(Units) /\ loc[w].taken \in Nat
          /\ write_buffer' = SubSeq(write_buffer, loc[w].taken + 1, Len(write_buffer))
      BY <1>2 DEF EraseSent, ConnectionOK, TasksOK, Locals
    <3>. QED
      BY <3>1
  <2>3. ConnectionOK'
    BY <1>2, <2>2 DEF EraseSent, ConnectionOK, SocketOK
  <2>4. TasksOK'
    BY <1>2, <2>1 DEF EraseSent, TasksOK
  <2>5. ThreadInv'
    BY <1>2, <2>1, ThreadFacts DEF EraseSent, TasksOK, ThreadInv, MutexOK, MainPCs, Flushing
  <2>6. SocketOK' /\ MutexOK'
    BY <1>2 DEF EraseSent, SocketOK, MutexOK
  <2>. QED
    BY <2>3, <2>4, <2>5, <2>6
<1>3. CASE FlushReturns(w)
  <2>1. PICK x \in Locals :
              /\ loc' = [loc EXCEPT ![w] = x] /\ x.taken = 0 /\ loc[w].taken = 0
              /\ pc[w] \in Flushing
              /\ pc' = [pc EXCEPT ![w] = AfterFlush[pc[w]]]
              /\ AfterFlush[pc[w]] \in {"rearm", "dropError", "unlock"}
    BY <1>3, FlushStep
  <2>2. TasksOK'
    <3>1. queue' = queue /\ evs' = evs
      BY <1>3 DEF FlushReturns
    <3>. QED
      BY <2>1, <3>1 DEF TasksOK
  <2>3. MutexOK'
    BY <1>3, <2>1, ThreadFacts DEF FlushReturns, Flushing, MutexOK, Labels, InMutex
  <2>4. ThreadInv'
    BY <1>3, <2>1, ThreadFacts DEF FlushReturns, TasksOK, ThreadInv, MutexOK, MainPCs, Flushing
  <2>5. SocketOK' /\ ConnectionOK'
    BY <1>3 DEF FlushReturns, SocketOK, ConnectionOK
  <2>. QED
    BY <2>2, <2>3, <2>4, <2>5
<1>4. CASE WriteUnlocks(w)
  <2>1. PICK x \in Locals :
              /\ loc' = [loc EXCEPT ![w] = x] /\ x.taken = loc[w].taken
              /\ pc[w] = "unlock" /\ pc' = [pc EXCEPT ![w] = "decide"] /\ mutex' = Nobody
    BY <1>4, UnlockStep
  <2>2. TasksOK'
    BY <1>4, <2>1 DEF WriteUnlocks, TasksOK
  <2>3. MutexOK'
    BY <1>4, <2>1, ThreadFacts DEF WriteUnlocks, MutexOK, Labels, InMutex
  <2>4. ThreadInv'
    BY <1>4, <2>1, ThreadFacts DEF WriteUnlocks, TasksOK, ThreadInv, MutexOK, MainPCs, Flushing
  <2>5. SocketOK' /\ ConnectionOK'
    BY <1>4 DEF WriteUnlocks, SocketOK, ConnectionOK
  <2>. QED
    BY <2>2, <2>3, <2>4, <2>5
<1>5. CASE WriteCloses(w)
  <2>1. MutexOK'
    BY <1>5, ThreadFacts DEF WriteCloses, MutexOK, Labels, InMutex
  <2>2. ThreadInv'
    BY <1>5, ThreadFacts DEF WriteCloses, ThreadInv, MutexOK, MainPCs, Flushing
  <2>3. SocketOK' /\ ConnectionOK' /\ TasksOK'
    BY <1>5 DEF WriteCloses, SocketOK, ConnectionOK, TasksOK
  <2>. QED
    BY <2>1, <2>2, <2>3
<1>6. CASE WriteGoesOn(w)
  <2>1. /\ pc[w] = "decide"
        /\ \E l \in {"armIn", "armBoth", "armOut"} : pc' = [pc EXCEPT ![w] = l]
    BY <1>6 DEF WriteGoesOn
  <2>2. MutexOK'
    BY <1>6, <2>1, ThreadFacts DEF WriteGoesOn, MutexOK, Labels, InMutex
  <2>3. ThreadInv'
    BY <1>6, <2>1, ThreadFacts DEF WriteGoesOn, ThreadInv, MutexOK, MainPCs, Flushing
  <2>4. SocketOK' /\ ConnectionOK' /\ TasksOK'
    BY <1>6 DEF WriteGoesOn, SocketOK, ConnectionOK, TasksOK
  <2>. QED
    BY <2>2, <2>3, <2>4
<1>7. CASE WriteRearms(w)
  <2>1. /\ pc[w] \in {"armIn", "armBoth", "armOut"} /\ pc' = [pc EXCEPT ![w] = "idle"]
        /\ armed' \subseteq {"IN", "OUT"}
    <3>1. pc[w] \in {"armIn", "armBoth", "armOut"}
      BY <1>7 DEF WriteRearms, WriteInterest
    <3>2. WriteInterest[pc[w]] \subseteq {"IN", "OUT"}
      BY <3>1 DEF WriteInterest
    <3>. QED
      BY <1>7, <3>1, <3>2 DEF WriteRearms, ModifyEpoll, SocketOK
  <2>2. SocketOK'
    BY <1>7, <2>1 DEF WriteRearms, SocketOK
  <2>3. MutexOK'
    BY <1>7, <2>1, ThreadFacts DEF WriteRearms, MutexOK, Labels, InMutex
  <2>4. ThreadInv'
    BY <1>7, <2>1, ThreadFacts DEF WriteRearms, ThreadInv, MutexOK, MainPCs, Flushing
  <2>5. ConnectionOK' /\ TasksOK'
    BY <1>7 DEF WriteRearms, ConnectionOK, TasksOK
  <2>. QED
    BY <2>2, <2>3, <2>4, <2>5
<1>. QED
  BY <1>1, <1>2, <1>3, <1>4, <1>5, <1>6, <1>7 DEF WriteTask

LEMMA StutterKeepsInv ==
    ASSUME IndInv, UNCHANGED vars
    PROVE  IndInv'
BY DEF IndInv, TypeOK, SocketOK, ConnectionOK, TasksOK, MutexOK, ThreadInv, vars,
       clientVars, epollVars, connVars, observerVars

LEMMA NextKeepsInv ==
    ASSUME IndInv, [Next]_vars
    PROVE  IndInv'
<1>1. ASSUME NEW w \in Workers, Work(w) PROVE IndInv'
  BY <1>1, ReadTaskKeepsInv, WriteTaskKeepsInv, RemovalKeepsInv, ThreadFacts DEF Work
<1>2. CASE Loop
  BY <1>2, LoopKeepsInv, RemovalKeepsInv, ThreadFacts DEF Loop, Dispatch
<1>. QED
  BY <1>1, <1>2, ClientKeepsInv, StutterKeepsInv DEF Next

LEMMA InitInv == Init => IndInv
<1> SUFFICES ASSUME Init PROVE IndInv
  OBVIOUS
<1>1. NoLocals \in Locals /\ NoLocals.taken = 0
  BY DEF NoLocals, Locals
<1>2. MaxRequests * Parts \in Nat /\ 0 * Parts = 0
  BY ConnIOAssumption, TimesParts
<1>3. SocketOK
  BY <1>2, ConnIOAssumption DEF Init, SocketOK
<1>4. ConnectionOK
  <2>1. parsed \in 0 .. MaxRequests /\ parsed * Parts <= received
    BY <1>2, ConnIOAssumption DEF Init
  <2>2. mapped \in BOOLEAN /\ close_after_write_flag \in BOOLEAN /\ rejected \in BOOLEAN
    BY DEF Init
  <2>3. write_buffer \in Seq(Units) /\ stuck \in {"no"} \cup Kinds
    BY DEF Init
  <2>4. last_activity \in 0 .. now /\ answers \in Nat /\ committed \in 0 .. answers
    BY DEF Init
  <2>. QED
    BY <2>1, <2>2, <2>3, <2>4 DEF ConnectionOK
<1>5. TasksOK /\ MutexOK
  BY <1>1, ThreadFacts DEF Init, TasksOK, MutexOK, Labels, InMutex
<1>6. ThreadInv
  BY <1>1, ThreadFacts DEF Init, ThreadInv, MainPCs
<1>. QED
  BY <1>3, <1>4, <1>5, <1>6 DEF IndInv, TypeOK

LEMMA InvAlways == Spec => []IndInv
BY InitInv, NextKeepsInv, PTL DEF Spec

-----------------------------------------------------------------------------
(* The order of what is sent *)

\* Splitting a sequence and putting it together again.
LEMMA SplitAndJoin ==
    ASSUME NEW s \in Seq(Units), NEW t \in Seq(Units), NEW n \in 0 .. Len(t)
    PROVE  (s \o SubSeq(t, 1, n)) \o SubSeq(t, n + 1, Len(t)) = s \o t
<1> DEFINE a == SubSeq(t, 1, n)
           b == SubSeq(t, n + 1, Len(t))
<1>1. /\ a \in Seq(Units) /\ Len(a) = n
      /\ \A k \in 1 .. n : a[k] = t[k]
  BY SubSeqProperties
<1>2. /\ b \in Seq(Units) /\ Len(b) = Len(t) - n
      /\ \A k \in 1 .. Len(t) - n : b[k] = t[n + k]
  BY SubSeqProperties
<1> HIDE DEF a, b
<1>3. Len(t) \in Nat /\ n \in Nat /\ n <= Len(t)
  OBVIOUS
<1>4. a \o b = t
  <2>1. a \o b \in Seq(Units) /\ Len(a \o b) = Len(t)
    <3>1. Len(a) + Len(b) = Len(t)
      BY <1>1, <1>2, <1>3
    <3>. QED
      BY <1>1, <1>2, <3>1, ConcatProperties
  <2>2. ASSUME NEW k \in 1 .. Len(t) PROVE (a \o b)[k] = t[k]
    <3>1. CASE k <= n
      BY <1>1, <1>2, <3>1
    <3>2. CASE ~(k <= n)
      <4>1. (a \o b)[k] = b[k - n] /\ k - n \in 1 .. Len(t) - n
        BY <1>1, <1>2, <1>3, <3>2
      <4>. QED
        BY <1>2, <4>1
    <3>. QED
      BY <3>1, <3>2
  <2>. QED
    BY <2>1, <2>2, SeqEqual
<1>5. (s \o a) \o b = s \o (a \o b)
  BY <1>1, <1>2, ConcatAssociative
<1>. QED
  BY <1>4, <1>5 DEF a, b

LEMMA ConcatUnits ==
    ASSUME NEW s \in Seq(Units), NEW a \in Seq(Units)
    PROVE  /\ s \o a \in Seq(Units) /\ Len(s \o a) = Len(s) + Len(a) /\ Len(s) \in Nat
           /\ \A k \in 1 .. Len(s) : (s \o a)[k] = s[k]
           /\ \A k \in 1 .. Len(a) : (s \o a)[Len(s) + k] = a[k]
<1>1. Len(s) \in Nat /\ Len(a) \in Nat
  OBVIOUS
<1>2. /\ s \o a \in Seq(Units) /\ Len(s \o a) = Len(s) + Len(a)
      /\ \A i \in 1 .. Len(s) + Len(a) :
            (s \o a)[i] = IF i <= Len(s) THEN s[i] ELSE a[i - Len(s)]
  BY ConcatProperties
<1>3. ASSUME NEW k \in 1 .. Len(a) PROVE (s \o a)[Len(s) + k] = a[k]
  <2>1. /\ Len(s) + k \in 1 .. Len(s) + Len(a) /\ ~(Len(s) + k <= Len(s))
        /\ (Len(s) + k) - Len(s) = k
    BY <1>1
  <2>. QED
    BY <1>2, <2>1
<1>4. ASSUME NEW k \in 1 .. Len(s) PROVE (s \o a)[k] = s[k]
  <2>1. k \in 1 .. Len(s) + Len(a) /\ k <= Len(s)
    BY <1>1
  <2>. QED
    BY <1>2, <2>1
<1>. QED
  BY <1>1, <1>2, <1>3, <1>4

LEMMA AnswerUnits ==
    ASSUME NEW r \in Requests, NEW n \in Nat \ {0}
    PROVE  /\ Answer(r, n) \in Seq(Units) /\ Len(Answer(r, n)) = n
           /\ \A k \in 1 .. n : Answer(r, n)[k].req = r /\ Answer(r, n)[k].left = n - k
<1> DEFINE a == Answer(r, n)
<1>1. /\ a \in Seq(Units) /\ Len(a) = n
      /\ \A k \in 1 .. n : a[k] = [req |-> r, left |-> n - k]
  BY AnswerIs
<1> HIDE DEF a
<1>2. \A k \in 1 .. n : a[k].req = r /\ a[k].left = n - k
  BY <1>1
<1>. QED
  BY <1>1, <1>2 DEF a

\* An answer to the next request continues a stream in order.
LEMMA OrderedAppend ==
    ASSUME NEW s \in Seq(Units), NEW r \in Requests, NEW n \in Nat \ {0},
           Ordered(s), EndsWith(s, {r - 1})
    PROVE  Ordered(s \o Answer(r, n))
<1> DEFINE a == Answer(r, n)
           u == s \o a
<1>1. /\ a \in Seq(Units) /\ Len(a) = n
      /\ \A k \in 1 .. n : a[k].req = r /\ a[k].left = n - k
  BY AnswerUnits
<1> HIDE DEF a
<1>2. /\ u \in Seq(Units) /\ Len(u) = Len(s) + n /\ Len(s) \in Nat
      /\ \A k \in 1 .. Len(s) : u[k] = s[k]
      /\ \A k \in 1 .. n : u[Len(s) + k] = a[k]
  BY <1>1, ConcatUnits
<1> HIDE DEF u
<1>3. u # <<>> => u[1].req = 1
  <2>1. CASE s = <<>>
    BY <1>1, <1>2, <2>1 DEF EndsWith, Requests
  <2>2. CASE s # <<>>
    <3>1. Len(s) >= 1
      BY <2>2
    <3>. QED
      BY <1>2, <2>2, <3>1 DEF Ordered
  <2>. QED
    BY <2>1, <2>2
<1>4. ASSUME NEW k \in 1 .. Len(u) - 1
      PROVE  /\ u[k + 1].req = IF u[k].left > 0 THEN u[k].req ELSE u[k].req + 1
             /\ u[k].left > 0 => u[k + 1].left = u[k].left - 1
  <2>1. CASE k < Len(s)
    <3>1. u[k] = s[k] /\ u[k + 1] = s[k + 1] /\ k \in 1 .. Len(s) - 1
      BY <1>2, <2>1
    <3>. QED
      BY <3>1 DEF Ordered
  <2>2. CASE k = Len(s)
    <3>1. u[k] = s[Len(s)] /\ u[k + 1] = a[1] /\ s # <<>>
      BY <1>2, <2>2
    <3>. QED
      BY <1>1, <3>1 DEF EndsWith, Requests
  <2>3. CASE k > Len(s)
    <3> DEFINE i == k - Len(s)
    <3>1. i \in 1 .. n - 1 /\ k = Len(s) + i
      BY <1>2, <2>3
    <3> HIDE DEF i
    <3>2. u[k] = a[i] /\ u[k + 1] = a[i + 1]
      <4>1. u[k] = u[Len(s) + i] /\ u[k + 1] = u[Len(s) + (i + 1)] /\ i + 1 \in 1 .. n
        BY <1>2, <3>1
      <4>. QED
        BY <1>2, <3>1, <4>1
    <3>. QED
      BY <1>1, <3>1, <3>2
  <2>. QED
    BY <1>2, <2>1, <2>2, <2>3
<1>. QED
  BY <1>3, <1>4 DEF Ordered, u, a

LEMMA WholeAppend ==
    ASSUME NEW s \in Seq(Units), NEW r \in Requests, NEW n \in Nat \ {0},
           Whole(s), EndsWith(s, {r - 1, r})
    PROVE  Whole(s \o Answer(r, n)) /\ EndsWith(s \o Answer(r, n), {r})
<1> DEFINE a == Answer(r, n)
           u == s \o a
<1>1. /\ a \in Seq(Units) /\ Len(a) = n
      /\ \A k \in 1 .. n : a[k].req = r /\ a[k].left = n - k
  BY AnswerUnits
<1> HIDE DEF a
<1>2. /\ u \in Seq(Units) /\ Len(u) = Len(s) + n /\ Len(s) \in Nat
      /\ \A k \in 1 .. Len(s) : u[k] = s[k]
      /\ \A k \in 1 .. n : u[Len(s) + k] = a[k]
  BY <1>1, ConcatUnits
<1> HIDE DEF u
<1>3. u # <<>> => u[1].req = 1
  <2>1. CASE s = <<>>
    BY <1>1, <1>2, <2>1 DEF EndsWith, Requests
  <2>2. CASE s # <<>>
    <3>1. Len(s) >= 1
      BY <2>2
    <3>. QED
      BY <1>2, <2>2, <3>1 DEF Whole
  <2>. QED
    BY <2>1, <2>2
<1>4. ASSUME NEW k \in 1 .. Len(u) - 1
      PROVE  \/ u[k].left > 0 /\ u[k + 1].req = u[k].req /\ u[k + 1].left = u[k].left - 1
             \/ u[k].left = 0 /\ u[k + 1].req \in {u[k].req, u[k].req + 1}
  <2>1. CASE k < Len(s)
    <3>1. u[k] = s[k] /\ u[k + 1] = s[k + 1] /\ k \in 1 .. Len(s) - 1
      BY <1>2, <2>1
    <3>. QED
      BY <3>1 DEF Whole
  <2>2. CASE k = Len(s)
    <3>1. u[k] = s[Len(s)] /\ u[k + 1] = a[1] /\ s # <<>>
      BY <1>2, <2>2
    <3>. QED
      BY <1>1, <3>1 DEF EndsWith, Requests
  <2>3. CASE k > Len(s)
    <3> DEFINE i == k - Len(s)
    <3>1. i \in 1 .. n - 1 /\ k = Len(s) + i
      BY <1>2, <2>3
    <3> HIDE DEF i
    <3>2. u[k] = a[i] /\ u[k + 1] = a[i + 1]
      <4>1. u[k] = u[Len(s) + i] /\ u[k + 1] = u[Len(s) + (i + 1)] /\ i + 1 \in 1 .. n
        BY <1>2, <3>1
      <4>. QED
        BY <1>2, <3>1, <4>1
    <3>. QED
      BY <1>1, <3>1, <3>2
  <2>. QED
    BY <1>2, <2>1, <2>2, <2>3
<1>5. EndsWith(u, {r})
  <2>1. u # <<>> /\ u[Len(u)] = a[n]
    BY <1>2
  <2>. QED
    BY <1>1, <2>1 DEF EndsWith
<1>. QED
  BY <1>3, <1>4, <1>5 DEF Whole, u, a

\* What is on the wire is the beginning of the stream.
LEMMA WirePrefix ==
    ASSUME IndInv, StreamInv
    PROVE  /\ Stream \in Seq(Units) /\ Len(wire) \in Nat /\ Len(wire) <= Len(Stream)
           /\ \A k \in 1 .. Len(wire) : Stream[k] = wire[k]
<1> DEFINE b == SubSeq(write_buffer, Pending + 1, Len(write_buffer))
<1>1. wire \in Seq(Units) /\ write_buffer \in Seq(Units) /\ Pending \in Nat
  BY DEF IndInv, TypeOK, SocketOK, ConnectionOK, TasksOK, Locals, Pending
<1>2. b \in Seq(Units)
  BY <1>1
<1> HIDE DEF b
<1>3. Stream = wire \o b
  BY DEF Stream, b
<1>. QED
  BY <1>1, <1>2, <1>3

\* The task that owns the mutex is the one with units taken and not erased.
LEMMA PendingIs ==
    ASSUME IndInv
    PROVE  /\ Pending \in Nat
           /\ \A w \in Workers : pc[w] \in InMutex => Pending = loc[w].taken
           /\ \A w \in Workers : pc[w] \notin Flushing => loc[w].taken = 0
           /\ wire \in Seq(Units) /\ write_buffer \in Seq(Units)
<1>1. \A w \in Workers : loc[w].taken \in Nat
  BY DEF IndInv, TypeOK, TasksOK, Locals
<1>2. \A w \in Workers : pc[w] \in InMutex => mutex = w
  BY DEF IndInv, TypeOK, MutexOK
<1>3. \A w \in Workers : pc[w] \notin Flushing => loc[w].taken = 0
  BY <1>1 DEF IndInv, ThreadInv
<1>4. wire \in Seq(Units) /\ write_buffer \in Seq(Units)
  BY DEF IndInv, TypeOK, SocketOK, ConnectionOK
<1>. QED
  BY <1>1, <1>2, <1>3, <1>4 DEF Pending

\* A step that neither queues nor sends leaves the stream as it is.
LEMMA QuietKeepsStream ==
    ASSUME IndInv, IndInv', StreamInv,
           UNCHANGED <<wire, write_buffer, parsed, rejected>>,
           \A w \in Workers : loc'[w].taken = loc[w].taken
    PROVE  StreamInv' /\ Stream' = Stream
<1>1. /\ mutex \in Workers \cup {Nobody} /\ mutex' \in Workers \cup {Nobody}
      /\ \A w \in Workers : pc[w] \in InMutex <=> mutex = w
      /\ \A w \in Workers : pc'[w] \in InMutex <=> mutex' = w
      /\ Nobody \notin Workers
  BY ThreadFacts DEF IndInv, TypeOK, MutexOK
<1>2. /\ \A w \in Workers : pc[w] \notin Flushing => loc[w].taken = 0
      /\ \A w \in Workers : pc'[w] \notin Flushing => loc'[w].taken = 0
  <2>1. \A w \in Workers : loc[w].taken \in Nat
    BY DEF IndInv, TypeOK, TasksOK, Locals
  <2>2. \A w \in Workers : pc'[w] \notin Flushing => ~(loc'[w].taken > 0)
    BY DEF IndInv, ThreadInv
  <2>. QED
    BY <2>1, <2>2, PendingIs
<1>3. \A l : l \in Flushing => l \in InMutex
  BY DEF Flushing, InMutex
<1>4. Pending' = Pending
  <2>1. CASE mutex' = mutex
    BY <2>1 DEF Pending
  <2>2. CASE mutex' # mutex
    <3>1. Pending = 0
      BY <1>1, <1>2, <1>3, <2>2 DEF Pending
    <3>2. Pending' = 0
      BY <1>1, <1>2, <1>3, <2>2 DEF Pending
    <3>. QED
      BY <3>1, <3>2
  <2>. QED
    BY <2>1, <2>2
<1>5. Stream' = Stream
  BY <1>4 DEF Stream
<1>. QED
  BY <1>4, <1>5 DEF StreamInv

LEMMA SendKeepsStream ==
    ASSUME IndInv, IndInv', StreamInv, NEW w \in Workers, Send(w)
    PROVE  StreamInv' /\ Stream' = Stream
<1>1. PICK x \in Locals :
          /\ x.taken \in 1 .. Len(write_buffer)
          /\ wire' = wire \o SubSeq(write_buffer, 1, x.taken)
          /\ loc' = [loc EXCEPT ![w] = x]
  BY SendStep
<1>2. /\ pc[w] \in Flushing /\ loc[w].taken = 0
      /\ UNCHANGED <<pc, write_buffer, parsed, rejected>>
  BY DEF Send, connVars, observerVars
<1>3. pc[w] \in InMutex /\ pc'[w] \in InMutex
  BY <1>2 DEF Flushing, InMutex
<1>4. Pending = 0 /\ wire \in Seq(Units) /\ write_buffer \in Seq(Units)
  BY <1>2, <1>3, PendingIs
<1>5. Pending' = x.taken
  <2>1. mutex' = w
    BY <1>3 DEF IndInv, TypeOK, MutexOK
  <2>2. loc'[w] = x
    BY <1>1 DEF IndInv, TypeOK, TasksOK
  <2>. QED
    BY <2>1, <2>2 DEF Pending
<1>6. Stream = wire \o write_buffer
  BY <1>4, SubSeqFull DEF Stream
<1>7. Stream' = (wire \o SubSeq(write_buffer, 1, x.taken))
                    \o SubSeq(write_buffer, x.taken + 1, Len(write_buffer))
  BY <1>1, <1>2, <1>5 DEF Stream
<1>8. x.taken \in 0 .. Len(write_buffer)
  BY <1>1, <1>4
<1>9. Stream' = Stream
  BY <1>4, <1>6, <1>7, <1>8, SplitAndJoin
<1>10. Pending' <= Len(write_buffer')
  BY <1>1, <1>2, <1>4, <1>5
<1>. QED
  BY <1>2, <1>9, <1>10 DEF StreamInv

LEMMA EraseKeepsStream ==
    ASSUME IndInv, IndInv', StreamInv, NEW w \in Workers, EraseSent(w)
    PROVE  StreamInv' /\ Stream' = Stream
<1>1. PICK x \in Locals : loc' = [loc EXCEPT ![w] = x] /\ x.taken = 0
  BY EraseStep
<1>2. /\ pc[w] \in Flushing /\ UNCHANGED <<pc, wire, parsed, rejected>>
      /\ write_buffer' = SubSeq(write_buffer, loc[w].taken + 1, Len(write_buffer))
  BY DEF EraseSent, observerVars
<1>3. pc[w] \in InMutex /\ pc'[w] \in InMutex
  BY <1>2 DEF Flushing, InMutex
<1>4. /\ Pending = loc[w].taken /\ Pending \in Nat /\ Pending <= Len(write_buffer)
      /\ wire \in Seq(Units) /\ write_buffer \in Seq(Units)
  BY <1>3, PendingIs DEF StreamInv
<1>5. Pending' = 0
  <2>1. mutex' = w
    BY <1>3 DEF IndInv, TypeOK, MutexOK
  <2>2. loc'[w] = x
    BY <1>1 DEF IndInv, TypeOK, TasksOK
  <2>. QED
    BY <1>1, <2>1, <2>2 DEF Pending
<1>6. write_buffer' \in Seq(Units)
  BY DEF IndInv, TypeOK, ConnectionOK
<1>7. Stream' = wire \o write_buffer'
  <2>1. SubSeq(write_buffer', 1, Len(write_buffer')) = write_buffer'
    BY <1>6, SubSeqFull
  <2>2. Pending' + 1 = 1
    BY <1>5
  <2>. QED
    BY <1>2, <2>1, <2>2 DEF Stream
<1>8. Stream' = Stream
  BY <1>2, <1>4, <1>7 DEF Stream
<1>9. Pending' <= Len(write_buffer')
  BY <1>5, <1>6
<1>. QED
  BY <1>2, <1>8, <1>9 DEF StreamInv

\* An answer to the next request goes to the end of the stream.
LEMMA AppendToStream ==
    ASSUME IndInv, IndInv', StreamInv, NEW w \in Workers, pc[w] = "parse",
           UNCHANGED <<wire, mutex>>, loc'[w].taken = loc[w].taken,
           NEW n \in Nat \ {0}, Parseable,
           write_buffer' = write_buffer \o Answer(parsed + 1, n)
    PROVE  /\ Stream' = Stream \o Answer(parsed + 1, n)
           /\ Pending' <= Len(write_buffer')
           /\ Whole(Stream') /\ EndsWith(Stream', {parsed + 1})
           /\ ~rejected => Ordered(Stream')
<1> DEFINE a == Answer(parsed + 1, n)
<1>1. parsed + 1 \in Requests /\ parsed \in Nat /\ a \in Seq(Units)
  BY ParseableIsRequest, AnswerIs DEF IndInv, TypeOK, ConnectionOK
<1>2. /\ Pending = 0 /\ Pending' = 0
      /\ wire \in Seq(Units) /\ write_buffer \in Seq(Units) /\ write_buffer' \in Seq(Units)
  <2>1. pc[w] \in InMutex /\ pc[w] \notin Flushing
    BY DEF InMutex, Flushing
  <2>2. loc[w].taken = 0 /\ mutex = w
    BY <2>1, PendingIs DEF IndInv, TypeOK, MutexOK
  <2>3. write_buffer' \in Seq(Units)
    BY DEF IndInv, TypeOK, ConnectionOK
  <2>. QED
    BY <2>2, <2>3, PendingIs DEF Pending
<1> HIDE DEF a
<1>3. Stream = wire \o write_buffer
  BY <1>2, SubSeqFull DEF Stream
<1>4. Stream' = wire \o write_buffer'
  <2>1. SubSeq(write_buffer', 1, Len(write_buffer')) = write_buffer'
    BY <1>2, SubSeqFull
  <2>2. Pending' + 1 = 1
    BY <1>2
  <2>. QED
    BY <2>1, <2>2 DEF Stream
<1>5. Stream' = Stream \o a /\ Stream \in Seq(Units)
  <2>1. (wire \o write_buffer) \o a = wire \o (write_buffer \o a)
    <3>1. \A s, t, u \in Seq(Units) : (s \o t) \o u = s \o (t \o u)
      BY ConcatAssociative
    <3>. QED
      BY <1>1, <1>2, <3>1
  <2>2. write_buffer' = write_buffer \o a
    BY DEF a
  <2>3. wire \o write_buffer \in Seq(Units)
    BY <1>2
  <2>. QED
    BY <1>3, <1>4, <2>1, <2>2, <2>3
<1>6. /\ Whole(Stream) /\ EndsWith(Stream, {(parsed + 1) - 1, parsed + 1})
      /\ ~rejected => Ordered(Stream) /\ EndsWith(Stream, {(parsed + 1) - 1})
  BY <1>1 DEF StreamInv
<1>7. Whole(Stream') /\ EndsWith(Stream', {parsed + 1})
  BY <1>1, <1>5, <1>6, WholeAppend DEF a
<1>8. ~rejected => Ordered(Stream')
  BY <1>1, <1>5, <1>6, OrderedAppend DEF a
<1>9. Pending' <= Len(write_buffer')
  BY <1>2
<1>. QED
  BY <1>5, <1>7, <1>8, <1>9 DEF a

LEMMA EndsWithMore ==
    ASSUME NEW s, NEW R, NEW R2, R \subseteq R2, EndsWith(s, R)
    PROVE  EndsWith(s, R2)
BY DEF EndsWith

LEMMA RejectKeepsStream ==
    ASSUME IndInv, IndInv', StreamInv, NEW w \in Workers, ParseRejects(w)
    PROVE  StreamInv'
<1>1. /\ pc[w] = "parse" /\ Parseable /\ rejected' /\ UNCHANGED <<wire, mutex, loc, parsed>>
      /\ write_buffer' = write_buffer \o Answer(parsed + 1, ErrorSize)
  BY DEF ParseRejects, Parses, AppendUnsent
<1>2. ErrorSize \in Nat \ {0}
  BY ConnIOAssumption
<1>3. /\ Pending' <= Len(write_buffer')
      /\ Whole(Stream') /\ EndsWith(Stream', {parsed + 1})
  BY <1>1, <1>2, AppendToStream
<1>4. EndsWith(Stream', {parsed', parsed' + 1})
  BY <1>1, <1>3, EndsWithMore
<1>. QED
  BY <1>1, <1>3, <1>4 DEF StreamInv

LEMMA AnswerKeepsStream ==
    ASSUME IndInv, IndInv', StreamInv, NEW w \in Workers, ParseAnswers(w)
    PROVE  StreamInv'
<1>1. PICK x \in Locals :
          /\ Parseable
          /\ loc' = [loc EXCEPT ![w] = x] /\ x.taken = loc[w].taken
          /\ pc[w] = "parse"
  BY AnsweringStep
<1>2. loc'[w].taken = loc[w].taken
  BY <1>1 DEF IndInv, TypeOK, TasksOK
<1>3. /\ UNCHANGED <<wire, mutex, rejected>> /\ parsed' = parsed + 1
      /\ write_buffer' = write_buffer \o Answer(parsed + 1, AnswerSize)
  BY DEF ParseAnswers, AppendUnsent
<1>4. AnswerSize \in Nat \ {0}
  BY ConnIOAssumption
<1>5. /\ Pending' <= Len(write_buffer')
      /\ Whole(Stream') /\ EndsWith(Stream', {parsed + 1})
      /\ ~rejected => Ordered(Stream')
  BY <1>1, <1>2, <1>3, <1>4, AppendToStream
<1>6. EndsWith(Stream', {parsed', parsed' + 1}) /\ EndsWith(Stream', {parsed'})
  BY <1>3, <1>5, EndsWithMore
<1>. QED
  BY <1>3, <1>5, <1>6 DEF StreamInv

\* The steps that neither queue nor send.
LEMMA OthersAreQuiet ==
    ASSUME IndInv, [Next]_vars,
           \A w \in Workers : ~Send(w) /\ ~EraseSent(w) /\ ~ParseRejects(w) /\ ~ParseAnswers(w)
    PROVE  /\ UNCHANGED <<wire, write_buffer, parsed, rejected>>
           /\ \A w \in Workers : loc'[w].taken = loc[w].taken
<1> USE DEF clientVars, epollVars, connVars, observerVars
<1>1. CASE Client \/ Tick \/ Stop \/ UNCHANGED vars
  BY <1>1 DEF Client, ClientSends, ClientReads, ClientLeaves, Tick, Stop, vars
<1>2. CASE Loop
  BY <1>2
     DEF Loop, Dispatch, EpollWait, DispatchRead, DispatchWrite, SweepFindsIdle,
         RemoveConnection, Unregister
<1>3. ASSUME NEW w \in Workers, Work(w)
      PROVE  /\ UNCHANGED <<wire, write_buffer, parsed, rejected>>
             /\ \A v \in Workers : loc'[v].taken = loc[v].taken
  <2>1. loc \in [Workers -> Locals]
    BY DEF IndInv, TypeOK, TasksOK
  <2>2. CASE TakeTask(w)
    <3>1. loc[w].taken = 0
      BY <2>2, PendingIs DEF TakeTask, Flushing
    <3>2. NoLocals.taken = 0
      BY DEF NoLocals
    <3>. QED
      BY <2>1, <2>2, <3>1, <3>2 DEF TakeTask
  <2>3. CASE FlushReturns(w)
    <3>1. PICK x \in Locals : loc' = [loc EXCEPT ![w] = x] /\ x.taken = 0 /\ loc[w].taken = 0
      BY <2>3, FlushStep
    <3>2. UNCHANGED <<wire, write_buffer, parsed, rejected>>
      BY <2>3 DEF FlushReturns
    <3>. QED
      BY <2>1, <3>1, <3>2
  <2>4. CASE WriteUnlocks(w)
    <3>1. PICK x \in Locals : loc' = [loc EXCEPT ![w] = x] /\ x.taken = loc[w].taken
      BY <2>4, UnlockStep
    <3>2. UNCHANGED <<wire, write_buffer, parsed, rejected>>
      BY <2>4 DEF WriteUnlocks
    <3>. QED
      BY <2>1, <3>1, <3>2
  <2>5. CASE ReadAgain(w) \/ Lock(w) \/ RecvData(w) \/ RecvStops(w) \/ RecvEnds(w)
    BY <2>5 DEF ReadAgain, Lock, RecvData, RecvStops, RecvEnds
  <2>6. CASE ParseIncomplete(w) \/ ParseThrows(w) \/ ReadCloses(w) \/ ReadLingers(w)
    BY <2>6 DEF ParseIncomplete, ParseThrows, ReadCloses, ReadLingers
  <2>7. CASE ReadRearms(w) \/ WriteCloses(w) \/ WriteGoesOn(w) \/ WriteRearms(w)
    BY <2>7 DEF ReadRearms, WriteCloses, WriteGoesOn, WriteRearms
  <2>8. CASE RemoveConnection(w) \/ Unregister(w)
    BY <2>8 DEF RemoveConnection, Unregister
  <2>. QED
    BY <1>3, <2>2, <2>3, <2>4, <2>5, <2>6, <2>7, <2>8 DEF Work, ReadTask, WriteTask
<1>. QED
  BY <1>1, <1>2, <1>3 DEF Next

LEMMA NextKeepsStream ==
    ASSUME IndInv, IndInv', StreamInv, [Next]_vars
    PROVE  StreamInv'
<1>1. CASE \E w \in Workers :
              Send(w) \/ EraseSent(w) \/ ParseRejects(w) \/ ParseAnswers(w)
  BY <1>1, SendKeepsStream, EraseKeepsStream, RejectKeepsStream, AnswerKeepsStream
<1>2. CASE ~\E w \in Workers :
              Send(w) \/ EraseSent(w) \/ ParseRejects(w) \/ ParseAnswers(w)
  BY <1>2, OthersAreQuiet, QuietKeepsStream
<1>. QED
  BY <1>1, <1>2

LEMMA InitStream == Init => StreamInv
<1> SUFFICES ASSUME Init PROVE StreamInv
  OBVIOUS
<1>1. Pending = 0
  BY ThreadFacts DEF Init, Pending
<1>2. wire = <<>> /\ write_buffer = <<>> /\ parsed = 0 /\ <<>> \in Seq(Units)
  BY DEF Init
<1>3. Stream = <<>>
  BY <1>1, <1>2 DEF Stream
<1>. QED
  BY <1>1, <1>2, <1>3 DEF StreamInv, Whole, Ordered, EndsWith

LEMMA StreamAlways == Spec => []StreamInv
<1>1. Init => StreamInv
  BY InitStream
<1>2. IndInv /\ IndInv' /\ StreamInv /\ [Next]_vars => StreamInv'
  BY NextKeepsStream
<1>. QED
  BY <1>1, <1>2, InvAlways, PTL DEF Spec

-----------------------------------------------------------------------------
(* What a step of a worker leaves alone *)

LEMMA HasTaskAppend ==
    ASSUME NEW q \in Seq({"read", "write", "again"}), NEW t \in {"read", "write", "again"},
           NEW S, HasTask(q, S) \/ t \in S
    PROVE  HasTask(Append(q, t), S)
<1>1. /\ Len(Append(q, t)) = Len(q) + 1 /\ Append(q, t)[Len(q) + 1] = t /\ Len(q) \in Nat
      /\ \A k \in 1 .. Len(q) : Append(q, t)[k] = q[k]
  OBVIOUS
<1>. QED
  BY <1>1 DEF HasTask

LEMMA HasTaskTail ==
    ASSUME NEW q \in Seq({"read", "write", "again"}), q # <<>>, NEW S,
           HasTask(q, S), Head(q) \notin S
    PROVE  HasTask(Tail(q), S)
<1>1. PICK k \in 1 .. Len(q) : q[k] \in S
  BY DEF HasTask
<1>2. k # 1
  BY <1>1
<1>3. /\ k - 1 \in 1 .. Len(Tail(q)) /\ Tail(q)[k - 1] = q[k]
  BY <1>2, HeadTailProperties
<1>. QED
  BY <1>1, <1>3 DEF HasTask

\* A worker's step moves only this worker, writes only its own local variables,
\* and never puts a connection into the map.
LEMMA WorkFrame ==
    ASSUME IndInv, NEW w \in Workers, Work(w)
    PROVE  /\ \A t \in Threads : t # w => pc'[t] = pc[t]
           /\ \A v \in Workers : v # w => loc'[v] = loc[v]
           /\ mapped' => mapped
           /\ running' = running
           /\ evs' = evs
<1> USE DEF Goto, clientVars, epollVars, connVars, observerVars
<1>1. pc \in [Threads -> Labels] /\ loc \in [Workers -> Locals]
  BY DEF IndInv, TypeOK, MutexOK, TasksOK
<1>2. CASE TakeTask(w)
  BY <1>1, <1>2 DEF TakeTask
<1>3. CASE ReadAgain(w) \/ Lock(w)
  BY <1>1, <1>3 DEF ReadAgain, Lock
<1>4. CASE RecvData(w) \/ RecvStops(w) \/ RecvEnds(w)
  BY <1>1, <1>4 DEF RecvData, RecvStops, RecvEnds, Leave
<1>5. CASE ParseIncomplete(w) \/ ParseRejects(w) \/ ParseThrows(w)
  <2>1. /\ UNCHANGED <<mapped, running, evs, loc>>
        /\ \E l : pc' = [pc EXCEPT ![w] = l]
    BY <1>5 DEF ParseIncomplete, ParseRejects, ParseThrows, Leave
  <2>. QED
    BY <1>1, <2>1
<1>6. CASE ParseAnswers(w)
  <2>1. PICK x \in Locals :
            /\ loc' = [loc EXCEPT ![w] = x]
            /\ pc' = [pc EXCEPT ![w] = IF x.closing \/ x.more THEN "flush" ELSE "parse"]
    BY <1>6, AnsweringStep
  <2>2. UNCHANGED <<mapped, running, evs>>
    BY <1>6 DEF ParseAnswers
  <2>. QED
    BY <1>1, <2>1, <2>2
<1>7. CASE ReadCloses(w) \/ ReadLingers(w) \/ ReadRearms(w)
  BY <1>1, <1>7 DEF ReadCloses, ReadLingers, ReadRearms, Leave
<1>8. CASE Send(w) \/ EraseSent(w)
  BY <1>1, <1>8 DEF Send, EraseSent
<1>9. CASE FlushReturns(w)
  BY <1>1, <1>9 DEF FlushReturns
<1>10. CASE WriteUnlocks(w)
  BY <1>1, <1>10 DEF WriteUnlocks, Leave
<1>11. CASE WriteCloses(w) \/ WriteGoesOn(w) \/ WriteRearms(w)
  BY <1>1, <1>11 DEF WriteCloses, WriteGoesOn, WriteRearms
<1>12. CASE RemoveConnection(w) \/ Unregister(w)
  BY <1>1, <1>12, ThreadFacts DEF RemoveConnection, Unregister
<1>. QED
  BY <1>2, <1>3, <1>4, <1>5, <1>6, <1>7, <1>8, <1>9, <1>10, <1>11, <1>12
     DEF Work, ReadTask, WriteTask

-----------------------------------------------------------------------------
(* A connection is never left disarmed *)

LEMMA LoopKeepsArmed ==
    ASSUME IndInv, ArmedInv, Loop
    PROVE  ArmedInv'
<1> USE DEF Goto, clientVars, epollVars, connVars, observerVars
<1>1. /\ pc \in [Threads -> Labels] /\ queue \in Seq({"read", "write", "again"})
      /\ evs \subseteq {"IN", "OUT", "HUP"} /\ Main \in Threads
      /\ \A w \in Workers : w \in Threads /\ w # Main
  BY ThreadFacts DEF IndInv, TypeOK, MutexOK, TasksOK
<1>2. CASE EpollWait
  <2>1. PICK r : /\ r # {} /\ r \subseteq {"IN", "OUT", "HUP"} /\ evs' = r
                 /\ pc' = [pc EXCEPT ![Main] = IF "HUP" \in r THEN "remove" ELSE "dispatchRead"]
    BY <1>2 DEF EpollWait, Readiness
  <2>2. CASE "HUP" \in r
    BY <1>1, <2>1, <2>2 DEF ArmedInv
  <2>3. CASE "HUP" \notin r
    BY <1>1, <2>1, <2>3 DEF ArmedInv
  <2>. QED
    BY <2>2, <2>3
<1>3. CASE DispatchRead
  <2>1. /\ pc[Main] = "dispatchRead" /\ pc' = [pc EXCEPT ![Main] = "dispatchWrite"]
        /\ UNCHANGED <<mapped, running, armed, evs>>
    BY <1>3 DEF DispatchRead
  <2>2. CASE "IN" \in evs /\ running /\ mapped
    <3>1. queue' = Append(queue, "read")
      BY <1>3, <2>2 DEF DispatchRead, HandleClientRead
    <3>2. HasTask(queue', {"read", "write"})
      BY <1>1, <3>1, HasTaskAppend
    <3>. QED
      BY <3>2 DEF ArmedInv
  <2>3. CASE "IN" \notin evs /\ running /\ mapped
    <3>1. queue' = queue
      BY <1>3, <2>3 DEF DispatchRead
    <3>. QED
      BY <1>1, <2>1, <2>3, <3>1 DEF ArmedInv
  <2>. QED
    BY <2>1, <2>2, <2>3 DEF ArmedInv
<1>4. CASE DispatchWrite
  <2>1. /\ pc[Main] = "dispatchWrite" /\ pc' = [pc EXCEPT ![Main] = "idle"]
        /\ UNCHANGED <<mapped, running, armed>>
    BY <1>4 DEF DispatchWrite
  <2>2. CASE "OUT" \in evs /\ mapped
    <3>1. queue' = Append(queue, "write")
      BY <1>4, <2>2 DEF DispatchWrite
    <3>2. HasTask(queue', {"read", "write"})
      BY <1>1, <3>1, HasTaskAppend
    <3>. QED
      BY <3>2 DEF ArmedInv
  <2>3. CASE "OUT" \notin evs /\ mapped
    <3>1. queue' = queue
      BY <1>4, <2>3 DEF DispatchWrite
    <3>. QED
      BY <1>1, <2>1, <2>3, <3>1 DEF ArmedInv
  <2>. QED
    BY <2>1, <2>2, <2>3 DEF ArmedInv
<1>5. CASE SweepFindsIdle
  <2>1. pc'[Main] = "remove"
    BY <1>1, <1>5 DEF SweepFindsIdle
  <2>. QED
    BY <2>1 DEF ArmedInv
<1>6. CASE RemoveConnection(Main)
  BY <1>6 DEF RemoveConnection, ArmedInv
<1>7. CASE Unregister(Main)
  BY <1>1, <1>7 DEF Unregister, ArmedInv, IndInv, ThreadInv
<1>. QED
  BY <1>2, <1>3, <1>4, <1>5, <1>6, <1>7 DEF Loop, Dispatch

LEMMA WorkKeepsArmed ==
    ASSUME IndInv, ArmedInv, NEW w \in Workers, Work(w)
    PROVE  ArmedInv'
<1> USE DEF Goto, clientVars, epollVars, connVars, observerVars
<1>1. /\ pc \in [Threads -> Labels] /\ queue \in Seq({"read", "write", "again"})
      /\ w \in Threads /\ w # Main /\ Main \in Threads
      /\ \A v \in Workers : v \in Threads
  BY ThreadFacts DEF IndInv, TypeOK, MutexOK, TasksOK
<1>2. CASE pc'[w] \in Attending
  BY <1>2 DEF ArmedInv
<1>3. CASE TakeTask(w)
  <2>1. Head(queue) \in {"read", "write", "again"}
    BY <1>1, <1>3 DEF TakeTask
  <2>2. CASE Head(queue) \in {"read", "write"}
    <3>1. pc'[w] \in {"lockRead", "lockWrite"}
      BY <1>1, <1>3, <2>2 DEF TakeTask
    <3>. QED
      BY <1>2, <3>1 DEF Attending, Labels
  <2>3. CASE Head(queue) \notin {"read", "write"}
    <3>1. HasTask(queue, {"read", "write"}) => HasTask(queue', {"read", "write"})
      BY <1>1, <1>3, <2>3, HasTaskTail DEF TakeTask
    <3>2. pc[w] \notin Attending /\ UNCHANGED <<mapped, running, armed, evs>>
      BY <1>3 DEF TakeTask, Attending
    <3>. QED
      BY <1>1, <3>1, <3>2, WorkFrame DEF ArmedInv
  <2>. QED
    BY <2>2, <2>3
<1>4. CASE ReadAgain(w)
  <2>1. HasTask(queue, {"read", "write"}) => HasTask(queue', {"read", "write"})
    BY <1>1, <1>4, HasTaskAppend DEF ReadAgain, HandleClientRead
  <2>2. pc[w] \notin Attending /\ UNCHANGED <<mapped, running, armed, evs>>
    BY <1>4 DEF ReadAgain, Attending
  <2>. QED
    BY <1>1, <2>1, <2>2, WorkFrame DEF ArmedInv
<1>5. CASE ReadLingers(w) \/ ReadRearms(w)
  <2>1. mapped' => armed' # {}
    BY <1>5 DEF ReadLingers, ReadRearms, ReadInterest, ModifyEpoll, IndInv, ThreadInv
  <2>. QED
    BY <2>1 DEF ArmedInv
<1>6. CASE WriteRearms(w)
  <2>1. pc[w] \in {"armIn", "armBoth", "armOut"}
    BY <1>6 DEF WriteRearms, WriteInterest
  <2>2. WriteInterest[pc[w]] # {}
    BY <2>1 DEF WriteInterest
  <2>3. mapped' => armed' # {}
    BY <1>6, <2>2 DEF WriteRearms, ModifyEpoll, IndInv, ThreadInv
  <2>. QED
    BY <2>3 DEF ArmedInv
<1>7. CASE RemoveConnection(w) \/ Unregister(w)
  <2>1. ~mapped'
    BY <1>1, <1>7 DEF RemoveConnection, Unregister, IndInv, ThreadInv
  <2>. QED
    BY <2>1 DEF ArmedInv
<1>8. CASE Lock(w) \/ RecvData(w) \/ RecvStops(w) \/ RecvEnds(w) \/ ParseIncomplete(w)
  BY <1>1, <1>2, <1>8
     DEF Lock, RecvData, RecvStops, RecvEnds, ParseIncomplete, Leave, Attending, Labels
<1>9. CASE ParseRejects(w) \/ ParseThrows(w) \/ ReadCloses(w)
  BY <1>1, <1>2, <1>9
     DEF ParseRejects, AfterReject, ParseThrows, ReadCloses, Leave, Attending, Labels
<1>10. CASE ParseAnswers(w)
  <2>1. pc'[w] \in {"flush", "parse"}
    BY <1>1, <1>10, AnsweringStep
  <2>. QED
    BY <1>2, <2>1 DEF Attending, Labels
<1>11. CASE Send(w) \/ EraseSent(w)
  BY <1>1, <1>2, <1>11 DEF Send, EraseSent, Flushing, Attending, Labels
<1>12. CASE FlushReturns(w)
  <2>1. pc'[w] \in {"rearm", "dropError", "unlock"}
    BY <1>1, <1>12, FlushStep
  <2>. QED
    BY <1>2, <2>1 DEF Attending, Labels
<1>13. CASE WriteUnlocks(w) \/ WriteCloses(w) \/ WriteGoesOn(w)
  BY <1>1, <1>2, <1>13 DEF WriteUnlocks, WriteCloses, WriteGoesOn, Leave, Attending, Labels
<1>. QED
  BY <1>3, <1>4, <1>5, <1>6, <1>7, <1>8, <1>9, <1>10, <1>11, <1>12, <1>13
     DEF Work, ReadTask, WriteTask

LEMMA NextKeepsArmed ==
    ASSUME IndInv, ArmedInv, [Next]_vars
    PROVE  ArmedInv'
<1>1. CASE Client \/ Tick \/ Stop \/ UNCHANGED vars
  BY <1>1
     DEF Client, ClientSends, ClientReads, ClientLeaves, Tick, Stop, vars, ArmedInv,
         clientVars, epollVars, connVars, observerVars
<1>. QED
  BY <1>1, LoopKeepsArmed, WorkKeepsArmed DEF Next

LEMMA ArmedAlways == Spec => []ArmedInv
<1>1. Init => ArmedInv
  BY DEF Init, ArmedInv
<1>2. IndInv /\ ArmedInv /\ [Next]_vars => ArmedInv'
  BY NextKeepsArmed
<1>. QED
  BY <1>1, <1>2, InvAlways, PTL DEF Spec

-----------------------------------------------------------------------------
(* No complete request is forgotten *)

LEMMA WorkKeepsStuck ==
    ASSUME IndInv, StuckInv, NEW w \in Workers, Work(w)
    PROVE  StuckInv'
<1> USE DEF Goto, clientVars, epollVars, connVars, observerVars
<1>1. /\ pc \in [Threads -> Labels] /\ w \in Threads
  BY ThreadFacts DEF IndInv, TypeOK, MutexOK
<1>2. CASE pc'[w] \in Closing
  BY <1>1, <1>2 DEF StuckInv
<1>3. CASE stuck' = stuck /\ pc[w] \notin Closing
  BY <1>3, WorkFrame DEF StuckInv
<1>4. CASE TakeTask(w) \/ ReadAgain(w) \/ Lock(w)
  BY <1>3, <1>4 DEF TakeTask, ReadAgain, Lock, Closing
<1>5. CASE RecvData(w) \/ RecvStops(w) \/ RecvEnds(w) \/ ParseIncomplete(w)
  BY <1>3, <1>5 DEF RecvData, RecvStops, RecvEnds, ParseIncomplete, Closing
<1>6. CASE ParseRejects(w) \/ ParseThrows(w) \/ ReadCloses(w) \/ WriteCloses(w)
  BY <1>1, <1>2, <1>6
     DEF ParseRejects, AfterReject, ParseThrows, ReadCloses, WriteCloses, Leave, Closing
<1>7. CASE ParseAnswers(w)
  BY <1>7 DEF ParseAnswers, StuckInv
<1>8. CASE ReadLingers(w) \/ ReadRearms(w)
  BY <1>3, <1>8 DEF ReadLingers, ReadRearms, Closing
<1>9. CASE Send(w) \/ EraseSent(w)
  <2>1. stuck' = stuck /\ pc' = pc
    BY <1>9 DEF Send, EraseSent
  <2>. QED
    BY <1>2, <1>3, <2>1
<1>10. CASE FlushReturns(w)
  <2>1. stuck' = stuck /\ pc[w] \in Flushing /\ pc'[w] = AfterFlush[pc[w]]
    BY <1>1, <1>10 DEF FlushReturns
  <2>2. pc[w] \in Closing => pc'[w] \in Closing
    BY <2>1 DEF Flushing, AfterFlush, Closing
  <2>. QED
    BY <1>2, <1>3, <2>1, <2>2
<1>11. CASE WriteUnlocks(w) \/ WriteGoesOn(w)
  BY <1>3, <1>11 DEF WriteUnlocks, WriteGoesOn, Closing
<1>12. CASE WriteRearms(w)
  <2>1. stuck' = stuck /\ pc[w] \in {"armIn", "armBoth", "armOut"}
    BY <1>12 DEF WriteRearms, WriteInterest
  <2>. QED
    BY <1>3, <2>1 DEF Closing
<1>13. CASE RemoveConnection(w) \/ Unregister(w)
  <2>1. ~mapped'
    BY <1>1, <1>13 DEF RemoveConnection, Unregister, IndInv, ThreadInv
  <2>. QED
    BY <2>1 DEF StuckInv
<1>. QED
  BY <1>4, <1>5, <1>6, <1>7, <1>8, <1>9, <1>10, <1>11, <1>12, <1>13
     DEF Work, ReadTask, WriteTask

LEMMA WorkKeepsParse ==
    ASSUME IndInv, StuckInv, ParseInv, NEW w \in Workers, Work(w)
    PROVE  ParseInv'
<1> USE DEF Goto, clientVars, epollVars, connVars, observerVars
<1>1. /\ pc \in [Threads -> Labels] /\ queue \in Seq({"read", "write", "again"})
      /\ loc \in [Workers -> Locals]
      /\ w \in Threads /\ w # Main /\ Main \in Threads
      /\ \A v \in Workers : v \in Threads
  BY ThreadFacts DEF IndInv, TypeOK, MutexOK, TasksOK
<1>2. \A v \in Workers : v # w /\ WillParse(v) => WillParse(v)'
  BY <1>1, WorkFrame DEF WillParse
<1>3. CASE WillParse(w)'
  BY <1>3 DEF ParseInv
\* The worker does not count, and nothing that matters changes.
<1>4. CASE /\ ~WillParse(w) /\ UNCHANGED <<received, parsed, close_after_write_flag>>
           /\ HasTask(queue, {"read", "again"}) => HasTask(queue', {"read", "again"})
  BY <1>1, <1>2, <1>4, WorkFrame DEF ParseInv, Complete
<1>5. CASE TakeTask(w)
  <2>1. Head(queue) \in {"read", "write", "again"}
    BY <1>1, <1>5 DEF TakeTask
  <2>2. CASE Head(queue) \in {"read", "again"}
    <3>1. pc'[w] \in {"lockRead", "again"}
      BY <1>1, <1>5, <2>2 DEF TakeTask
    <3>. QED
      BY <1>3, <3>1 DEF WillParse
  <2>3. CASE Head(queue) \notin {"read", "again"}
    <3>1. HasTask(queue, {"read", "again"}) => HasTask(queue', {"read", "again"})
      BY <1>1, <1>5, <2>3, HasTaskTail DEF TakeTask
    <3>. QED
      BY <1>4, <1>5, <3>1 DEF TakeTask, WillParse, Closing
  <2>. QED
    BY <2>2, <2>3
<1>6. CASE ReadAgain(w)
  <2>1. CASE running /\ mapped
    <3>1. queue' = Append(queue, "read")
      BY <1>6, <2>1 DEF ReadAgain, HandleClientRead
    <3>2. HasTask(queue', {"read", "again"})
      BY <1>1, <3>1, HasTaskAppend
    <3>. QED
      BY <3>2 DEF ParseInv
  <2>. QED
    BY <1>6, <2>1 DEF ReadAgain, ParseInv
<1>7. CASE Lock(w)
  <2>1. CASE pc[w] = "lockRead"
    BY <1>1, <1>3, <1>7, <2>1 DEF Lock, WillParse
  <2>2. CASE pc[w] # "lockRead"
    BY <1>4, <1>7, <2>2 DEF Lock, WillParse, Closing
  <2>. QED
    BY <2>1, <2>2
<1>8. CASE RecvData(w) \/ RecvStops(w) \/ RecvEnds(w)
  BY <1>1, <1>3, <1>8 DEF RecvData, RecvStops, RecvEnds, Leave, WillParse, Closing
<1>9. CASE ParseIncomplete(w)
  <2>1. /\ pc[w] = "parse" /\ ~Parseable
        /\ UNCHANGED <<received, parsed, close_after_write_flag, mapped, queue>>
    BY <1>9 DEF ParseIncomplete
  <2>2. CASE stuck = "no"
    BY <2>1, <2>2 DEF Parseable, Complete, ParseInv
  <2>3. CASE stuck # "no" /\ mapped
    <3>1. PICK t \in Threads : pc[t] \in Closing
      BY <2>3 DEF StuckInv
    <3>2. t # w /\ pc'[t] \in Closing
      BY <1>1, <2>1, <3>1, WorkFrame DEF Closing
    <3>3. CASE t = Main
      <4>1. pc'[Main] = "remove"
        BY <3>1, <3>2, <3>3, WorkFrame DEF IndInv, ThreadInv, MainPCs, Closing
      <4>. QED
        BY <4>1 DEF ParseInv
    <3>4. CASE t \in Workers
      BY <1>2, <3>1, <3>2, <3>4 DEF ParseInv, WillParse
    <3>. QED
      BY <3>3, <3>4, ThreadFacts
  <2>. QED
    BY <2>1, <2>2, <2>3 DEF ParseInv
<1>10. CASE ParseRejects(w) \/ ParseThrows(w) \/ ReadCloses(w) \/ WriteCloses(w)
  <2>1. pc'[w] \in Closing
    BY <1>1, <1>10
       DEF ParseRejects, AfterReject, ParseThrows, ReadCloses, WriteCloses, Leave, Closing
  <2>. QED
    BY <1>3, <2>1 DEF WillParse
<1>11. CASE ParseAnswers(w)
  <2>1. PICK x \in Locals :
            /\ loc' = [loc EXCEPT ![w] = x]
            /\ pc' = [pc EXCEPT ![w] = IF x.closing \/ x.more THEN "flush" ELSE "parse"]
    BY <1>11, AnsweringStep
  <2>2. /\ loc'[w] = x
        /\ pc'[w] = IF x.closing \/ x.more THEN "flush" ELSE "parse"
    BY <1>1, <2>1
  <2>. QED
    BY <1>3, <2>2 DEF WillParse
<1>12. CASE ReadLingers(w)
  BY <1>12 DEF ReadLingers, ParseInv
<1>13. CASE ReadRearms(w)
  <2>1. /\ pc[w] = "rearm" /\ ~loc[w].error /\ ~loc[w].closing
        /\ UNCHANGED <<received, parsed, close_after_write_flag, mapped, running>>
        /\ queue' = IF loc[w].more /\ running THEN Append(queue, "again") ELSE queue
    BY <1>13 DEF ReadRearms, Resubmits
  <2>2. CASE loc[w].more /\ running
    <3>1. HasTask(queue', {"read", "again"})
      BY <1>1, <2>1, <2>2, HasTaskAppend
    <3>. QED
      BY <3>1 DEF ParseInv
  <2>3. CASE ~loc[w].more
    BY <1>4, <2>1, <2>3 DEF WillParse, Closing
  <2>. QED
    BY <2>1, <2>2, <2>3 DEF ParseInv
<1>14. CASE Send(w) \/ EraseSent(w)
  <2>1. /\ pc[w] \in Flushing /\ pc' = pc
        /\ UNCHANGED <<received, parsed, close_after_write_flag, mapped, queue>>
    BY <1>14 DEF Send, EraseSent
  <2>2. PICK x \in Locals : /\ loc' = [loc EXCEPT ![w] = x]
                            /\ x.closing = loc[w].closing /\ x.more = loc[w].more
    BY <1>14, SendStep, EraseStep
  <2>3. WillParse(w) => WillParse(w)'
    BY <1>1, <2>1, <2>2 DEF WillParse, Flushing
  <2>. QED
    BY <1>3, <1>4, <2>1, <2>3
<1>15. CASE FlushReturns(w)
  <2>1. PICK x \in Locals :
            /\ loc' = [loc EXCEPT ![w] = x]
            /\ x.closing = loc[w].closing /\ x.more = loc[w].more
            /\ pc[w] \in Flushing
            /\ pc' = [pc EXCEPT ![w] = AfterFlush[pc[w]]]
    BY <1>15, FlushStep
  <2>2. loc'[w] = x /\ pc'[w] = AfterFlush[pc[w]]
    BY <1>1, <2>1
  <2>3. CASE pc[w] = "flush"
    <3>1. pc'[w] = "rearm"
      BY <2>2, <2>3 DEF AfterFlush
    <3>. QED
      BY <1>3, <1>4, <1>15, <2>1, <2>2, <2>3, <3>1 DEF WillParse, Closing, FlushReturns
  <2>4. CASE pc[w] = "flushError"
    <3>1. pc'[w] = "dropError"
      BY <2>2, <2>4 DEF AfterFlush
    <3>. QED
      BY <1>3, <3>1 DEF WillParse, Closing
  <2>5. CASE pc[w] = "flushWrite"
    BY <1>4, <1>15, <2>5 DEF WillParse, Closing, FlushReturns
  <2>. QED
    BY <2>1, <2>3, <2>4, <2>5 DEF Flushing
<1>16. CASE WriteUnlocks(w) \/ WriteGoesOn(w)
  BY <1>4, <1>16 DEF WriteUnlocks, WriteGoesOn, WillParse, Closing
<1>17. CASE WriteRearms(w)
  <2>1. pc[w] \in {"armIn", "armBoth", "armOut"}
    BY <1>17 DEF WriteRearms, WriteInterest
  <2>. QED
    BY <1>4, <1>17, <2>1 DEF WriteRearms, WillParse, Closing
<1>18. CASE RemoveConnection(w) \/ Unregister(w)
  <2>1. ~mapped'
    BY <1>1, <1>18 DEF RemoveConnection, Unregister, IndInv, ThreadInv
  <2>. QED
    BY <2>1 DEF ParseInv
<1>. QED
  BY <1>5, <1>6, <1>7, <1>8, <1>9, <1>10, <1>11, <1>12, <1>13, <1>14, <1>15, <1>16, <1>17,
     <1>18
     DEF Work, ReadTask, WriteTask

LEMMA LoopKeepsParse ==
    ASSUME IndInv, StuckInv, ParseInv, Loop
    PROVE  StuckInv' /\ ParseInv'
<1> USE DEF Goto, clientVars, epollVars, connVars, observerVars
<1>1. /\ pc \in [Threads -> Labels] /\ queue \in Seq({"read", "write", "again"})
      /\ Main \in Threads /\ \A w \in Workers : w \in Threads /\ w # Main
  BY ThreadFacts DEF IndInv, TypeOK, MutexOK, TasksOK
<1>2. CASE RemoveConnection(Main) \/ Unregister(Main)
  <2>1. ~mapped'
    BY <1>1, <1>2 DEF RemoveConnection, Unregister, IndInv, ThreadInv
  <2>. QED
    BY <2>1 DEF ParseInv, StuckInv
<1>3. CASE EpollWait \/ DispatchRead \/ DispatchWrite \/ SweepFindsIdle
  <2>1. /\ pc[Main] \notin Closing
        /\ \A t \in Threads : t # Main => pc'[t] = pc[t]
        /\ UNCHANGED <<stuck, loc, mapped, running, close_after_write_flag, received, parsed>>
    BY <1>1, <1>3 DEF EpollWait, DispatchRead, DispatchWrite, SweepFindsIdle, Closing
  <2>2. HasTask(queue, {"read", "again"}) => HasTask(queue', {"read", "again"})
    <3>1. queue' \in {queue, Append(queue, "read"), Append(queue, "write")}
      BY <1>3 DEF EpollWait, DispatchRead, DispatchWrite, SweepFindsIdle, HandleClientRead
    <3>. QED
      BY <1>1, <3>1, HasTaskAppend
  <2>3. StuckInv'
    BY <1>1, <2>1 DEF StuckInv
  <2>4. \A w \in Workers : WillParse(w) => WillParse(w)'
    BY <1>1, <2>1 DEF WillParse
  <2>5. pc[Main] # "remove"
    BY <2>1 DEF Closing
  <2>6. ParseInv'
    BY <2>1, <2>2, <2>4, <2>5 DEF ParseInv, Complete
  <2>. QED
    BY <2>3, <2>6
<1>. QED
  BY <1>2, <1>3 DEF Loop, Dispatch

LEMMA NextKeepsParse ==
    ASSUME IndInv, StuckInv, ParseInv, [Next]_vars
    PROVE  StuckInv' /\ ParseInv'
<1>1. CASE Client \/ Tick \/ Stop \/ UNCHANGED vars
  <2>1. /\ UNCHANGED <<pc, loc, stuck, mapped, queue, close_after_write_flag, received, parsed>>
        /\ running' => running
    BY <1>1
       DEF Client, ClientSends, ClientReads, ClientLeaves, Tick, Stop, vars, clientVars,
           epollVars, connVars, observerVars
  <2>. QED
    BY <2>1 DEF StuckInv, ParseInv, Complete, WillParse
<1>. QED
  BY <1>1, LoopKeepsParse, WorkKeepsStuck, WorkKeepsParse DEF Next

LEMMA ParseAlways == Spec => [](StuckInv /\ ParseInv)
<1>1. Init => StuckInv /\ ParseInv
  <2>1. ASSUME Init PROVE ~Complete
    <3>1. (parsed + 1) * Parts > received
      BY <2>1, ConnIOAssumption DEF Init
    <3>. QED
      BY <3>1, <2>1, ConnIOAssumption DEF Complete, Init
  <2>. QED
    BY <2>1 DEF Init, StuckInv, ParseInv
<1>2. IndInv /\ StuckInv /\ ParseInv /\ [Next]_vars => StuckInv' /\ ParseInv'
  BY NextKeepsParse
<1>. QED
  BY <1>1, <1>2, InvAlways, PTL DEF Spec

-----------------------------------------------------------------------------
(* Theorems *)

\* The variables keep their types, every unit the client sent is in the kernel or
\* in read_buffer, and at most one task at a time is in the part of a read or
\* write task that conn_mutex protects.
THEOREM TypeCorrect == Spec => []TypeOK
<1>1. IndInv => TypeOK
  BY DEF IndInv
<1>. QED
  BY <1>1, InvAlways, PTL

\* Whatever the requests and however read and write tasks of the connection
\* interleave, the answers on the wire are never mixed, cut or out of order; only
\* after a 400 or a 429 can the same request be answered again.
THEOREM AnswersAreWhole == Spec => []Whole(wire)
<1>1. ASSUME IndInv, StreamInv PROVE Whole(wire)
  <2>1. /\ Len(wire) \in Nat /\ Len(Stream) \in Nat /\ Len(wire) <= Len(Stream)
        /\ \A k \in 1 .. Len(wire) : Stream[k] = wire[k]
    BY <1>1, WirePrefix
  <2>2. wire \in Seq(Units)
    BY <1>1, PendingIs
  <2>3. wire # <<>> => 1 \in 1 .. Len(wire) /\ Stream # <<>>
    BY <2>1, <2>2
  <2>4. \A k \in 1 .. Len(wire) - 1 :
            k \in 1 .. Len(Stream) - 1 /\ Stream[k] = wire[k] /\ Stream[k + 1] = wire[k + 1]
    BY <2>1
  <2>5. Whole(Stream)
    BY <1>1 DEF StreamInv
  <2>. QED
    BY <2>1, <2>3, <2>4, <2>5 DEF Whole
<1>. QED
  BY <1>1, InvAlways, StreamAlways, PTL

LEMMA StreamGivesOrder ==
    ASSUME IndInv, StreamInv, ~rejected
    PROVE  WireInOrder
<1>1. /\ Len(wire) \in Nat /\ Len(Stream) \in Nat /\ Len(wire) <= Len(Stream)
      /\ \A k \in 1 .. Len(wire) : Stream[k] = wire[k]
  BY WirePrefix
<1>2. wire \in Seq(Units)
  BY PendingIs
<1>3. wire # <<>> => 1 \in 1 .. Len(wire) /\ Stream # <<>>
  BY <1>1, <1>2
<1>4. \A k \in 1 .. Len(wire) - 1 :
          k \in 1 .. Len(Stream) - 1 /\ Stream[k] = wire[k] /\ Stream[k + 1] = wire[k + 1]
  BY <1>1
<1>5. Ordered(Stream)
  BY DEF StreamInv
<1>. QED
  BY <1>1, <1>3, <1>4, <1>5 DEF Ordered, WireInOrder

\* Until a 400 or a 429 was produced, what send() put on the wire is the answers in
\* the order of the requests, no unit lost, repeated or mixed with another answer.
THEOREM AnswersAreInOrder == Spec => [](~rejected => WireInOrder)
<1>1. IndInv /\ StreamInv => (~rejected => WireInOrder)
  BY StreamGivesOrder
<1>. QED
  BY <1>1, InvAlways, StreamAlways, PTL

\* The same without a condition, for a client whose requests are neither malformed
\* nor refused.
THEOREM WireIsInOrder ==
    ASSUME "bad" \notin Kinds, ~MayDeny
    PROVE  Spec => []WireInOrder
<1>1. Init => ~rejected
  BY DEF Init
<1>2. ~rejected /\ [Next]_vars => ~rejected'
  <2> SUFFICES ASSUME ~rejected, [Next]_vars PROVE ~rejected'
    OBVIOUS
  <2> USE DEF observerVars
  <2>1. CASE Client \/ Tick \/ Stop \/ Loop \/ UNCHANGED vars
    BY <2>1
       DEF Client, ClientSends, ClientReads, ClientLeaves, Tick, Stop, Loop, Dispatch,
           EpollWait, DispatchRead, DispatchWrite, SweepFindsIdle, RemoveConnection, Unregister,
           vars
  <2>2. ASSUME NEW w \in Workers, Work(w) PROVE ~rejected'
    <3>1. ~ParseRejects(w)
      BY DEF ParseRejects
    <3>2. CASE TakeTask(w) \/ ReadAgain(w) \/ Lock(w) \/ RemoveConnection(w) \/ Unregister(w)
      BY <3>2 DEF TakeTask, ReadAgain, Lock, RemoveConnection, Unregister
    <3>3. CASE ReadTask(w)
      BY <3>1, <3>3
         DEF ReadTask, RecvData, RecvStops, RecvEnds, ParseIncomplete, ParseThrows,
             ParseAnswers, ReadCloses, ReadLingers, ReadRearms
    <3>4. CASE Send(w) \/ EraseSent(w) \/ FlushReturns(w) \/ WriteTask(w)
      BY <3>4
         DEF Send, EraseSent, FlushReturns, WriteTask, WriteUnlocks, WriteCloses, WriteGoesOn,
             WriteRearms
    <3>. QED
      BY <2>2, <3>2, <3>3, <3>4 DEF Work
  <2>. QED
    BY <2>1, <2>2 DEF Next
<1>. QED
  BY <1>1, <1>2, AnswersAreInOrder, PTL DEF Spec

\* While the loop runs, a connection no thread works for and no task waits for is
\* armed, whichever way the tasks that a report of epoll_wait started have ended.
THEOREM NeverLeftDeaf == Spec => []NeverDeaf
<1>1. IndInv /\ ArmedInv => NeverDeaf
  <2> SUFFICES ASSUME IndInv, ArmedInv, Quiescent, mapped, running PROVE armed # {}
    BY DEF NeverDeaf
  <2>1. ~HasTask(queue, {"read", "write"})
    BY DEF Quiescent, HasTask
  <2>2. pc[Main] = "idle" /\ \A w \in Workers : pc[w] \notin Attending
    BY ThreadFacts DEF Quiescent, Attending
  <2>. QED
    BY <2>1, <2>2 DEF ArmedInv
<1>. QED
  BY <1>1, InvAlways, ArmedAlways, PTL

\* While the loop runs, no complete request stays in read_buffer once all tasks of
\* the connection are done, although no event reports bytes already received.
THEOREM NoRequestForgotten == Spec => []NothingLeftUnparsed
<1>1. IndInv /\ ParseInv => NothingLeftUnparsed
  <2> SUFFICES ASSUME IndInv, ParseInv, Quiescent, mapped, running, ~close_after_write_flag
               PROVE  ~Complete
    BY DEF NothingLeftUnparsed
  <2>1. ~HasTask(queue, {"read", "again"})
    BY DEF Quiescent, HasTask
  <2>2. pc[Main] = "idle" /\ \A w \in Workers : ~WillParse(w)
    BY ThreadFacts DEF Quiescent, WillParse, Closing
  <2>. QED
    BY <2>1, <2>2 DEF ParseInv
<1>. QED
  BY <1>1, InvAlways, ParseAlways, PTL

=============================================================================
