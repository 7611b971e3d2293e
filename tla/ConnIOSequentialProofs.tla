----------------------- MODULE ConnIOSequentialProofs -----------------------
(***************************************************************************)
(* Proofs about ConnIO for a client that waits for each answer before it   *)
(* sends the next request, for any number of workers, any requests, sizes  *)
(* and limits.                                                             *)
(***************************************************************************)
EXTENDS ConnIOProofs

\* Labels of a read task up to the parser, of a write task with the mutex to
\* come or held, and after it; and of any task.
ReadSide == {"again", "lockRead", "recv", "parse"}
WriteSide == {"lockWrite", "flushWrite", "unlock"}
WriteEnd == {"decide", "armIn", "armBoth", "armOut"}
InTask == ReadSide \cup WriteSide \cup WriteEnd \cup {"flush", "flushError", "rearm", "dropError"}

\* The last request that was answered.
Last == parsed + (IF rejected THEN 1 ELSE 0)

\* The client goes on when it has read an answer, which is one on the wire that
\* nothing follows.
AnswerInv ==
    /\ answers = Last /\ Last * Parts <= received
    /\ \A r \in Requests : sent > r * Parts => Answered(r)
    /\ \A k \in 1 .. Len(Stream) :
          Stream[k].req <= Last /\ (Stream[k].req = Last /\ Stream[k].left = 0 => k = Len(Stream))

\* What the local variables of a task say.
LocalOK(w) ==
    /\ ~loc[w].more
    /\ pc[w] \in {"lockRead", "recv"} => loc[w].count = 0
    /\ pc[w] \in {"lockRead", "recv", "parse"} => ~loc[w].closing
    /\ pc[w] = "parse" /\ loc[w].count > 0 => write_buffer # <<>>
    /\ pc[w] \in {"flush", "rearm"} /\ loc[w].closing => committed # 0
    /\ pc[w] \in {"rearm", "unlock"} => (loc[w].flushed <=> write_buffer = <<>>)
    /\ pc[w] = "armIn" => loc[w].flushed
    /\ pc[w] \in {"armBoth", "armOut"} => ~loc[w].flushed
LocalInv == \A w \in Workers : LocalOK(w)

\* Who has announced the close, or answered with an error, is done.
DoneInv ==
    /\ hangup \in {"no"} \cup MayHangUp
    /\ committed # 0 => committed = answers
    /\ close_after_write_flag => committed # 0
    /\ rejected => stuck # "no" /\ committed # 0

-----------------------------------------------------------------------------
(* One at a time *)

\* The client has hung up with every request answered: nothing will be parsed.
Over == "fin" \in MayHangUp /\ hangup # "no" /\ sent <= Last * Parts

NoWorker == \A w \in Workers : pc[w] \notin InTask

\* Main is about to submit a task.
MainHolds == pc[Main] = "dispatchRead" \/ (pc[Main] = "dispatchWrite" /\ "OUT" \in evs)

\* The descriptor is armed, or Main is about to submit a task, or one is queued,
\* or one is under way.
Single ==
    /\ \A v, w \in Workers : pc[v] \in InTask /\ pc[w] \in InTask => v = w
    /\ queue # <<>> => Len(queue) = 1 /\ NoWorker
    /\ MainHolds => queue = <<>> /\ NoWorker
    /\ armed # {} => ~MainHolds /\ queue = <<>> /\ NoWorker
    /\ pc[Main] = "dispatchRead" => evs \in {{"IN"}, {"OUT"}}

\* Output is of interest only as long as something is to be sent.
BufferInv ==
    /\ "OUT" \in armed => write_buffer # <<>>
    /\ \A w \in Workers : pc[w] \in WriteEnd => (loc[w].flushed <=> write_buffer = <<>>)

\* After the announcement nobody reads: the read task that made it closes or leaves
\* the mark, and only write tasks follow, the last of which closes.
SealedAt(w) ==
    /\ pc[w] \notin ReadSide \cup {"armIn"}
    /\ pc[w] \in {"flush", "rearm"} => loc[w].closing
    /\ pc[w] = "decide" => loc[w].closing \/ ~loc[w].flushed
    /\ pc[w] \in WriteSide \cup WriteEnd => close_after_write_flag
Sealed ==
    /\ queue # <<>> => Head(queue) = "write"
    /\ pc[Main] = "dispatchRead" => "IN" \notin evs
    /\ \A w \in Workers : SealedAt(w)
    /\ armed # {} => write_buffer # <<>>
    /\ armed # {} \/ queue # <<>> \/ MainHolds => close_after_write_flag

\* The mark is never forgotten.
Minded ==
    close_after_write_flag /\ mapped /\ armed = {} =>
        \/ MainHolds \/ queue # <<>>
        \/ \E w \in Workers : pc[w] \in WriteSide \cup WriteEnd
        \/ \E t \in Threads : pc[t] = "remove"

Orderly == Single /\ BufferInv /\ (committed # 0 => Sealed) /\ Minded

SeqInv == AnswerInv /\ LocalInv /\ DoneInv /\ (Over \/ Orderly)

\* An error answer fits into the socket's buffer, which the client has emptied.
ErrorInv ==
    rejected /\ hangup = "no" =>
        \/ write_buffer = <<>>
        \/ \E w \in Workers :
              pc[w] = "flushError" /\ Len(write_buffer) - loc[w].taken <= Room

-----------------------------------------------------------------------------
(* The answers *)

LEMMA LastFacts ==
    ASSUME IndInv, AnswerInv
    PROVE  /\ Last \in Nat /\ Last * Parts \in Nat /\ sent \in Nat /\ received \in Nat
           /\ inKernel \in Nat /\ sent = inKernel + received
           /\ Last * Parts <= received
           /\ parsed \in Nat /\ rejected \in BOOLEAN /\ committed \in Nat /\ answers = Last
           /\ Last = IF rejected THEN parsed + 1 ELSE parsed
<1>1. parsed \in Nat /\ rejected \in BOOLEAN /\ committed \in Nat
  BY DEF IndInv, TypeOK, ConnectionOK
<1>2. Last \in Nat /\ Last = IF rejected THEN parsed + 1 ELSE parsed
  BY <1>1 DEF Last
<1>3. Last * Parts \in Nat
  BY <1>2, TimesParts
<1>4. sent \in Nat /\ received \in Nat /\ inKernel \in Nat /\ sent = inKernel + received
  <2>1. MaxRequests * Parts \in Nat
    BY ConnIOAssumption, TimesParts
  <2>. QED
    BY <2>1 DEF IndInv, TypeOK, SocketOK
<1>. QED
  BY <1>1, <1>2, <1>3, <1>4 DEF AnswerInv

\* Once the client has begun a new request, it has read all that was to be sent.
LEMMA CaughtUp ==
    ASSUME IndInv, StreamInv, AnswerInv, sent > Last * Parts
    PROVE  clientRead = Len(wire) /\ Len(Stream) = Len(wire)
<1>1. /\ Stream \in Seq(Units) /\ Len(wire) \in Nat /\ Len(wire) <= Len(Stream)
      /\ \A k \in 1 .. Len(wire) : Stream[k] = wire[k]
  BY WirePrefix
<1>2. clientRead \in Nat /\ clientRead <= Len(wire) /\ Len(Stream) \in Nat
  BY <1>1 DEF IndInv, TypeOK, SocketOK
<1>3. CASE Last = 0
  <2>1. ASSUME NEW k \in 1 .. Len(Stream) PROVE FALSE
    <3>1. Stream[k] \in Units
      BY <1>1
    <3>2. Stream[k].req \in Nat /\ Stream[k].req >= 1
      BY <3>1 DEF Units, Requests
    <3>3. Stream[k].req <= 0
      BY <1>3 DEF AnswerInv
    <3>. QED
      BY <3>2, <3>3
  <2>2. Len(Stream) = 0
    BY <1>2, <2>1
  <2>. QED
    BY <1>1, <1>2, <2>2
<1>4. CASE Last # 0
  <2>1. Last \in Requests
    <3>1. sent <= MaxRequests * Parts /\ MaxRequests \in Nat /\ MaxRequests * Parts \in Nat
      BY ConnIOAssumption, TimesParts DEF IndInv, TypeOK, SocketOK
    <3>2. Last * Parts <= MaxRequests * Parts
      BY <3>1, LastFacts
    <3>3. Last <= MaxRequests
      BY <3>1, <3>2, LastFacts, TimesParts
    <3>. QED
      BY <1>4, <3>1, <3>3, LastFacts DEF Requests
  <2>2. PICK k \in 1 .. clientRead : wire[k].req = Last /\ wire[k].left = 0
    BY <2>1 DEF AnswerInv, Answered
  <2>3. k \in 1 .. Len(wire) /\ k \in 1 .. Len(Stream)
    BY <1>1, <1>2
  <2>4. Stream[k].req = Last /\ Stream[k].left = 0
    BY <1>1, <2>2, <2>3
  <2>5. k = Len(Stream)
    BY <2>3, <2>4 DEF AnswerInv
  <2>. QED
    BY <1>1, <1>2, <2>5
<1>. QED
  BY <1>3, <1>4

\* ... and as long as no flush is under way, nothing is left to be sent.
LEMMA CaughtUpBuffer ==
    ASSUME IndInv, StreamInv, AnswerInv, sent > Last * Parts, Pending = 0
    PROVE  write_buffer = <<>> /\ clientRead = Len(wire)
<1>1. wire \in Seq(Units) /\ write_buffer \in Seq(Units)
  BY PendingIs
<1>2. Stream = wire \o write_buffer
  BY <1>1, SubSeqFull DEF Stream
<1>3. Len(Stream) = Len(wire) + Len(write_buffer) /\ Len(wire) \in Nat /\ Len(write_buffer) \in Nat
  <2>1. Len(wire \o write_buffer) = Len(wire) + Len(write_buffer)
    BY <1>1, ConcatUnits
  <2>. QED
    BY <1>1, <1>2, <2>1
<1>4. Len(write_buffer) = 0
  BY <1>3, CaughtUp
<1>. QED
  BY <1>1, <1>4, CaughtUp

\* What the parser yields is more than was answered so far.
LEMMA ParseFresh ==
    ASSUME IndInv, AnswerInv, Parseable, rejected => stuck # "no"
    PROVE  received > Last * Parts /\ sent > Last * Parts
<1>1. Parts \in Nat /\ Parts > 0 /\ parsed \in Nat /\ received \in Nat
  BY ConnIOAssumption, LastFacts
<1>2. (parsed + 1) * Parts = parsed * Parts + Parts /\ parsed * Parts \in Nat
  BY <1>1
<1>3. CASE rejected
  <2>1. Last = parsed + 1 /\ received > (parsed + 1) * Parts
    BY <1>3, LastFacts DEF Parseable
  <2>. QED
    BY <2>1, LastFacts
<1>4. CASE ~rejected
  <2>1. Last = parsed
    BY <1>4, LastFacts
  <2>2. (parsed + 1) * Parts <= received
    BY ParseableIsRequest
  <2>3. parsed * Parts < received
    BY <1>1, <1>2, <2>2
  <2>. QED
    BY <1>1, <2>1, <2>3, LastFacts
<1>. QED
  BY <1>3, <1>4

\* A request is parsed only before the close is announced, by a task that has
\* parsed no other one, and with the earlier answers sent and read.
LEMMA ParseOpens ==
    ASSUME IndInv, StreamInv, SeqInv, NEW w \in Workers, pc[w] = "parse", Parseable
    PROVE  /\ ~Over /\ committed = 0 /\ ~rejected /\ Last = parsed
           /\ write_buffer = <<>> /\ clientRead = Len(wire) /\ loc[w].count = 0
<1>1. received > Last * Parts /\ sent > Last * Parts
  BY ParseFresh DEF SeqInv, DoneInv
<1>2. ~Over
  BY <1>1, LastFacts DEF Over, SeqInv
<1>3. committed = 0
  BY <1>2 DEF SeqInv, Orderly, Sealed, SealedAt, ReadSide
<1>4. ~rejected
  BY <1>3 DEF SeqInv, DoneInv
<1>5. Last = parsed
  BY <1>4, LastFacts DEF SeqInv
<1>6. Pending = 0
  BY PendingIs DEF InMutex, Flushing
<1>7. write_buffer = <<>> /\ clientRead = Len(wire)
  BY <1>1, <1>6, CaughtUpBuffer DEF SeqInv
<1>8. loc[w].count = 0
  <2>1. loc[w].count \in Nat
    BY DEF IndInv, TypeOK, TasksOK, Locals
  <2>. QED
    BY <1>7, <2>1 DEF SeqInv, LocalInv, LocalOK
<1>. QED
  BY <1>2, <1>3, <1>4, <1>5, <1>7, <1>8

\* The steps that answer nothing.
LEMMA OthersAnswerNothing ==
    ASSUME IndInv, [Next]_vars, \A w \in Workers : ~ParseRejects(w) /\ ~ParseAnswers(w)
    PROVE  /\ UNCHANGED <<answers, committed, rejected, parsed>>
           /\ stuck # "no" => stuck' # "no"
           /\ hangup' = hangup \/ (hangup' \in MayHangUp /\ hangup' \in {"fin", "rst"})
           /\ sent' = sent \/ ClientSends
           /\ received <= received' /\ clientRead <= clientRead'
           /\ close_after_write_flag' => close_after_write_flag \/ \E w \in Workers : ReadLingers(w)
<1> USE DEF clientVars, epollVars, connVars, observerVars
<1>1. received \in Nat /\ inKernel \in Nat /\ clientRead \in Nat
  <2>1. wire \in Seq(Units) /\ clientRead \in 0 .. Len(wire)
    BY DEF IndInv, TypeOK, SocketOK
  <2>. QED
    BY <2>1 DEF IndInv, TypeOK, SocketOK
<1>2. CASE Client \/ Tick \/ Stop \/ UNCHANGED vars
  <2>1. CASE ClientLeaves
    <3>1. hangup' \in MayHangUp /\ hangup' \in {"fin", "rst"}
      BY <2>1, ConnIOAssumption DEF ClientLeaves
    <3>. QED
      BY <1>1, <2>1, <3>1 DEF ClientLeaves
  <2>2. CASE ClientSends
    BY <1>1, <2>2 DEF ClientSends
  <2>3. CASE ClientReads
    BY <1>1, <2>3 DEF ClientReads
  <2>4. CASE Tick \/ Stop \/ UNCHANGED vars
    BY <1>1, <2>4 DEF Tick, Stop, vars
  <2>. QED
    BY <1>2, <2>1, <2>2, <2>3, <2>4 DEF Client
<1>3. CASE Loop
  <2>1. UNCHANGED <<answers, committed, rejected, parsed, stuck, hangup, sent, received, clientRead,
                    close_after_write_flag>>
    BY <1>3
       DEF Loop, Dispatch, EpollWait, DispatchRead, DispatchWrite, SweepFindsIdle,
           RemoveConnection, Unregister
  <2>. QED
    BY <1>1, <2>1
<1>4. ASSUME NEW w \in Workers, Work(w)
      PROVE  /\ UNCHANGED <<answers, committed, rejected, parsed, hangup, sent, clientRead>>
             /\ stuck # "no" => stuck' # "no"
             /\ received <= received'
             /\ close_after_write_flag' => close_after_write_flag \/ ReadLingers(w)
  <2>1. CASE TakeTask(w) \/ ReadAgain(w) \/ Lock(w) \/ RecvStops(w) \/ RecvEnds(w)
    BY <1>1, <2>1 DEF TakeTask, ReadAgain, Lock, RecvStops, RecvEnds
  <2>2. CASE RecvData(w)
    BY <1>1, <2>2 DEF RecvData
  <2>3. CASE ParseIncomplete(w) \/ ParseThrows(w) \/ ReadCloses(w) \/ ReadLingers(w)
    BY <1>1, <2>3 DEF ParseIncomplete, ParseThrows, ReadCloses, ReadLingers
  <2>4. CASE ReadRearms(w) \/ Send(w) \/ EraseSent(w) \/ FlushReturns(w)
    BY <1>1, <2>4 DEF ReadRearms, Send, EraseSent, FlushReturns
  <2>5. CASE WriteUnlocks(w) \/ WriteCloses(w) \/ WriteGoesOn(w) \/ WriteRearms(w)
    BY <1>1, <2>5 DEF WriteUnlocks, WriteCloses, WriteGoesOn, WriteRearms
  <2>6. CASE RemoveConnection(w) \/ Unregister(w)
    BY <1>1, <2>6 DEF RemoveConnection, Unregister
  <2>. QED
    BY <1>4, <2>1, <2>2, <2>3, <2>4, <2>5, <2>6 DEF Work, ReadTask, WriteTask
<1>5. CASE \E w \in Workers : Work(w)
  <2>1. PICK w \in Workers : Work(w)
    BY <1>5
  <2>2. UNCHANGED <<answers, committed, rejected, parsed>> /\ (stuck # "no" => stuck' # "no")
    BY <1>4, <2>1
  <2>3. hangup' = hangup /\ sent' = sent /\ received <= received' /\ clientRead <= clientRead'
    BY <1>1, <1>4, <2>1
  <2>4. close_after_write_flag' => close_after_write_flag \/ ReadLingers(w)
    BY <1>4, <2>1
  <2>. QED
    BY <2>1, <2>2, <2>3, <2>4
<1>. QED
  BY <1>2, <1>3, <1>5 DEF Next

\* What the client has read stays on the wire.
LEMMA AnsweredStays ==
    ASSUME IndInv, IndInv', [Next]_vars, clientRead <= clientRead', NEW r, Answered(r)
    PROVE  Answered(r)'
<1>1. wire \in Seq(Units) /\ write_buffer \in Seq(Units)
  BY PendingIs
<1>2. clientRead \in Nat /\ clientRead <= Len(wire) /\ Len(wire) \in Nat
  BY <1>1 DEF IndInv, TypeOK, SocketOK
<1>3. \A k \in 1 .. Len(wire) : wire'[k] = wire[k]
  <2>1. CASE \E w \in Workers : Send(w)
    <3>1. PICK w \in Workers : Send(w)
      BY <2>1
    <3>2. PICK x \in Locals : /\ x.taken \in 1 .. Len(write_buffer)
                              /\ wire' = wire \o SubSeq(write_buffer, 1, x.taken)
      BY <3>1, SendStep
    <3>3. SubSeq(write_buffer, 1, x.taken) \in Seq(Units)
      BY <1>1, <3>2
    <3>. QED
      BY <1>1, <3>2, <3>3, ConcatUnits
  <2>2. CASE \E w \in Workers : EraseSent(w) \/ ParseRejects(w) \/ ParseAnswers(w)
    BY <2>2 DEF EraseSent, ParseRejects, ParseAnswers
  <2>. QED
    BY <2>1, <2>2, OthersAreQuiet
<1>4. PICK k \in 1 .. clientRead : wire[k].req = r /\ wire[k].left = 0
  BY DEF Answered
<1>5. clientRead' \in Int
  BY DEF IndInv, TypeOK, SocketOK
<1>6. k \in 1 .. Len(wire) /\ k \in 1 .. clientRead'
  BY <1>2, <1>4, <1>5
<1>. QED
  BY <1>3, <1>4, <1>6 DEF Answered

\* What an answering step does.
LEMMA AnswerHappens ==
    ASSUME IndInv, IndInv', StreamInv, SeqInv, NEW w \in Workers,
           ParseAnswers(w) \/ ParseRejects(w)
    PROVE  /\ pc[w] = "parse" /\ Parseable
           /\ \E n \in Nat \ {0} :
                 /\ Stream' = Stream \o Answer(parsed + 1, n)
                 /\ write_buffer' = Answer(parsed + 1, n)
                 /\ ParseRejects(w) => n = ErrorSize
           /\ Last' = parsed + 1 /\ answers' = answers + 1
           /\ UNCHANGED <<wire, clientVars, received, close_after_write_flag>>
           /\ committed' \in {0, answers'}
           /\ rejected' => stuck' # "no" /\ committed' # 0
<1> USE DEF clientVars
<1>1. pc[w] = "parse" /\ Parseable
  BY DEF ParseAnswers, ParseRejects, Parses
<1>2. /\ ~Over /\ committed = 0 /\ ~rejected /\ Last = parsed
      /\ write_buffer = <<>> /\ clientRead = Len(wire) /\ loc[w].count = 0
  BY <1>1, ParseOpens
<1>3. /\ UNCHANGED <<wire, clientVars, received, close_after_write_flag, mutex>>
      /\ answers' = answers + 1
  BY DEF ParseAnswers, ParseRejects, AppendUnsent
<1>4. answers \in Nat /\ parsed \in Nat
  BY DEF IndInv, TypeOK, ConnectionOK
<1>5. parsed + 1 \in Requests
  BY <1>1, ParseableIsRequest
<1>6. \A n \in Nat \ {0} : write_buffer \o Answer(parsed + 1, n) = Answer(parsed + 1, n)
  BY <1>2, <1>5, AnswerIs
<1>7. CASE ParseRejects(w)
  <2>1. /\ rejected' /\ parsed' = parsed /\ loc' = loc /\ Commits(TRUE)
        /\ write_buffer' = write_buffer \o Answer(parsed + 1, ErrorSize)
    BY <1>7 DEF ParseRejects, AppendUnsent
  <2>2. stuck' # "no"
    BY <1>7, ConnIOAssumption DEF ParseRejects
  <2>3. committed' = answers' /\ committed' # 0
    BY <1>2, <1>3, <1>4, <2>1 DEF Commits
  <2>4. ErrorSize \in Nat \ {0}
    BY ConnIOAssumption
  <2>5. Stream' = Stream \o Answer(parsed + 1, ErrorSize)
    BY <1>1, <1>3, <2>1, <2>4, AppendToStream
  <2>6. Last' = parsed + 1
    BY <2>1 DEF Last
  <2>. QED
    BY <1>1, <1>3, <1>6, <2>1, <2>2, <2>3, <2>4, <2>5, <2>6
<1>8. CASE ~ParseRejects(w)
  <2>1. PICK x \in Locals :
            /\ loc' = [loc EXCEPT ![w] = x] /\ x.taken = loc[w].taken /\ Commits(x.closing)
    BY <1>8, AnsweringStep
  <2>2. loc'[w].taken = loc[w].taken
    BY <2>1 DEF IndInv, TypeOK, TasksOK
  <2>3. /\ parsed' = parsed + 1 /\ rejected' = rejected
        /\ write_buffer' = write_buffer \o Answer(parsed + 1, AnswerSize)
    BY <1>8 DEF ParseAnswers, AppendUnsent
  <2>4. AnswerSize \in Nat \ {0}
    BY ConnIOAssumption
  <2>5. Stream' = Stream \o Answer(parsed + 1, AnswerSize)
    BY <1>1, <1>3, <2>2, <2>3, <2>4, AppendToStream
  <2>6. Last' = parsed + 1
    BY <1>2, <1>4, <2>3 DEF Last
  <2>7. committed' \in {0, answers'}
    BY <1>2, <1>3, <1>4, <2>1 DEF Commits
  <2>8. ~rejected'
    BY <1>2, <2>3
  <2>. QED
    BY <1>1, <1>3, <1>6, <1>8, <2>3, <2>4, <2>5, <2>6, <2>7, <2>8
<1>. QED
  BY <1>7, <1>8

\* Every step but an answering one leaves the stream as it is.
LEMMA StreamStays ==
    ASSUME IndInv, IndInv', StreamInv, [Next]_vars,
           \A w \in Workers : ~ParseRejects(w) /\ ~ParseAnswers(w)
    PROVE  Stream' = Stream
<1>1. CASE \E w \in Workers : Send(w) \/ EraseSent(w)
  BY <1>1, SendKeepsStream, EraseKeepsStream
<1>2. CASE ~\E w \in Workers : Send(w) \/ EraseSent(w)
  <2>1. /\ UNCHANGED <<wire, write_buffer, parsed, rejected>>
        /\ \A w \in Workers : loc'[w].taken = loc[w].taken
    BY <1>2, OthersAreQuiet
  <2>. QED
    BY <2>1, QuietKeepsStream
<1>. QED
  BY <1>1, <1>2

LEMMA NextKeepsAnswers ==
    ASSUME ~Pipelines, IndInv, IndInv', StreamInv, SeqInv, [Next]_vars
    PROVE  AnswerInv'
<1>1. AnswerInv /\ DoneInv
  BY DEF SeqInv
<1>2. /\ Stream \in Seq(Units) /\ Len(Stream) \in Nat
  BY WirePrefix
<1>3. CASE \E w \in Workers : ParseRejects(w) \/ ParseAnswers(w)
  <2>1. PICK w \in Workers : ParseRejects(w) \/ ParseAnswers(w)
    BY <1>3
  <2>2. /\ pc[w] = "parse" /\ Parseable
        /\ Last' = parsed + 1 /\ answers' = answers + 1
        /\ UNCHANGED <<wire, clientVars, received>>
    BY <2>1, AnswerHappens
  <2>3. PICK n \in Nat \ {0} : Stream' = Stream \o Answer(parsed + 1, n)
    BY <2>1, AnswerHappens
  <2>4. Last = parsed /\ answers = parsed /\ parsed \in Nat
    BY <1>1, <2>2, ParseOpens, LastFacts
  <2>5. parsed + 1 \in Requests /\ (parsed + 1) * Parts <= received
    BY <2>2, ParseableIsRequest
  <2>6. answers' = Last' /\ Last' * Parts <= received'
    BY <2>2, <2>4, <2>5
  <2>7. \A r \in Requests : sent' > r * Parts => Answered(r)'
    BY <1>1, <2>2 DEF AnswerInv, Answered, clientVars
  <2> DEFINE a == Answer(parsed + 1, n)
             u == Stream \o a
  <2>8. /\ a \in Seq(Units) /\ Len(a) = n
        /\ \A k \in 1 .. n : a[k].req = parsed + 1 /\ a[k].left = n - k
    BY <2>5, AnswerUnits
  <2> HIDE DEF a
  <2>9. /\ Len(u) = Len(Stream) + n
        /\ \A k \in 1 .. Len(Stream) : u[k] = Stream[k]
        /\ \A k \in 1 .. n : u[Len(Stream) + k] = a[k]
    BY <1>2, <2>8, ConcatUnits
  <2>10. Stream' = u
    BY <2>3 DEF a
  <2> HIDE DEF u
  <2>11. ASSUME NEW k \in 1 .. Len(u)
         PROVE  u[k].req <= parsed + 1 /\ (u[k].req = parsed + 1 /\ u[k].left = 0 => k = Len(u))
    <3>1. CASE k <= Len(Stream)
      <4>1. u[k].req <= parsed /\ u[k].req \in Int
        <5>1. k \in 1 .. Len(Stream) /\ u[k] = Stream[k]
          BY <1>2, <2>9, <3>1
        <5>2. Stream[k] \in Units
          BY <1>2, <5>1
        <5>. QED
          BY <1>1, <2>4, <5>1, <5>2 DEF AnswerInv, Units, Requests
      <4>. QED
        BY <2>4, <4>1
    <3>2. CASE ~(k <= Len(Stream))
      <4>1. /\ k - Len(Stream) \in 1 .. n
            /\ Len(Stream) + (k - Len(Stream)) = k
        BY <1>2, <2>9, <3>2
      <4>2. u[k].req = parsed + 1 /\ u[k].left = n - (k - Len(Stream))
        BY <2>8, <2>9, <4>1
      <4>. QED
        BY <1>2, <2>4, <2>9, <4>1, <4>2
    <3>. QED
      BY <3>1, <3>2
  <2>12. \A k \in 1 .. Len(Stream') :
            /\ Stream'[k].req <= Last'
            /\ Stream'[k].req = Last' /\ Stream'[k].left = 0 => k = Len(Stream')
    BY <2>2, <2>10, <2>11
  <2>. QED
    BY <2>6, <2>7, <2>12 DEF AnswerInv
<1>4. CASE ~\E w \in Workers : ParseRejects(w) \/ ParseAnswers(w)
  <2>1. /\ UNCHANGED <<answers, rejected, parsed>>
        /\ sent' = sent \/ ClientSends
        /\ received <= received' /\ clientRead <= clientRead'
    BY <1>4, OthersAnswerNothing
  <2>2. Stream' = Stream /\ Last' = Last
    BY <1>4, <2>1, StreamStays DEF Last
  <2>3. ASSUME NEW r \in Requests, sent' > r * Parts PROVE Answered(r)'
    <3>1. CASE sent' = sent
      BY <1>1, <2>1, <2>3, <3>1, AnsweredStays DEF AnswerInv
    <3>2. CASE ClientSends
      <4>1. sent \in Nat /\ r * Parts \in Nat /\ sent' = sent + 1
        BY <1>1, <3>2, LastFacts, TimesParts DEF ClientSends, Requests
      <4>2. FullySent(r)
        BY <2>3, <4>1 DEF FullySent
      <4>3. Answered(r)
        BY <3>2, <4>2 DEF ClientSends
      <4>. QED
        BY <2>1, <4>3, AnsweredStays
    <3>. QED
      BY <2>1, <3>1, <3>2
  <2>4. Last' * Parts <= received'
    <3>1. received' \in Nat /\ received \in Nat /\ Last * Parts \in Nat
      BY <1>1, LastFacts DEF IndInv, TypeOK, SocketOK
    <3>. QED
      BY <1>1, <2>1, <2>2, <3>1, LastFacts
  <2>5. answers' = Last'
    BY <1>1, <2>1, <2>2 DEF AnswerInv
  <2>6. \A k \in 1 .. Len(Stream') :
            /\ Stream'[k].req <= Last'
            /\ Stream'[k].req = Last' /\ Stream'[k].left = 0 => k = Len(Stream')
    BY <1>1, <2>2 DEF AnswerInv
  <2>. QED
    BY <2>3, <2>4, <2>5, <2>6 DEF AnswerInv
<1>. QED
  BY <1>3, <1>4

LEMMA NextKeepsDone ==
    ASSUME IndInv, IndInv', StreamInv, SeqInv, [Next]_vars
    PROVE  DoneInv' /\ (committed # 0 => committed' # 0)
<1>1. DoneInv /\ LocalInv
  BY DEF SeqInv
<1>2. CASE \E w \in Workers : ParseRejects(w) \/ ParseAnswers(w)
  <2>1. PICK w \in Workers : ParseRejects(w) \/ ParseAnswers(w)
    BY <1>2
  <2>2. /\ pc[w] = "parse" /\ Parseable
        /\ hangup' = hangup
        /\ committed' \in {0, answers'}
    BY <2>1, AnswerHappens DEF clientVars
  <2>3. committed = 0
    BY <2>2, ParseOpens
  <2>4. ~close_after_write_flag'
    BY <1>1, <2>1, <2>3, AnswerHappens DEF DoneInv
  <2>5. rejected' => stuck' # "no" /\ committed' # 0
    BY <2>1, AnswerHappens
  <2>. QED
    BY <1>1, <2>2, <2>3, <2>4, <2>5 DEF DoneInv
<1>3. CASE ~\E w \in Workers : ParseRejects(w) \/ ParseAnswers(w)
  <2>1. /\ UNCHANGED <<answers, committed>>
        /\ hangup' = hangup \/ hangup' \in MayHangUp
    BY <1>3, OthersAnswerNothing
  <2>2. rejected' => stuck' # "no" /\ committed # 0
    BY <1>1, <1>3, OthersAnswerNothing DEF DoneInv
  <2>3. close_after_write_flag' => committed # 0
    <3>1. ASSUME NEW w \in Workers, ReadLingers(w) PROVE committed # 0
      BY <1>1, <3>1 DEF ReadLingers, LocalInv, LocalOK
    <3>2. close_after_write_flag' => close_after_write_flag \/ \E w \in Workers : ReadLingers(w)
      BY <1>3, OthersAnswerNothing
    <3>. QED
      BY <1>1, <3>1, <3>2 DEF DoneInv
  <2>. QED
    BY <1>1, <2>1, <2>2, <2>3 DEF DoneInv
<1>. QED
  BY <1>2, <1>3

\* A client that has hung up sends nothing more.
LEMMA OverStays ==
    ASSUME IndInv, IndInv', StreamInv, SeqInv, Over, [Next]_vars
    PROVE  Over'
<1>1. ~\E w \in Workers : ParseRejects(w) \/ ParseAnswers(w)
  BY ParseOpens DEF ParseRejects, ParseAnswers, Parses
<1>2. /\ UNCHANGED <<parsed, rejected>>
      /\ hangup' = hangup \/ hangup' \in {"fin", "rst"}
      /\ sent' = sent \/ ClientSends
  BY <1>1, OthersAnswerNothing
<1>3. sent' = sent
  BY <1>2 DEF ClientSends, Over
<1>4. Last' = Last
  BY <1>2 DEF Last
<1>. QED
  BY <1>2, <1>3, <1>4 DEF Over

-----------------------------------------------------------------------------
(* Local variables *)

\* Only a task inside the mutex writes to write_buffer.
LEMMA BufferStays ==
    ASSUME NEW w \in Workers, Work(w), pc[w] \notin InMutex
    PROVE  write_buffer' = write_buffer
<1> USE DEF clientVars, epollVars, connVars, observerVars
<1>1. ~(ParseRejects(w) \/ ParseAnswers(w) \/ EraseSent(w))
  BY DEF ParseRejects, ParseAnswers, EraseSent, InMutex, Flushing
<1>2. CASE TakeTask(w) \/ ReadAgain(w) \/ Lock(w) \/ RemoveConnection(w) \/ Unregister(w)
  BY <1>2 DEF TakeTask, ReadAgain, Lock, RemoveConnection, Unregister
<1>3. CASE ReadTask(w)
  BY <1>1, <1>3
     DEF ReadTask, RecvData, RecvStops, RecvEnds, ParseIncomplete, ParseThrows, ReadCloses,
         ReadLingers, ReadRearms
<1>4. CASE Send(w) \/ FlushReturns(w) \/ WriteTask(w)
  BY <1>4
     DEF Send, FlushReturns, WriteTask, WriteUnlocks, WriteCloses, WriteGoesOn, WriteRearms
<1>. QED
  BY <1>1, <1>2, <1>3, <1>4 DEF Work

\* The local variables of the other tasks.
LEMMA LocalFrame ==
    ASSUME IndInv, NEW w \in Workers, Work(w), NEW v \in Workers, v # w, LocalOK(v),
           committed # 0 => committed' # 0
    PROVE  LocalOK(v)'
<1>1. pc'[v] = pc[v] /\ loc'[v] = loc[v]
  BY WorkFrame, ThreadFacts
<1>2. pc[v] \in InMutex => write_buffer' = write_buffer
  <2>1. ASSUME pc[v] \in InMutex PROVE pc[w] \notin InMutex
    BY <2>1 DEF IndInv, TypeOK, MutexOK
  <2>. QED
    BY <2>1, BufferStays
<1>3. pc[v] \in {"parse", "rearm", "unlock"} => pc[v] \in InMutex
  BY DEF InMutex
<1>. QED
  BY <1>1, <1>2, <1>3 DEF LocalOK

LEMMA WorkKeepsLocal ==
    ASSUME ParseLimit >= 1, IndInv, IndInv', StreamInv, SeqInv, NEW w \in Workers, Work(w),
           committed # 0 => committed' # 0
    PROVE  LocalOK(w)'
<1> USE DEF Goto
<1>1. /\ pc \in [Threads -> Labels] /\ loc \in [Workers -> Locals] /\ w \in Threads
      /\ loc[w] \in Locals
  BY ThreadFacts DEF IndInv, TypeOK, MutexOK, TasksOK
<1>2. LocalOK(w) /\ ~loc[w].more
  BY DEF SeqInv, LocalInv, LocalOK
<1>3. CASE TakeTask(w)
  <2>1. /\ loc'[w] = NoLocals
        /\ pc'[w] \in {"lockRead", "lockWrite", "again"}
    <3>1. Head(queue) \in {"read", "write", "again"}
      BY <1>3 DEF TakeTask, IndInv, TypeOK, TasksOK
    <3>. QED
      BY <1>1, <1>3, <3>1 DEF TakeTask
  <2>. QED
    BY <2>1 DEF NoLocals, LocalOK
<1>4. CASE ReadAgain(w) \/ Lock(w) \/ RecvEnds(w) \/ RecvData(w) \/ RecvStops(w)
  <2>1. /\ loc' = loc
        /\ \/ pc'[w] = pc[w] /\ pc[w] = "recv"
           \/ pc'[w] \in {"idle", "remove", "flushWrite"}
           \/ pc[w] = "lockRead" /\ pc'[w] = "recv"
           \/ pc[w] = "recv" /\ pc'[w] = "parse"
    BY <1>1, <1>4 DEF ReadAgain, Lock, RecvEnds, RecvData, RecvStops, Leave
  <2>. QED
    BY <1>2, <2>1 DEF LocalOK
<1>5. CASE ParseIncomplete(w)
  <2>1. loc' = loc /\ pc[w] = "parse" /\ pc'[w] = "flush"
    BY <1>1, <1>5 DEF ParseIncomplete
  <2>. QED
    BY <1>2, <2>1 DEF LocalOK
<1>6. CASE ParseRejects(w) \/ ParseThrows(w) \/ ReadCloses(w) \/ ReadLingers(w) \/ ReadRearms(w)
  <2>1. loc' = loc /\ pc'[w] \in {"flushError", "remove", "idle"}
    BY <1>1, <1>6
       DEF ParseRejects, AfterReject, ParseThrows, ReadCloses, ReadLingers, ReadRearms, Leave
  <2>. QED
    BY <1>2, <2>1 DEF LocalOK
<1>7. CASE ParseAnswers(w)
  <2>1. PICK x \in Locals :
            /\ Commits(x.closing)
            /\ loc' = [loc EXCEPT ![w] = x]
            /\ x.count = loc[w].count + 1 /\ (x.more => x.count > ParseLimit)
            /\ pc[w] = "parse" /\ Parseable
            /\ pc' = [pc EXCEPT ![w] = IF x.closing \/ x.more THEN "flush" ELSE "parse"]
    BY <1>7, AnsweringStep
  <2>2. loc'[w] = x /\ pc'[w] = IF x.closing \/ x.more THEN "flush" ELSE "parse"
    BY <1>1, <2>1
  <2>3. x.count = 1
    BY <2>1, ParseOpens
  <2>4. ~x.more
    BY <2>1, <2>3, ConnIOAssumption
  <2>5. write_buffer' # <<>>
    <3>1. PICK n \in Nat \ {0} : write_buffer' = Answer(parsed + 1, n)
      BY <1>7, AnswerHappens
    <3>2. parsed + 1 \in Requests
      BY <2>1, ParseableIsRequest
    <3>3. Len(write_buffer') = n
      BY <3>1, <3>2, AnswerIs
    <3>. QED
      BY <3>3
  <2>6. x.closing => committed' # 0
    <3>1. committed = 0 /\ answers \in Nat
      BY <2>1, ParseOpens DEF IndInv, TypeOK, ConnectionOK
    <3>. QED
      BY <2>1, <3>1 DEF Commits
  <2>7. CASE x.closing
    BY <2>2, <2>4, <2>6, <2>7 DEF LocalOK
  <2>8. CASE ~x.closing
    BY <2>2, <2>4, <2>5, <2>8 DEF LocalOK
  <2>. QED
    BY <2>7, <2>8
<1>8. CASE Send(w) \/ EraseSent(w)
  <2>1. PICK x \in Locals : /\ loc' = [loc EXCEPT ![w] = x]
                            /\ x.closing = loc[w].closing /\ x.more = loc[w].more
    BY <1>8, SendStep, EraseStep
  <2>2. loc'[w] = x /\ pc'[w] = pc[w] /\ pc[w] \in {"flush", "flushError", "flushWrite"}
    BY <1>1, <1>8, <2>1 DEF Send, EraseSent, Flushing
  <2>. QED
    BY <1>2, <2>1, <2>2 DEF LocalOK
<1>9. CASE FlushReturns(w)
  <2>1. PICK x \in Locals :
            /\ loc' = [loc EXCEPT ![w] = x]
            /\ x.closing = loc[w].closing /\ x.more = loc[w].more
            /\ x.flushed = (write_buffer = <<>>)
            /\ pc[w] \in Flushing
            /\ pc' = [pc EXCEPT ![w] = AfterFlush[pc[w]]]
    BY <1>9, FlushStep
  <2>2. loc'[w] = x /\ pc'[w] = AfterFlush[pc[w]]
    BY <1>1, <2>1
  <2>3. /\ \/ pc[w] = "flush" /\ pc'[w] = "rearm"
           \/ pc'[w] \in {"dropError", "unlock"}
        /\ write_buffer' = write_buffer
    BY <1>9, <2>1, <2>2 DEF Flushing, AfterFlush, FlushReturns, connVars
  <2>4. x.flushed <=> write_buffer' = <<>>
    BY <2>1, <2>3
  <2>5. x.closing <=> loc[w].closing
    BY <2>1
  <2>6. ~x.more
    BY <1>2, <2>1
  <2>. QED
    BY <1>2, <2>2, <2>3, <2>4, <2>5, <2>6 DEF LocalOK
<1>10. CASE WriteUnlocks(w)
  <2>1. PICK x \in Locals :
            /\ loc' = [loc EXCEPT ![w] = x] /\ x.more = loc[w].more
            /\ pc' = [pc EXCEPT ![w] = "decide"]
    BY <1>10, UnlockStep
  <2>. QED
    BY <1>1, <1>2, <2>1 DEF LocalOK
<1>11. CASE WriteGoesOn(w)
  <2>1. /\ loc' = loc
        /\ \/ pc'[w] = "armIn" /\ loc[w].flushed
           \/ pc'[w] \in {"armBoth", "armOut"} /\ ~loc[w].flushed
    BY <1>1, <1>11 DEF WriteGoesOn
  <2>. QED
    BY <1>2, <2>1 DEF LocalOK
<1>12. CASE WriteCloses(w) \/ WriteRearms(w) \/ RemoveConnection(w) \/ Unregister(w)
  <2>1. loc' = loc /\ pc'[w] \in {"idle", "remove", "unregister"}
    BY <1>1, <1>12 DEF WriteCloses, WriteRearms, RemoveConnection, Unregister
  <2>. QED
    BY <1>2, <2>1 DEF LocalOK
<1>. QED
  BY <1>3, <1>4, <1>5, <1>6, <1>7, <1>8, <1>9, <1>10, <1>11, <1>12
     DEF Work, ReadTask, WriteTask

LEMMA NextKeepsLocal ==
    ASSUME ParseLimit >= 1, IndInv, IndInv', StreamInv, SeqInv, [Next]_vars
    PROVE  LocalInv'
<1>1. LocalInv /\ (committed # 0 => committed' # 0)
  BY NextKeepsDone DEF SeqInv
<1>2. ASSUME NEW w \in Workers, Work(w) PROVE LocalInv'
  BY <1>1, <1>2, LocalFrame, WorkKeepsLocal DEF LocalInv
<1>3. CASE Client \/ Tick \/ Stop \/ Loop \/ UNCHANGED vars
  <2>1. UNCHANGED <<loc, write_buffer, committed>> /\ \A w \in Workers : pc'[w] = pc[w]
    BY <1>3, ThreadFacts
       DEF Client, ClientSends, ClientReads, ClientLeaves, Tick, Stop, vars, Loop, Dispatch,
           EpollWait, DispatchRead, DispatchWrite, SweepFindsIdle, RemoveConnection, Unregister,
           Goto, connVars, observerVars, IndInv, TypeOK, MutexOK
  <2>. QED
    BY <1>1, <2>1 DEF LocalInv, LocalOK
<1>. QED
  BY <1>2, <1>3 DEF Next

-----------------------------------------------------------------------------
(* One at a time *)

\* A task that is under way is alone, also after its step.
LEMMA Alone ==
    ASSUME IndInv, Single, NEW w \in Workers, pc[w] \in InTask
    PROVE  /\ queue = <<>> /\ armed = {} /\ ~MainHolds /\ pc[Main] # "dispatchRead"
           /\ \A v \in Workers : v # w => pc[v] \notin InTask
BY DEF Single, NoWorker, MainHolds

LEMMA AloneAfter ==
    ASSUME IndInv, Single, NEW w \in Workers, pc[w] \in InTask, Work(w)
    PROVE  /\ ~MainHolds' /\ pc'[Main] # "dispatchRead"
           /\ \A v \in Workers : v # w => pc'[v] \notin InTask
<1>1. /\ pc'[Main] = pc[Main] /\ evs' = evs
      /\ \A v \in Workers : v # w => pc'[v] = pc[v]
  BY WorkFrame, ThreadFacts
<1>. QED
  BY <1>1, Alone DEF MainHolds

\* A task that ends leaves at most one of an armed descriptor and a queued task.
LEMMA SingleAfter ==
    ASSUME IndInv, Single, NEW w \in Workers, pc[w] \in InTask, Work(w),
           \/ armed' = {} /\ queue' = <<>>
           \/ pc'[w] \notin InTask /\ queue' = <<>>
           \/ pc'[w] \notin InTask /\ armed' = {} /\ Len(queue') = 1
    PROVE  Single'
BY AloneAfter DEF Single, NoWorker

\* What a step that keeps a worker in its task, or makes it close, leaves alone.
LEMMA TaskGoesOn ==
    ASSUME IndInv, NEW w \in Workers, Work(w), pc[w] \in InTask,
           ~ReadAgain(w), ~ReadLingers(w), ~ReadRearms(w), ~WriteRearms(w)
    PROVE  UNCHANGED <<queue, armed, mapped, close_after_write_flag>>
<1> USE DEF clientVars, epollVars, connVars
<1>1. ~(TakeTask(w) \/ RemoveConnection(w) \/ Unregister(w))
  BY DEF TakeTask, RemoveConnection, Unregister, InTask, ReadSide, WriteSide, WriteEnd
<1>2. CASE Lock(w) \/ RecvData(w) \/ RecvStops(w) \/ RecvEnds(w)
  BY <1>2 DEF Lock, RecvData, RecvStops, RecvEnds
<1>3. CASE ParseIncomplete(w) \/ ParseRejects(w) \/ ParseThrows(w) \/ ParseAnswers(w)
  BY <1>3 DEF ParseIncomplete, ParseRejects, ParseThrows, ParseAnswers
<1>4. CASE ReadCloses(w) \/ Send(w) \/ EraseSent(w) \/ FlushReturns(w)
  BY <1>4 DEF ReadCloses, Send, EraseSent, FlushReturns
<1>5. CASE WriteUnlocks(w) \/ WriteCloses(w) \/ WriteGoesOn(w)
  BY <1>5 DEF WriteUnlocks, WriteCloses, WriteGoesOn
<1>. QED
  BY <1>1, <1>2, <1>3, <1>4, <1>5 DEF Work, ReadTask, WriteTask

\* The steps that arm the descriptor: what is armed, and that output is of
\* interest just when something is left to be sent.
LEMMA Arming ==
    ASSUME IndInv, SeqInv, Orderly, NEW w \in Workers, Work(w),
           ReadLingers(w) \/ ReadRearms(w) \/ WriteRearms(w)
    PROVE  /\ pc[w] \in InTask /\ pc'[w] = "idle" /\ queue' = <<>> /\ mapped' = mapped
           /\ write_buffer' = write_buffer
           /\ "OUT" \in armed' => write_buffer # <<>>
           /\ mapped => armed' # {}
<1> USE DEF Goto, connVars
<1>1. /\ pc \in [Threads -> Labels] /\ w \in Threads /\ LocalOK(w) /\ Single /\ BufferInv
      /\ mapped => registered
  BY ThreadFacts DEF IndInv, TypeOK, MutexOK, SeqInv, LocalInv, Orderly, ThreadInv
<1>2. CASE ReadLingers(w)
  <2>1. /\ pc[w] = "rearm" /\ ~loc[w].flushed /\ pc'[w] = "idle"
        /\ armed' = IF registered THEN {"OUT"} ELSE armed
        /\ UNCHANGED <<queue, mapped, write_buffer>>
    BY <1>1, <1>2 DEF ReadLingers, Leave, ModifyEpoll
  <2>2. pc[w] \in InTask
    BY <2>1 DEF InTask
  <2>3. queue = <<>> /\ armed = {}
    BY <1>1, <2>2, Alone
  <2>4. write_buffer # <<>>
    BY <1>1, <2>1 DEF LocalOK
  <2>. QED
    BY <1>1, <2>1, <2>2, <2>3, <2>4
<1>3. CASE ReadRearms(w)
  <2>1. /\ pc[w] = "rearm" /\ pc'[w] = "idle"
        /\ armed' = IF registered THEN ReadInterest(w) ELSE armed
        /\ UNCHANGED <<mapped, write_buffer>>
    BY <1>1, <1>3 DEF ReadRearms, Leave, ModifyEpoll
  <2>2. pc[w] \in InTask
    BY <2>1 DEF InTask
  <2>3. queue = <<>> /\ armed = {}
    BY <1>1, <2>2, Alone
  <2>4. queue' = queue
    BY <1>1, <1>3 DEF ReadRearms, Resubmits, LocalOK
  <2>5. "OUT" \in ReadInterest(w) => write_buffer # <<>>
    <3>1. CASE write_buffer = <<>>
      <4>1. loc[w].flushed
        BY <1>1, <2>1, <3>1 DEF LocalOK
      <4>2. ReadInterest(w) = {"IN"}
        BY <3>1, <4>1 DEF ReadInterest
      <4>. QED
        BY <4>2
    <3>. QED
      BY <3>1
  <2>6. ReadInterest(w) # {}
    BY DEF ReadInterest
  <2>. QED
    BY <1>1, <2>1, <2>2, <2>3, <2>4, <2>5, <2>6
<1>4. CASE WriteRearms(w)
  <2>1. pc[w] \in {"armIn", "armBoth", "armOut"}
    BY <1>4 DEF WriteRearms, WriteInterest
  <2>2. /\ pc'[w] = "idle"
        /\ armed' = IF registered THEN WriteInterest[pc[w]] ELSE armed
        /\ UNCHANGED <<queue, mapped, write_buffer>>
    BY <1>1, <1>4 DEF WriteRearms, ModifyEpoll
  <2>3. pc[w] \in InTask /\ pc[w] \in WriteEnd
    BY <2>1 DEF InTask, WriteEnd
  <2>4. queue = <<>> /\ armed = {}
    BY <1>1, <2>3, Alone
  <2>5. WriteInterest[pc[w]] # {}
    BY <2>1 DEF WriteInterest
  <2>6. "OUT" \in WriteInterest[pc[w]] => pc[w] \in {"armBoth", "armOut"}
    BY <2>1 DEF WriteInterest
  <2>7. pc[w] \in {"armBoth", "armOut"} => write_buffer # <<>>
    BY <1>1, <2>3 DEF LocalOK, BufferInv
  <2>. QED
    BY <1>1, <2>2, <2>3, <2>4, <2>5, <2>6, <2>7
<1>. QED
  BY <1>2, <1>3, <1>4

\* Taking a task from the queue.
LEMMA Taking ==
    ASSUME IndInv, Single, NEW w \in Workers, TakeTask(w)
    PROVE  /\ queue # <<>> /\ queue' = <<>> /\ armed' = {} /\ NoWorker /\ ~MainHolds
           /\ pc'[w] = CASE Head(queue) = "read"  -> "lockRead"
                         [] Head(queue) = "write" -> "lockWrite"
                         [] Head(queue) = "again" -> "again"
           /\ Head(queue) \in {"read", "write", "again"}
           /\ UNCHANGED <<mapped, close_after_write_flag, write_buffer>>
<1>1. queue \in Seq({"read", "write", "again"}) /\ queue # <<>> /\ queue' = Tail(queue)
  BY DEF TakeTask, IndInv, TypeOK, TasksOK
<1>2. Len(queue) = 1 /\ NoWorker /\ ~MainHolds /\ armed = {}
  BY <1>1 DEF Single
<1>3. queue' = <<>> /\ Head(queue) \in {"read", "write", "again"}
  BY <1>1, <1>2
<1>4. armed' = armed /\ UNCHANGED <<mapped, close_after_write_flag, write_buffer>>
  BY DEF TakeTask, epollVars, connVars
<1>5. pc \in [Threads -> Labels] /\ w \in Threads
  BY ThreadFacts DEF IndInv, TypeOK, MutexOK
<1>6. pc'[w] = CASE Head(queue) = "read"  -> "lockRead"
                 [] Head(queue) = "write" -> "lockWrite"
                 [] Head(queue) = "again" -> "again"
  BY <1>5 DEF TakeTask, Goto
<1>. QED
  BY <1>1, <1>2, <1>3, <1>4, <1>6

\* Removing the connection is no part of a task.
LEMMA Removing ==
    ASSUME IndInv, NEW w \in Workers, RemoveConnection(w) \/ Unregister(w)
    PROVE  /\ pc[w] \notin InTask /\ pc'[w] \in {"unregister", "idle"} /\ ~mapped'
           /\ armed' \in {armed, {}}
           /\ UNCHANGED <<queue, loc, write_buffer, close_after_write_flag, committed>>
<1>1. pc \in [Threads -> Labels] /\ w \in Threads
  BY ThreadFacts DEF IndInv, TypeOK, MutexOK
<1>. QED
  BY <1>1
     DEF RemoveConnection, Unregister, Goto, InTask, ReadSide, WriteSide, WriteEnd, IndInv,
         ThreadInv, epollVars, connVars, observerVars

\* Which steps a worker outside of a task takes.
LEMMA OutsideTask ==
    ASSUME NEW w \in Workers, Work(w), pc[w] \notin InTask
    PROVE  TakeTask(w) \/ RemoveConnection(w) \/ Unregister(w)
<1> USE DEF InTask, ReadSide, WriteSide, WriteEnd
<1>1. ~(ReadAgain(w) \/ Lock(w) \/ RecvData(w) \/ RecvStops(w) \/ RecvEnds(w))
  BY DEF ReadAgain, Lock, RecvData, RecvStops, RecvEnds
<1>2. ~(ParseIncomplete(w) \/ ParseRejects(w) \/ ParseThrows(w) \/ ParseAnswers(w))
  BY DEF ParseIncomplete, ParseRejects, ParseThrows, ParseAnswers
<1>3. ~(ReadCloses(w) \/ ReadLingers(w) \/ ReadRearms(w))
  BY DEF ReadCloses, ReadLingers, ReadRearms
<1>4. ~(Send(w) \/ EraseSent(w) \/ FlushReturns(w))
  BY DEF Send, EraseSent, FlushReturns, Flushing
<1>5. ~(WriteUnlocks(w) \/ WriteCloses(w) \/ WriteGoesOn(w) \/ WriteRearms(w))
  BY DEF WriteUnlocks, WriteCloses, WriteGoesOn, WriteRearms, WriteInterest
<1>. QED
  BY <1>1, <1>2, <1>3, <1>4, <1>5 DEF Work, ReadTask, WriteTask

LEMMA WorkKeepsSingle ==
    ASSUME IndInv, SeqInv, Orderly, NEW w \in Workers, Work(w)
    PROVE  Single'
<1>1. Single
  BY DEF Orderly
<1>2. /\ pc'[Main] = pc[Main] /\ evs' = evs
      /\ \A v \in Workers : v # w => pc'[v] = pc[v]
  BY WorkFrame, ThreadFacts
<1>3. CASE pc[w] \notin InTask
  <2>1. CASE TakeTask(w)
    <3>1. queue' = <<>> /\ armed' = {} /\ NoWorker /\ ~MainHolds
      BY <1>1, <2>1, Taking
    <3>. QED
      BY <1>2, <3>1 DEF Single, NoWorker, MainHolds
  <2>2. CASE RemoveConnection(w) \/ Unregister(w)
    <3>1. pc'[w] \notin InTask /\ queue' = queue /\ armed' \in {armed, {}}
      BY <2>2, Removing DEF InTask, ReadSide, WriteSide, WriteEnd
    <3>2. \A v \in Workers : pc'[v] \in InTask <=> pc[v] \in InTask
      BY <1>2, <1>3, <3>1
    <3>3. (NoWorker' <=> NoWorker) /\ (MainHolds' <=> MainHolds)
      BY <1>2, <3>2 DEF NoWorker, MainHolds
    <3>. QED
      BY <1>1, <1>2, <3>1, <3>2, <3>3 DEF Single
  <2>. QED
    BY <1>3, <2>1, <2>2, OutsideTask
<1>4. CASE pc[w] \in InTask
  <2>1. CASE ReadLingers(w) \/ ReadRearms(w) \/ WriteRearms(w)
    <3>1. pc'[w] \notin InTask /\ queue' = <<>>
      BY <2>1, Arming DEF InTask, ReadSide, WriteSide, WriteEnd
    <3>. QED
      BY <1>1, <1>4, <3>1, SingleAfter
  <2>2. CASE ReadAgain(w)
    <3>1. pc'[w] = "idle" /\ queue' = HandleClientRead(queue) /\ armed' = armed
      BY <2>2, ThreadFacts DEF ReadAgain, Goto, epollVars, IndInv, TypeOK, MutexOK
    <3>2. queue = <<>> /\ armed = {}
      BY <1>1, <1>4, Alone
    <3>3. queue' = <<>> \/ Len(queue') = 1
      BY <3>1, <3>2 DEF HandleClientRead
    <3>4. pc'[w] \notin InTask
      BY <3>1 DEF InTask, ReadSide, WriteSide, WriteEnd
    <3>. QED
      BY <1>1, <1>4, <3>1, <3>2, <3>3, <3>4, SingleAfter
  <2>3. CASE ~(ReadLingers(w) \/ ReadRearms(w) \/ WriteRearms(w) \/ ReadAgain(w))
    <3>1. queue' = <<>> /\ armed' = {}
      BY <1>1, <1>4, <2>3, TaskGoesOn, Alone
    <3>. QED
      BY <1>1, <1>4, <3>1, SingleAfter
  <2>. QED
    BY <2>1, <2>2, <2>3
<1>. QED
  BY <1>3, <1>4

\* A step never leads a worker into the end of a write task but from the part
\* before it, and its local variable flushed is that of its last flush.
LEMMA WorkKeepsBuffer ==
    ASSUME IndInv, SeqInv, Orderly, NEW w \in Workers, Work(w)
    PROVE  BufferInv'
<1> USE DEF Goto
<1>1. Single /\ BufferInv /\ LocalOK(w)
  BY DEF Orderly, SeqInv, LocalInv
<1>2. \A v \in Workers : v # w => pc'[v] = pc[v] /\ loc'[v] = loc[v]
  BY WorkFrame, ThreadFacts
<1>3. pc \in [Threads -> Labels] /\ loc \in [Workers -> Locals] /\ w \in Threads
  BY ThreadFacts DEF IndInv, TypeOK, MutexOK, TasksOK
<1>4. WriteEnd \subseteq InTask /\ InMutex \subseteq InTask
  BY DEF InTask, ReadSide, WriteSide, WriteEnd, InMutex
<1>5. CASE pc[w] \notin InTask
  <2>1. write_buffer' = write_buffer
    BY <1>4, <1>5, BufferStays
  <2>2. CASE TakeTask(w)
    <3>1. armed' = {} /\ NoWorker /\ pc'[w] \in {"lockRead", "lockWrite", "again"}
      BY <1>1, <2>2, Taking
    <3>2. \A v \in Workers : pc'[v] \notin WriteEnd
      BY <1>2, <1>4, <3>1 DEF NoWorker, WriteEnd
    <3>. QED
      BY <3>1, <3>2 DEF BufferInv
  <2>3. CASE RemoveConnection(w) \/ Unregister(w)
    <3>1. pc'[w] \notin WriteEnd /\ armed' \in {armed, {}}
      BY <2>3, Removing DEF WriteEnd
    <3>. QED
      BY <1>1, <1>2, <2>1, <3>1 DEF BufferInv
  <2>. QED
    BY <1>5, <2>2, <2>3, OutsideTask
<1>6. CASE pc[w] \in InTask
  <2>1. \A v \in Workers : v # w => pc'[v] \notin WriteEnd
    BY <1>1, <1>4, <1>6, AloneAfter
  <2>2. CASE ReadLingers(w) \/ ReadRearms(w) \/ WriteRearms(w)
    <3>1. pc'[w] \notin WriteEnd /\ ("OUT" \in armed' => write_buffer' # <<>>)
      BY <2>2, Arming DEF WriteEnd
    <3>. QED
      BY <2>1, <3>1 DEF BufferInv
  <2>3. CASE ~(ReadLingers(w) \/ ReadRearms(w) \/ WriteRearms(w))
    <3>1. armed' = {}
      <4>1. CASE ReadAgain(w)
        BY <1>1, <1>6, <4>1, Alone DEF ReadAgain, epollVars
      <4>. QED
        BY <1>1, <1>6, <2>3, <4>1, TaskGoesOn, Alone
    <3>2. pc'[w] \in WriteEnd => (loc'[w].flushed <=> write_buffer' = <<>>)
      <4>1. CASE WriteUnlocks(w)
        <5>1. PICK x \in Locals :
                  /\ loc' = [loc EXCEPT ![w] = x] /\ x.flushed = loc[w].flushed
                  /\ pc[w] = "unlock"
          BY <4>1, UnlockStep
        <5>2. loc'[w] = x /\ write_buffer' = write_buffer
          BY <1>3, <4>1, <5>1 DEF WriteUnlocks, connVars
        <5>. QED
          BY <1>1, <5>1, <5>2 DEF LocalOK
      <4>2. CASE WriteGoesOn(w)
        <5>1. pc[w] = "decide" /\ loc' = loc /\ write_buffer' = write_buffer
          BY <4>2 DEF WriteGoesOn, connVars
        <5>. QED
          BY <1>1, <5>1 DEF BufferInv, WriteEnd
      <4>3. CASE ~(WriteUnlocks(w) \/ WriteGoesOn(w))
        <5>1. CASE ReadAgain(w) \/ Lock(w) \/ RecvData(w) \/ RecvStops(w) \/ RecvEnds(w)
          BY <1>3, <5>1 DEF ReadAgain, Lock, RecvData, RecvStops, RecvEnds, Leave, WriteEnd
        <5>2. CASE ParseIncomplete(w) \/ ParseRejects(w) \/ ParseThrows(w) \/ ReadCloses(w)
          BY <1>3, <5>2
             DEF ParseIncomplete, ParseRejects, AfterReject, ParseThrows, ReadCloses, Leave,
                 WriteEnd
        <5>3. CASE ParseAnswers(w)
          <6>1. pc'[w] \in {"flush", "parse"}
            BY <1>3, <5>3 DEF ParseAnswers
          <6>. QED
            BY <6>1 DEF WriteEnd
        <5>4. CASE Send(w) \/ EraseSent(w)
          BY <5>4 DEF Send, EraseSent, Flushing, WriteEnd
        <5>5. CASE FlushReturns(w)
          <6>1. pc'[w] \in {"rearm", "dropError", "unlock"}
            BY <1>3, <5>5, FlushStep
          <6>. QED
            BY <6>1 DEF WriteEnd
        <5>6. CASE WriteCloses(w)
          BY <1>3, <5>6 DEF WriteCloses, WriteEnd
        <5>7. ~(TakeTask(w) \/ RemoveConnection(w) \/ Unregister(w))
          BY <1>6
             DEF TakeTask, RemoveConnection, Unregister, InTask, ReadSide, WriteSide, WriteEnd
        <5>. QED
          BY <2>3, <4>3, <5>1, <5>2, <5>3, <5>4, <5>5, <5>6, <5>7 DEF Work, ReadTask, WriteTask
      <4>. QED
        BY <4>1, <4>2, <4>3
    <3>. QED
      BY <2>1, <3>1, <3>2 DEF BufferInv
  <2>. QED
    BY <2>2, <2>3
<1>. QED
  BY <1>5, <1>6

\* While a task is under way only the task matters.
LEMMA SealedInTask ==
    ASSUME Single', NEW w \in Workers, pc'[w] \in InTask, SealedAt(w)'
    PROVE  Sealed'
<1>1. /\ queue' = <<>> /\ armed' = {} /\ ~MainHolds' /\ pc'[Main] # "dispatchRead"
      /\ \A v \in Workers : v # w => pc'[v] \notin InTask
  BY DEF Single, NoWorker, MainHolds
<1>2. \A v \in Workers : v # w => SealedAt(v)'
  BY <1>1 DEF SealedAt, InTask, ReadSide, WriteSide, WriteEnd
<1>. QED
  BY <1>1, <1>2 DEF Sealed

\* Once it has ended, only what it leaves behind.
LEMMA SealedAfterTask ==
    ASSUME IndInv, Single, NEW w \in Workers, pc[w] \in InTask, Work(w),
           pc'[w] \notin InTask, queue' = <<>>,
           armed' # {} => write_buffer' # <<>> /\ close_after_write_flag'
    PROVE  Sealed'
<1>1. /\ ~MainHolds' /\ pc'[Main] # "dispatchRead"
      /\ \A v \in Workers : pc'[v] \notin InTask
  BY AloneAfter
<1>2. \A v \in Workers : SealedAt(v)'
  BY <1>1 DEF SealedAt, InTask, ReadSide, WriteSide, WriteEnd
<1>. QED
  BY <1>1, <1>2 DEF Sealed

\* A sealed connection stays so: a step of its one task.
LEMMA TaskKeepsSealed ==
    ASSUME IndInv, SeqInv, Orderly, Sealed, committed # 0, NEW w \in Workers, Work(w),
           pc[w] \in InTask, Single'
    PROVE  Sealed'
<1> USE DEF Goto, connVars
<1>1. Single /\ BufferInv /\ LocalOK(w) /\ SealedAt(w)
  BY DEF Orderly, SeqInv, LocalInv, Sealed
<1>2. pc \in [Threads -> Labels] /\ loc \in [Workers -> Locals] /\ w \in Threads
  BY ThreadFacts DEF IndInv, TypeOK, MutexOK, TasksOK
<1>3. queue = <<>> /\ armed = {}
  BY <1>1, Alone
<1>4. ~(ReadAgain(w) \/ RecvData(w) \/ RecvStops(w) \/ RecvEnds(w))
  BY <1>1 DEF ReadAgain, RecvData, RecvStops, RecvEnds, SealedAt, ReadSide
<1>5. ~(ParseIncomplete(w) \/ ParseRejects(w) \/ ParseThrows(w) \/ ParseAnswers(w))
  BY <1>1 DEF ParseIncomplete, ParseRejects, ParseThrows, ParseAnswers, SealedAt, ReadSide
<1>6. ~ReadRearms(w)
  BY <1>1 DEF ReadRearms, SealedAt
<1>7. ~(TakeTask(w) \/ RemoveConnection(w) \/ Unregister(w))
  BY DEF TakeTask, RemoveConnection, Unregister, InTask, ReadSide, WriteSide, WriteEnd
<1>8. CASE Lock(w)
  <2>1. pc[w] = "lockWrite" /\ pc'[w] = "flushWrite" /\ UNCHANGED <<loc, close_after_write_flag>>
    BY <1>1, <1>2, <1>8 DEF Lock, SealedAt, ReadSide
  <2>2. SealedAt(w)' /\ pc'[w] \in InTask
    BY <1>1, <2>1 DEF SealedAt, InTask, ReadSide, WriteSide, WriteEnd
  <2>. QED
    BY <2>2, SealedInTask
<1>9. CASE ReadCloses(w) \/ WriteCloses(w)
  <2>1. pc'[w] = "remove" /\ UNCHANGED <<queue, armed>>
    BY <1>2, <1>9 DEF ReadCloses, WriteCloses, Leave, epollVars
  <2>2. pc'[w] \notin InTask
    BY <2>1 DEF InTask, ReadSide, WriteSide, WriteEnd
  <2>. QED
    BY <1>1, <1>3, <2>1, <2>2, SealedAfterTask
<1>10. CASE ReadLingers(w)
  <2>1. close_after_write_flag' /\ ~loc[w].flushed /\ pc[w] = "rearm"
    BY <1>10 DEF ReadLingers
  <2>2. pc'[w] = "idle" /\ queue' = <<>> /\ write_buffer' = write_buffer
    BY <1>10, Arming
  <2>3. write_buffer # <<>>
    BY <1>1, <2>1 DEF LocalOK
  <2>4. pc'[w] \notin InTask
    BY <2>2 DEF InTask, ReadSide, WriteSide, WriteEnd
  <2>. QED
    BY <1>1, <2>1, <2>2, <2>3, <2>4, SealedAfterTask
<1>11. CASE Send(w) \/ EraseSent(w)
  <2>1. PICK x \in Locals : loc' = [loc EXCEPT ![w] = x] /\ x.closing = loc[w].closing
    BY <1>11, SendStep, EraseStep
  <2>2. /\ pc' = pc /\ pc[w] \in {"flush", "flushError", "flushWrite"}
        /\ close_after_write_flag' = close_after_write_flag
    BY <1>11 DEF Send, EraseSent, Flushing
  <2>3. loc'[w].closing <=> loc[w].closing
    BY <1>2, <2>1
  <2>4. SealedAt(w)' /\ pc'[w] \in InTask
    BY <1>1, <2>2, <2>3 DEF SealedAt, InTask, ReadSide, WriteSide, WriteEnd
  <2>. QED
    BY <2>4, SealedInTask
<1>12. CASE FlushReturns(w)
  <2>1. PICK x \in Locals :
            /\ loc' = [loc EXCEPT ![w] = x] /\ x.closing = loc[w].closing
            /\ pc[w] \in Flushing
            /\ pc' = [pc EXCEPT ![w] = AfterFlush[pc[w]]]
    BY <1>12, FlushStep
  <2>2. /\ \/ pc[w] = "flush" /\ pc'[w] = "rearm"
           \/ pc[w] = "flushError" /\ pc'[w] = "dropError"
           \/ pc[w] = "flushWrite" /\ pc'[w] = "unlock"
        /\ close_after_write_flag' = close_after_write_flag
    BY <1>2, <1>12, <2>1 DEF Flushing, AfterFlush, FlushReturns
  <2>3. loc'[w].closing <=> loc[w].closing
    BY <1>2, <2>1
  <2>4. SealedAt(w)' /\ pc'[w] \in InTask
    BY <1>1, <2>2, <2>3 DEF SealedAt, InTask, ReadSide, WriteSide, WriteEnd
  <2>. QED
    BY <2>4, SealedInTask
<1>13. CASE WriteUnlocks(w)
  <2>1. PICK x \in Locals :
            /\ loc' = [loc EXCEPT ![w] = x]
            /\ x.closing = ClosesNow(w) /\ x.flushed = loc[w].flushed
            /\ pc[w] = "unlock" /\ pc' = [pc EXCEPT ![w] = "decide"]
    BY <1>13, UnlockStep
  <2>2. /\ loc'[w] = x /\ pc'[w] = "decide"
        /\ close_after_write_flag /\ close_after_write_flag' = close_after_write_flag
    BY <1>1, <1>2, <1>13, <2>1 DEF SealedAt, WriteSide, WriteUnlocks
  <2>3. x.closing \/ ~x.flushed
    BY <2>1, <2>2 DEF ClosesNow
  <2>4. SealedAt(w)' /\ pc'[w] \in InTask
    BY <2>2, <2>3 DEF SealedAt, InTask, ReadSide, WriteSide, WriteEnd
  <2>. QED
    BY <2>4, SealedInTask
<1>14. CASE WriteGoesOn(w)
  <2>1. /\ pc'[w] \in {"armBoth", "armOut"} /\ pc[w] = "decide"
        /\ close_after_write_flag' = close_after_write_flag
    BY <1>1, <1>2, <1>14 DEF WriteGoesOn, SealedAt
  <2>2. SealedAt(w)' /\ pc'[w] \in InTask
    BY <1>1, <2>1 DEF SealedAt, InTask, ReadSide, WriteSide, WriteEnd
  <2>. QED
    BY <2>2, SealedInTask
<1>15. CASE WriteRearms(w)
  <2>1. pc[w] \in {"armBoth", "armOut"} /\ close_after_write_flag' = close_after_write_flag
    BY <1>1, <1>15 DEF WriteRearms, WriteInterest, SealedAt
  <2>2. pc'[w] = "idle" /\ queue' = <<>> /\ write_buffer' = write_buffer
    BY <1>15, Arming
  <2>3. write_buffer # <<>> /\ close_after_write_flag
    BY <1>1, <2>1 DEF LocalOK, BufferInv, SealedAt, WriteEnd
  <2>4. pc'[w] \notin InTask
    BY <2>2 DEF InTask, ReadSide, WriteSide, WriteEnd
  <2>. QED
    BY <1>1, <2>1, <2>2, <2>3, <2>4, SealedAfterTask
<1>. QED
  BY <1>4, <1>5, <1>6, <1>7, <1>8, <1>9, <1>10, <1>11, <1>12, <1>13, <1>14, <1>15
     DEF Work, ReadTask, WriteTask

LEMMA WorkKeepsSealed ==
    ASSUME IndInv, IndInv', StreamInv, SeqInv, Orderly, NEW w \in Workers, Work(w), Single',
           committed' # 0
    PROVE  Sealed'
<1>1. Single
  BY DEF Orderly
<1>2. pc \in [Threads -> Labels] /\ loc \in [Workers -> Locals] /\ w \in Threads
  BY ThreadFacts DEF IndInv, TypeOK, MutexOK, TasksOK
<1>3. CASE ParseRejects(w)
  <2>1. pc'[w] = "flushError"
    BY <1>2, <1>3 DEF ParseRejects, AfterReject, Goto
  <2>2. SealedAt(w)' /\ pc'[w] \in InTask
    BY <2>1 DEF SealedAt, InTask, ReadSide, WriteSide, WriteEnd
  <2>. QED
    BY <2>2, SealedInTask
<1>4. CASE ParseAnswers(w)
  <2>1. PICK x \in Locals :
            /\ Commits(x.closing)
            /\ loc' = [loc EXCEPT ![w] = x]
            /\ pc[w] = "parse" /\ Parseable
            /\ pc' = [pc EXCEPT ![w] = IF x.closing \/ x.more THEN "flush" ELSE "parse"]
    BY <1>4, AnsweringStep
  <2>2. committed = 0
    BY <2>1, ParseOpens
  <2>3. x.closing
    BY <2>1, <2>2 DEF Commits
  <2>4. loc'[w] = x /\ pc'[w] = "flush"
    BY <1>2, <2>1, <2>3
  <2>5. SealedAt(w)' /\ pc'[w] \in InTask
    BY <2>3, <2>4 DEF SealedAt, InTask, ReadSide, WriteSide, WriteEnd
  <2>. QED
    BY <2>5, SealedInTask
<1>5. CASE ~(ParseRejects(w) \/ ParseAnswers(w))
  <2>1. committed' = committed
    <3> USE DEF observerVars
    <3>1. CASE TakeTask(w) \/ ReadAgain(w) \/ Lock(w) \/ RemoveConnection(w) \/ Unregister(w)
      BY <3>1 DEF TakeTask, ReadAgain, Lock, RemoveConnection, Unregister
    <3>2. CASE ReadTask(w)
      BY <1>5, <3>2
         DEF ReadTask, RecvData, RecvStops, RecvEnds, ParseIncomplete, ParseThrows, ReadCloses,
             ReadLingers, ReadRearms
    <3>3. CASE Send(w) \/ EraseSent(w) \/ FlushReturns(w) \/ WriteTask(w)
      BY <3>3
         DEF Send, EraseSent, FlushReturns, WriteTask, WriteUnlocks, WriteCloses, WriteGoesOn,
             WriteRearms
    <3>. QED
      BY <3>1, <3>2, <3>3 DEF Work
  <2>2. Sealed /\ committed # 0
    BY <2>1 DEF Orderly
  <2>3. CASE pc[w] \in InTask
    BY <2>2, <2>3, TaskKeepsSealed
  <2>4. CASE TakeTask(w)
    <3>1. /\ pc'[w] = "lockWrite" /\ close_after_write_flag'
      BY <1>1, <2>2, <2>4, Taking DEF Sealed
    <3>2. SealedAt(w)' /\ pc'[w] \in InTask
      BY <3>1 DEF SealedAt, InTask, ReadSide, WriteSide, WriteEnd
    <3>. QED
      BY <3>2, SealedInTask
  <2>5. CASE RemoveConnection(w) \/ Unregister(w)
    <3>1. /\ pc'[w] \in {"unregister", "idle"} /\ armed' \in {armed, {}}
          /\ UNCHANGED <<queue, loc, write_buffer, close_after_write_flag>>
      BY <2>5, Removing
    <3>2. /\ pc'[Main] = pc[Main] /\ evs' = evs
          /\ \A v \in Workers : v # w => pc'[v] = pc[v]
      BY WorkFrame, ThreadFacts
    <3>3. \A v \in Workers : SealedAt(v)'
      <4>1. SealedAt(w)'
        BY <3>1 DEF SealedAt, ReadSide, WriteSide, WriteEnd
      <4>2. \A v \in Workers : SealedAt(v)
        BY <2>2 DEF Sealed
      <4>. QED
        BY <3>1, <3>2, <4>1, <4>2 DEF SealedAt
    <3>4. MainHolds' <=> MainHolds
      BY <3>2 DEF MainHolds
    <3>. QED
      BY <2>2, <3>1, <3>2, <3>3, <3>4 DEF Sealed
  <2>. QED
    BY <2>3, <2>4, <2>5, OutsideTask
<1>. QED
  BY <1>3, <1>4, <1>5

\* A write task goes on until it re-arms or closes.
LEMMA WriteTaskGoesOn ==
    ASSUME IndInv, NEW w \in Workers, Work(w), pc[w] \in WriteSide \cup WriteEnd,
           ~WriteRearms(w)
    PROVE  pc'[w] \in WriteSide \cup WriteEnd \cup {"remove"}
<1> USE DEF Goto, WriteSide, WriteEnd
<1>1. pc \in [Threads -> Labels] /\ w \in Threads
  BY ThreadFacts DEF IndInv, TypeOK, MutexOK
<1>2. ~(TakeTask(w) \/ ReadAgain(w) \/ RemoveConnection(w) \/ Unregister(w) \/ ReadTask(w))
  BY DEF TakeTask, ReadAgain, RemoveConnection, Unregister, ReadTask, RecvData, RecvStops,
         RecvEnds, ParseIncomplete, ParseRejects, ParseThrows, ParseAnswers, ReadCloses,
         ReadLingers, ReadRearms
<1>3. CASE Lock(w)
  BY <1>1, <1>3 DEF Lock
<1>4. CASE Send(w) \/ EraseSent(w)
  BY <1>4 DEF Send, EraseSent
<1>5. CASE FlushReturns(w)
  BY <1>1, <1>5 DEF FlushReturns, Flushing, AfterFlush
<1>6. CASE WriteUnlocks(w) \/ WriteCloses(w) \/ WriteGoesOn(w)
  BY <1>1, <1>6 DEF WriteUnlocks, WriteCloses, WriteGoesOn, Leave
<1>. QED
  BY <1>2, <1>3, <1>4, <1>5, <1>6 DEF Work, WriteTask

LEMMA WorkKeepsMinded ==
    ASSUME IndInv, SeqInv, Orderly, NEW w \in Workers, Work(w)
    PROVE  Minded'
<1> SUFFICES ASSUME close_after_write_flag', mapped', armed' = {}
             PROVE  \/ MainHolds' \/ queue' # <<>>
                    \/ \E v \in Workers : pc'[v] \in WriteSide \cup WriteEnd
                    \/ \E t \in Threads : pc'[t] = "remove"
  BY DEF Minded
<1>1. Single /\ Minded /\ mapped /\ w \in Threads
  BY WorkFrame, ThreadFacts DEF Orderly
<1>2. close_after_write_flag => Sealed
  BY DEF SeqInv, DoneInv, Orderly
<1>3. ~(RemoveConnection(w) \/ Unregister(w))
  BY Removing
<1>4. ~(ReadLingers(w) \/ ReadRearms(w) \/ WriteRearms(w))
  BY <1>1, Arming
<1>5. CASE TakeTask(w)
  <2>1. queue # <<>> /\ close_after_write_flag
    BY <1>1, <1>5, Taking
  <2>2. Head(queue) = "write"
    BY <1>2, <2>1 DEF Sealed
  <2>3. pc'[w] = "lockWrite"
    BY <1>1, <1>5, <2>2, Taking
  <2>. QED
    BY <2>3 DEF WriteSide
<1>6. CASE pc[w] \in InTask
  <2>1. ~ReadAgain(w)
    <3>1. ASSUME ReadAgain(w) PROVE FALSE
      <4>1. close_after_write_flag /\ pc[w] = "again"
        BY <3>1 DEF ReadAgain, connVars
      <4>. QED
        BY <1>2, <4>1 DEF Sealed, SealedAt, ReadSide
    <3>. QED
      BY <3>1
  <2>2. close_after_write_flag /\ armed = {}
    BY <1>1, <1>4, <1>6, <2>1, TaskGoesOn
  <2>3. queue = <<>> /\ ~MainHolds /\ \A v \in Workers : v # w => pc[v] \notin InTask
    BY <1>1, <1>6, Alone
  <2>4. CASE \E v \in Workers : pc[v] \in WriteSide \cup WriteEnd
    <3>1. pc[w] \in WriteSide \cup WriteEnd
      BY <2>3, <2>4 DEF InTask
    <3>. QED
      BY <1>1, <1>4, <3>1, WriteTaskGoesOn
  <2>5. CASE \E t \in Threads : pc[t] = "remove"
    <3>1. PICK t \in Threads : pc[t] = "remove"
      BY <2>5
    <3>2. t # w
      BY <1>6, <3>1 DEF InTask, ReadSide, WriteSide, WriteEnd
    <3>. QED
      BY <3>1, <3>2, WorkFrame
  <2>. QED
    BY <1>1, <2>2, <2>3, <2>4, <2>5 DEF Minded
<1>. QED
  BY <1>3, <1>5, <1>6, OutsideTask

-----------------------------------------------------------------------------
(* The event loop *)

\* What no step of Main touches.
LEMMA LoopFrame ==
    ASSUME IndInv, Loop
    PROVE  /\ UNCHANGED <<loc, write_buffer, committed, close_after_write_flag, parsed, rejected,
                          sent, hangup>>
           /\ \A w \in Workers : pc'[w] = pc[w]
<1>1. pc \in [Threads -> Labels] /\ \A w \in Workers : w \in Threads /\ w # Main
  BY ThreadFacts DEF IndInv, TypeOK, MutexOK
<1>. QED
  BY <1>1
     DEF Loop, Dispatch, EpollWait, DispatchRead, DispatchWrite, SweepFindsIdle, Goto,
         RemoveConnection, Unregister, clientVars, connVars, observerVars

\* The event loop reports either input, with nothing to send, or output.
LEMMA ReportsOne ==
    ASSUME IndInv, StreamInv, SeqInv, Orderly, EpollWait, ~Over
    PROVE  /\ pc[Main] = "idle" /\ armed # {} /\ armed' = {}
           /\ pc'[Main] \in {"remove", "dispatchRead"}
           /\ pc'[Main] = "dispatchRead" =>
                 \/ evs' = {"IN"} /\ write_buffer = <<>>
                 \/ evs' = {"OUT"}
           /\ queue' = queue /\ mapped' = mapped
<1> DEFINE reported == IF armed = {} THEN {} ELSE Readiness \cap (armed \cup {"HUP"})
<1>1. /\ pc[Main] = "idle" /\ reported # {} /\ evs' = reported /\ armed' = {}
      /\ pc'[Main] = IF "HUP" \in reported THEN "remove" ELSE "dispatchRead"
      /\ queue' = queue /\ mapped' = mapped
  <2>1. pc \in [Threads -> Labels] /\ Main \in Threads
    BY ThreadFacts DEF IndInv, TypeOK, MutexOK
  <2>. QED
    BY <2>1 DEF EpollWait, Goto
<1>2. armed # {} /\ reported = Readiness \cap (armed \cup {"HUP"})
  BY <1>1
<1> HIDE DEF reported
<1>3. Single /\ BufferInv /\ NoWorker /\ AnswerInv /\ DoneInv
  BY <1>2 DEF Orderly, Single, SeqInv
<1>4. Pending = 0
  <2>1. InMutex \subseteq InTask
    BY DEF InMutex, InTask, ReadSide, WriteSide, WriteEnd
  <2>2. mutex \notin Workers
    BY <1>3, <2>1 DEF NoWorker, IndInv, TypeOK, MutexOK
  <2>. QED
    BY <2>2 DEF Pending
<1>5. ASSUME "HUP" \notin reported
      PROVE  \/ evs' = {"IN"} /\ write_buffer = <<>>
             \/ evs' = {"OUT"}
  <2>1. hangup # "rst"
    BY <1>2, <1>5 DEF Readiness
  <2>2. reported \subseteq {"IN", "OUT"}
    BY <1>2, <1>5 DEF Readiness
  <2>3. "IN" \in reported => write_buffer = <<>>
    <3>1. ASSUME "IN" \in reported PROVE sent > Last * Parts
      <4>1. inKernel > 0 \/ hangup = "fin"
        BY <1>2, <2>1, <3>1 DEF Readiness
      <4>2. CASE inKernel > 0
        BY <1>3, <4>2, LastFacts
      <4>3. CASE hangup = "fin"
        <5>1. "fin" \in MayHangUp
          BY <1>3, <4>3 DEF DoneInv
        <5>2. ~(sent <= Last * Parts)
          BY <4>3, <5>1 DEF Over
        <5>. QED
          BY <1>3, <5>2, LastFacts
      <4>. QED
        BY <4>1, <4>2, <4>3
    <3>. QED
      BY <1>3, <1>4, <3>1, CaughtUpBuffer
  <2>4. "OUT" \in reported => write_buffer # <<>>
    BY <1>2, <1>3 DEF BufferInv
  <2>5. CASE "IN" \in reported
    BY <1>1, <2>2, <2>3, <2>4, <2>5
  <2>6. CASE "IN" \notin reported
    BY <1>1, <2>2, <2>6
  <2>. QED
    BY <2>5, <2>6
<1>. QED
  BY <1>1, <1>2, <1>5

LEMMA EpollWaitKeepsOrder ==
    ASSUME IndInv, StreamInv, SeqInv, Orderly, EpollWait, ~Over
    PROVE  Orderly'
<1>1. /\ pc[Main] = "idle" /\ armed # {} /\ armed' = {}
      /\ pc'[Main] \in {"remove", "dispatchRead"}
      /\ pc'[Main] = "dispatchRead" =>
            \/ evs' = {"IN"} /\ write_buffer = <<>>
            \/ evs' = {"OUT"}
      /\ queue' = queue
  BY ReportsOne
<1>2. /\ UNCHANGED <<loc, write_buffer, committed, close_after_write_flag>>
      /\ \A w \in Workers : pc'[w] = pc[w]
  BY LoopFrame DEF Loop, Dispatch
<1>3. queue = <<>> /\ NoWorker /\ NoWorker'
  BY <1>1, <1>2 DEF Orderly, Single, NoWorker
<1>4. Single'
  BY <1>1, <1>2, <1>3 DEF Single, NoWorker
<1>5. BufferInv'
  BY <1>1, <1>2 DEF Orderly, BufferInv
<1>6. ASSUME committed' # 0 PROVE Sealed'
  <2>1. Sealed
    BY <1>2, <1>6 DEF Orderly
  <2>2. write_buffer # <<>> /\ close_after_write_flag
    BY <1>1, <2>1 DEF Sealed
  <2>3. pc'[Main] = "dispatchRead" => "IN" \notin evs'
    BY <1>1, <2>2
  <2>4. \A w \in Workers : SealedAt(w)'
    BY <1>2, <2>1 DEF Sealed, SealedAt
  <2>. QED
    BY <1>1, <1>2, <1>3, <2>2, <2>3, <2>4 DEF Sealed
<1>7. Minded'
  BY <1>1, ThreadFacts DEF Minded, MainHolds
<1>. QED
  BY <1>4, <1>5, <1>6, <1>7 DEF Orderly

LEMMA DispatchKeepsOrder ==
    ASSUME IndInv, SeqInv, Orderly, DispatchRead \/ DispatchWrite
    PROVE  Orderly'
<1> USE DEF Goto
<1>1. Single /\ BufferInv /\ Minded
  BY DEF Orderly
<1>2. /\ UNCHANGED <<loc, write_buffer, committed, close_after_write_flag>>
      /\ \A w \in Workers : pc'[w] = pc[w]
  BY LoopFrame DEF Loop, Dispatch
<1>3. /\ UNCHANGED <<armed, mapped, running>>
      /\ \A t \in Threads : t # Main => pc'[t] = pc[t]
      /\ pc \in [Threads -> Labels] /\ Main \in Threads
  BY ThreadFacts DEF DispatchRead, DispatchWrite, epollVars, IndInv, TypeOK, MutexOK
<1>4. (NoWorker' <=> NoWorker) /\ \A w \in Workers : SealedAt(w)' <=> SealedAt(w)
  BY <1>2 DEF NoWorker, SealedAt
<1>5. BufferInv'
  BY <1>1, <1>2, <1>3 DEF BufferInv
<1>6. close_after_write_flag => Sealed
  BY DEF SeqInv, DoneInv, Orderly
<1>7. committed # 0 => Sealed
  BY DEF Orderly
<1>8. CASE DispatchRead
  <2>1. /\ pc[Main] = "dispatchRead" /\ pc'[Main] = "dispatchWrite" /\ evs' = evs
        /\ queue' = IF "IN" \in evs THEN HandleClientRead(queue) ELSE queue
    BY <1>3, <1>8 DEF DispatchRead
  <2>2. MainHolds /\ queue = <<>> /\ NoWorker /\ armed = {} /\ evs \in {{"IN"}, {"OUT"}}
    BY <1>1, <2>1 DEF Single, MainHolds
  <2>3. CASE evs = {"IN"}
    <3>1. ~Sealed
      BY <2>1, <2>3 DEF Sealed
    <3>2. queue' \in {<<>>, <<"read">>}
      BY <2>1, <2>2, <2>3 DEF HandleClientRead
    <3>3. ~MainHolds'
      BY <2>1, <2>3 DEF MainHolds
    <3>4. queue' # <<>> => Len(queue') = 1
      BY <3>2
    <3>5. Single'
      BY <1>2, <1>3, <1>4, <2>1, <2>2, <3>3, <3>4 DEF Single, NoWorker
    <3>6. Minded'
      BY <1>2, <1>6, <3>1 DEF Minded
    <3>7. committed' = 0
      BY <1>2, <1>7, <3>1
    <3>. QED
      BY <1>5, <3>5, <3>6, <3>7 DEF Orderly
  <2>4. CASE evs = {"OUT"}
    <3>1. queue' = <<>> /\ MainHolds'
      BY <2>1, <2>2, <2>4 DEF MainHolds
    <3>2. Single'
      BY <1>2, <1>3, <1>4, <2>1, <2>2, <3>1 DEF Single, NoWorker
    <3>3. Minded'
      BY <3>1 DEF Minded
    <3>4. Sealed => Sealed'
      BY <1>2, <1>3, <1>4, <2>1, <2>2, <3>1 DEF Sealed
    <3>. QED
      BY <1>2, <1>5, <1>7, <3>2, <3>3, <3>4 DEF Orderly
  <2>. QED
    BY <2>2, <2>3, <2>4
<1>9. CASE DispatchWrite
  <2>1. /\ pc[Main] = "dispatchWrite" /\ pc'[Main] = "idle"
        /\ queue' = IF "OUT" \in evs /\ mapped THEN Append(queue, "write") ELSE queue
    BY <1>3, <1>9 DEF DispatchWrite
  <2>2. ~MainHolds'
    BY <2>1 DEF MainHolds
  <2>3. CASE "OUT" \in evs
    <3>1. MainHolds /\ queue = <<>> /\ NoWorker /\ armed = {}
      BY <1>1, <2>1, <2>3 DEF Single, MainHolds
    <3>2. queue' = IF mapped THEN <<"write">> ELSE <<>>
      BY <2>1, <2>3, <3>1
    <3>3. queue' # <<>> => Len(queue') = 1 /\ Head(queue') = "write"
      BY <3>2
    <3>4. Single'
      BY <1>2, <1>3, <1>4, <2>1, <2>2, <3>1, <3>3 DEF Single, NoWorker
    <3>5. Minded'
      BY <1>3, <3>2 DEF Minded
    <3>6. Sealed => Sealed'
      BY <1>2, <1>3, <1>4, <2>1, <2>2, <3>1, <3>3 DEF Sealed
    <3>. QED
      BY <1>2, <1>5, <1>7, <3>4, <3>5, <3>6 DEF Orderly
  <2>4. CASE "OUT" \notin evs
    <3>1. queue' = queue /\ ~MainHolds
      BY <2>1, <2>4 DEF MainHolds
    <3>2. Single'
      BY <1>1, <1>2, <1>3, <1>4, <2>1, <2>2, <3>1 DEF Single
    <3>3. Minded'
      <4>1. \A t \in Threads : pc[t] = "remove" => pc'[t] = "remove"
        BY <1>3, <2>1
      <4>2. \A w \in Workers : pc[w] \in WriteSide \cup WriteEnd => pc'[w] \in WriteSide \cup WriteEnd
        BY <1>2
      <4>. QED
        BY <1>1, <1>2, <1>3, <3>1, <4>1, <4>2 DEF Minded
    <3>4. Sealed => Sealed'
      BY <1>2, <1>3, <1>4, <2>1, <2>2, <3>1 DEF Sealed
    <3>. QED
      BY <1>2, <1>5, <1>7, <3>2, <3>3, <3>4 DEF Orderly
  <2>. QED
    BY <2>3, <2>4
<1>. QED
  BY <1>8, <1>9

LEMMA RemovalKeepsOrder ==
    ASSUME IndInv, SeqInv, Orderly,
           SweepFindsIdle \/ RemoveConnection(Main) \/ Unregister(Main)
    PROVE  Orderly'
<1> USE DEF Goto
<1>1. /\ UNCHANGED <<loc, write_buffer, committed, close_after_write_flag>>
      /\ \A w \in Workers : pc'[w] = pc[w]
  BY LoopFrame DEF Loop, Dispatch
<1>2. pc \in [Threads -> Labels] /\ Main \in Threads
  BY ThreadFacts DEF IndInv, TypeOK, MutexOK
<1>3. /\ pc[Main] \in {"idle", "remove", "unregister"}
      /\ pc'[Main] \in {"idle", "remove", "unregister"}
      /\ queue' = queue /\ armed' \in {armed, {}}
      /\ pc'[Main] = "remove" \/ ~mapped'
  BY <1>2
     DEF SweepFindsIdle, RemoveConnection, Unregister, epollVars, IndInv, ThreadInv
<1>4. ~MainHolds /\ ~MainHolds' /\ pc[Main] # "dispatchRead" /\ pc'[Main] # "dispatchRead"
  BY <1>3 DEF MainHolds
<1>5. (NoWorker' <=> NoWorker) /\ \A w \in Workers : SealedAt(w)' <=> SealedAt(w)
  BY <1>1 DEF NoWorker, SealedAt
<1>6. Single'
  BY <1>1, <1>3, <1>4, <1>5 DEF Orderly, Single
<1>7. BufferInv'
  BY <1>1, <1>3 DEF Orderly, BufferInv
<1>8. Sealed => Sealed'
  BY <1>1, <1>3, <1>4, <1>5 DEF Sealed
<1>9. Minded'
  BY <1>2, <1>3 DEF Minded
<1>. QED
  BY <1>1, <1>6, <1>7, <1>8, <1>9 DEF Orderly

LEMMA NextKeepsOrder ==
    ASSUME IndInv, IndInv', StreamInv, SeqInv, Orderly, ~Over, [Next]_vars
    PROVE  Orderly'
<1>1. ASSUME NEW w \in Workers, Work(w) PROVE Orderly'
  <2>1. Single'
    BY <1>1, WorkKeepsSingle
  <2>2. BufferInv' /\ Minded'
    BY <1>1, WorkKeepsBuffer, WorkKeepsMinded
  <2>3. committed' # 0 => Sealed'
    BY <1>1, <2>1, WorkKeepsSealed
  <2>. QED
    BY <2>1, <2>2, <2>3 DEF Orderly
<1>2. CASE Loop
  BY <1>2, EpollWaitKeepsOrder, DispatchKeepsOrder, RemovalKeepsOrder DEF Loop, Dispatch
<1>3. CASE Client \/ Tick \/ Stop \/ UNCHANGED vars
  <2>1. UNCHANGED <<pc, loc, evs, queue, armed, mapped, write_buffer, committed,
                    close_after_write_flag>>
    BY <1>3
       DEF Client, ClientSends, ClientReads, ClientLeaves, Tick, Stop, vars, epollVars,
           connVars, observerVars
  <2>2. Single' /\ BufferInv' /\ Minded'
    BY <2>1 DEF Orderly, Single, BufferInv, Minded, NoWorker, MainHolds
  <2>3. committed' # 0 => Sealed'
    BY <2>1 DEF Orderly, Sealed, SealedAt, MainHolds
  <2>. QED
    BY <2>2, <2>3 DEF Orderly
<1>. QED
  BY <1>1, <1>2, <1>3 DEF Next

LEMMA NextKeepsSeq ==
    ASSUME ~Pipelines, ParseLimit >= 1, IndInv, IndInv', StreamInv, SeqInv, [Next]_vars
    PROVE  SeqInv'
<1>1. AnswerInv' /\ LocalInv' /\ DoneInv'
  BY NextKeepsAnswers, NextKeepsLocal, NextKeepsDone
<1>2. Over' \/ Orderly'
  BY OverStays, NextKeepsOrder DEF SeqInv
<1>. QED
  BY <1>1, <1>2 DEF SeqInv

LEMMA InitSeq == Init => SeqInv
<1> SUFFICES ASSUME Init PROVE SeqInv
  OBVIOUS
<1>1. Last = 0 /\ answers = 0 /\ sent = 0 /\ received = 0 /\ 0 * Parts = 0
  BY ConnIOAssumption DEF Init, Last
<1>2. Stream = <<>>
  BY ThreadFacts DEF Init, Pending, Stream
<1>3. AnswerInv
  <2>1. \A r \in Requests : ~(sent > r * Parts)
    <3>1. \A r \in Requests : r * Parts \in Nat
      BY TimesParts DEF Requests
    <3>. QED
      BY <1>1, <3>1
  <2>2. Len(Stream) = 0
    BY <1>2
  <2>. QED
    BY <1>1, <2>1, <2>2 DEF AnswerInv
<1>4. \A w \in Workers : pc[w] = "idle" /\ loc[w] = NoLocals
  BY ThreadFacts DEF Init
<1>5. LocalInv
  BY <1>4 DEF LocalInv, LocalOK, NoLocals
<1>6. DoneInv
  BY DEF Init, DoneInv
<1>7. pc[Main] = "idle"
  BY ThreadFacts DEF Init
<1>8. Orderly
  <2>1. NoWorker /\ ~MainHolds /\ queue = <<>> /\ committed = 0 /\ armed = {"IN"}
    BY <1>4, <1>7
       DEF Init, NoWorker, MainHolds, InTask, ReadSide, WriteSide, WriteEnd
  <2>2. Single
    BY <1>7, <2>1 DEF Single, NoWorker
  <2>3. BufferInv /\ Minded
    BY <1>4, <2>1 DEF BufferInv, Minded, WriteEnd
  <2>. QED
    BY <2>1, <2>2, <2>3 DEF Orderly
<1>. QED
  BY <1>3, <1>5, <1>6, <1>8 DEF SeqInv

LEMMA SeqAlways ==
    ASSUME ~Pipelines, ParseLimit >= 1
    PROVE  Spec => []SeqInv
<1>1. IndInv /\ IndInv' /\ StreamInv /\ SeqInv /\ [Next]_vars => SeqInv'
  BY NextKeepsSeq
<1>. QED
  BY <1>1, InitSeq, InvAlways, StreamAlways, PTL DEF Spec

-----------------------------------------------------------------------------
(* Error answers *)

\* The one worker inside flush().
LEMMA OneFlushes ==
    ASSUME IndInv, NEW v \in Workers, NEW w \in Workers, pc[v] \in Flushing, pc[w] \in Flushing
    PROVE  v = w
BY DEF IndInv, TypeOK, MutexOK, Flushing, InMutex

\* A worker in the flush of an error answer takes only the steps of flush().
LEMMA FlushErrorStays ==
    ASSUME IndInv, [Next]_vars, NEW v \in Workers, pc[v] = "flushError",
           ~Send(v), ~EraseSent(v), ~FlushReturns(v)
    PROVE  pc'[v] = "flushError"
<1>1. ~Work(v)
  <2>1. ~(TakeTask(v) \/ ReadAgain(v) \/ Lock(v) \/ RemoveConnection(v) \/ Unregister(v))
    BY DEF TakeTask, ReadAgain, Lock, RemoveConnection, Unregister
  <2>2. ~ReadTask(v)
    BY DEF ReadTask, RecvData, RecvStops, RecvEnds, ParseIncomplete, ParseRejects, ParseThrows,
           ParseAnswers, ReadCloses, ReadLingers, ReadRearms
  <2>3. ~WriteTask(v)
    BY DEF WriteTask, WriteUnlocks, WriteCloses, WriteGoesOn, WriteRearms, WriteInterest
  <2>. QED
    BY <2>1, <2>2, <2>3 DEF Work
<1>2. ASSUME NEW w \in Workers, Work(w) PROVE pc'[v] = pc[v]
  BY <1>1, <1>2, WorkFrame, ThreadFacts
<1>3. CASE Client \/ Tick \/ Stop \/ UNCHANGED vars
  BY <1>3 DEF Client, ClientSends, ClientReads, ClientLeaves, Tick, Stop, vars
<1>4. CASE Loop
  BY <1>4, LoopFrame
<1>. QED
  BY <1>2, <1>3, <1>4 DEF Next

LEMMA NextKeepsError ==
    ASSUME ErrorSize <= SockBuf, IndInv, IndInv', StreamInv, SeqInv, ErrorInv, [Next]_vars
    PROVE  ErrorInv'
<1> SUFFICES ASSUME rejected', hangup' = "no"
             PROVE  \/ write_buffer' = <<>>
                    \/ \E w \in Workers :
                          /\ pc'[w] = "flushError"
                          /\ Len(write_buffer') - loc'[w].taken <= Room'
  BY DEF ErrorInv
<1>1. /\ wire \in Seq(Units) /\ write_buffer \in Seq(Units) /\ Pending <= Len(write_buffer)
      /\ Len(wire) \in Nat /\ Len(write_buffer) \in Nat
  BY PendingIs DEF StreamInv
<1>2. /\ SockBuf \in Nat /\ ErrorSize \in Nat \ {0} /\ clientRead \in Nat /\ clientRead <= Len(wire)
      /\ Room \in Int
  BY <1>1, ConnIOAssumption DEF IndInv, TypeOK, SocketOK, Room
<1>3. /\ pc \in [Threads -> Labels] /\ loc \in [Workers -> Locals]
      /\ \A w \in Workers : w \in Threads /\ loc[w].taken \in Nat
  BY ThreadFacts DEF IndInv, TypeOK, MutexOK, TasksOK, Locals
<1>4. ASSUME NEW w \in Workers, ParseRejects(w)
      PROVE  pc'[w] = "flushError" /\ Len(write_buffer') - loc'[w].taken <= Room'
  <2>1. pc[w] = "parse" /\ Parseable /\ pc'[w] = "flushError" /\ loc' = loc
    BY <1>3, <1>4 DEF ParseRejects, Parses, AfterReject, Goto
  <2>2. clientRead = Len(wire)
    BY <2>1, ParseOpens
  <2>3. wire' = wire /\ clientRead' = clientRead
    BY <1>4 DEF ParseRejects, clientVars
  <2>4. Room' = SockBuf
    BY <1>1, <1>2, <2>2, <2>3 DEF Room
  <2>5. write_buffer' = Answer(parsed + 1, ErrorSize)
    BY <1>4, AnswerHappens
  <2>6. Len(write_buffer') = ErrorSize
    BY <1>2, <2>1, <2>5, ParseableIsRequest, AnswerIs
  <2>7. loc'[w].taken = 0
    BY <2>1, PendingIs DEF Flushing
  <2>. QED
    BY <1>2, <2>1, <2>4, <2>6, <2>7
<1>5. ASSUME NEW w \in Workers, ParseAnswers(w) PROVE FALSE
  <2>1. pc[w] = "parse" /\ Parseable /\ rejected' = rejected
    BY <1>5 DEF ParseAnswers, Parses
  <2>. QED
    BY <2>1, ParseOpens
<1>6. CASE ~\E w \in Workers : ParseRejects(w) \/ ParseAnswers(w)
  <2>1. rejected /\ hangup = "no" /\ clientRead <= clientRead'
    <3>1. /\ rejected' = rejected
          /\ hangup' = hangup \/ hangup' \in {"fin", "rst"}
          /\ clientRead <= clientRead'
      BY <1>6, OthersAnswerNothing
    <3>. QED
      BY <3>1
  <2>2. \/ write_buffer = <<>>
        \/ \E w \in Workers :
              pc[w] = "flushError" /\ Len(write_buffer) - loc[w].taken <= Room
    BY <2>1 DEF ErrorInv
  <2>3. ASSUME NEW w \in Workers, Send(w) \/ EraseSent(w) \/ FlushReturns(w)
        PROVE  \/ write_buffer' = <<>>
               \/ /\ pc'[w] = "flushError"
                  /\ Len(write_buffer') - loc'[w].taken <= Room'
    <3>1. pc[w] \in Flushing
      BY <2>3 DEF Send, EraseSent, FlushReturns
    <3>2. CASE write_buffer = <<>>
      <4>1. ~Send(w)
        BY <3>2 DEF Send
      <4>2. ~EraseSent(w)
        <5>1. pc[w] \in InMutex /\ Len(write_buffer) = 0
          BY <3>1, <3>2 DEF Flushing, InMutex
        <5>2. ~(loc[w].taken > 0)
          BY <1>1, <1>3, <5>1, PendingIs
        <5>. QED
          BY <5>2 DEF EraseSent
      <4>3. write_buffer' = write_buffer
        BY <2>3, <4>1, <4>2 DEF FlushReturns, connVars
      <4>. QED
        BY <3>2, <4>3
    <3>3. CASE write_buffer # <<>>
      <4>1. pc[w] = "flushError" /\ Len(write_buffer) - loc[w].taken <= Room
        <5>1. PICK v \in Workers :
                  pc[v] = "flushError" /\ Len(write_buffer) - loc[v].taken <= Room
          BY <2>2, <3>3
        <5>2. v = w
          BY <3>1, <5>1, OneFlushes DEF Flushing
        <5>. QED
          BY <5>1, <5>2
      <4>2. CASE Send(w)
        <5>1. /\ pc' = pc /\ UNCHANGED <<write_buffer, clientRead>>
              /\ loc[w].taken = 0
              /\ wire' = wire \o SubSeq(write_buffer, 1, Min({Room, Len(write_buffer)}))
              /\ loc' = [loc EXCEPT ![w].taken = Min({Room, Len(write_buffer)})]
          BY <4>2 DEF Send, clientVars, connVars
        <5>2. Min({Room, Len(write_buffer)}) = Len(write_buffer)
          <6>1. Min({Room, Len(write_buffer)}) =
                    IF Room <= Len(write_buffer) THEN Room ELSE Len(write_buffer)
            BY <1>1, <1>2, MinOfTwo
          <6>2. Len(write_buffer) <= Room
            BY <1>1, <1>2, <4>1, <5>1
          <6>. QED
            BY <1>1, <1>2, <6>1, <6>2
        <5>3. wire' = wire \o write_buffer
          BY <1>1, <5>1, <5>2, SubSeqFull
        <5>4. Len(wire') = Len(wire) + Len(write_buffer)
          BY <1>1, <5>3, ConcatUnits
        <5>5. Room' = Room - Len(write_buffer)
          <6>1. clientRead' = clientRead
            BY <5>1
          <6>. QED
            BY <1>1, <1>2, <5>4, <6>1 DEF Room
        <5>6. loc'[w].taken = Len(write_buffer)
          <6>1. loc' = [loc EXCEPT ![w] = [loc[w] EXCEPT !.taken = Len(write_buffer)]]
            BY <5>1, <5>2
          <6>2. loc[w] \in Locals
            BY <1>3
          <6>. QED
            BY <1>1, <1>3, <6>1, <6>2, TakenField
        <5>. QED
          BY <1>1, <1>2, <4>1, <5>1, <5>5, <5>6
      <4>3. CASE EraseSent(w)
        <5>1. /\ pc' = pc /\ UNCHANGED <<wire, clientRead>>
              /\ write_buffer' = SubSeq(write_buffer, loc[w].taken + 1, Len(write_buffer))
          BY <4>3 DEF EraseSent, clientVars
        <5>2. PICK x \in Locals : loc' = [loc EXCEPT ![w] = x] /\ x.taken = 0
          BY <4>3, EraseStep
        <5>3. loc'[w].taken = 0
          BY <1>3, <5>2
        <5>4. loc[w].taken <= Len(write_buffer)
          BY <1>1, <3>1, PendingIs DEF Flushing, InMutex
        <5>5. Len(write_buffer') = Len(write_buffer) - loc[w].taken
          BY <1>1, <1>3, <5>1, <5>4
        <5>6. Room' = Room
          BY <5>1 DEF Room
        <5>. QED
          BY <1>1, <1>3, <4>1, <5>1, <5>3, <5>5, <5>6
      <4>4. CASE FlushReturns(w)
        <5>1. /\ loc[w].taken = 0 /\ write_buffer' = write_buffer
              /\ write_buffer = <<>> \/ Room <= 0
          BY <2>1, <4>4 DEF FlushReturns, connVars
        <5>2. Len(write_buffer) <= 0
          BY <1>1, <1>2, <3>3, <4>1, <5>1
        <5>. QED
          BY <1>1, <3>3, <5>2
      <4>. QED
        BY <2>3, <4>2, <4>3, <4>4
    <3>. QED
      BY <3>2, <3>3
  <2>4. CASE ~\E w \in Workers : Send(w) \/ EraseSent(w) \/ FlushReturns(w)
    <3>1. /\ UNCHANGED <<wire, write_buffer>>
          /\ \A w \in Workers : loc'[w].taken = loc[w].taken
      BY <1>6, <2>4, OthersAreQuiet
    <3>2. CASE write_buffer = <<>>
      BY <3>1, <3>2
    <3>3. CASE write_buffer # <<>>
      <4>1. PICK w \in Workers :
                pc[w] = "flushError" /\ Len(write_buffer) - loc[w].taken <= Room
        BY <2>2, <3>3
      <4>2. pc'[w] = "flushError"
        BY <2>4, <4>1, FlushErrorStays
      <4>3. clientRead' \in Int
        BY DEF IndInv, TypeOK, SocketOK
      <4>4. Room' >= Room /\ Room' \in Int
        BY <1>1, <1>2, <2>1, <3>1, <4>3 DEF Room
      <4>5. Len(write_buffer') - loc'[w].taken <= Room'
        BY <1>1, <1>2, <1>3, <3>1, <4>1, <4>4
      <4>. QED
        BY <4>2, <4>5
    <3>. QED
      BY <3>2, <3>3
  <2>. QED
    BY <2>3, <2>4
<1>. QED
  BY <1>4, <1>5, <1>6

-----------------------------------------------------------------------------
(* Theorems *)

\* A client that waits for each answer is never answered again once an answer has
\* announced the close: no later request is parsed, whichever tasks run for the
\* connection, whatever events they were submitted for and however the client
\* hangs up.
THEOREM NothingFollowsTheClose ==
    ASSUME ~Pipelines, ParseLimit >= 1
    PROVE  Spec => []NothingAfterClose
<1>1. SeqInv => NothingAfterClose
  BY DEF SeqInv, DoneInv, NothingAfterClose
<1>. QED
  BY <1>1, SeqAlways, PTL

\* A connection of such a client that is marked to close after its last bytes is
\* taken down once they are out.  A client that shuts down its sending side in the
\* meantime is left out: its end of stream is reported along with EPOLLOUT, two tasks
\* run at once, and when the loop is stopping the read task can send the last bytes
\* without a look at the mark.
THEOREM MarkedConnectionsClose ==
    ASSUME ~Pipelines, ParseLimit >= 1, "fin" \notin MayHangUp
    PROVE  Spec => []CloseIsHonoured
<1>1. SeqInv => CloseIsHonoured
  <2> SUFFICES ASSUME SeqInv, Quiescent, close_after_write_flag, write_buffer = <<>>, mapped
               PROVE  FALSE
    BY DEF CloseIsHonoured
  <2>1. Orderly /\ Sealed
    BY DEF SeqInv, Over, DoneInv, Orderly
  <2>2. armed = {}
    BY <2>1 DEF Sealed
  <2>3. /\ ~MainHolds /\ queue = <<>>
        /\ \A t \in Threads : pc[t] = "idle"
        /\ \A w \in Workers : pc[w] = "idle"
    BY ThreadFacts DEF Quiescent, MainHolds
  <2>. QED
    BY <2>1, <2>2, <2>3 DEF Orderly, Minded, WriteSide, WriteEnd
<1>. QED
  BY <1>1, SeqAlways, PTL

\* If an error answer fits into the socket's send buffer, a 400 or 429 to such a
\* client is handed to the kernel completely before the connection is taken down:
\* the earlier answers are out and read when it is produced, and the one flush
\* that it gets takes all of it.
THEOREM ErrorAnswersAreSent ==
    ASSUME ~Pipelines, ParseLimit >= 1, ErrorSize <= SockBuf
    PROVE  Spec => []ErrorAnswerSent
<1>1. Init => ErrorInv
  BY DEF Init, ErrorInv
<1>2. IndInv /\ IndInv' /\ StreamInv /\ SeqInv /\ ErrorInv /\ [Next]_vars => ErrorInv'
  BY NextKeepsError
<1>3. ErrorInv => ErrorAnswerSent
  BY DEF ErrorInv, ErrorAnswerSent, Flushing
<1>. QED
  BY <1>1, <1>2, <1>3, InvAlways, StreamAlways, SeqAlways, PTL DEF Spec

=============================================================================
