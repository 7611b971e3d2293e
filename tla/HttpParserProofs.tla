-------------------------- MODULE HttpParserProofs ---------------------------
(***************************************************************************)
(* Proofs about HttpParser: types, the bound on bodies, the bound on what  *)
(* a waiting connection holds back, and the progress of the parse loops,   *)
(* from one inductive invariant, IndInv; and that the parser implements    *)
(* HttpReading, from IndInv and from what the buffer holds, BufferInv.  At *)
(* the end, what HttpMessages makes of the requests: framing and closing.  *)
(***************************************************************************)
EXTENDS HttpParser, SequenceTheorems, WellFoundedInduction, TLAPS

\* What each state of the parser implies about the body: it is empty until the
\* headers are read, a plain body is read in one piece, and a chunk that was let
\* in still fits and is not empty.
BodyInv ==
    /\ BodyBounded
    /\ m_state \in {"RequestLine", "Headers", "Body"} => request.body = <<>>
    /\ m_state = "Body" => getContentLength(request.headers) > 0
    /\ m_state = "ChunkData" =>
          m_chunk_remaining > 0 /\ Len(request.body) + m_chunk_remaining <= MAX_HTTP_BODY_SIZE

\* The connection waits only where parse() returned Incomplete or found the
\* buffer empty.
WaitInv ==
    pc = "recv" =>
        \/ m_state \in LineStates /\ Len(readBuffer) <= MAX_HTTP_HEADER_SIZE
        \/ m_state \in {"Body", "ChunkData"} /\ Len(readBuffer) < MAX_HTTP_BODY_SIZE

IndInv == TypeOK /\ BodyInv /\ WaitInv

-----------------------------------------------------------------------------
(* Lemmas about buffers *)

\* Taking the first n octets off a buffer leaves a buffer that is n shorter.
LEMMA EraseShortens ==
    ASSUME NEW b \in Seq(Octets), NEW n \in 0 .. Len(b)
    PROVE  /\ SubSeq(b, n + 1, Len(b)) \in Seq(Octets)
           /\ Len(SubSeq(b, n + 1, Len(b))) = Len(b) - n
<1>1. Len(b) \in Nat
  BY LenProperties
<1>2. \A i \in n + 1 .. Len(b) : b[i] \in Octets
  BY <1>1, ElementOfSeq
<1>. QED
  BY <1>1, <1>2, SubSeqProperties

\* The first n octets of a buffer are n octets.
LEMMA FirstHasLength ==
    ASSUME NEW b \in Seq(Octets), NEW n \in 0 .. Len(b)
    PROVE  SubSeq(b, 1, n) \in Seq(Octets) /\ Len(SubSeq(b, 1, n)) = n
<1>1. Len(b) \in Nat
  BY LenProperties
<1>2. \A i \in 1 .. n : b[i] \in Octets
  BY <1>1, ElementOfSeq
<1>3. SubSeq(b, 1, n) \in Seq(Octets)
  BY <1>1, <1>2, SubSeqProperties
<1>4. Len(SubSeq(b, 1, n)) = IF 1 <= n THEN n - 1 + 1 ELSE 0
  BY <1>1, <1>2, SubSeqProperties
<1>. QED
  BY <1>1, <1>3, <1>4

\* The length of a body that is announced is a natural number.
LEMMA ContentLengthType ==
    ASSUME NEW h \in Headers
    PROVE  getContentLength(h) \in Nat
BY HttpParserAssumption DEF getContentLength, Headers

\* A request after its reset is a request without a body.
LEMMA EmptyRequestType == EmptyRequest \in Requests /\ EmptyRequest.body = <<>>
BY DEF EmptyRequest, Requests, Headers, Names

\* The initial states satisfy the invariant.
LEMMA InitIndInv == Init => IndInv
<1>. SUFFICES ASSUME Init PROVE IndInv
  OBVIOUS
<1>1. Len(stream) \in Nat
  BY HttpParserAssumption, LenProperties DEF Init
<1>2. TypeOK
  BY <1>1, EmptyRequestType, HttpParserAssumption DEF Init, TypeOK, LineStates
<1>3. BodyInv
  BY EmptyRequestType, HttpParserAssumption DEF Init, BodyInv, BodyBounded
<1>4. WaitInv
  BY HttpParserAssumption DEF Init, WaitInv, LineStates
<1>. QED
  BY <1>2, <1>3, <1>4 DEF IndInv

-----------------------------------------------------------------------------
(* Every step preserves the invariant *)

\* More octets arrive.
LEMMA RecvInv == IndInv /\ Recv => IndInv'
<1>. SUFFICES ASSUME IndInv, Recv PROVE IndInv'
  OBVIOUS
<1>. USE DEF IndInv
<1>1. stream \in Seq(Octets) /\ Len(stream) \in Nat
  BY HttpParserAssumption, LenProperties DEF TypeOK
<1>2. PICK n \in 1 .. Len(stream) - received :
          /\ readBuffer' = readBuffer \o SubSeq(stream, received + 1, received + n)
          /\ received' = received + n
  BY DEF Recv
<1>3. \A i \in received + 1 .. received + n : stream[i] \in Octets
  BY <1>1, ElementOfSeq DEF TypeOK
<1>4. SubSeq(stream, received + 1, received + n) \in Seq(Octets)
  BY <1>1, <1>3, SubSeqProperties DEF TypeOK
<1>5. readBuffer' \in Seq(Octets)
  BY <1>2, <1>4, ConcatProperties DEF TypeOK
<1>6. TypeOK'
  BY <1>1, <1>2, <1>5 DEF TypeOK, Recv, parserVars
<1>7. BodyInv'
  BY DEF Recv, BodyInv, BodyBounded, parserVars
<1>8. WaitInv'
  BY DEF Recv, WaitInv
<1>. QED
  BY <1>6, <1>7, <1>8

\* No line is found: parse() asks for more or refuses.
LEMMA NoLineInv == IndInv /\ pc = "parse" /\ NoLine => IndInv'
<1>. SUFFICES ASSUME IndInv, pc = "parse", NoLine PROVE IndInv'
  OBVIOUS
<1>. USE DEF IndInv
<1>1. CASE ~HeaderTooLarge /\ Incomplete
  <2>1. TypeOK'
    BY <1>1 DEF TypeOK, Incomplete, parserVars
  <2>2. BodyInv'
    BY <1>1 DEF Incomplete, parserVars, BodyInv, BodyBounded
  <2>3. WaitInv'
    BY <1>1, LenProperties, HttpParserAssumption
       DEF Incomplete, parserVars, WaitInv, NoLine, HeaderTooLarge, TypeOK
  <2>. QED
    BY <2>1, <2>2, <2>3
<1>2. CASE Malformed /\ UNCHANGED readBuffer
  <2>1. TypeOK'
    BY <1>2 DEF TypeOK, Malformed, Error
  <2>2. BodyInv'
    BY <1>2 DEF Malformed, Error, BodyInv, BodyBounded
  <2>3. WaitInv'
    BY <1>2 DEF Malformed, Error, WaitInv
  <2>. QED
    BY <2>1, <2>2, <2>3
<1>. QED
  BY <1>1, <1>2 DEF NoLine

\* A line is taken off the buffer.  w is what it says.
LEMMA LineInv == IndInv /\ pc = "parse" /\ Line => IndInv'
<1>. SUFFICES ASSUME IndInv, pc = "parse", Line PROVE IndInv'
  OBVIOUS
<1>. USE DEF IndInv
<1>1. PICK i \in 0 .. MAX_CHUNK_BODY_SIZE :
          /\ LineOf(i) /\ Erase(i + 2)
          /\ LET w == IF i = 0 THEN NoWord ELSE readBuffer[1]
             IN  \/ RequestLine(w) \/ HeaderLine(w) \/ HeadersEnd(w)
                 \/ ChunkSize(w) \/ ChunkCRLF(w) \/ Trailers(w)
  BY DEF Line
<1>. DEFINE w == IF i = 0 THEN NoWord ELSE readBuffer[1]
<1>2. readBuffer' \in Seq(Octets)
  <2>1. i + 2 \in 0 .. Len(readBuffer)
    BY <1>1, HttpParserAssumption, LenProperties DEF LineOf, CrlfAt, TypeOK
  <2>. QED
    BY <1>1, <2>1, EraseShortens DEF Erase, TypeOK
<1>. HIDE DEF w
<1>3. CASE Malformed
  <2>1. TypeOK'
    BY <1>2, <1>3 DEF TypeOK, Malformed, Error
  <2>2. BodyInv'
    BY <1>3 DEF Malformed, Error, BodyInv, BodyBounded
  <2>3. WaitInv'
    BY <1>3 DEF Malformed, Error, WaitInv
  <2>. QED
    BY <2>1, <2>2, <2>3
<1>4. CASE m_state = "RequestLine" /\ w \in RequestLines
           /\ request' = [request EXCEPT !.line = w] /\ GoTo("Headers")
  <2>1. request' \in Requests /\ request'.body = request.body /\ request'.headers = request.headers
    BY <1>4 DEF TypeOK, Requests
  <2>2. TypeOK'
    BY <1>2, <1>4, <2>1 DEF TypeOK, GoTo, LineStates
  <2>3. BodyInv'
    BY <1>4, <2>1 DEF GoTo, BodyInv, BodyBounded
  <2>. QED
    BY <1>4, <2>2, <2>3 DEF GoTo, WaitInv
<1>5. CASE m_state = "Headers" /\ w \in DOMAIN NameOf
           /\ request' = [request EXCEPT !.headers[NameOf[w]] = w] /\ GoTo("Headers")
  <2>1. [request.headers EXCEPT ![NameOf[w]] = w] \in Headers
    <3>1. NameOf[w] \in Names /\ w \in DOMAIN NameOf
      BY <1>5, HttpParserAssumption, Zenon
    <3>2. request.headers \in Headers
      BY DEF TypeOK, Requests
    <3>3. NameOf[w] = "content-length" => w \in DOMAIN Stoull
      <4>1. DOMAIN Stoull = {v \in DOMAIN NameOf : NameOf[v] = "content-length"}
        BY HttpParserAssumption
      <4>. QED
        BY <3>1, <4>1
    <3>. QED
      BY <3>1, <3>2, <3>3 DEF Headers, Names
  <2>2. request' \in Requests /\ request'.body = request.body
    BY <1>5, <2>1 DEF TypeOK, Requests
  <2>3. TypeOK'
    BY <1>2, <1>5, <2>2 DEF TypeOK, GoTo, LineStates
  <2>4. BodyInv'
    BY <1>5, <2>2 DEF GoTo, BodyInv, BodyBounded
  <2>. QED
    BY <1>5, <2>3, <2>4 DEF GoTo, WaitInv
<1>6. CASE HeadersEnd(w)
  <2>1. TypeOK'
    BY <1>2, <1>6 DEF TypeOK, HeadersEnd, GoTo, LineStates, BodyFollows
  <2>2. BodyInv'
    BY <1>6 DEF HeadersEnd, GoTo, BodyFollows, BodyInv, BodyBounded
  <2>. QED
    BY <1>6, <2>1, <2>2 DEF HeadersEnd, GoTo, WaitInv
<1>7. CASE ChunkSize(w)
  <2>1. CASE w \in DOMAIN SizeOf /\ ChunkFits(SizeOf[w]) /\ SizeOf[w] = 0 /\ GoTo("Trailers")
    <3>1. TypeOK'
      BY <1>2, <1>7, <2>1 DEF TypeOK, ChunkSize, GoTo, LineStates
    <3>2. BodyInv'
      BY <1>7, <2>1 DEF ChunkSize, GoTo, BodyInv, BodyBounded
    <3>. QED
      BY <2>1, <3>1, <3>2 DEF GoTo, WaitInv
  <2>2. CASE /\ w \in DOMAIN SizeOf /\ ChunkFits(SizeOf[w]) /\ SizeOf[w] > 0
             /\ m_chunk_remaining' = SizeOf[w]
             /\ m_state' = "ChunkData"
             /\ UNCHANGED <<stream, received, pc, served>>
    <3>1. SizeOf[w] \in 0 .. MAX_HTTP_BODY_SIZE
      BY <2>2, HttpParserAssumption DEF ChunkFits
    <3>2. TypeOK'
      BY <1>2, <1>7, <2>2, <3>1 DEF TypeOK, ChunkSize, LineStates
    <3>3. BodyInv'
      BY <1>7, <2>2 DEF ChunkSize, ChunkFits, BodyInv, BodyBounded
    <3>. QED
      BY <2>2, <3>2, <3>3 DEF WaitInv
  <2>3. CASE Error
    BY <1>3, <1>7, <2>3 DEF ChunkSize, Malformed
  <2>. QED
    BY <1>7, <2>1, <2>2, <2>3 DEF ChunkSize
<1>8. CASE m_state = "ChunkCRLF" /\ GoTo("ChunkSize") /\ UNCHANGED request
  <2>1. TypeOK'
    BY <1>2, <1>8 DEF TypeOK, GoTo, LineStates
  <2>2. BodyInv'
    BY <1>8 DEF GoTo, BodyInv, BodyBounded
  <2>. QED
    BY <1>8, <2>1, <2>2 DEF GoTo, WaitInv
<1>9. CASE Trailers(w)
  <2>1. TypeOK'
    BY <1>2, <1>9 DEF TypeOK, Trailers, GoTo, LineStates
  <2>2. BodyInv'
    BY <1>9 DEF Trailers, GoTo, BodyInv, BodyBounded
  <2>. QED
    BY <1>9, <2>1, <2>2 DEF Trailers, GoTo, WaitInv
<1>. QED
  BY <1>1, <1>3, <1>4, <1>5, <1>6, <1>7, <1>8, <1>9
     DEF w, RequestLine, HeaderLine, ChunkCRLF

\* A piece of a body is taken, refused or waited for.
LEMMA ExtractInv ==
    ASSUME IndInv, pc = "parse", m_state \in {"Body", "ChunkData"},
           NEW n \in Nat,
           \/ n > MAX_HTTP_BODY_SIZE /\ Malformed /\ UNCHANGED readBuffer
           \/ n <= MAX_HTTP_BODY_SIZE /\ Len(readBuffer) < n /\ Incomplete
    PROVE  IndInv'
<1>. USE DEF IndInv
<1>1. CASE Malformed /\ UNCHANGED readBuffer
  <2>1. TypeOK'
    BY <1>1 DEF TypeOK, Malformed, Error
  <2>2. BodyInv'
    BY <1>1 DEF Malformed, Error, BodyInv, BodyBounded
  <2>3. WaitInv'
    BY <1>1 DEF Malformed, Error, WaitInv
  <2>. QED
    BY <2>1, <2>2, <2>3
<1>2. CASE n <= MAX_HTTP_BODY_SIZE /\ Len(readBuffer) < n /\ Incomplete
  <2>1. TypeOK'
    BY <1>2 DEF TypeOK, Incomplete, parserVars
  <2>2. BodyInv'
    BY <1>2 DEF Incomplete, parserVars, BodyInv, BodyBounded
  <2>3. WaitInv'
    BY <1>2, LenProperties, HttpParserAssumption DEF Incomplete, parserVars, WaitInv, TypeOK
  <2>. QED
    BY <2>1, <2>2, <2>3
<1>. QED
  BY <1>1, <1>2

\* The body of Content-Length octets is read in one piece.
LEMMA BodyStepInv == IndInv /\ pc = "parse" /\ Body => IndInv'
<1>. SUFFICES ASSUME IndInv, pc = "parse", Body PROVE IndInv'
  OBVIOUS
<1>. USE DEF IndInv
<1>. DEFINE n == getContentLength(request.headers) - Len(request.body)
<1>1. n \in Nat
  <2>1. Len(request.body) = 0
    BY DEF Body, BodyInv
  <2>2. request.headers \in Headers
    BY DEF TypeOK, Requests
  <2>. QED
    BY <2>1, <2>2, ContentLengthType
<1>2. m_state = "Body" /\ Extract(n, request' = [request EXCEPT !.body = First(n)] /\ GoTo("Complete"))
  BY DEF Body
<1>. HIDE DEF n
<1>3. CASE /\ n <= MAX_HTTP_BODY_SIZE /\ Len(readBuffer) >= n /\ Erase(n)
           /\ request' = [request EXCEPT !.body = First(n)] /\ GoTo("Complete")
  <2>1. Len(readBuffer) \in Nat /\ readBuffer \in Seq(Octets)
    BY LenProperties DEF TypeOK
  <2>2. readBuffer' \in Seq(Octets)
    BY <1>1, <1>3, <2>1, EraseShortens DEF Erase
  <2>3. First(n) \in Seq(Octets) /\ Len(First(n)) = n
    BY <1>1, <1>3, <2>1, FirstHasLength DEF First
  <2>4. request' \in Requests /\ request'.body = First(n)
    BY <1>3, <2>3 DEF TypeOK, Requests
  <2>5. TypeOK'
    BY <1>2, <1>3, <2>2, <2>4 DEF TypeOK, GoTo
  <2>6. BodyInv'
    BY <1>3, <2>3, <2>4 DEF GoTo, BodyInv, BodyBounded
  <2>. QED
    BY <1>3, <2>5, <2>6 DEF GoTo, WaitInv
<1>. QED
  BY <1>1, <1>2, <1>3, ExtractInv DEF Extract

\* The octets of a chunk are appended to the body.
LEMMA ChunkDataInv == IndInv /\ pc = "parse" /\ ChunkData => IndInv'
<1>. SUFFICES ASSUME IndInv, pc = "parse", ChunkData PROVE IndInv'
  OBVIOUS
<1>. USE DEF IndInv
<1>. DEFINE n == m_chunk_remaining
<1>1. n \in Nat
  BY HttpParserAssumption DEF TypeOK
<1>2. m_state = "ChunkData"
      /\ Extract(n, request' = [request EXCEPT !.body = @ \o First(n)] /\ GoTo("ChunkCRLF"))
  BY DEF ChunkData
<1>3. CASE /\ n <= MAX_HTTP_BODY_SIZE /\ Len(readBuffer) >= n /\ Erase(n)
           /\ request' = [request EXCEPT !.body = @ \o First(n)] /\ GoTo("ChunkCRLF")
  <2>1. Len(readBuffer) \in Nat /\ readBuffer \in Seq(Octets) /\ request.body \in Seq(Octets)
    BY LenProperties DEF TypeOK, Requests
  <2>2. readBuffer' \in Seq(Octets)
    BY <1>1, <1>3, <2>1, EraseShortens DEF Erase
  <2>3. First(n) \in Seq(Octets) /\ Len(First(n)) = n
    BY <1>1, <1>3, <2>1, FirstHasLength DEF First
  <2>4. /\ request.body \o First(n) \in Seq(Octets)
        /\ Len(request.body \o First(n)) = Len(request.body) + n
    <3>1. /\ request.body \o First(n) \in Seq(Octets)
          /\ Len(request.body \o First(n)) = Len(request.body) + Len(First(n))
      BY <2>1, <2>3, ConcatProperties, Zenon
    <3>. QED
      BY <2>3, <3>1
  <2>5. request' \in Requests /\ request'.body = request.body \o First(n)
    BY <1>3, <2>4 DEF TypeOK, Requests
  <2>6. TypeOK'
    BY <1>2, <1>3, <2>2, <2>5 DEF TypeOK, GoTo, LineStates
  <2>7. BodyInv'
    BY <1>2, <1>3, <2>4, <2>5 DEF GoTo, BodyInv, BodyBounded
  <2>. QED
    BY <1>3, <2>6, <2>7 DEF GoTo, WaitInv
<1>. QED
  BY <1>1, <1>2, <1>3, ExtractInv DEF Extract

\* A request is complete: served, and everything reset.
LEMMA SuccessInv == IndInv /\ pc = "parse" /\ Success => IndInv'
<1>. SUFFICES ASSUME IndInv, pc = "parse", Success PROVE IndInv'
  OBVIOUS
<1>. USE DEF IndInv
<1>1. /\ served' \in Seq(Requests) /\ Len(served') = Len(served) + 1 /\ Len(served) \in Nat
      /\ \A i \in 1 .. Len(served) : served'[i] = served[i]
      /\ served'[Len(served) + 1] = request
  BY AppendProperties, LenProperties DEF TypeOK, Success
<1>2. TypeOK'
  BY <1>1, EmptyRequestType, HttpParserAssumption
     DEF TypeOK, Success, GoesOn, ResetRequest, LineStates
<1>3. BodyInv'
  <2>1. request'.body = <<>>
    BY EmptyRequestType DEF Success, ResetRequest
  <2>2. \A i \in 1 .. Len(served') : Len(served'[i].body) <= MAX_HTTP_BODY_SIZE
    BY <1>1 DEF BodyInv, BodyBounded
  <2>. QED
    BY <2>1, <2>2, HttpParserAssumption DEF Success, BodyInv, BodyBounded
<1>4. WaitInv'
  BY HttpParserAssumption DEF Success, GoesOn, WaitInv, LineStates
<1>. QED
  BY <1>2, <1>3, <1>4

\* The invariant is inductive.
LEMMA NextIndInv == IndInv /\ [Next]_vars => IndInv'
<1>. SUFFICES ASSUME IndInv, [Next]_vars PROVE IndInv'
  OBVIOUS
<1>1. CASE Recv
  BY <1>1, RecvInv
<1>2. CASE ParseStep
  BY <1>2, NoLineInv, LineInv, BodyStepInv, ChunkDataInv, SuccessInv DEF ParseStep
<1>3. CASE UNCHANGED vars
  BY <1>3 DEF vars, parserVars, IndInv, TypeOK, BodyInv, BodyBounded, WaitInv
<1>. QED
  BY <1>1, <1>2, <1>3 DEF Next

\* IndInv holds in every reachable state.
THEOREM Invariance == Spec => []IndInv
BY InitIndInv, NextIndInv, PTL DEF Spec

\* Every variable of the parser keeps its type, for every stream and every limit.
THEOREM TypeCorrect == Spec => []TypeOK
<1>1. IndInv => TypeOK
  BY DEF IndInv
<1>. QED
  BY <1>1, Invariance, PTL

\* No request, under construction or served, has a body over the limit.
THEOREM BodiesStayBounded == Spec => []BodyBounded
<1>1. IndInv => BodyBounded
  BY DEF IndInv, BodyInv
<1>. QED
  BY <1>1, Invariance, PTL

\* A connection that waits for octets holds back a bounded number of them, for a
\* line the limit of a line, for a body that of a body.
THEOREM WaitingStaysBounded == Spec => []WaitingBounded
<1>1. IndInv => WaitingBounded
  BY DEF IndInv, WaitInv, WaitingBounded, LineStates
<1>. QED
  BY <1>1, Invariance, PTL

-----------------------------------------------------------------------------
(* Progress of the loops *)

\* A line takes its CRLF at least off the buffer.
LEMMA LineAdvances ==
    ASSUME IndInv, Line, pc' = "parse" PROVE Unparsed' < Unparsed
<1>1. PICK i \in 0 .. MAX_CHUNK_BODY_SIZE : LineOf(i) /\ Erase(i + 2)
  BY DEF Line
<1>2. readBuffer \in Seq(Octets) /\ Len(readBuffer) \in Nat
  BY LenProperties DEF IndInv, TypeOK
<1>3. i \in Nat /\ i + 2 \in 0 .. Len(readBuffer)
  BY <1>1, <1>2, HttpParserAssumption DEF LineOf, CrlfAt
<1>4. Len(readBuffer') = Len(readBuffer) - (i + 2)
  BY <1>1, <1>2, <1>3, EraseShortens DEF Erase
<1>5. m_state # "Complete"
  BY DEF Line, LineStates
<1>. QED
  BY <1>2, <1>3, <1>4, <1>5 DEF Unparsed

\* A piece of a body is never empty.
LEMMA ExtractAdvances ==
    ASSUME IndInv, m_state \in {"Body", "ChunkData"},
           NEW n \in Nat, n > 0, n <= Len(readBuffer), Erase(n)
    PROVE  Unparsed' < Unparsed
<1>1. readBuffer \in Seq(Octets) /\ Len(readBuffer) \in Nat
  BY LenProperties DEF IndInv, TypeOK
<1>2. Len(readBuffer') = Len(readBuffer) - n
  BY <1>1, EraseShortens DEF Erase
<1>. QED
  BY <1>1, <1>2 DEF Unparsed

\* Neither the loop of parse() nor that of the read task can spin: every pass
\* that is not the last one leaves less to do.
THEOREM LoopsAdvance == Spec => ParseAdvances
<1>1. IndInv /\ [Next]_vars => [pc = "parse" /\ pc' = "parse" => Unparsed' < Unparsed]_vars
  <2>. SUFFICES ASSUME IndInv, Next, pc = "parse", pc' = "parse"
                PROVE  Unparsed' < Unparsed
    OBVIOUS
  <2>1. CASE NoLine
    BY <2>1 DEF NoLine, Incomplete, Malformed, Error
  <2>2. CASE Line
    BY <2>2, LineAdvances
  <2>3. CASE Body
    <3>. DEFINE n == getContentLength(request.headers) - Len(request.body)
    <3>1. n \in Nat /\ n > 0
      <4>1. Len(request.body) = 0 /\ getContentLength(request.headers) > 0
        BY <2>3 DEF Body, IndInv, BodyInv
      <4>2. request.headers \in Headers
        BY DEF IndInv, TypeOK, Requests
      <4>. QED
        BY <4>1, <4>2, ContentLengthType
    <3>2. Len(readBuffer) >= n /\ Erase(n)
      BY <2>3 DEF Body, Extract, Incomplete, Malformed, Error
    <3>. HIDE DEF n
    <3>3. Len(readBuffer) \in Nat
      BY LenProperties DEF IndInv, TypeOK
    <3>. QED
      BY <2>3, <3>1, <3>2, <3>3, ExtractAdvances DEF Body
  <2>4. CASE ChunkData
    <3>1. m_chunk_remaining \in Nat /\ m_chunk_remaining > 0
      BY <2>4, HttpParserAssumption DEF ChunkData, IndInv, TypeOK, BodyInv
    <3>2. Len(readBuffer) >= m_chunk_remaining /\ Erase(m_chunk_remaining)
      BY <2>4 DEF ChunkData, Extract, Incomplete, Malformed, Error
    <3>3. Len(readBuffer) \in Nat
      BY LenProperties DEF IndInv, TypeOK
    <3>. QED
      BY <2>4, <3>1, <3>2, <3>3, ExtractAdvances DEF ChunkData
  <2>5. CASE Success
    <3>1. Len(readBuffer) \in Nat
      BY LenProperties DEF IndInv, TypeOK
    <3>. QED
      BY <2>5, <3>1 DEF Success, Unparsed
  <2>6. ~Recv
    BY DEF Recv
  <2>. QED
    BY <2>1, <2>2, <2>3, <2>4, <2>5, <2>6 DEF Next, ParseStep
<1>. QED
  BY <1>1, Invariance, PTL DEF Spec, ParseAdvances

-----------------------------------------------------------------------------
(* The stream is read as if it came in one piece *)

At == received - Len(readBuffer)

\* The buffer holds what was received and not read yet.
BufferInv ==
    /\ Len(readBuffer) <= received
    /\ \A i \in 1 .. Len(readBuffer) : readBuffer[i] = stream[At + i]

ReadInv == IndInv /\ BufferInv

\* What ReadInv says of the buffer and of the stream.
LEMMA BufferFacts ==
    ASSUME ReadInv
    PROVE  /\ readBuffer \in Seq(Octets) /\ Len(readBuffer) \in Nat
           /\ stream \in Seq(Octets) /\ Len(stream) \in Nat
           /\ received \in 0 .. Len(stream) /\ At \in 0 .. received
           /\ received = At + Len(readBuffer)
           /\ \A i \in 1 .. Len(readBuffer) : readBuffer[i] = stream[At + i]
<1>1. /\ readBuffer \in Seq(Octets) /\ stream \in Seq(Octets) /\ received \in 0 .. Len(stream)
  BY HttpParserAssumption DEF ReadInv, IndInv, TypeOK
<1>2. Len(readBuffer) \in Nat /\ Len(stream) \in Nat
  BY <1>1, LenProperties
<1>. QED
  BY <1>1, <1>2 DEF ReadInv, BufferInv, At

\* Reading n octets leaves the rest of what was received.
LEMMA EraseKeepsBuffer ==
    ASSUME ReadInv, NEW n \in 0 .. Len(readBuffer), Erase(n), UNCHANGED <<stream, received>>
    PROVE  BufferInv' /\ At' = At + n
<1>1. /\ readBuffer \in Seq(Octets) /\ Len(readBuffer) \in Nat /\ received \in Nat
      /\ received = At + Len(readBuffer) /\ At \in Nat
      /\ \A i \in 1 .. Len(readBuffer) : readBuffer[i] = stream[At + i]
  BY BufferFacts
<1>2. Len(readBuffer') = Len(readBuffer) - n
  BY <1>1, EraseShortens DEF Erase
<1>3. ASSUME NEW i \in 1 .. Len(readBuffer')
      PROVE  readBuffer'[i] = readBuffer[n + i] /\ n + i \in 1 .. Len(readBuffer)
  <2>1. \A j \in n + 1 .. Len(readBuffer) : readBuffer[j] \in Octets
    BY <1>1, ElementOfSeq
  <2>2. i \in 1 .. Len(readBuffer) - (n + 1) + 1 /\ n + i \in 1 .. Len(readBuffer)
    BY <1>1, <1>2
  <2>3. readBuffer'[i] = readBuffer[(n + 1) + i - 1]
    BY <1>1, <2>1, <2>2, SubSeqProperties DEF Erase
  <2>. QED
    BY <1>1, <2>2, <2>3
<1>4. At' = At + n
  BY <1>1, <1>2 DEF At
<1>5. ASSUME NEW i \in 1 .. Len(readBuffer') PROVE readBuffer'[i] = stream'[At' + i]
  <2>1. readBuffer[n + i] = stream[At + (n + i)] /\ At + (n + i) = (At + n) + i
    BY <1>1, <1>2, <1>3
  <2>. QED
    BY <1>3, <1>4, <2>1
<1>. QED
  BY <1>1, <1>2, <1>4, <1>5 DEF BufferInv

\* More octets arrive behind the ones in the buffer.
LEMMA RecvKeepsBuffer == ReadInv /\ Recv => BufferInv' /\ At' = At /\ UNCHANGED stream
<1>. SUFFICES ASSUME ReadInv, Recv PROVE BufferInv' /\ At' = At /\ UNCHANGED stream
  OBVIOUS
<1>1. /\ readBuffer \in Seq(Octets) /\ Len(readBuffer) \in Nat /\ received \in 0 .. Len(stream)
      /\ stream \in Seq(Octets) /\ Len(stream) \in Nat
      /\ received = At + Len(readBuffer) /\ At \in Nat
      /\ \A i \in 1 .. Len(readBuffer) : readBuffer[i] = stream[At + i]
  BY BufferFacts
<1>2. PICK n \in 1 .. Len(stream) - received :
          /\ readBuffer' = readBuffer \o SubSeq(stream, received + 1, received + n)
          /\ received' = received + n
  BY DEF Recv
<1>. DEFINE new == SubSeq(stream, received + 1, received + n)
<1>3. /\ new \in Seq(Octets) /\ Len(new) = n
      /\ \A i \in 1 .. n : new[i] = stream[received + i]
  <2>1. \A i \in received + 1 .. received + n : stream[i] \in Octets
    BY <1>1, ElementOfSeq
  <2>2. /\ new \in Seq(Octets)
        /\ Len(new) = IF received + 1 <= received + n THEN (received + n) - (received + 1) + 1 ELSE 0
        /\ \A i \in 1 .. (received + n) - (received + 1) + 1 : new[i] = stream[(received + 1) + i - 1]
    BY <1>1, <2>1, SubSeqProperties
  <2>3. /\ (received + n) - (received + 1) + 1 = n /\ received + 1 <= received + n
        /\ \A i \in 1 .. n : (received + 1) + i - 1 = received + i
    BY <1>1
  <2>. QED
    BY <2>2, <2>3
<1>. HIDE DEF new
<1>4. /\ Len(readBuffer') = Len(readBuffer) + n
      /\ \A i \in 1 .. Len(readBuffer) + n :
            readBuffer'[i] = IF i <= Len(readBuffer) THEN readBuffer[i] ELSE new[i - Len(readBuffer)]
  BY <1>1, <1>2, <1>3, ConcatProperties DEF new
<1>5. stream' = stream /\ At' = At
  BY <1>1, <1>2, <1>4 DEF Recv, At
<1>6. ASSUME NEW i \in 1 .. Len(readBuffer') PROVE readBuffer'[i] = stream'[At' + i]
  <2>1. CASE i <= Len(readBuffer)
    BY <1>1, <1>4, <1>5, <2>1
  <2>2. CASE i > Len(readBuffer)
    <3>1. i - Len(readBuffer) \in 1 .. n /\ received + (i - Len(readBuffer)) = At + i
      BY <1>1, <1>4, <2>2
    <3>2. readBuffer'[i] = new[i - Len(readBuffer)]
      BY <1>1, <1>4, <2>2
    <3>. QED
      BY <1>3, <1>5, <3>1, <3>2
  <2>. QED
    BY <1>1, <1>4, <2>1, <2>2
<1>. QED
  BY <1>1, <1>2, <1>4, <1>5, <1>6 DEF BufferInv

\* The first n octets of the buffer are the next n of the stream.
LEMMA FirstIsNext ==
    ASSUME ReadInv, NEW n \in 0 .. Len(readBuffer)
    PROVE  First(n) = SubSeq(stream, At + 1, At + n)
<1>1. /\ readBuffer \in Seq(Octets) /\ Len(readBuffer) \in Nat /\ received \in 0 .. Len(stream)
      /\ stream \in Seq(Octets) /\ Len(stream) \in Nat
      /\ received = At + Len(readBuffer) /\ At \in Nat
      /\ \A i \in 1 .. Len(readBuffer) : readBuffer[i] = stream[At + i]
  BY BufferFacts
<1>2. \A i \in 1 .. n : readBuffer[i] \in Octets
  BY <1>1, ElementOfSeq
<1>3. \A i \in At + 1 .. At + n : stream[i] \in Octets
  BY <1>1, ElementOfSeq
<1>. DEFINE a == SubSeq(readBuffer, 1, n)
            b == SubSeq(stream, At + 1, At + n)
<1>4. a \in Seq(Octets) /\ Len(a) = n /\ \A i \in 1 .. n : a[i] = readBuffer[i]
  <2>1. /\ a \in Seq(Octets) /\ Len(a) = IF 1 <= n THEN n - 1 + 1 ELSE 0
        /\ \A i \in 1 .. n - 1 + 1 : a[i] = readBuffer[1 + i - 1]
    BY <1>1, <1>2, SubSeqProperties
  <2>2. n - 1 + 1 = n /\ \A i \in 1 .. n : 1 + i - 1 = i
    BY <1>1
  <2>. QED
    BY <1>1, <2>1, <2>2
<1>5. b \in Seq(Octets) /\ Len(b) = n /\ \A i \in 1 .. n : b[i] = stream[At + i]
  <2>1. /\ b \in Seq(Octets)
        /\ Len(b) = IF At + 1 <= At + n THEN (At + n) - (At + 1) + 1 ELSE 0
        /\ \A i \in 1 .. (At + n) - (At + 1) + 1 : b[i] = stream[(At + 1) + i - 1]
    BY <1>1, <1>3, SubSeqProperties
  <2>2. (At + n) - (At + 1) + 1 = n /\ \A i \in 1 .. n : (At + 1) + i - 1 = At + i
    BY <1>1
  <2>3. (IF At + 1 <= At + n THEN n ELSE 0) = n
    BY <1>1
  <2>. QED
    BY <2>1, <2>2, <2>3
<1>. HIDE DEF a, b
<1>6. ASSUME NEW i \in 1 .. n PROVE a[i] = b[i]
  <2>1. i \in 1 .. Len(readBuffer)
    BY <1>1
  <2>2. readBuffer[i] = stream[At + i]
    BY <1>1, <2>1
  <2>. QED
    BY <1>4, <1>5, <2>2
<1>. QED
  BY <1>4, <1>5, <1>6, SeqEqual DEF First, a, b

\* A CRLF in the buffer is one of the stream, and one of the stream is in the buffer
\* if it was received.
LEMMA CrlfInStream ==
    ASSUME ReadInv, NEW i \in Nat
    PROVE  /\ CrlfAt(i) <=> i + 2 <= Len(readBuffer) /\ Reading!CrlfAt(stream, At, i)
           /\ CrlfAt(i) => Reading!CrlfAt(stream, At, i)
<1>1. /\ Len(readBuffer) \in Nat /\ received \in 0 .. Len(stream) /\ Len(stream) \in Nat
      /\ received = At + Len(readBuffer) /\ At \in Nat
      /\ \A j \in 1 .. Len(readBuffer) : readBuffer[j] = stream[At + j]
  BY BufferFacts
<1>2. CASE i + 2 <= Len(readBuffer)
  <2>1. /\ readBuffer[i + 1] = stream[At + (i + 1)] /\ readBuffer[i + 2] = stream[At + (i + 2)]
        /\ At + (i + 1) = At + i + 1 /\ At + (i + 2) = At + i + 2 /\ At + i + 2 <= Len(stream)
    BY <1>1, <1>2
  <2>. QED
    BY <1>2, <2>1 DEF CrlfAt, Reading!CrlfAt
<1>3. CASE ~(i + 2 <= Len(readBuffer))
  BY <1>3 DEF CrlfAt
<1>. QED
  BY <1>2, <1>3

\* A line found in the buffer is the one that comes next in the stream.
LEMMA LineInStream ==
    ASSUME ReadInv, NEW i \in 0 .. MAX_CHUNK_BODY_SIZE, LineOf(i)
    PROVE  Reading!Lines(stream, At) = {i} /\ i + 2 \in 0 .. Len(readBuffer)
<1>1. MAX_CHUNK_BODY_SIZE \in Nat
  BY HttpParserAssumption
<1>2. CrlfAt(i) /\ i + 2 <= Len(readBuffer) /\ Len(readBuffer) \in Nat
  BY BufferFacts DEF LineOf, CrlfAt
<1>3. Reading!CrlfAt(stream, At, i)
  BY <1>1, <1>2, CrlfInStream
<1>4. ASSUME NEW j \in 0 .. i - 1 PROVE ~Reading!CrlfAt(stream, At, j)
  <2>1. ~CrlfAt(j) /\ j \in Nat /\ j + 2 <= Len(readBuffer)
    BY <1>1, <1>2 DEF LineOf
  <2>. QED
    BY <2>1, CrlfInStream
<1>5. Reading!IsLine(stream, At, i)
  BY <1>3, <1>4 DEF Reading!IsLine
<1>6. ASSUME NEW k \in 0 .. MAX_CHUNK_BODY_SIZE, Reading!IsLine(stream, At, k) PROVE k = i
  <2>1. CASE k < i
    BY <1>1, <1>4, <1>6, <2>1 DEF Reading!IsLine
  <2>2. CASE i < k
    BY <1>1, <1>3, <1>6, <2>2 DEF Reading!IsLine
  <2>. QED
    BY <1>1, <2>1, <2>2
<1>7. i + 2 \in 0 .. Len(readBuffer)
  BY <1>1, <1>2
<1>. QED
  BY <1>5, <1>6, <1>7 DEF Reading!Lines

-----------------------------------------------------------------------------
(* Readings *)

\* A reading, field by field.
ReadingOf(a, i, q, c, f, s) ==
    [at |-> a, item |-> i, request |-> q, chunk |-> c, fate |-> f, served |-> s]

\* The cursor of an open and of an ended connection.
LEMMA CursorIs ==
    /\ pc \in {"recv", "parse"} =>
          Cursor = ReadingOf(At, m_state, request, m_chunk_remaining, "open", served)
    /\ pc \notin {"recv", "parse"} =>
          Cursor = ReadingOf(At, m_state, request, m_chunk_remaining, pc, served)
BY DEF Cursor, ReadingOf, At

\* The reading moves on by n octets.
LEMMA PastIs ==
    ASSUME NEW a, NEW i, NEW q, NEW c, NEW f, NEW s, NEW n
    PROVE  Reading!Past(ReadingOf(a, i, q, c, f, s), n) = ReadingOf(a + n, i, q, c, f, s)
BY DEF ReadingOf, Reading!Past

\* Another item is expected.
LEMMA ExpectIs ==
    ASSUME NEW a, NEW i, NEW q, NEW c, NEW f, NEW s, NEW j
    PROVE  Reading!Expect(ReadingOf(a, i, q, c, f, s), j) = ReadingOf(a, j, q, c, f, s)
BY DEF ReadingOf, Reading!Expect

\* The request found so far is replaced.
LEMMA FoundIs ==
    ASSUME NEW a, NEW i, NEW q, NEW c, NEW f, NEW s, NEW p
    PROVE  Reading!Found(ReadingOf(a, i, q, c, f, s), p) = ReadingOf(a, i, p, c, f, s)
BY DEF ReadingOf, Reading!Found

\* The reading ends in an error.
LEMMA RefusedIs ==
    ASSUME NEW a, NEW i, NEW q, NEW c, NEW f, NEW s
    PROVE  Reading!Refused(ReadingOf(a, i, q, c, f, s)) = ReadingOf(a, "Error", q, c, "refused", s)
<1>1. Reading!Expect(ReadingOf(a, i, q, c, f, s), "Error") = ReadingOf(a, "Error", q, c, f, s)
  BY ExpectIs
<1>2. [ReadingOf(a, "Error", q, c, f, s) EXCEPT !.fate = "refused"]
         = ReadingOf(a, "Error", q, c, "refused", s)
  BY DEF ReadingOf
<1>. QED
  BY <1>1, <1>2 DEF Reading!Refused

\* recv() alone reads nothing, nor does a pass that asks for more.
LEMMA WaitingReadsNothing ==
    ASSUME ReadInv, Recv \/ (pc = "parse" /\ Incomplete)
    PROVE  BufferInv' /\ UNCHANGED <<stream, Cursor>>
<1>1. CASE Recv
  <2>1. BufferInv' /\ At' = At /\ UNCHANGED stream
    BY <1>1, RecvKeepsBuffer
  <2>. QED
    BY <1>1, <2>1 DEF Recv, Cursor, At, parserVars
<1>2. CASE pc = "parse" /\ Incomplete
  BY <1>2 DEF ReadInv, BufferInv, At, Incomplete, Cursor, parserVars
<1>. QED
  BY <1>1, <1>2

\* A refusal leaves the reading where it is.
LEMMA MalformedIs ==
    ASSUME pc = "parse", Malformed, NEW n, At' = n
    PROVE  Cursor' = ReadingOf(n, "Error", request, m_chunk_remaining, "refused", served)
BY DEF Malformed, Error, Cursor, At, ReadingOf

\* A pass that goes on.
LEMMA GoToIs ==
    ASSUME pc = "parse", NEW item, GoTo(item), NEW n, At' = n
    PROVE  Cursor' = ReadingOf(n, item, request', m_chunk_remaining, "open", served)
BY DEF GoTo, Cursor, At, ReadingOf

\* What the next reading is, by what is expected.
LEMMA AfterIs ==
    ASSUME pc \in {"recv", "parse"}, NEW t
    PROVE  /\ m_state = "Body" =>
                 Reading!After(t, Cursor) =
                    Reading!AfterOctets(t, Cursor, Stoull[request.headers["content-length"]], "Complete")
           /\ m_state = "ChunkData" =>
                 Reading!After(t, Cursor) =
                    Reading!AfterOctets(t, Cursor, m_chunk_remaining, "ChunkCRLF")
           /\ m_state \in LineStates /\ Reading!Lines(t, At) = {} =>
                 Reading!After(t, Cursor) =
                    IF Len(t) - At > MAX_CHUNK_BODY_SIZE + 1 THEN Reading!Refused(Cursor) ELSE Cursor
<1>1. /\ Cursor.fate = "open" /\ Cursor.item = m_state /\ Cursor.request = request
      /\ Cursor.chunk = m_chunk_remaining /\ Cursor.at = At
  BY DEF Cursor, At
<1>. HIDE DEF Cursor
<1>2. CASE m_state = "Body"
  BY <1>1, <1>2 DEF Reading!After, LineStates
<1>3. CASE m_state = "ChunkData"
  BY <1>1, <1>3 DEF Reading!After, LineStates
<1>4. CASE m_state \in LineStates
  BY <1>1, <1>4 DEF Reading!After, LineStates
<1>. QED
  BY <1>2, <1>3, <1>4

\* The line of i octets is read, and says w.
LEMMA AfterIsAfterLine ==
    ASSUME pc \in {"recv", "parse"}, m_state \in LineStates, NEW t, NEW i,
           Reading!Lines(t, At) = {i}
    PROVE  Reading!After(t, Cursor) =
               Reading!AfterLine(Reading!Past(Cursor, i + 2), IF i = 0 THEN NoWord ELSE t[At + 1])
<1>1. Cursor.fate = "open" /\ Cursor.item = m_state /\ Cursor.at = At
  BY DEF Cursor, At
<1>2. (CHOOSE k \in {i} : TRUE) = i /\ {i} # {}
  OBVIOUS
<1>3. m_state \notin {"Body", "ChunkData", "Complete"}
  BY DEF LineStates
<1>. HIDE DEF Cursor
<1>4. Reading!After(t, Cursor) =
         IF Reading!Lines(t, At) # {}
         THEN LET k == CHOOSE k \in Reading!Lines(t, At) : TRUE
              IN  Reading!AfterLine(Reading!Past(Cursor, k + 2), IF k = 0 THEN NoWord ELSE t[At + 1])
         ELSE IF Len(t) - At > MAX_CHUNK_BODY_SIZE + 1 THEN Reading!Refused(Cursor) ELSE Cursor
  BY <1>1, <1>3 DEF Reading!After
<1>. QED
  BY <1>2, <1>4

\* parse() makes of a line what the reading makes of it.
LEMMA LineReadsNext ==
    ASSUME ReadInv, pc = "parse", Line
    PROVE  BufferInv' /\ stream' = stream /\ Cursor' = Reading!After(stream, Cursor)
<1>1. PICK i \in 0 .. MAX_CHUNK_BODY_SIZE :
          /\ LineOf(i) /\ Erase(i + 2)
          /\ LET w == IF i = 0 THEN NoWord ELSE readBuffer[1]
             IN  \/ RequestLine(w) \/ HeaderLine(w) \/ HeadersEnd(w)
                 \/ ChunkSize(w) \/ ChunkCRLF(w) \/ Trailers(w)
  BY DEF Line
<1>. DEFINE w == IF i = 0 THEN NoWord ELSE readBuffer[1]
            at == At + (i + 2)
            past == ReadingOf(at, m_state, request, m_chunk_remaining, "open", served)
<1>2. Reading!Lines(stream, At) = {i} /\ i + 2 \in 0 .. Len(readBuffer)
  BY <1>1, LineInStream
<1>3. RequestLine(w) \/ HeaderLine(w) \/ HeadersEnd(w) \/ ChunkSize(w) \/ ChunkCRLF(w) \/ Trailers(w)
  BY <1>1
<1>4. stream' = stream /\ received' = received
  BY <1>3 DEF RequestLine, HeaderLine, HeadersEnd, ChunkSize, ChunkCRLF, Trailers, GoTo,
              Malformed, Error
<1>5. BufferInv' /\ At' = at
  BY <1>1, <1>2, <1>4, EraseKeepsBuffer
<1>6. w = IF i = 0 THEN NoWord ELSE stream[At + 1]
  BY <1>2, BufferFacts
<1>7. Reading!After(stream, Cursor) = Reading!AfterLine(past, w)
  <2>1. Reading!Past(Cursor, i + 2) = past
    BY CursorIs, PastIs
  <2>. QED
    BY <1>2, <1>6, <2>1, AfterIsAfterLine DEF Line
<1>8. past.item = m_state /\ past.request = request
  BY DEF ReadingOf
<1>9. Reading!Refused(past) =
         ReadingOf(at, "Error", request, m_chunk_remaining, "refused", served)
  BY RefusedIs
<1>10. ASSUME NEW j PROVE Reading!Expect(past, j) =
          ReadingOf(at, j, request, m_chunk_remaining, "open", served)
  BY ExpectIs
<1>11. ASSUME NEW j, NEW q PROVE Reading!Found(Reading!Expect(past, j), q) =
          ReadingOf(at, j, q, m_chunk_remaining, "open", served)
  <2>1. Reading!Expect(past, j) = ReadingOf(at, j, request, m_chunk_remaining, "open", served)
    BY <1>10
  <2>. QED
    BY <2>1, FoundIs
<1>12. ASSUME NEW q PROVE Reading!Found(past, q) =
          ReadingOf(at, m_state, q, m_chunk_remaining, "open", served)
  BY FoundIs
<1>13. ASSUME NEW n PROVE [Reading!Expect(past, "ChunkData") EXCEPT !.chunk = n] =
          ReadingOf(at, "ChunkData", request, n, "open", served)
  <2>1. [ReadingOf(at, "ChunkData", request, m_chunk_remaining, "open", served) EXCEPT !.chunk = n] =
          ReadingOf(at, "ChunkData", request, n, "open", served)
    BY DEF ReadingOf
  <2>. QED
    BY <1>10, <2>1
<1>. HIDE DEF w, at, past
<1>14. Malformed => Cursor' = Reading!Refused(past)
  BY <1>5, <1>9, MalformedIs
<1>15. CASE m_state = "RequestLine"
  <2>1. CASE w \in RequestLines
    <3>1. Cursor' = ReadingOf(at, "Headers", [request EXCEPT !.line = w], m_chunk_remaining,
                              "open", served)
      BY <1>3, <1>5, <1>15, <2>1, GoToIs DEF RequestLine, HeaderLine, HeadersEnd, ChunkSize,
         ChunkCRLF, Trailers
    <3>2. Reading!AfterLine(past, w) =
             Reading!Found(Reading!Expect(past, "Headers"), [request EXCEPT !.line = w])
      BY <1>8, <1>15, <2>1 DEF Reading!AfterLine
    <3>. QED
      BY <1>4, <1>5, <1>7, <1>11, <3>1, <3>2
  <2>2. CASE w \notin RequestLines
    <3>1. Malformed
      BY <1>3, <1>15, <2>2 DEF RequestLine, HeaderLine, HeadersEnd, ChunkSize, ChunkCRLF, Trailers
    <3>2. Reading!AfterLine(past, w) = Reading!Refused(past)
      BY <1>8, <1>15, <2>2 DEF Reading!AfterLine
    <3>. QED
      BY <1>4, <1>5, <1>7, <1>14, <3>1, <3>2
  <2>. QED
    BY <2>1, <2>2
<1>16. CASE m_state = "Headers"
  <2>1. CASE w \in DOMAIN NameOf
    <3>. DEFINE q == [request EXCEPT !.headers[NameOf[w]] = w]
    <3>1. w # NoWord
      BY <2>1, HttpParserAssumption
    <3>2. request' = q /\ GoTo("Headers")
      BY <1>3, <1>16, <2>1, <3>1
         DEF RequestLine, HeaderLine, HeadersEnd, ChunkSize, ChunkCRLF, Trailers
    <3>3. Reading!AfterLine(past, w) = Reading!Found(past, q)
      BY <1>8, <1>16, <2>1, <3>1 DEF Reading!AfterLine
    <3>. HIDE DEF q
    <3>4. Cursor' = ReadingOf(at, "Headers", q, m_chunk_remaining, "open", served)
      BY <1>5, <3>2, GoToIs
    <3>. QED
      BY <1>4, <1>5, <1>7, <1>12, <1>16, <3>3, <3>4
  <2>2. CASE w = NoWord
    <3>1. HeadersEnd(w)
      BY <1>3, <1>16, <2>2 DEF RequestLine, HeaderLine, ChunkSize, ChunkCRLF, Trailers
    <3>2. Reading!AfterLine(past, w) = Reading!Expect(past, BodyFollows)
      <4>1. w \notin DOMAIN NameOf
        BY <2>2, HttpParserAssumption
      <4>2. Reading!AfterLine(past, w) = Reading!Expect(past,
              IF request.headers["transfer-encoding"] \in Chunked THEN "ChunkSize"
              ELSE IF /\ request.headers["content-length"] # NoWord
                      /\ Stoull[request.headers["content-length"]] > 0 THEN "Body"
              ELSE "Complete")
        BY <1>8, <1>16, <2>2, <4>1 DEF Reading!AfterLine
      <4>3. BodyFollows = IF request.headers["transfer-encoding"] \in Chunked THEN "ChunkSize"
              ELSE IF /\ request.headers["content-length"] # NoWord
                      /\ Stoull[request.headers["content-length"]] > 0 THEN "Body"
              ELSE "Complete"
        BY DEF BodyFollows, getContentLength
      <4>. QED
        BY <4>2, <4>3
    <3>3. Cursor' = ReadingOf(at, BodyFollows, request, m_chunk_remaining, "open", served)
      BY <1>5, <3>1, GoToIs DEF HeadersEnd
    <3>. QED
      BY <1>4, <1>5, <1>7, <1>10, <3>2, <3>3
  <2>3. CASE w \notin DOMAIN NameOf /\ w # NoWord
    <3>1. Malformed
      BY <1>3, <1>16, <2>3, HttpParserAssumption
         DEF RequestLine, HeaderLine, HeadersEnd, ChunkSize, ChunkCRLF, Trailers, Malformed
    <3>2. Reading!AfterLine(past, w) = Reading!Refused(past)
      BY <1>8, <1>16, <2>3 DEF Reading!AfterLine
    <3>. QED
      BY <1>4, <1>5, <1>7, <1>14, <3>1, <3>2
  <2>. QED
    BY <2>1, <2>2, <2>3
<1>17. CASE m_state = "ChunkSize"
  <2>1. ASSUME w \in DOMAIN SizeOf
        PROVE  /\ SizeOf[w] \in Nat
               /\ ChunkFits(SizeOf[w]) <=> Len(request.body) + SizeOf[w] <= MAX_HTTP_BODY_SIZE
    <3>1. Len(request.body) \in Nat
      BY LenProperties DEF ReadInv, IndInv, TypeOK, Requests
    <3>2. SizeOf[w] \in Nat
      BY <2>1, HttpParserAssumption
    <3>. QED
      BY <3>1, <3>2, HttpParserAssumption DEF ChunkFits
  <2>2. CASE w \in DOMAIN SizeOf /\ ChunkFits(SizeOf[w]) /\ SizeOf[w] = 0
    <3>1. GoTo("Trailers") /\ request' = request
      BY <1>3, <1>17, <2>2
         DEF RequestLine, HeaderLine, HeadersEnd, ChunkSize, ChunkCRLF, Trailers
    <3>2. Reading!AfterLine(past, w) = Reading!Expect(past, "Trailers")
      BY <1>8, <1>17, <2>1, <2>2 DEF Reading!AfterLine
    <3>. QED
      BY <1>4, <1>5, <1>7, <1>10, <3>1, <3>2, GoToIs
  <2>3. CASE w \in DOMAIN SizeOf /\ ChunkFits(SizeOf[w]) /\ SizeOf[w] > 0
    <3>1. /\ request' = request /\ m_chunk_remaining' = SizeOf[w] /\ m_state' = "ChunkData"
          /\ pc' = pc /\ served' = served
      BY <1>3, <1>17, <2>1, <2>3
         DEF RequestLine, HeaderLine, HeadersEnd, ChunkSize, ChunkCRLF, Trailers
    <3>2. Reading!AfterLine(past, w) = [Reading!Expect(past, "ChunkData") EXCEPT !.chunk = SizeOf[w]]
      BY <1>8, <1>17, <2>1, <2>3 DEF Reading!AfterLine
    <3>3. Cursor' = ReadingOf(at, "ChunkData", request, SizeOf[w], "open", served)
      BY <1>5, <3>1 DEF Cursor, At, ReadingOf
    <3>. QED
      BY <1>4, <1>5, <1>7, <1>13, <3>2, <3>3
  <2>4. CASE w \in DOMAIN SizeOf => ~ChunkFits(SizeOf[w])
    <3>1. Malformed
      BY <1>3, <1>17, <2>4
         DEF RequestLine, HeaderLine, HeadersEnd, ChunkSize, ChunkCRLF, Trailers, Malformed
    <3>2. Reading!AfterLine(past, w) = Reading!Refused(past)
      BY <1>8, <1>17, <2>1, <2>4 DEF Reading!AfterLine
    <3>. QED
      BY <1>4, <1>5, <1>7, <1>14, <3>1, <3>2
  <2>. QED
    BY <2>1, <2>2, <2>3, <2>4
<1>18. CASE m_state = "ChunkCRLF"
  <2>1. CASE w = NoWord
    <3>1. GoTo("ChunkSize") /\ request' = request
      BY <1>3, <1>18, <2>1
         DEF RequestLine, HeaderLine, HeadersEnd, ChunkSize, ChunkCRLF, Trailers
    <3>2. Reading!AfterLine(past, w) = Reading!Expect(past, "ChunkSize")
      BY <1>8, <1>18, <2>1 DEF Reading!AfterLine
    <3>. QED
      BY <1>4, <1>5, <1>7, <1>10, <3>1, <3>2, GoToIs
  <2>2. CASE w # NoWord
    <3>1. Malformed
      BY <1>3, <1>18, <2>2, HttpParserAssumption
         DEF RequestLine, HeaderLine, HeadersEnd, ChunkSize, ChunkCRLF, Trailers, Malformed
    <3>2. Reading!AfterLine(past, w) = Reading!Refused(past)
      BY <1>8, <1>18, <2>2 DEF Reading!AfterLine
    <3>. QED
      BY <1>4, <1>5, <1>7, <1>14, <3>1, <3>2
  <2>. QED
    BY <2>1, <2>2
<1>19. CASE m_state = "Trailers"
  <2>. DEFINE item == IF w = NoWord THEN "Complete" ELSE "Trailers"
  <2>1. GoTo(item) /\ request' = request
    BY <1>3, <1>19 DEF RequestLine, HeaderLine, HeadersEnd, ChunkSize, ChunkCRLF, Trailers
  <2>2. Reading!AfterLine(past, w) = Reading!Expect(past, item)
    BY <1>8, <1>19 DEF Reading!AfterLine
  <2>. HIDE DEF item
  <2>. QED
    BY <1>4, <1>5, <1>7, <1>10, <2>1, <2>2, GoToIs
<1>. QED
  BY <1>15, <1>16, <1>17, <1>18, <1>19 DEF Line, LineStates

\* A set of numbers has a least one.
LEMMA LeastNumber ==
    ASSUME NEW S \in SUBSET Nat, S # {}
    PROVE  \E m \in S : \A k \in S : m <= k
<1>. DEFINE R == OpToRel(<, Nat)
<1>1. IsWellFoundedOn(R, Nat)
  BY NatLessThanWellFounded
<1>2. \A x, y \in Nat : <<x, y>> \in R <=> x < y
  BY DEF OpToRel
<1>. HIDE DEF R
<1>3. PICK m \in S : \A k \in S : ~(<<k, m>> \in R)
  BY <1>1, WFMin
<1>4. \A k \in S : ~(k < m)
  BY <1>2, <1>3, Zenon
<1>5. \A k \in S : m <= k
  BY <1>4
<1>. QED
  BY <1>5

\* Where no line ends there is no CRLF.
LEMMA NoCrlfWithoutLine ==
    ASSUME ReadInv, ~HasLine, NEW i \in 0 .. MAX_CHUNK_BODY_SIZE
    PROVE  ~CrlfAt(i)
<1>. SUFFICES ASSUME CrlfAt(i) PROVE FALSE
  OBVIOUS
<1>. DEFINE S == {j \in Nat : CrlfAt(j)}
<1>1. MAX_CHUNK_BODY_SIZE \in Nat /\ i \in S
  BY HttpParserAssumption
<1>2. PICK m \in S : \A k \in S : m <= k
  BY <1>1, LeastNumber
<1>3. m \in 0 .. MAX_CHUNK_BODY_SIZE /\ CrlfAt(m) /\ m \in Nat
  BY <1>1, <1>2
<1>4. ASSUME NEW j \in 0 .. m - 1 PROVE ~CrlfAt(j)
  BY <1>2, <1>3
<1>. QED
  BY <1>3, <1>4 DEF HasLine, LineOf

\* Whether a line ends in the buffer does not depend on what is not received yet.
LEMMA LineIsInBoth ==
    ASSUME ReadInv, NEW i \in Nat, i + 2 <= Len(readBuffer)
    PROVE  LineOf(i) <=> Reading!IsLine(stream, At, i)
<1>1. Len(readBuffer) \in Nat
  BY BufferFacts
<1>2. CrlfAt(i) <=> Reading!CrlfAt(stream, At, i)
  BY CrlfInStream
<1>3. ASSUME NEW j \in 0 .. i - 1 PROVE CrlfAt(j) <=> Reading!CrlfAt(stream, At, j)
  <2>1. j \in Nat /\ j + 2 <= Len(readBuffer)
    BY <1>1
  <2>. QED
    BY <2>1, CrlfInStream
<1>. QED
  BY <1>2, <1>3 DEF LineOf, Reading!IsLine

\* A line that is not in the buffer is not in the stream if the buffer is longer than
\* any line may be.
LEMMA NoLineInStream ==
    ASSUME ReadInv, ~HasLine
    PROVE  /\ Len(readBuffer) > MAX_CHUNK_BODY_SIZE + 1 => Reading!Lines(stream, At) = {}
           /\ Len(readBuffer) > MAX_CHUNK_BODY_SIZE + 1 => Len(stream) - At > MAX_CHUNK_BODY_SIZE + 1
           /\ /\ Len(readBuffer) > MAX_HTTP_HEADER_SIZE
              /\ Len(readBuffer) <= MAX_CHUNK_BODY_SIZE + 1
              => Reading!Overlong(stream, At)
<1>1. /\ Len(readBuffer) \in Nat /\ received \in 0 .. Len(stream) /\ Len(stream) \in Nat
      /\ received = At + Len(readBuffer) /\ At \in Nat
      /\ MAX_CHUNK_BODY_SIZE \in Nat /\ MAX_HTTP_HEADER_SIZE \in Nat
  BY BufferFacts, HttpParserAssumption
<1>2. ASSUME Len(readBuffer) > MAX_CHUNK_BODY_SIZE + 1 PROVE Reading!Lines(stream, At) = {}
  <2>1. ASSUME NEW i \in 0 .. MAX_CHUNK_BODY_SIZE PROVE ~Reading!IsLine(stream, At, i)
    <3>1. i \in Nat /\ i + 2 <= Len(readBuffer)
      BY <1>1, <1>2
    <3>. QED
      BY <3>1, LineIsInBoth DEF HasLine
  <2>. QED
    BY <2>1 DEF Reading!Lines
<1>3. Len(readBuffer) > MAX_CHUNK_BODY_SIZE + 1 => Len(stream) - At > MAX_CHUNK_BODY_SIZE + 1
  BY <1>1
<1>4. ASSUME Len(readBuffer) > MAX_HTTP_HEADER_SIZE, Len(readBuffer) <= MAX_CHUNK_BODY_SIZE + 1
      PROVE  Reading!Overlong(stream, At)
  <2>1. ASSUME NEW i \in 0 .. MAX_HTTP_HEADER_SIZE - 1 PROVE ~Reading!CrlfAt(stream, At, i)
    <3>1. i \in Nat /\ i + 2 <= Len(readBuffer) /\ i \in 0 .. MAX_CHUNK_BODY_SIZE
      BY <1>1, <1>4
    <3>2. ~CrlfAt(i)
      BY <3>1, NoCrlfWithoutLine
    <3>. QED
      BY <3>1, <3>2, CrlfInStream
  <2>2. Len(stream) - At > MAX_HTTP_HEADER_SIZE
    BY <1>1, <1>4
  <2>. QED
    BY <2>1, <2>2 DEF Reading!Overlong
<1>. QED
  BY <1>2, <1>3, <1>4

\* A line is refused unread because none can come, or because none has come in
\* MAX_HTTP_HEADER_SIZE octets.
LEMMA NoLineReadsNext ==
    ASSUME ReadInv, pc = "parse", NoLine
    PROVE  /\ BufferInv' /\ stream' = stream
           /\ \/ Cursor' = Cursor
              \/ /\ Len(readBuffer) > MAX_CHUNK_BODY_SIZE + 1
                 /\ Cursor' = Reading!After(stream, Cursor)
              \/ /\ Len(readBuffer) > MAX_HTTP_HEADER_SIZE
                 /\ Len(readBuffer) <= MAX_CHUNK_BODY_SIZE + 1
                 /\ Reading!Overlong(stream, At)
                 /\ Cursor' = Reading!Refused(Cursor)
<1>1. CASE Incomplete
  BY <1>1, WaitingReadsNothing
<1>2. CASE HeaderTooLarge /\ Malformed /\ UNCHANGED readBuffer
  <2>1. BufferInv' /\ stream' = stream /\ At' = At
    BY <1>2 DEF ReadInv, BufferInv, At, Malformed, Error
  <2>2. Cursor' = Reading!Refused(Cursor)
    <3>1. Cursor' = ReadingOf(At, "Error", request, m_chunk_remaining, "refused", served)
      BY <1>2, <2>1, MalformedIs
    <3>2. Cursor = ReadingOf(At, m_state, request, m_chunk_remaining, "open", served)
      BY CursorIs
    <3>. QED
      BY <3>1, <3>2, RefusedIs
  <2>3. m_state \in LineStates /\ ~HasLine
    BY DEF NoLine
  <2>4. Len(readBuffer) \in Nat /\ MAX_CHUNK_BODY_SIZE \in Nat /\ MAX_HTTP_HEADER_SIZE \in Nat
    BY BufferFacts, HttpParserAssumption
  <2>5. CASE Len(readBuffer) > MAX_CHUNK_BODY_SIZE + 1
    <3>1. Reading!Lines(stream, At) = {} /\ Len(stream) - At > MAX_CHUNK_BODY_SIZE + 1
      BY <2>3, <2>5, NoLineInStream
    <3>2. Reading!After(stream, Cursor) = Reading!Refused(Cursor)
      BY <2>3, <3>1, AfterIs
    <3>. QED
      BY <2>1, <2>2, <2>5, <3>2
  <2>6. CASE Len(readBuffer) <= MAX_CHUNK_BODY_SIZE + 1
    <3>1. Len(readBuffer) > MAX_HTTP_HEADER_SIZE
      BY <1>2, <2>4, <2>6 DEF HeaderTooLarge
    <3>. QED
      BY <2>1, <2>2, <2>3, <2>6, <3>1, NoLineInStream
  <2>. QED
    BY <2>4, <2>5, <2>6
<1>. QED
  BY <1>1, <1>2 DEF NoLine

\* parse() takes, of a body, the octets that the reading takes.
LEMMA ExtractReadsNext ==
    ASSUME ReadInv, pc = "parse", NEW n \in Nat, NEW item, NEW q,
           n <= Len(readBuffer) => q = [request EXCEPT !.body = @ \o First(n)],
           Extract(n, request' = q /\ GoTo(item))
    PROVE  /\ BufferInv' /\ stream' = stream
           /\ \/ Cursor' = Cursor
              \/ Cursor' = Reading!AfterOctets(stream, Cursor, n, item)
<1>1. CASE Incomplete
  BY <1>1, WaitingReadsNothing
<1>2. CASE n > MAX_HTTP_BODY_SIZE /\ Malformed /\ UNCHANGED readBuffer
  <2>1. BufferInv' /\ stream' = stream /\ At' = At
    BY <1>2 DEF ReadInv, BufferInv, At, Malformed, Error
  <2>2. Cursor' = ReadingOf(At, "Error", request, m_chunk_remaining, "refused", served)
    BY <1>2, <2>1, MalformedIs
  <2>3. Cursor = ReadingOf(At, m_state, request, m_chunk_remaining, "open", served)
    BY CursorIs
  <2>4. Cursor' = Reading!Refused(Cursor)
    BY <2>2, <2>3, RefusedIs
  <2>. QED
    BY <1>2, <2>1, <2>4 DEF Reading!AfterOctets
<1>3. CASE /\ n <= MAX_HTTP_BODY_SIZE /\ Len(readBuffer) >= n /\ Erase(n)
           /\ request' = q /\ GoTo(item)
  <2>1. /\ Len(readBuffer) \in Nat /\ At \in Nat /\ Len(stream) \in Nat
        /\ At + Len(readBuffer) <= Len(stream) /\ n \in 0 .. Len(readBuffer)
    BY <1>3, BufferFacts
  <2>2. BufferInv' /\ stream' = stream /\ At' = At + n
    BY <1>3, <2>1, EraseKeepsBuffer DEF GoTo
  <2>3. Cursor' = ReadingOf(At + n, item, q, m_chunk_remaining, "open", served)
    BY <1>3, <2>2, GoToIs
  <2>4. Cursor = ReadingOf(At, m_state, request, m_chunk_remaining, "open", served)
    BY CursorIs
  <2>5. Cursor.at = At /\ Cursor.request = request
    BY DEF Cursor, At
  <2>6. Reading!Found(Reading!Expect(Reading!Past(Cursor, n), item), q) =
           ReadingOf(At + n, item, q, m_chunk_remaining, "open", served)
    <3>1. Reading!Past(Cursor, n) = ReadingOf(At + n, m_state, request, m_chunk_remaining, "open", served)
      BY <2>4, PastIs
    <3>2. Reading!Expect(Reading!Past(Cursor, n), item) =
             ReadingOf(At + n, item, request, m_chunk_remaining, "open", served)
      BY <3>1, ExpectIs
    <3>. QED
      BY <3>2, FoundIs
  <2>7. q = [Cursor.request EXCEPT !.body = @ \o SubSeq(stream, Cursor.at + 1, Cursor.at + n)]
    <3>1. First(n) = SubSeq(stream, At + 1, At + n)
      BY <2>1, FirstIsNext
    <3>2. n <= Len(readBuffer)
      BY <2>1
    <3>3. q = [request EXCEPT !.body = @ \o First(n)]
      BY <3>2
    <3>. QED
      BY <2>5, <3>1, <3>3
  <2>8. ~(n > MAX_HTTP_BODY_SIZE) /\ ~(Cursor.at + n > Len(stream))
    BY <1>3, <2>1, <2>5, HttpParserAssumption
  <2>. HIDE DEF Cursor
  <2>9. Reading!AfterOctets(stream, Cursor, n, item) =
           Reading!Found(Reading!Expect(Reading!Past(Cursor, n), item), q)
    BY <2>7, <2>8 DEF Reading!AfterOctets
  <2>. QED
    BY <2>2, <2>3, <2>6, <2>9
<1>. QED
  BY <1>1, <1>2, <1>3 DEF Extract

\* The body of Content-Length octets is the next item.
LEMMA BodyReadsNext ==
    ASSUME ReadInv, pc = "parse", Body
    PROVE  /\ BufferInv' /\ stream' = stream
           /\ Cursor' \in {Cursor, Reading!After(stream, Cursor)}
<1>. DEFINE n == getContentLength(request.headers) - Len(request.body)
            q == [request EXCEPT !.body = First(n)]
<1>1. m_state = "Body" /\ Extract(n, request' = q /\ GoTo("Complete"))
  BY DEF Body
<1>2. /\ request.body = <<>> /\ Len(request.body) = 0
      /\ request.headers \in Headers /\ getContentLength(request.headers) > 0
  BY <1>1 DEF ReadInv, IndInv, TypeOK, Requests, BodyInv
<1>3. n \in Nat /\ n = Stoull[request.headers["content-length"]]
  BY <1>2, ContentLengthType DEF getContentLength
<1>. HIDE DEF n
<1>4. ASSUME n <= Len(readBuffer) PROVE q = [request EXCEPT !.body = @ \o First(n)]
  <2>1. First(n) \in Seq(Octets)
    BY <1>3, <1>4, BufferFacts, FirstHasLength DEF First
  <2>2. <<>> \o First(n) = First(n)
    BY <2>1, ConcatEmptySeq
  <2>. QED
    BY <1>2, <2>2
<1>. HIDE DEF q
<1>5. /\ BufferInv' /\ stream' = stream
      /\ \/ Cursor' = Cursor
         \/ Cursor' = Reading!AfterOctets(stream, Cursor, n, "Complete")
  BY <1>1, <1>3, <1>4, ExtractReadsNext
<1>. QED
  BY <1>1, <1>3, <1>5, AfterIs

\* The octets of a chunk are the next item.
LEMMA ChunkDataReadsNext ==
    ASSUME ReadInv, pc = "parse", ChunkData
    PROVE  /\ BufferInv' /\ stream' = stream
           /\ Cursor' \in {Cursor, Reading!After(stream, Cursor)}
<1>. DEFINE q == [request EXCEPT !.body = @ \o First(m_chunk_remaining)]
<1>1. m_state = "ChunkData" /\ Extract(m_chunk_remaining, request' = q /\ GoTo("ChunkCRLF"))
  BY DEF ChunkData
<1>2. m_chunk_remaining \in Nat
  BY HttpParserAssumption DEF ReadInv, IndInv, TypeOK
<1>3. /\ BufferInv' /\ stream' = stream
      /\ \/ Cursor' = Cursor
         \/ Cursor' = Reading!AfterOctets(stream, Cursor, m_chunk_remaining, "ChunkCRLF")
  BY <1>1, <1>2, ExtractReadsNext
<1>. QED
  BY <1>1, <1>3, AfterIs

\* The end of a request is the next item.
LEMMA SuccessReadsNext ==
    ASSUME ReadInv, pc = "parse", Success
    PROVE  /\ BufferInv' /\ stream' = stream
           /\ Cursor' = Reading!After(stream, Cursor)
<1>1. /\ stream' = stream /\ received' = received /\ readBuffer' = readBuffer
      /\ m_state' = "RequestLine" /\ m_chunk_remaining' = 0 /\ request' = EmptyRequest
      /\ served' = Append(served, request)
  BY DEF Success, ResetRequest
<1>2. BufferInv' /\ At' = At
  BY <1>1 DEF ReadInv, BufferInv, At
<1>3. /\ pc' = "closed" <=> ClosesAfterSend(request)
      /\ pc' \in {"recv", "parse", "closed"}
  BY DEF Success, GoesOn
<1>4. EmptyRequest = Reading!NoRequest
  BY DEF EmptyRequest, Names, Reading!NoRequest
<1>. DEFINE fate == IF ClosesAfterSend(request) THEN "closed" ELSE "open"
<1>5. Cursor' = ReadingOf(At, "RequestLine", EmptyRequest, 0, fate, Append(served, request))
  <2>1. CASE ClosesAfterSend(request)
    <3>1. pc' = "closed" /\ fate = "closed"
      BY <1>3, <2>1
    <3>. QED
      BY <1>1, <1>2, <3>1 DEF Cursor, At, ReadingOf
  <2>2. CASE ~ClosesAfterSend(request)
    <3>1. pc' \in {"recv", "parse"} /\ fate = "open"
      BY <1>3, <2>2
    <3>. QED
      BY <1>1, <1>2, <3>1 DEF Cursor, At, ReadingOf
  <2>. QED
    BY <2>1, <2>2
<1>6. /\ Cursor.fate = "open" /\ Cursor.item = "Complete" /\ Cursor.at = At
      /\ Cursor.request = request /\ Cursor.served = served
  BY DEF Cursor, At, Success
<1>. HIDE DEF Cursor
<1>7. Reading!After(stream, Cursor) =
         [at |-> At, item |-> "RequestLine", request |-> Reading!NoRequest, chunk |-> 0,
          fate |-> fate, served |-> Append(served, request)]
  BY <1>6 DEF Reading!After
<1>. QED
  BY <1>1, <1>2, <1>4, <1>5, <1>7 DEF ReadingOf

\* Each step reads nothing, reads what comes next, or refuses an overlong line.
LEMMA StepReadsNext ==
    ASSUME ReadInv, [Next]_vars
    PROVE  /\ BufferInv' /\ stream' = stream
           /\ \/ Cursor' \in {Cursor, Reading!After(stream, Cursor)}
              \/ /\ pc = "parse" /\ m_state \in LineStates
                 /\ Reading!Overlong(stream, At)
                 /\ Cursor' = Reading!Refused(Cursor)
<1>1. CASE Recv
  BY <1>1, WaitingReadsNothing
<1>2. CASE pc = "parse" /\ NoLine
  BY <1>2, NoLineReadsNext DEF NoLine
<1>3. CASE pc = "parse" /\ Line
  BY <1>3, LineReadsNext
<1>4. CASE pc = "parse" /\ Body
  BY <1>4, BodyReadsNext
<1>5. CASE pc = "parse" /\ ChunkData
  BY <1>5, ChunkDataReadsNext
<1>6. CASE pc = "parse" /\ Success
  BY <1>6, SuccessReadsNext
<1>7. CASE UNCHANGED vars
  BY <1>7 DEF vars, parserVars, ReadInv, BufferInv, At, Cursor
<1>. QED
  BY <1>1, <1>2, <1>3, <1>4, <1>5, <1>6, <1>7 DEF Next, ParseStep

\* The buffer always holds what was received and not read.
LEMMA ReadInvariance == Spec => []ReadInv
<1>1. Init => ReadInv
  <2>. SUFFICES ASSUME Init PROVE ReadInv
    OBVIOUS
  <2>1. IndInv
    BY InitIndInv
  <2>2. BufferInv
    BY DEF Init, BufferInv
  <2>. QED
    BY <2>1, <2>2 DEF ReadInv
<1>2. ReadInv /\ [Next]_vars => ReadInv'
  BY NextIndInv, StepReadsNext DEF ReadInv
<1>. QED
  BY <1>1, <1>2, PTL DEF Spec

\* The parser implements HttpReading: for every stream, however recv() cuts it, for every
\* limit and every meaning of the lines, each pass of parse() is the step which the stream
\* and what was read before determine.
THEOREM ReadsAsWhole == Spec => ReadsInOnePiece
<1>1. Init => Reading!Init
  <2>. SUFFICES ASSUME Init PROVE Reading!Init
    OBVIOUS
  <2>1. EmptyRequest = Reading!NoRequest
    BY DEF EmptyRequest, Names, Reading!NoRequest
  <2>2. /\ stream \in Streams /\ request = EmptyRequest
        /\ m_state = "RequestLine" /\ m_chunk_remaining = 0 /\ pc = "recv" /\ served = <<>>
    BY DEF Init
  <2>3. received = 0 /\ Len(readBuffer) = 0
    BY DEF Init
  <2>4. received - Len(readBuffer) = 0
    BY <2>3
  <2>. QED
    BY <2>1, <2>2, <2>4 DEF Reading!Init, Cursor
<1>2. ReadInv /\ [Next]_vars => [Reading!Next]_(Reading!vars)
  <2>. SUFFICES ASSUME ReadInv, [Next]_vars PROVE [Reading!Next]_(Reading!vars)
    OBVIOUS
  <2>1. /\ stream' = stream
        /\ \/ Cursor' \in {Cursor, Reading!After(stream, Cursor)}
           \/ /\ pc = "parse" /\ m_state \in LineStates
              /\ Reading!Overlong(stream, At)
              /\ Cursor' = Reading!Refused(Cursor)
    BY StepReadsNext
  <2>2. /\ Cursor.at = At /\ Cursor.item = m_state
        /\ pc = "parse" => Cursor.fate = "open"
    BY DEF Cursor, At
  <2>. HIDE DEF Cursor
  <2>. QED
    BY <2>1, <2>2 DEF Reading!Next, Reading!vars, Reading!LineItems, LineStates
<1>. QED
  BY <1>1, <1>2, ReadInvariance, PTL DEF Spec, ReadsInOnePiece, Reading!Spec

\* A stream without long lines has no overlong line anywhere.
LEMMA FitsHasNoOverlong == ASSUME ReadInv, Fits PROVE ~Reading!Overlong(stream, At)
<1>. SUFFICES ASSUME Reading!Overlong(stream, At) PROVE FALSE
  OBVIOUS
<1>1. At \in Nat /\ Len(stream) \in Nat /\ MAX_HTTP_HEADER_SIZE \in Nat
  BY BufferFacts, HttpParserAssumption
<1>2. Len(stream) - At > MAX_HTTP_HEADER_SIZE
  BY DEF Reading!Overlong
<1>3. At + 1 \in 1 .. Len(stream) - MAX_HTTP_HEADER_SIZE
  BY <1>1, <1>2
<1>4. PICK j \in At + 1 .. At + 1 + MAX_HTTP_HEADER_SIZE - 1 : stream[j] = CR /\ stream[j + 1] = LF
  BY <1>3 DEF Fits
<1>. DEFINE i == j - At - 1
<1>5. /\ i \in 0 .. MAX_HTTP_HEADER_SIZE - 1 /\ At + i + 1 = j /\ At + i + 2 = j + 1
      /\ At + i + 2 <= Len(stream)
  BY <1>1, <1>2, <1>4
<1>. HIDE DEF i
<1>6. Reading!CrlfAt(stream, At, i)
  BY <1>4, <1>5 DEF Reading!CrlfAt
<1>. QED
  BY <1>5, <1>6 DEF Reading!Overlong

\* Then what was read determines what is read next.
CutsDoNotMatter ==
    [][Fits => Cursor' \in {Cursor, Reading!After(stream, Cursor)}]_<<stream, Cursor>>

\* A stream whose lines stay below the header limit is read the same way however it is
\* cut into recv() calls.
THEOREM CutsNeverMatter == Spec => CutsDoNotMatter
<1>1. ReadInv /\ [Next]_vars =>
         [Fits => Cursor' \in {Cursor, Reading!After(stream, Cursor)}]_<<stream, Cursor>>
  BY StepReadsNext, FitsHasNoOverlong
<1>. QED
  BY <1>1, ReadInvariance, PTL DEF Spec, CutsDoNotMatter

-----------------------------------------------------------------------------
(* A connection waits only when there is nothing to read *)

\* What parse() has found when it asks for more.
Starved ==
    pc = "recv" =>
        \/ m_state \in LineStates /\ ~HasLine /\ ~HeaderTooLarge
        \/ /\ m_state = "Body"
           /\ Len(readBuffer) < Stoull[request.headers["content-length"]]
           /\ Stoull[request.headers["content-length"]] <= MAX_HTTP_BODY_SIZE
        \/ m_state = "ChunkData" /\ Len(readBuffer) < m_chunk_remaining

\* There is nothing to read in an empty buffer.
LEMMA EmptyBufferStarves == readBuffer = <<>> => ~HasLine /\ ~HeaderTooLarge
<1>. SUFFICES ASSUME readBuffer = <<>> PROVE ~HasLine /\ ~HeaderTooLarge
  OBVIOUS
<1>1. Len(readBuffer) = 0 /\ MAX_CHUNK_BODY_SIZE \in Nat /\ MAX_HTTP_HEADER_SIZE \in Nat
  BY HttpParserAssumption
<1>. QED
  BY <1>1 DEF HasLine, LineOf, CrlfAt, HeaderTooLarge

\* parse() that asks for more has nothing to read.
LEMMA IncompleteStarves ==
    ASSUME IndInv, pc = "parse", ParseStep, pc' = "recv"
    PROVE  Starved'
<1>1. CASE NoLine
  <2>1. m_state \in LineStates /\ ~HasLine /\ ~HeaderTooLarge /\ Incomplete
    BY <1>1 DEF NoLine, Malformed, Error
  <2>2. ~HasLine' /\ ~HeaderTooLarge' /\ m_state' = m_state
    BY <2>1 DEF Incomplete, HasLine, LineOf, CrlfAt, HeaderTooLarge, parserVars
  <2>. QED
    BY <2>1, <2>2 DEF Starved
<1>2. CASE Line
  BY <1>2 DEF Line, RequestLine, HeaderLine, HeadersEnd, ChunkSize, ChunkCRLF, Trailers, GoTo,
              Malformed, Error
<1>3. CASE Body
  <2>. DEFINE n == getContentLength(request.headers) - Len(request.body)
  <2>1. /\ m_state = "Body" /\ n <= MAX_HTTP_BODY_SIZE /\ Len(readBuffer) < n /\ Incomplete
    BY <1>3 DEF Body, Extract, Malformed, Error, GoTo
  <2>2. /\ Len(request.body) = 0 /\ request.headers \in Headers
        /\ getContentLength(request.headers) > 0
    BY <2>1 DEF IndInv, TypeOK, Requests, BodyInv
  <2>3. n = Stoull[request.headers["content-length"]]
    BY <2>2, ContentLengthType DEF getContentLength
  <2>. HIDE DEF n
  <2>. QED
    BY <2>1, <2>3 DEF Incomplete, parserVars, Starved
<1>4. CASE ChunkData
  BY <1>4 DEF ChunkData, Extract, Malformed, Error, GoTo, Incomplete, parserVars, Starved
<1>5. CASE Success
  <2>1. readBuffer' = <<>> /\ m_state' = "RequestLine"
    BY <1>5 DEF Success, GoesOn
  <2>2. ~HasLine' /\ ~HeaderTooLarge'
    <3>1. (readBuffer = <<>> => ~HasLine /\ ~HeaderTooLarge)'
      BY EmptyBufferStarves, PTL
    <3>. QED
      BY <2>1, <3>1
  <2>. QED
    BY <2>1, <2>2 DEF Starved, LineStates
<1>. QED
  BY <1>1, <1>2, <1>3, <1>4, <1>5 DEF ParseStep

\* Starved holds in every reachable state.
LEMMA StarvedInvariance == Spec => []Starved
<1>1. Init => Starved
  BY EmptyBufferStarves DEF Init, Starved, LineStates
<1>2. IndInv /\ Starved /\ [Next]_vars => Starved'
  <2>. SUFFICES ASSUME IndInv, Starved, [Next]_vars PROVE Starved'
    OBVIOUS
  <2>1. CASE Recv
    BY <2>1 DEF Recv, Starved
  <2>2. CASE ParseStep
    <3>1. pc = "parse"
      BY <2>2 DEF ParseStep
    <3>2. CASE pc' = "recv"
      BY <2>2, <3>1, <3>2, IncompleteStarves
    <3>3. CASE pc' # "recv"
      BY <3>3 DEF Starved
    <3>. QED
      BY <3>2, <3>3
  <2>3. CASE UNCHANGED vars
    BY <2>3 DEF vars, parserVars, Starved, HasLine, LineOf, CrlfAt, HeaderTooLarge
  <2>. QED
    BY <2>1, <2>2, <2>3 DEF Next
<1>. QED
  BY <1>1, <1>2, Invariance, PTL DEF Spec

\* A connection that waits has read everything that the octets received so far decide: a
\* complete request is never left in the buffer, and a refusal is never put off.
THEOREM NothingLeftUnread == Spec => []WaitsForMore
<1>1. ReadInv /\ Starved => WaitsForMore
  <2>. SUFFICES ASSUME ReadInv, Starved, pc = "recv"
                PROVE  Reading!After(SubSeq(stream, 1, received), Cursor) = Cursor
    BY DEF WaitsForMore
  <2>. DEFINE t == SubSeq(stream, 1, received)
  <2>1. /\ Len(readBuffer) \in Nat /\ Len(stream) \in Nat /\ stream \in Seq(Octets)
        /\ received \in 0 .. Len(stream) /\ At \in Nat /\ received = At + Len(readBuffer)
        /\ \A i \in 1 .. Len(readBuffer) : readBuffer[i] = stream[At + i]
    BY BufferFacts
  <2>2. Len(t) = received /\ \A i \in 1 .. received : t[i] = stream[i]
    <3>1. \A i \in 1 .. received : stream[i] \in Octets
      BY <2>1, ElementOfSeq
    <3>2. /\ Len(t) = IF 1 <= received THEN received - 1 + 1 ELSE 0
          /\ \A i \in 1 .. received - 1 + 1 : t[i] = stream[1 + i - 1]
      BY <2>1, <3>1, SubSeqProperties
    <3>3. received - 1 + 1 = received /\ \A i \in 1 .. received : 1 + i - 1 = i
      BY <2>1
    <3>. QED
      BY <2>1, <3>2, <3>3
  <2>. HIDE DEF t
  <2>3. /\ MAX_CHUNK_BODY_SIZE \in Nat /\ MAX_HTTP_BODY_SIZE \in Nat
        /\ Cursor.at = At
    BY HttpParserAssumption DEF Cursor, At
  <2>. HIDE DEF Cursor
  <2>4. CASE m_state \in LineStates /\ ~HasLine /\ ~HeaderTooLarge
    <3>1. ASSUME NEW i \in Nat PROVE Reading!CrlfAt(t, At, i) <=> CrlfAt(i)
      <4>1. CASE i + 2 <= Len(readBuffer)
        <5>1. /\ At + i + 1 \in 1 .. received /\ At + i + 2 \in 1 .. received
              /\ i + 1 \in 1 .. Len(readBuffer) /\ i + 2 \in 1 .. Len(readBuffer)
              /\ At + (i + 1) = At + i + 1 /\ At + (i + 2) = At + i + 2
          BY <2>1, <4>1
        <5>2. t[At + i + 1] = readBuffer[i + 1] /\ t[At + i + 2] = readBuffer[i + 2]
          BY <2>1, <2>2, <5>1
        <5>3. At + i + 2 <= Len(t)
          BY <2>1, <2>2, <4>1
        <5>. QED
          BY <4>1, <5>2, <5>3 DEF Reading!CrlfAt, CrlfAt
      <4>2. CASE ~(i + 2 <= Len(readBuffer))
        <5>1. ~(At + i + 2 <= Len(t))
          BY <2>1, <2>2, <4>2
        <5>. QED
          BY <4>2, <5>1 DEF Reading!CrlfAt, CrlfAt
      <4>. QED
        BY <4>1, <4>2
    <3>2. ASSUME NEW i \in 0 .. MAX_CHUNK_BODY_SIZE PROVE ~Reading!IsLine(t, At, i)
      <4>1. i \in Nat /\ \A j \in 0 .. i - 1 : j \in Nat
        BY <2>3
      <4>2. Reading!IsLine(t, At, i) => LineOf(i)
        BY <3>1, <4>1 DEF Reading!IsLine, LineOf
      <4>. QED
        BY <2>4, <4>2 DEF HasLine
    <3>3. Reading!Lines(t, At) = {}
      BY <3>2 DEF Reading!Lines
    <3>4. ~(Len(t) - At > MAX_CHUNK_BODY_SIZE + 1)
      BY <2>1, <2>2, <2>3, <2>4 DEF HeaderTooLarge
    <3>. QED
      BY <2>4, <3>3, <3>4, AfterIs DEF t
  <2>5. ASSUME NEW n, NEW item, n \in Nat, n <= MAX_HTTP_BODY_SIZE, Len(readBuffer) < n
        PROVE  Reading!AfterOctets(t, Cursor, n, item) = Cursor
    BY <2>1, <2>2, <2>3, <2>5 DEF Reading!AfterOctets
  <2>6. CASE /\ m_state = "Body"
             /\ Len(readBuffer) < Stoull[request.headers["content-length"]]
             /\ Stoull[request.headers["content-length"]] <= MAX_HTTP_BODY_SIZE
    <3>1. Stoull[request.headers["content-length"]] \in Nat
      <4>1. request.headers \in Headers /\ getContentLength(request.headers) > 0
        BY <2>6 DEF ReadInv, IndInv, TypeOK, Requests, BodyInv
      <4>. QED
        BY <4>1, ContentLengthType DEF getContentLength
    <3>. QED
      BY <2>5, <2>6, <3>1, AfterIs DEF t
  <2>7. CASE m_state = "ChunkData" /\ Len(readBuffer) < m_chunk_remaining
    <3>1. m_chunk_remaining \in Nat /\ m_chunk_remaining <= MAX_HTTP_BODY_SIZE
      BY <2>3 DEF ReadInv, IndInv, TypeOK
    <3>. QED
      BY <2>5, <2>7, <3>1, AfterIs DEF t
  <2>. QED
    BY <2>4, <2>6, <2>7 DEF Starved
<1>. QED
  BY <1>1, ReadInvariance, StarvedInvariance, PTL

-----------------------------------------------------------------------------
(* The answers *)

CONSTANTS Http11, MethodOf, PathOf, SaysClose, SaysKeepAlive, LargeText, AppRoutes,
          MAX_CHUCK_SIZE

Messages == INSTANCE HttpMessages

\* An answer as the encoder formats it.
Answer(r) == Messages!SetResponseHeader(Messages!Respond(r))
Refusal == Messages!SetResponseHeader(Messages!BadRequest)

IsResponse(res) ==
    res = [status |-> res.status, headers |-> res.headers, body |-> res.body,
           body_type |-> res.body_type, close_after_send |-> res.close_after_send]

\* What a handler leaves to the encoder: the framing of the body.
Unframed(res) ==
    /\ IsResponse(res)
    /\ res.body_type = "CONTENT_LENGTH"
    /\ {"content-length", "transfer-encoding"} \cap DOMAIN res.headers = {}

\* Exactly one of the two framing headers, the one the body is written with.
Framed(res) ==
    \/ /\ res.body_type = "CONTENT_LENGTH"
       /\ "content-length" \in DOMAIN res.headers
       /\ "transfer-encoding" \notin DOMAIN res.headers
       /\ res.headers["content-length"] = Len(res.body)
    \/ /\ res.body_type = "CHUNKED"
       /\ "transfer-encoding" \in DOMAIN res.headers
       /\ "content-length" \notin DOMAIN res.headers
       /\ Len(res.body) > MAX_CHUCK_SIZE

SaysItCloses(res) == "connection" \in DOMAIN res.headers /\ res.headers["connection"] = "close"

\* The operations on a response, field by field.
LEMMA ResponseOps ==
  ASSUME NEW res, IsResponse(res), NEW key, NEW value
  PROVE  /\ LET r == Messages!set_header(res, key, value) IN
            /\ IsResponse(r) /\ r.body = res.body /\ r.body_type = res.body_type
            /\ r.close_after_send = res.close_after_send
            /\ r.headers = Messages!set(res.headers, key, value)
         /\ LET r == Messages!set_status(res, value) IN
            /\ IsResponse(r) /\ r.body = res.body /\ r.body_type = res.body_type
            /\ r.headers = res.headers
         /\ LET r == Messages!set_body(res, value) IN
            /\ IsResponse(r) /\ r.body_type = res.body_type /\ r.headers = res.headers
         /\ LET r == Messages!del_header(res, key) IN
            /\ IsResponse(r) /\ r.body = res.body /\ r.body_type = res.body_type
            /\ r.close_after_send = res.close_after_send
            /\ r.headers = Messages!del(res.headers, key)
         /\ LET r == Messages!WithBodyType(res, value) IN
            /\ IsResponse(r) /\ r.body = res.body /\ r.body_type = value
            /\ r.close_after_send = res.close_after_send
            /\ r.headers = res.headers
<1>1. LET r == Messages!set_header(res, key, value) IN
            /\ IsResponse(r) /\ r.body = res.body /\ r.body_type = res.body_type
            /\ r.close_after_send = res.close_after_send
            /\ r.headers = Messages!set(res.headers, key, value)
  BY DEF IsResponse, Messages!set_header
<1>2. LET r == Messages!set_status(res, value) IN
            /\ IsResponse(r) /\ r.body = res.body /\ r.body_type = res.body_type
            /\ r.headers = res.headers
  BY DEF IsResponse, Messages!set_status
<1>3. LET r == Messages!set_body(res, value) IN
            /\ IsResponse(r) /\ r.body_type = res.body_type /\ r.headers = res.headers
  BY DEF IsResponse, Messages!set_body
<1>4. LET r == Messages!del_header(res, key) IN
            /\ IsResponse(r) /\ r.body = res.body /\ r.body_type = res.body_type
            /\ r.close_after_send = res.close_after_send
            /\ r.headers = Messages!del(res.headers, key)
  BY DEF IsResponse, Messages!del_header
<1>5. LET r == Messages!WithBodyType(res, value) IN
            /\ IsResponse(r) /\ r.body = res.body /\ r.body_type = value
            /\ r.close_after_send = res.close_after_send
            /\ r.headers = res.headers
  BY DEF IsResponse, Messages!WithBodyType
<1>. QED
  BY <1>1, <1>2, <1>3, <1>4, <1>5

\* The names the server uses, in lower case.
LEMMA LowerCase ==
  /\ Messages!toLower("Connection") = "connection"
  /\ Messages!toLower("Content-Length") = "content-length"
  /\ Messages!toLower("Content-Type") = "content-type"
  /\ Messages!toLower("Transfer-Encoding") = "transfer-encoding"
BY DEF Messages!toLower

\* Setting a status, a body or another header leaves the framing to the encoder.
LEMMA StaysUnframed ==
  ASSUME NEW res, Unframed(res), NEW value, NEW key,
         Messages!toLower(key) \notin {"content-length", "transfer-encoding"}
  PROVE  /\ Unframed(Messages!set_status(res, value))
         /\ Unframed(Messages!set_body(res, value))
         /\ Unframed(Messages!set_header(res, key, value))
<1>1. IsResponse(res)
  BY DEF Unframed
<1>2. DOMAIN Messages!set(res.headers, key, value) = DOMAIN res.headers \cup {Messages!toLower(key)}
  BY DEF Messages!set
<1>. QED
  BY <1>1, <1>2, ResponseOps DEF Unframed

\* A page or a JSON document leaves the framing to the encoder.
LEMMA DocumentsAreUnframed ==
  ASSUME NEW res, Unframed(res), NEW body
  PROVE  Unframed(Messages!json(res, body)) /\ Unframed(Messages!html(res, body))
<1>1. Messages!toLower("Content-Type") \notin {"content-length", "transfer-encoding"}
  BY LowerCase
<1>2. /\ Unframed(Messages!set_header(res, "Content-Type", "json"))
      /\ Unframed(Messages!set_header(res, "Content-Type", "html"))
  BY <1>1, StaysUnframed
<1>. QED
  BY <1>1, <1>2, StaysUnframed DEF Messages!json, Messages!html

\* So does an HttpResponse as it is constructed.
LEMMA NewIsUnframed == Unframed(Messages!NewResponse)
<1>1. DOMAIN <<>> = {}
  OBVIOUS
<1>. QED
  BY <1>1 DEF Unframed, IsResponse, Messages!NewResponse

\* The encoder gives a response exactly one framing, and keeps what it says of the
\* connection.
LEMMA EncoderFrames ==
  ASSUME NEW res, Unframed(res)
  PROVE  /\ Framed(Messages!SetResponseHeader(res))
         /\ SaysItCloses(Messages!SetResponseHeader(res)) <=> SaysItCloses(res)
<1>. DEFINE out == Messages!SetResponseHeader(res)
<1>1. IsResponse(res)
  BY DEF Unframed
<1>2. CASE Len(res.body) > MAX_CHUCK_SIZE
  <2>. DEFINE a == Messages!WithBodyType(res, "CHUNKED")
              b == Messages!del_header(a, "Content-Length")
  <2>1. out = Messages!set_header(b, "Transfer-Encoding", "chunked")
    BY <1>2 DEF Messages!SetResponseHeader
  <2>2. IsResponse(a) /\ a.body = res.body /\ a.body_type = "CHUNKED" /\ a.headers = res.headers
    BY <1>1, ResponseOps
  <2>3. /\ IsResponse(b) /\ b.body = res.body /\ b.body_type = "CHUNKED"
        /\ b.headers = Messages!del(res.headers, "Content-Length")
    <3>. HIDE DEF a
    <3>. QED
      BY <2>2, ResponseOps
  <2>4. /\ out.body = res.body /\ out.body_type = "CHUNKED"
        /\ out.headers = Messages!set(b.headers, "Transfer-Encoding", "chunked")
    <3>. HIDE DEF b, out
    <3>. QED
      BY <2>1, <2>3, ResponseOps
  <2>. HIDE DEF a, b, out
  <2>5. /\ DOMAIN b.headers \subseteq DOMAIN res.headers
        /\ \A n \in DOMAIN res.headers \ {"Content-Length"} :
              n \in DOMAIN b.headers /\ b.headers[n] = res.headers[n]
    BY <2>3 DEF Messages!del
  <2>6. /\ DOMAIN out.headers = DOMAIN b.headers \cup {"transfer-encoding"}
        /\ \A n \in DOMAIN b.headers \ {"transfer-encoding"} : out.headers[n] = b.headers[n]
    BY <2>4, LowerCase DEF Messages!set
  <2>7. Framed(out)
    BY <1>2, <2>4, <2>5, <2>6 DEF Framed, Unframed
  <2>8. SaysItCloses(out) <=> SaysItCloses(res)
    BY <2>5, <2>6 DEF SaysItCloses
  <2>. QED
    BY <2>7, <2>8 DEF out
<1>3. CASE ~(Len(res.body) > MAX_CHUCK_SIZE) /\ res.body = <<>>
  <2>1. out = Messages!set_header(res, "Content-Length", 0)
    BY <1>3 DEF Messages!SetResponseHeader
  <2>. HIDE DEF out
  <2>2. /\ out.body = res.body /\ out.body_type = res.body_type
        /\ out.headers = Messages!set(res.headers, "Content-Length", 0)
    BY <1>1, <2>1, ResponseOps
  <2>3. /\ DOMAIN out.headers = DOMAIN res.headers \cup {"content-length"}
        /\ out.headers["content-length"] = 0
        /\ \A n \in DOMAIN res.headers \ {"content-length"} : out.headers[n] = res.headers[n]
    BY <2>2, LowerCase DEF Messages!set
  <2>4. Len(out.body) = 0
    BY <1>3, <2>2
  <2>5. Framed(out)
    BY <2>2, <2>3, <2>4 DEF Framed, Unframed
  <2>6. SaysItCloses(out) <=> SaysItCloses(res)
    BY <2>3 DEF SaysItCloses
  <2>. QED
    BY <2>5, <2>6 DEF out
<1>4. CASE ~(Len(res.body) > MAX_CHUCK_SIZE) /\ res.body # <<>>
  <2>. DEFINE a == Messages!WithBodyType(res, "CONTENT_LENGTH")
              b == Messages!del_header(a, "Transfer-Encoding")
  <2>1. out = Messages!set_header(b, "Content-Length", Len(res.body))
    BY <1>4 DEF Messages!SetResponseHeader
  <2>2. /\ IsResponse(a) /\ a.body = res.body /\ a.body_type = "CONTENT_LENGTH"
        /\ a.headers = res.headers
    BY <1>1, ResponseOps
  <2>3. /\ IsResponse(b) /\ b.body = res.body /\ b.body_type = "CONTENT_LENGTH"
        /\ b.headers = Messages!del(res.headers, "Transfer-Encoding")
    <3>. HIDE DEF a
    <3>. QED
      BY <2>2, ResponseOps
  <2>4. /\ out.body = res.body /\ out.body_type = "CONTENT_LENGTH"
        /\ out.headers = Messages!set(b.headers, "Content-Length", Len(res.body))
    <3>. HIDE DEF b, out
    <3>. QED
      BY <2>1, <2>3, ResponseOps
  <2>. HIDE DEF a, b, out
  <2>5. /\ DOMAIN b.headers \subseteq DOMAIN res.headers
        /\ \A n \in DOMAIN res.headers \ {"Transfer-Encoding"} :
              n \in DOMAIN b.headers /\ b.headers[n] = res.headers[n]
    BY <2>3 DEF Messages!del
  <2>6. /\ DOMAIN out.headers = DOMAIN b.headers \cup {"content-length"}
        /\ out.headers["content-length"] = Len(res.body)
        /\ \A n \in DOMAIN b.headers \ {"content-length"} : out.headers[n] = b.headers[n]
    BY <2>4, LowerCase DEF Messages!set
  <2>7. Framed(out)
    BY <2>4, <2>5, <2>6 DEF Framed, Unframed
  <2>8. SaysItCloses(out) <=> SaysItCloses(res)
    BY <2>5, <2>6 DEF SaysItCloses
  <2>. QED
    BY <2>7, <2>8 DEF out
<1>. QED
  BY <1>2, <1>3, <1>4

\* FinalizeForConnection says in the header what the server then does.
LEMMA FinalizeAnnounces ==
  ASSUME NEW res, Unframed(res), NEW keep_alive
  PROVE  LET out == Messages!FinalizeForConnection(res, keep_alive)
         IN  Unframed(out) /\ (SaysItCloses(out) <=> out.close_after_send)
<1>. DEFINE keep == Messages!KeepsAlive(res, keep_alive)
            a == Messages!set_header(res, "Connection", IF keep THEN "keep-alive" ELSE "close")
            out == Messages!FinalizeForConnection(res, keep_alive)
<1>1. out = [a EXCEPT !.close_after_send = ~keep]
  BY DEF Messages!FinalizeForConnection
<1>2. Messages!toLower("Connection") \notin {"content-length", "transfer-encoding"}
  BY LowerCase
<1>3. Unframed(a)
  BY <1>2, StaysUnframed
<1>4. a.headers = Messages!set(res.headers, "Connection", IF keep THEN "keep-alive" ELSE "close")
  BY ResponseOps DEF Unframed
<1>. HIDE DEF a, out, keep
<1>5. /\ "connection" \in DOMAIN a.headers
      /\ a.headers["connection"] = IF keep THEN "keep-alive" ELSE "close"
  BY <1>4, LowerCase DEF Messages!set
<1>6. /\ IsResponse(out) /\ out.headers = a.headers /\ out.body_type = a.body_type
      /\ out.close_after_send = ~keep
  BY <1>1, <1>3, Zenon DEF Unframed, IsResponse
<1>7. Unframed(out)
  BY <1>3, <1>6 DEF Unframed
<1>8. SaysItCloses(out) <=> out.close_after_send
  BY <1>5, <1>6 DEF SaysItCloses
<1>. QED
  BY <1>7, <1>8 DEF out

\* Every handler of main.cpp leaves the framing to the encoder.
LEMMA HandlersLeaveFraming ==
  ASSUME NEW r, NEW route,
         \/ route.handler \in {"home", "health", "echo", "put", "delete", "echoLarge", "large",
                               "testEcho"}
         \/ route.handler = "fixed" /\ Unframed(route.response)
  PROVE  Unframed(Messages!Handle(route, r))
<1>. DEFINE new == Messages!NewResponse
<1>1. Unframed(new) /\ \A code : Unframed(Messages!set_status(new, code))
  BY NewIsUnframed, LowerCase, StaysUnframed
<1>. HIDE DEF new
<1>2. CASE route.handler = "home"
  BY <1>1, <1>2, DocumentsAreUnframed DEF Messages!Handle, new
<1>3. CASE route.handler = "health"
  BY <1>1, <1>3, DocumentsAreUnframed DEF Messages!Handle, new
<1>4. CASE route.handler = "echo"
  BY <1>1, <1>4, LowerCase, StaysUnframed DEF Messages!Handle, new
<1>5. CASE route.handler = "put"
  BY <1>1, <1>5, DocumentsAreUnframed DEF Messages!Handle, new
<1>6. CASE route.handler = "delete"
  BY <1>1, <1>6 DEF Messages!Handle, new
<1>7. CASE route.handler = "echoLarge"
  BY <1>1, <1>7, LowerCase, StaysUnframed DEF Messages!Handle, new
<1>8. CASE route.handler = "large"
  BY <1>1, <1>8, DocumentsAreUnframed DEF Messages!Handle, new
<1>9. CASE route.handler = "testEcho"
  <2>. DEFINE a == Messages!set_header(Messages!set_status(new, 200), "Content-Type", "text")
  <2>1. Unframed(a)
    BY <1>1, LowerCase, StaysUnframed
  <2>. HIDE DEF a
  <2>2. Messages!Handle(route, r) = Messages!set_body(a, r.body)
    BY <1>9 DEF Messages!Handle, new, a
  <2>. QED
    BY <2>1, <2>2, LowerCase, StaysUnframed
<1>a. CASE route.handler = "fixed" /\ Unframed(route.response)
  BY <1>a DEF Messages!Handle
<1>. QED
  BY <1>2, <1>3, <1>4, <1>5, <1>6, <1>7, <1>8, <1>9, <1>a

\* A non-empty bounded set of numbers has a maximum.
LEMMA MaxIsInSet ==
  ASSUME NEW n \in Nat, NEW S \in SUBSET (1 .. n), S # {}
  PROVE  Messages!Max(S) \in S
<1>. DEFINE Bounds == {m \in Nat : \A i \in S : i <= m}
<1>1. n \in Bounds /\ Bounds \subseteq Nat
  OBVIOUS
<1>2. PICK m \in Bounds : \A k \in Bounds : m <= k
  BY <1>1, LeastNumber
<1>3. PICK i \in S : TRUE
  OBVIOUS
<1>4. m \in S
  <2>. SUFFICES ASSUME m \notin S PROVE FALSE
    OBVIOUS
  <2>1. m \in Nat /\ i \in Nat /\ 1 <= i /\ i <= m
    BY <1>2, <1>3
  <2>2. m - 1 \in Nat /\ m - 1 < m
    BY <2>1
  <2>3. ASSUME NEW j \in S PROVE j <= m - 1
    <3>1. j \in Nat /\ j <= m /\ j # m
      BY <1>2
    <3>. QED
      BY <2>1, <3>1
  <2>4. m - 1 \in Bounds
    BY <2>2, <2>3
  <2>5. m <= m - 1
    BY <1>2, <2>4
  <2>. QED
    BY <2>1, <2>2, <2>5
<1>5. \A j \in S : m >= j
  BY <1>2
<1>. QED
  BY <1>4, <1>5 DEF Messages!Max

\* The router finds one of the handlers of main.cpp, one of the application's, or none.
LEMMA RouteIsUnframed ==
  ASSUME NEW R, AppRoutes \in Seq(R), NEW r,
         \A route \in R : route.handler = "fixed" /\ Unframed(route.response)
  PROVE  Unframed(Messages!Route(r))
<1>. DEFINE M == Messages!Matches(r)
            Handlers == {"home", "health", "echo", "put", "delete", "echoLarge", "large",
                         "testEcho"}
            All == R \cup {Messages!MainRoutes[i] : i \in 1 .. 8}
<1>1. CASE M = {}
  <2>1. Unframed(Messages!set_status(Messages!NewResponse, 404))
    BY NewIsUnframed, LowerCase, StaysUnframed
  <2>. QED
    BY <1>1, <2>1, DocumentsAreUnframed DEF Messages!Route
<1>2. CASE M # {}
  <2>1. /\ Len(Messages!MainRoutes) = 8
        /\ \A i \in 1 .. 8 : Messages!MainRoutes[i].handler \in Handlers
    BY DEF Messages!MainRoutes
  <2>2. Messages!MainRoutes \in Seq(All)
    <3>1. Messages!MainRoutes = [i \in 1 .. 8 |-> Messages!MainRoutes[i]]
      BY DEF Messages!MainRoutes
    <3>. QED
      BY <3>1, <2>1, SeqDef
  <2>3. Messages!Routes \in Seq(All) /\ Len(Messages!Routes) \in Nat
    <3>1. AppRoutes \in Seq(All)
      BY SeqDef
    <3>. HIDE DEF All
    <3>. QED
      BY <2>2, <3>1, ConcatProperties, LenProperties DEF Messages!Routes
  <2>4. M \subseteq 1 .. Len(Messages!Routes)
    BY DEF Messages!Matches
  <2>5. Messages!Max(M) \in 1 .. Len(Messages!Routes)
    <3>. HIDE DEF M
    <3>. QED
      BY <1>2, <2>3, <2>4, MaxIsInSet
  <2>6. Messages!Routes[Messages!Max(M)] \in All
    <3>. HIDE DEF M, All
    <3>. QED
      BY <2>3, <2>5, ElementOfSeq
  <2>. DEFINE route == Messages!Routes[Messages!Max(M)]
  <2>7. \/ route.handler \in Handlers
        \/ route.handler = "fixed" /\ Unframed(route.response)
    <3>. HIDE DEF M
    <3>. QED
      BY <2>1, <2>6
  <2>8. Messages!Route(r) = Messages!Handle(route, r)
    BY <1>2 DEF Messages!Route
  <2>. HIDE DEF route
  <2>. QED
    BY <2>7, <2>8, HandlersLeaveFraming
<1>. QED
  BY <1>1, <1>2

\* Whatever the request and its handler, an answer carries exactly one of Content-Length
\* and Transfer-Encoding, the one its body is written with, and says "Connection: close"
\* if and only if the read task closes the connection behind it.  The application's own
\* handlers must leave the framing to the encoder: del() would not remove theirs.
THEOREM AnswersAreFramed ==
  ASSUME NEW R, AppRoutes \in Seq(R),
         \A route \in R : route.handler = "fixed" /\ Unframed(route.response),
         NEW r
  PROVE  /\ Framed(Answer(r))
         /\ SaysItCloses(Answer(r)) <=> Messages!Respond(r).close_after_send
         /\ Framed(Refusal) /\ SaysItCloses(Refusal)
<1>1. Unframed(Messages!Route(r))
  BY RouteIsUnframed
<1>2. /\ Unframed(Messages!Respond(r))
      /\ SaysItCloses(Messages!Respond(r)) <=> Messages!Respond(r).close_after_send
  BY <1>1, FinalizeAnnounces DEF Messages!Respond
<1>3. /\ Framed(Answer(r))
      /\ SaysItCloses(Answer(r)) <=> SaysItCloses(Messages!Respond(r))
  BY <1>2, EncoderFrames DEF Answer
<1>. DEFINE page == Messages!html(Messages!set_status(Messages!NewResponse, 400), <<"badRequest">>)
<1>4. Unframed(page)
  <2>1. Unframed(Messages!set_status(Messages!NewResponse, 400))
    BY NewIsUnframed, LowerCase, StaysUnframed
  <2>. QED
    BY <2>1, DocumentsAreUnframed
<1>. HIDE DEF page
<1>5. /\ Unframed(Messages!BadRequest)
      /\ SaysItCloses(Messages!BadRequest) <=> Messages!BadRequest.close_after_send
  <2>1. Messages!BadRequest = Messages!FinalizeForConnection(page, FALSE)
    BY DEF Messages!BadRequest, page
  <2>. QED
    BY <1>4, <2>1, FinalizeAnnounces
<1>6. Messages!BadRequest.close_after_send
  <2>. DEFINE a == Messages!set_header(page, "Connection", "close")
  <2>1. ~Messages!KeepsAlive(page, FALSE)
    BY DEF Messages!KeepsAlive
  <2>2. Messages!BadRequest = [a EXCEPT !.close_after_send = ~Messages!KeepsAlive(page, FALSE)]
    BY <2>1 DEF Messages!BadRequest, Messages!FinalizeForConnection, page
  <2>3. IsResponse(a)
    BY <1>4, ResponseOps DEF Unframed
  <2>. HIDE DEF a
  <2>4. Messages!BadRequest.close_after_send = ~Messages!KeepsAlive(page, FALSE)
    BY <2>2, <2>3, Zenon DEF IsResponse
  <2>. QED
    BY <2>1, <2>4
<1>7. Framed(Refusal) /\ SaysItCloses(Refusal)
  BY <1>5, <1>6, EncoderFrames DEF Refusal
<1>. QED
  BY <1>2, <1>3, <1>7

\* The answer that closes the connection is the last one.
LastCloses ==
    \A i \in 1 .. Len(served) : ClosesAfterSend(served[i]) <=> i = Len(served) /\ pc = "closed"

\* Only the last request that is served has an answer that closes the connection, and it
\* is closed then: nothing that was received behind it is served.
THEOREM OnlyTheLastCloses == Spec => []LastCloses
<1>1. Init => LastCloses
  <2>1. Init => Len(served) = 0
    BY DEF Init
  <2>. QED
    BY <2>1 DEF LastCloses
<1>2. IndInv /\ LastCloses /\ [Next]_vars => LastCloses'
  <2>. SUFFICES ASSUME IndInv, LastCloses, [Next]_vars PROVE LastCloses'
    OBVIOUS
  <2>1. ASSUME UNCHANGED served, pc # "closed", pc' # "closed" PROVE LastCloses'
    BY <2>1 DEF LastCloses
  <2>2. CASE Recv
    BY <2>1, <2>2 DEF Recv
  <2>3. CASE pc = "parse" /\ Success
    <3>1. /\ Len(served') = Len(served) + 1 /\ Len(served) \in Nat
          /\ \A i \in 1 .. Len(served) : served'[i] = served[i]
          /\ served'[Len(served) + 1] = request
      BY <2>3, AppendProperties, LenProperties DEF IndInv, TypeOK, Success
    <3>2. pc' = "closed" <=> ClosesAfterSend(request)
      BY <2>3 DEF Success, GoesOn
    <3>3. \A i \in 1 .. Len(served) : ~ClosesAfterSend(served[i])
      BY <2>3 DEF LastCloses
    <3>4. ASSUME NEW i \in 1 .. Len(served')
          PROVE  ClosesAfterSend(served'[i]) <=> i = Len(served') /\ pc' = "closed"
      <4>1. CASE i \in 1 .. Len(served)
        BY <3>1, <3>3, <4>1
      <4>2. CASE i = Len(served) + 1
        BY <3>1, <3>2, <4>2
      <4>. QED
        BY <3>1, <4>1, <4>2
    <3>. QED
      BY <3>4 DEF LastCloses
  <2>4. CASE pc = "parse" /\ (NoLine \/ Line \/ Body \/ ChunkData)
    <3>1. UNCHANGED served /\ pc' # "closed"
      BY <2>4 DEF NoLine, Line, Body, ChunkData, Extract, Incomplete, Malformed, Error, GoTo,
                  RequestLine, HeaderLine, HeadersEnd, ChunkSize, ChunkCRLF, Trailers
    <3>. QED
      BY <2>1, <2>4, <3>1
  <2>5. CASE UNCHANGED vars
    BY <2>5 DEF vars, LastCloses
  <2>. QED
    BY <2>2, <2>3, <2>4, <2>5 DEF Next, ParseStep
<1>. QED
  BY <1>1, <1>2, Invariance, PTL DEF Spec

\* What the read task does is what the client is told: of all answers exactly the one the
\* connection ends with says "Connection: close".
THEOREM ClosesAsAnnounced ==
  ASSUME NEW R, AppRoutes \in Seq(R),
         \A route \in R : route.handler = "fixed" /\ Unframed(route.response),
         \A r : ClosesAfterSend(r) <=> Messages!Respond(r).close_after_send
  PROVE  Spec => [](\A i \in 1 .. Len(served) :
                       SaysItCloses(Answer(served[i])) <=> i = Len(served) /\ pc = "closed")
<1>1. LastCloses => \A i \in 1 .. Len(served) :
                       SaysItCloses(Answer(served[i])) <=> i = Len(served) /\ pc = "closed"
  BY AnswersAreFramed DEF LastCloses
<1>. QED
  BY <1>1, OnlyTheLastCloses, PTL
=============================================================================
