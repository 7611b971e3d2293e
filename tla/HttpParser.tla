----------------------------- MODULE HttpParser ------------------------------
(***************************************************************************)
(* HttpRequestParser::parse() on top of Framer, and the part of the read   *)
(* task that feeds it: a stream arrives in pieces, each piece is appended  *)
(* to read_buffer and parse() is called until it asks for more, refuses or *)
(* has found a request, which is served and reset.  One pass of the loop   *)
(* in parse() is one action.                                               *)
(*                                                                         *)
(* A stream is a sequence of octets.  CR and LF are themselves; what a     *)
(* line says is abstracted to its first octet, its word, and tables give   *)
(* the meaning of a word: a well-formed request line, a header field, a    *)
(* chunk size.  Further octets only make the line longer.  A body may      *)
(* hold any octets.                                                        *)
(***************************************************************************)
EXTENDS Integers, Sequences

CONSTANTS
    CR, LF,
    Octets,                 \* everything a stream is made of
    NoWord,                 \* the word of an empty line, an absent header
    RequestLines,           \* words of well-formed request lines
    NameOf,                 \* word of a header line -> name of the field
    Chunked,                \* Transfer-Encoding words that contain "chunked"
    Stoull,                 \* Content-Length word -> what std::stoull yields, 0 if it throws
    SizeOf,                 \* word of a well-formed chunk-size line -> the size
    MAX_HTTP_HEADER_SIZE,   \* limits of Framer
    MAX_CHUNK_BODY_SIZE,
    MAX_HTTP_BODY_SIZE,
    Streams,                \* what clients may send
    ClosesAfterSend(_)      \* whether the response to a request closes the connection

Names == {"transfer-encoding", "content-length", "connection", "other"}

ASSUME HttpParserAssumption ==
    /\ CR \in Octets /\ LF \in Octets /\ NoWord \notin Octets
    /\ NameOf \in [DOMAIN NameOf -> Names]
    /\ NoWord \notin DOMAIN NameOf
    /\ Stoull \in [{w \in DOMAIN NameOf : NameOf[w] = "content-length"} -> Nat]
    /\ SizeOf \in [DOMAIN SizeOf -> Nat]
    /\ MAX_HTTP_HEADER_SIZE \in Nat /\ MAX_CHUNK_BODY_SIZE \in Nat
    /\ MAX_HTTP_BODY_SIZE \in Nat
    /\ Streams \subseteq Seq(Octets)

VARIABLES stream,              \* what the client sends
          received,            \* how much of it recv() has returned
          readBuffer,          \* read_buffer of the connection
          request,             \* the request being put together
          m_state,             \* state of the parser
          m_chunk_remaining,   \* size of the chunk being read
          pc,                  \* recv: wait for octets; parse; refused, closed: over
          served               \* history: the requests handed to the router

parserVars == <<m_state, m_chunk_remaining>>
vars == <<stream, received, readBuffer, request, parserVars, pc, served>>

\* A request after HttpRequest::reset(); headers maps a name to the word of the
\* line that set it last.
EmptyRequest == [line |-> NoWord, headers |-> [n \in Names |-> NoWord], body |-> <<>>]

Init ==
    /\ stream \in Streams
    /\ received = 0
    /\ readBuffer = <<>>
    /\ request = EmptyRequest
    /\ m_state = "RequestLine" /\ m_chunk_remaining = 0
    /\ pc = "recv"
    /\ served = <<>>

-----------------------------------------------------------------------------
(* HttpHeaders *)

getContentLength(headers) ==
    IF headers["content-length"] = NoWord THEN 0 ELSE Stoull[headers["content-length"]]

-----------------------------------------------------------------------------
(* Framer *)

\* A CRLF after the first i octets of the buffer.
CrlfAt(i) == i + 2 <= Len(readBuffer) /\ readBuffer[i + 1] = CR /\ readBuffer[i + 2] = LF

\* extractLine finds a line of i octets: the scan stops at the first CRLF and
\* gives up behind MAX_CHUNK_BODY_SIZE.
LineOf(i) == CrlfAt(i) /\ \A j \in 0 .. i - 1 : ~CrlfAt(j)
HasLine == \E i \in 0 .. MAX_CHUNK_BODY_SIZE : LineOf(i)

\* It gives up inside the scan or after it.
MutantHeaderTooLarge == Len(readBuffer) > MAX_CHUNK_BODY_SIZE + 1
HeaderTooLarge ==
    Len(readBuffer) > MAX_CHUNK_BODY_SIZE + 1 \/ Len(readBuffer) > MAX_HTTP_HEADER_SIZE

First(n) == SubSeq(readBuffer, 1, n)
Erase(n) == readBuffer' = SubSeq(readBuffer, n + 1, Len(readBuffer))

-----------------------------------------------------------------------------
(* HttpRequestParser::parse, by state *)

GoTo(s) ==
    /\ m_state' = s
    /\ UNCHANGED <<stream, received, m_chunk_remaining, pc, served>>

\* ParseResult::Incomplete: the read task re-arms and returns.
Incomplete ==
    /\ pc' = "recv"
    /\ UNCHANGED <<stream, received, readBuffer, request, parserVars, served>>

\* ParseResult::Error: the read task answers 400 and removes the connection.
Error ==
    /\ m_state' = "Error"
    /\ pc' = "refused"
    /\ UNCHANGED <<stream, received, m_chunk_remaining, served>>

Malformed == Error /\ UNCHANGED request

LineStates == {"RequestLine", "Headers", "ChunkSize", "ChunkCRLF", "Trailers"}

NoLine ==
    /\ m_state \in LineStates /\ ~HasLine
    /\ \/ ~HeaderTooLarge /\ Incomplete
       \/ HeaderTooLarge /\ Malformed /\ UNCHANGED readBuffer

RequestLine(w) ==
    /\ m_state = "RequestLine"
    /\ \/ w \in RequestLines /\ request' = [request EXCEPT !.line = w] /\ GoTo("Headers")
       \/ w \notin RequestLines /\ Malformed

HeaderLine(w) ==
    /\ m_state = "Headers" /\ w # NoWord
    /\ \/ /\ w \in DOMAIN NameOf
          /\ request' = [request EXCEPT !.headers[NameOf[w]] = w]
          /\ GoTo("Headers")
       \/ w \notin DOMAIN NameOf /\ Malformed

\* Which of the two ways of framing a body applies, if any.
MutantBodyFollows ==
    IF request.headers["transfer-encoding"] \in Chunked THEN "ChunkSize"
    ELSE IF request.headers["content-length"] # NoWord THEN "Body"
    ELSE "Complete"
BodyFollows ==
    IF request.headers["transfer-encoding"] \in Chunked THEN "ChunkSize"
    ELSE IF getContentLength(request.headers) > 0 THEN "Body"
    ELSE "Complete"

HeadersEnd(w) ==
    /\ m_state = "Headers" /\ w = NoWord
    /\ GoTo(BodyFollows) /\ UNCHANGED request

\* Whether a chunk of n octets fits with what the body already has.
MutantChunkFits(n) == n <= MAX_HTTP_BODY_SIZE
ChunkFits(n) == n <= MAX_HTTP_BODY_SIZE /\ Len(request.body) + n <= MAX_HTTP_BODY_SIZE

ChunkSize(w) ==
    /\ m_state = "ChunkSize"
    /\ UNCHANGED request
    /\ \/ /\ w \in DOMAIN SizeOf /\ ChunkFits(SizeOf[w]) /\ SizeOf[w] = 0
          /\ GoTo("Trailers")
       \/ /\ w \in DOMAIN SizeOf /\ ChunkFits(SizeOf[w]) /\ SizeOf[w] > 0
          /\ m_chunk_remaining' = SizeOf[w]
          /\ m_state' = "ChunkData"
          /\ UNCHANGED <<stream, received, pc, served>>
       \/ (w \in DOMAIN SizeOf => ~ChunkFits(SizeOf[w])) /\ Error

ChunkCRLF(w) ==
    /\ m_state = "ChunkCRLF"
    /\ \/ w = NoWord /\ GoTo("ChunkSize") /\ UNCHANGED request
       \/ w # NoWord /\ Malformed

\* Trailer fields are discarded.
Trailers(w) ==
    /\ m_state = "Trailers"
    /\ GoTo(IF w = NoWord THEN "Complete" ELSE "Trailers")
    /\ UNCHANGED request

\* One line is taken off the buffer and interpreted.
Line ==
    /\ m_state \in LineStates
    /\ \E i \in 0 .. MAX_CHUNK_BODY_SIZE :
          /\ LineOf(i)
          /\ Erase(i + 2)
          /\ LET w == IF i = 0 THEN NoWord ELSE readBuffer[1]
             IN  \/ RequestLine(w) \/ HeaderLine(w) \/ HeadersEnd(w)
                 \/ ChunkSize(w) \/ ChunkCRLF(w) \/ Trailers(w)

\* extractBytes(n): refuse, ask for more, or take n octets and do Then.
Extract(n, Then) ==
    \/ n > MAX_HTTP_BODY_SIZE /\ Malformed /\ UNCHANGED readBuffer
    \/ n <= MAX_HTTP_BODY_SIZE /\ Len(readBuffer) < n /\ Incomplete
    \/ n <= MAX_HTTP_BODY_SIZE /\ Len(readBuffer) >= n /\ Erase(n) /\ Then

Body ==
    /\ m_state = "Body"
    /\ LET n == getContentLength(request.headers) - Len(request.body)
       IN  Extract(n, request' = [request EXCEPT !.body = First(n)] /\ GoTo("Complete"))

ChunkData ==
    /\ m_state = "ChunkData"
    /\ LET n == m_chunk_remaining
       IN  Extract(n, request' = [request EXCEPT !.body = @ \o First(n)] /\ GoTo("ChunkCRLF"))

\* The loop of the read task goes on while there are octets.  After 50 requests the
\* rest is left to another task on the same connection.
MutantGoesOn == "recv"
GoesOn == IF readBuffer = <<>> THEN "recv" ELSE "parse"

\* ParseResult::Success: the request is routed, request and parser are reset, and
\* the loop ends if the response closes the connection.
MutantResetRequest == request' = [EmptyRequest EXCEPT !.headers = request.headers]
ResetRequest == request' = EmptyRequest

Success ==
    /\ m_state = "Complete"
    /\ served' = Append(served, request)
    /\ ResetRequest
    /\ m_state' = "RequestLine" /\ m_chunk_remaining' = 0
    /\ pc' = IF ClosesAfterSend(request) THEN "closed" ELSE GoesOn
    /\ UNCHANGED <<stream, received, readBuffer>>

ParseStep == pc = "parse" /\ (NoLine \/ Line \/ Body \/ ChunkData \/ Success)

\* The recv() loop of the read task returns with n more octets.
Recv ==
    /\ pc = "recv"
    /\ \E n \in 1 .. Len(stream) - received :
          /\ readBuffer' = readBuffer \o SubSeq(stream, received + 1, received + n)
          /\ received' = received + n
    /\ pc' = "parse"
    /\ UNCHANGED <<stream, request, parserVars, served>>

Next == ParseStep \/ Recv
Spec == Init /\ [][Next]_vars

-----------------------------------------------------------------------------
(* Properties *)

Headers ==
    {h \in [Names -> DOMAIN NameOf \cup {NoWord}] :
        h["content-length"] \in DOMAIN Stoull \cup {NoWord}}
Requests ==
    [line : RequestLines \cup {NoWord}, headers : Headers, body : Seq(Octets)]

\* Every variable keeps its type; a parser in the error state is never used again.
TypeOK ==
    /\ stream \in Streams
    /\ received \in 0 .. Len(stream)
    /\ readBuffer \in Seq(Octets)
    /\ request \in Requests
    /\ m_state \in LineStates \cup {"Body", "ChunkData", "Complete", "Error"}
    /\ m_chunk_remaining \in 0 .. MAX_HTTP_BODY_SIZE
    /\ pc \in {"recv", "parse", "refused", "closed"}
    /\ served \in Seq(Requests)
    /\ m_state = "Error" <=> pc = "refused"

\* No request grows past MAX_HTTP_BODY_SIZE, whatever the number of chunks and
\* wherever the stream is cut; nor does one that was handed to the router.
BodyBounded ==
    /\ Len(request.body) <= MAX_HTTP_BODY_SIZE
    /\ \A i \in 1 .. Len(served) : Len(served[i].body) <= MAX_HTTP_BODY_SIZE

\* A connection that waits for more octets holds back no more than the state of
\* its parser needs, a line no longer than the limit or an unfinished piece of a
\* body: the buffer does not grow from one recv() to the next.
WaitingBounded ==
    pc = "recv" =>
        IF m_state \in LineStates THEN Len(readBuffer) <= MAX_HTTP_HEADER_SIZE
                                  ELSE Len(readBuffer) < MAX_HTTP_BODY_SIZE

\* Every pass of the loops of parse() and of the read task makes progress, so
\* neither can spin: the "Infinite parse loop" the read task guards against
\* takes an infinite buffer.
Unparsed == 2 * Len(readBuffer) + (IF m_state = "Complete" THEN 1 ELSE 0)
ParseAdvances == [][pc = "parse" /\ pc' = "parse" => Unparsed' < Unparsed]_vars

\* How far the stream has been read, and what was found: no trace of the buffer.
Cursor ==
    [at |-> received - Len(readBuffer), item |-> m_state, request |-> request,
     chunk |-> m_chunk_remaining, fate |-> IF pc \in {"recv", "parse"} THEN "open" ELSE pc,
     served |-> served]
Reading == INSTANCE HttpReading WITH reading <- Cursor

\* "The parser must resume correctly from any split point": every pass of parse()
\* is the step that the stream and what was read before determine, wherever recv()
\* cut the stream; only an overlong line may be refused sooner or later.
ReadsInOnePiece == Reading!Spec

\* No line of the stream reaches MAX_HTTP_HEADER_SIZE.
Fits ==
    \A i \in 1 .. Len(stream) - MAX_HTTP_HEADER_SIZE :
        \E j \in i .. i + MAX_HTTP_HEADER_SIZE - 1 : stream[j] = CR /\ stream[j + 1] = LF

\* A connection waits only if nothing more can be read from what it has received: no
\* complete request stays in the buffer until the client sends another octet.
WaitsForMore == pc = "recv" => Reading!After(SubSeq(stream, 1, received), Cursor) = Cursor
=============================================================================
