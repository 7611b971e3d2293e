----------------------------- MODULE HttpReading -----------------------------
(***************************************************************************)
(* What the parser promises: a stream is read item by item from its first  *)
(* octet on, however it arrives.  There is no buffer and no recv(); the    *)
(* next reading is a function of the stream and of this one, but for one   *)
(* choice: a line that does not end within MAX_HTTP_HEADER_SIZE octets may *)
(* be refused before it is read.                                           *)
(***************************************************************************)
EXTENDS Integers, Sequences

CONSTANTS CR, LF, NoWord, RequestLines, NameOf, Chunked, Stoull, SizeOf,
          MAX_HTTP_HEADER_SIZE, MAX_CHUNK_BODY_SIZE, MAX_HTTP_BODY_SIZE,
          Streams, ClosesAfterSend(_)

VARIABLES stream,
          reading    \* how far the stream has been read, and what was found in it

vars == <<stream, reading>>

NoRequest ==
    [line |-> NoWord,
     headers |-> [n \in {"transfer-encoding", "content-length", "connection", "other"} |-> NoWord],
     body |-> <<>>]

Init ==
    /\ stream \in Streams
    /\ reading = [at |-> 0, item |-> "RequestLine", request |-> NoRequest, chunk |-> 0,
                  fate |-> "open", served |-> <<>>]

\* Behind position p of s there is a line of i octets.
CrlfAt(s, p, i) == p + i + 2 <= Len(s) /\ s[p + i + 1] = CR /\ s[p + i + 2] = LF
IsLine(s, p, i) == CrlfAt(s, p, i) /\ \A j \in 0 .. i - 1 : ~CrlfAt(s, p, j)
Lines(s, p) == {i \in 0 .. MAX_CHUNK_BODY_SIZE : IsLine(s, p, i)}

Past(r, n) == [r EXCEPT !.at = @ + n]
Expect(r, item) == [r EXCEPT !.item = item]
Found(r, request) == [r EXCEPT !.request = request]
Refused(r) == [Expect(r, "Error") EXCEPT !.fate = "refused"]

\* The line says w.
AfterLine(r, w) ==
    CASE r.item = "RequestLine" /\ w \in RequestLines ->
             Found(Expect(r, "Headers"), [r.request EXCEPT !.line = w])
      [] r.item = "Headers" /\ w \in DOMAIN NameOf ->
             Found(r, [r.request EXCEPT !.headers[NameOf[w]] = w])
      [] r.item = "Headers" /\ w = NoWord ->
             Expect(r, IF r.request.headers["transfer-encoding"] \in Chunked THEN "ChunkSize"
                      ELSE IF r.request.headers["content-length"] # NoWord
                              /\ Stoull[r.request.headers["content-length"]] > 0 THEN "Body"
                      ELSE "Complete")
      [] r.item = "ChunkSize" /\ w \in DOMAIN SizeOf
             /\ Len(r.request.body) + SizeOf[w] <= MAX_HTTP_BODY_SIZE ->
             IF SizeOf[w] = 0 THEN Expect(r, "Trailers")
             ELSE [Expect(r, "ChunkData") EXCEPT !.chunk = SizeOf[w]]
      [] r.item = "ChunkCRLF" /\ w = NoWord -> Expect(r, "ChunkSize")
      [] r.item = "Trailers" -> Expect(r, IF w = NoWord THEN "Complete" ELSE "Trailers")
      [] OTHER -> Refused(r)

\* The next n octets of s belong to the body.
AfterOctets(s, r, n, item) ==
    IF n > MAX_HTTP_BODY_SIZE THEN Refused(r)
    ELSE IF r.at + n > Len(s) THEN r
    ELSE Found(Expect(Past(r, n), item),
               [r.request EXCEPT !.body = @ \o SubSeq(s, r.at + 1, r.at + n)])

\* What is read next; r itself if that is not in s yet.
After(s, r) ==
    CASE r.fate # "open" -> r
      [] r.fate = "open" /\ r.item = "Body" ->
             AfterOctets(s, r, Stoull[r.request.headers["content-length"]], "Complete")
      [] r.fate = "open" /\ r.item = "ChunkData" -> AfterOctets(s, r, r.chunk, "ChunkCRLF")
      [] r.fate = "open" /\ r.item = "Complete" ->
             [at |-> r.at, item |-> "RequestLine", request |-> NoRequest, chunk |-> 0,
              fate |-> IF ClosesAfterSend(r.request) THEN "closed" ELSE "open",
              served |-> Append(r.served, r.request)]
      [] OTHER ->
             IF Lines(s, r.at) # {}
             THEN LET i == CHOOSE i \in Lines(s, r.at) : TRUE
                  IN  AfterLine(Past(r, i + 2), IF i = 0 THEN NoWord ELSE s[r.at + 1])
             ELSE IF Len(s) - r.at > MAX_CHUNK_BODY_SIZE + 1 THEN Refused(r)
             ELSE r

Overlong(s, p) ==
    Len(s) - p > MAX_HTTP_HEADER_SIZE /\ \A i \in 0 .. MAX_HTTP_HEADER_SIZE - 1 : ~CrlfAt(s, p, i)

LineItems == {"RequestLine", "Headers", "ChunkSize", "ChunkCRLF", "Trailers"}

Next ==
    /\ \/ reading' = After(stream, reading)
       \/ /\ reading.fate = "open" /\ reading.item \in LineItems
          /\ Overlong(stream, reading.at)
          /\ reading' = Refused(reading)
    /\ UNCHANGED stream

Spec == Init /\ [][Next]_vars
=============================================================================
