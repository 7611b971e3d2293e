---------------------------- MODULE HttpFraming ------------------------------
(***************************************************************************)
(* Which requests a stream of octets contains, read as a whole: the        *)
(* grammar of the requests the server understands.  No buffer, no state    *)
(* that survives a recv(): the reference for HttpParser.                   *)
(*                                                                         *)
(* A reading is a record: status "ok", "more" (the stream ends before the  *)
(* item does) or "bad"; next, where the item after it begins; and what was *)
(* read.                                                                   *)
(***************************************************************************)
EXTENDS Integers, Sequences, FiniteSetsExt

CONSTANTS CR, LF, NoWord, RequestLines, Http11, NameOf, Chunked, Stoull, SaysClose,
          SaysKeepAlive, HandlerCloses, SizeOf, MAX_HTTP_BODY_SIZE

Names == {"transfer-encoding", "content-length", "connection", "other"}
Empty == [line |-> NoWord, headers |-> [n \in Names |-> NoWord], body |-> <<>>]

\* Positions of the CR of the line ends from i on.
LineEnds(s, i) == {j \in i .. Len(s) - 1 : s[j] = CR /\ s[j + 1] = LF}

\* One line: its word and the position behind it.
LineAt(s, i) ==
    LET E == LineEnds(s, i)
    IN  IF E = {} THEN [status |-> "more", word |-> NoWord, next |-> i]
        ELSE [status |-> "ok", word |-> IF Min(E) = i THEN NoWord ELSE s[i], next |-> Min(E) + 2]

\* *( field CRLF ) CRLF, the last field of a name counting.
RECURSIVE FieldsAt(_, _, _)
FieldsAt(s, i, h) ==
    LET l == LineAt(s, i)
    IN  IF l.status = "more" THEN [status |-> "more", next |-> i, headers |-> h]
        ELSE IF l.word = NoWord THEN [status |-> "ok", next |-> l.next, headers |-> h]
        ELSE IF l.word \notin DOMAIN NameOf THEN [status |-> "bad", next |-> i, headers |-> h]
        ELSE FieldsAt(s, l.next, [h EXCEPT ![NameOf[l.word]] = l.word])

\* The n octets from i on.
OctetsAt(s, i, n) ==
    IF n > MAX_HTTP_BODY_SIZE THEN [status |-> "bad", next |-> i, body |-> <<>>]
    ELSE IF i + n - 1 > Len(s) THEN [status |-> "more", next |-> i, body |-> <<>>]
    ELSE [status |-> "ok", next |-> i + n, body |-> SubSeq(s, i, i + n - 1)]

\* *( trailer CRLF ) CRLF
RECURSIVE TrailersAt(_, _, _)
TrailersAt(s, i, body) ==
    LET l == LineAt(s, i)
    IN  IF l.status = "ok" /\ l.word # NoWord THEN TrailersAt(s, l.next, body)
        ELSE [status |-> l.status, next |-> l.next, body |-> body]

\* *( size CRLF octets CRLF ) 0 CRLF trailers; the sizes add up to the limit at most.
RECURSIVE ChunksAt(_, _, _)
ChunksAt(s, i, body) ==
    LET l == LineAt(s, i)
        n == SizeOf[l.word]
        d == OctetsAt(s, l.next, n)
        e == LineAt(s, d.next)
        No(status) == [status |-> status, next |-> i, body |-> body]
    IN  IF l.status = "more" THEN No("more")
        ELSE IF l.word \notin DOMAIN SizeOf THEN No("bad")
        ELSE IF Len(body) + n > MAX_HTTP_BODY_SIZE THEN No("bad")
        ELSE IF n = 0 THEN TrailersAt(s, l.next, body)
        ELSE IF d.status # "ok" THEN No(d.status)
        ELSE IF e.status = "more" THEN No("more")
        ELSE IF e.word # NoWord THEN No("bad")
        ELSE ChunksAt(s, e.next, body \o d.body)

\* One request.
RequestAt(s, i) ==
    LET l == LineAt(s, i)
        f == FieldsAt(s, l.next, Empty.headers)
        length == IF f.headers["content-length"] = NoWord THEN 0
                  ELSE Stoull[f.headers["content-length"]]
        b == IF f.headers["transfer-encoding"] \in Chunked
             THEN ChunksAt(s, f.next, <<>>)
             ELSE OctetsAt(s, f.next, length)
        No(status) == [status |-> status, next |-> i, request |-> Empty]
    IN  IF l.status = "more" THEN No("more")
        ELSE IF l.word \notin RequestLines THEN No("bad")
        ELSE IF f.status # "ok" THEN No(f.status)
        ELSE IF b.status # "ok" THEN No(b.status)
        ELSE [status |-> "ok", next |-> b.next,
              request |-> [line |-> l.word, headers |-> f.headers, body |-> b.body]]

Persists(r) ==
    CASE r.headers["connection"] \in SaysClose \/ r.line \in HandlerCloses -> FALSE
      [] r.headers["connection"] \in SaysKeepAlive \ SaysClose -> TRUE
      [] OTHER -> r.line \in Http11

\* The requests of the stream from i on, and how the connection stands then.
RECURSIVE RequestsAt(_, _)
RequestsAt(s, i) ==
    LET r == RequestAt(s, i)
    IN  IF r.status = "more" THEN [requests |-> <<>>, pc |-> "recv"]
        ELSE IF r.status = "bad" THEN [requests |-> <<>>, pc |-> "refused"]
        ELSE IF ~Persists(r.request) THEN [requests |-> <<r.request>>, pc |-> "closed"]
        ELSE LET rest == RequestsAt(s, r.next)
             IN  [requests |-> <<r.request>> \o rest.requests, pc |-> rest.pc]

Decode(s) == RequestsAt(s, 1)
=============================================================================
