---------------------------- MODULE MCHttpParser -----------------------------
(***************************************************************************)
(* An instance of HttpParser for TLC, with the answers of HttpMessages,    *)
(* and its comparison with HttpFraming, which reads the requests, and      *)
(* HttpClient, which reads the answers.                                    *)
(*                                                                         *)
(* Words: the request lines below; the header lines "host", "close",       *)
(* "keep", "chunked", "identity", "len2", "len9" and "lenx" ("lenx" has no *)
(* number); "0", "1", "2", "9" chunk sizes; "x" is nothing in particular.  *)
(***************************************************************************)
EXTENDS HttpParser

CONSTANTS Http11, SaysClose, SaysKeepAlive, MAX_CHUCK_SIZE, LargeText, AppRoutes

MCMethods ==
    [l \in RequestLines |->
        CASE l \in {"echo", "echoLarge", "testEcho"} -> "POST"
          [] l = "put" -> "PUT" [] l = "del" -> "DELETE" [] l = "head" -> "HEAD"
          [] OTHER -> "GET"]
MCPaths ==
    [l \in RequestLines |->
        CASE l = "health" -> "/api/health"  [] l = "echo" -> "/api/echo"
          [] l = "put" -> "/api/resource"   [] l = "del" -> "/api/resources"
          [] l = "echoLarge" -> "/api/echo/large" [] l = "large" -> "/test/large"
          [] l \in {"testEcho", "wrong"} -> "/test/echo"  [] l = "bye" -> "/bye"
          [] OTHER -> "/"]

Messages == INSTANCE HttpMessages WITH MethodOf <- MCMethods, PathOf <- MCPaths

MCCloses(r) == Messages!Respond(r).close_after_send

\* An application's handler that asks for the connection to be closed.
MCAppRoutes ==
    <<[method |-> "GET", path |-> "/bye", handler |-> "fixed",
       response |-> [status |-> 200, headers |-> [connection |-> "close"], body |-> <<"bye">>,
                     body_type |-> "CONTENT_LENGTH", close_after_send |-> FALSE]]>>
MCLargeText == <<"a", "b", "c", "d", "e">>
HandlerCloses == {"bye"}

MCNames ==
    [w \in {"host", "close", "keep", "chunked", "identity", "len2", "len9", "lenx"} |->
        CASE w \in {"close", "keep"} -> "connection"
          [] w \in {"chunked", "identity"} -> "transfer-encoding"
          [] w \in {"len2", "len9", "lenx"} -> "content-length"
          [] OTHER -> "other"]
MCStoull == [w \in {"len2", "len9", "lenx"} |->
                CASE w = "len2" -> 2 [] w = "len9" -> 9 [] OTHER -> 0]
MCSizes == [w \in {"0", "1", "2", "9"} |->
                CASE w = "0" -> 0 [] w = "1" -> 1 [] w = "2" -> 2 [] OTHER -> 9]
MCOctets == DOMAIN MCNames \cup DOMAIN MCSizes \cup RequestLines \cup {"x", "CR", "LF"}

Crlf == <<"CR", "LF">>
L(w) == <<w>> \o Crlf

\* Heads with up to two header lines of every kind.
Heads ==
    {L("get") \o Crlf, L("get10") \o L("keep") \o Crlf, L("get10") \o Crlf, L("x"), Crlf}
        \cup {L("get") \o L(v) \o Crlf : v \in DOMAIN MCNames \cup {"x"}}
        \cup {L("get") \o L(v) \o L(w) \o Crlf :
                v \in {"len2", "chunked", "identity"}, w \in {"len2", "lenx", "chunked", "close"}}
        \cup {L(r) \o L(v) \o Crlf :
                r \in {"echo", "testEcho", "put", "wrong"}, v \in {"len2", "chunked"}}

\* Requests without a body, for every route.
Plain == {L(r) \o Crlf : r \in RequestLines}

\* Bodies: none, plain ones (a CRLF among them), chunks (as many as the limit
\* allows, one more, CRLF as data, trailers) and chunks gone wrong.
Bodies ==
    {<<>>, <<"x", "get">>, Crlf,
     L("0") \o Crlf,
     L("1") \o <<"CR">> \o Crlf \o L("0") \o L("x") \o Crlf,
     L("2") \o Crlf \o Crlf \o L("1") \o <<"x">> \o Crlf \o L("0") \o Crlf,
     L("2") \o <<"x", "x">> \o Crlf \o L("2") \o <<"x", "x">> \o Crlf,
     L("1") \o <<"x">> \o L("x"),
     L("9"), L("x")}

\* Request lines of every length up to one behind the end of the scan.
LongHead(n) == <<"get">> \o [i \in 1 .. n - 1 |-> "x"] \o Crlf \o Crlf

MCStreams ==
    {h \o b \o t : h \in Heads, b \in Bodies, t \in {<<>>, L("get") \o Crlf}}
        \cup {p \o q : p \in Plain, q \in Plain}
        \cup {LongHead(n) : n \in 1 .. MAX_CHUNK_BODY_SIZE + 2}

Framing == INSTANCE HttpFraming

\* Wherever the stream is cut into recv() calls, the requests served and the
\* fate of the connection are those of the octets received so far, read as one
\* piece: "the parser must resume correctly from any split point", nothing of a
\* request leaks into the next, and no complete request is left in the buffer.
\* The premise is needed: see MAX_CHUNK_BODY_SIZE in HeaderTooLarge.
ResumesFromAnySplit ==
    Fits /\ pc # "parse" =>
        LET whole == Framing!Decode(SubSeq(stream, 1, received))
        IN  served = whole.requests /\ pc = whole.pc

-----------------------------------------------------------------------------
(* The answers *)

Client == INSTANCE HttpClient

\* What main.cpp and the application mean to answer.
Meant(r) ==
    LET Says(status, body) == [status |-> status, body |-> body]
    IN  CASE r.line \in {"get", "get10"} -> Says(200, <<"page">>)
          [] r.line = "health" -> Says(200, <<"health">>)
          [] r.line = "echo" -> Says(200, <<"echo">> \o r.body)
          [] r.line \in {"echoLarge", "testEcho"} -> Says(200, r.body)
          [] r.line = "put" -> IF r.body = <<>> THEN Says(400, <<"error">>)
                               ELSE Says(200, <<"updated">>)
          [] r.line = "del" -> Says(204, <<>>)
          [] r.line = "large" -> Says(200, LargeText)
          [] r.line = "bye" -> Says(200, <<"bye">>)
          [] OTHER -> Says(404, <<"notFound">>)

Expected ==
    [i \in 1 .. Len(served) |-> Meant(served[i])]
        \o (IF pc = "refused" THEN <<[status |-> 400, body |-> <<"badRequest">>]>> ELSE <<>>)
Got == Client!Read(Messages!Wire(served, pc = "refused"))

\* HEAD is routed like a method nobody registered and answered with a body.
NoHead == \A i \in 1 .. Len(served) : served[i].line # "head"

\* The client reads exactly one answer to each request, in their order, with the
\* status and the body meant for it, whichever framing the encoder chose:
\* however the requests were framed and cut, no answer runs into the next.
AnswersReachClient ==
    pc # "parse" /\ NoHead =>
        /\ Got.whole
        /\ [i \in 1 .. Len(Got.answers) |->
               [status |-> Got.answers[i].status, body |-> Got.answers[i].body]] = Expected

\* An answer announces the end of the connection if and only if it is the last
\* one: neither is an answer behind it dropped nor does a client wait for one
\* that never comes.
CloseIsAnnounced ==
    pc # "parse" /\ NoHead =>
        \A i \in 1 .. Len(Got.answers) :
            Got.answers[i].close <=> i = Len(Got.answers) /\ pc \in {"closed", "refused"}
=============================================================================
