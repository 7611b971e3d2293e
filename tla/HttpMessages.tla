---------------------------- MODULE HttpMessages -----------------------------
(***************************************************************************)
(* From a request to the octets of its answer: HttpRouter, the handlers of *)
(* main.cpp, HttpResponse, HttpHeaders and HttpResponseEncoder, as         *)
(* functions; none of them keeps state between two requests.               *)
(*                                                                         *)
(* A request is what HttpParser hands over.  A text is a sequence of       *)
(* octets.  On the wire a status line, a header field and a chunk size are *)
(* one token each, every other octet o is the token <<o>>.                 *)
(***************************************************************************)
EXTENDS Integers, Sequences, FiniteSetsExt

CONSTANTS
    CR, LF,
    Http11,            \* request lines with version HTTP/1.1
    MethodOf, PathOf,  \* method and path of a request line
    SaysClose,         \* Connection values that contain "close"
    SaysKeepAlive,     \* Connection values that contain "keep-alive"
    LargeText,         \* the body of /test/large
    AppRoutes,         \* routes besides those of main.cpp, each with a fixed response
    MAX_CHUCK_SIZE

-----------------------------------------------------------------------------
(* HttpHeaders: a map with lower-case keys *)

toLower(key) ==
    CASE key = "Connection" -> "connection"
      [] key = "Content-Length" -> "content-length"
      [] key = "Content-Type" -> "content-type"
      [] key = "Transfer-Encoding" -> "transfer-encoding"
      [] OTHER -> key

has(h, key) == toLower(key) \in DOMAIN h

set(h, key, value) ==
    [n \in DOMAIN h \cup {toLower(key)} |-> IF n = toLower(key) THEN value ELSE h[n]]

\* The key is looked up in lower case and erased as it was given.
del(h, key) == IF has(h, key) THEN [n \in DOMAIN h \ {key} |-> h[n]] ELSE h

-----------------------------------------------------------------------------
(* HttpResponse *)

NewResponse ==
    [status |-> 200, headers |-> <<>>, body |-> <<>>, body_type |-> "CONTENT_LENGTH",
     close_after_send |-> FALSE]

set_status(res, code) == [res EXCEPT !.status = code]
set_header(res, key, value) == [res EXCEPT !.headers = set(@, key, value)]
set_body(res, body) == [res EXCEPT !.body = body]
json(res, body) == set_body(set_header(res, "Content-Type", "json"), body)
html(res, body) == set_body(set_header(res, "Content-Type", "html"), body)

\* A handler's own "Connection: close" is kept.
KeepsAlive(res, client_wants_keep_alive) ==
    /\ client_wants_keep_alive
    /\ ~(has(res.headers, "Connection") /\ res.headers["connection"] \in SaysClose)

MutantFinalizeForConnection(res, keep_alive) ==
    LET keep == KeepsAlive(res, keep_alive)
    IN  [set_header(res, "Connection", IF keep THEN "keep-alive" ELSE "close")
            EXCEPT !.close_after_send = ~keep_alive]
FinalizeForConnection(res, keep_alive) ==
    LET keep == KeepsAlive(res, keep_alive)
    IN  [set_header(res, "Connection", IF keep THEN "keep-alive" ELSE "close")
            EXCEPT !.close_after_send = ~keep]

-----------------------------------------------------------------------------
(* HttpRouter and the handlers that main() registers *)

MainRoutes ==
    <<[method |-> "GET", path |-> "/", handler |-> "home"],
      [method |-> "GET", path |-> "/api/health", handler |-> "health"],
      [method |-> "POST", path |-> "/api/echo", handler |-> "echo"],
      [method |-> "PUT", path |-> "/api/resource", handler |-> "put"],
      [method |-> "DELETE", path |-> "/api/resources", handler |-> "delete"],
      [method |-> "POST", path |-> "/api/echo/large", handler |-> "echoLarge"],
      [method |-> "GET", path |-> "/test/large", handler |-> "large"],
      [method |-> "POST", path |-> "/test/echo", handler |-> "testEcho"]>>

Routes == MainRoutes \o AppRoutes

Handle(route, request) ==
    LET res == NewResponse
    IN  CASE route.handler = "home" -> html(res, <<"page">>)
          [] route.handler = "health" -> json(res, <<"health">>)
          [] route.handler = "echo" -> set_body(set_status(res, 200), <<"echo">> \o request.body)
          [] route.handler = "put" ->
                IF request.body = <<>> THEN json(set_status(res, 400), <<"error">>)
                ELSE json(set_status(res, 200), <<"updated">>)
          [] route.handler = "delete" -> set_status(res, 204)
          [] route.handler = "echoLarge" -> set_body(set_status(res, 200), request.body)
          [] route.handler = "large" -> html(set_status(res, 200), LargeText)
          [] route.handler = "testEcho" ->
                set_body(set_header(set_status(res, 200), "Content-Type", "text"), request.body)
          [] route.handler = "fixed" -> route.response

RouteKey(method, path) == <<method, path>>

\* The routes registered under the key of the request; a later one replaces an
\* earlier one.
Matches(request) ==
    {i \in 1 .. Len(Routes) :
        RouteKey(Routes[i].method, Routes[i].path)
            = RouteKey(MethodOf[request.line], PathOf[request.line])}

Route(request) ==
    LET M == Matches(request)
    IN  IF M = {} THEN html(set_status(NewResponse, 404), <<"notFound">>)
        ELSE Handle(Routes[Max(M)], request)

-----------------------------------------------------------------------------
(* HttpResponseEncoder *)

del_header(res, key) == [res EXCEPT !.headers = del(@, key)]
WithBodyType(res, type) == [res EXCEPT !.body_type = type]

SetResponseHeader(res) ==
    IF Len(res.body) > MAX_CHUCK_SIZE
    THEN set_header(del_header(WithBodyType(res, "CHUNKED"), "Content-Length"),
                    "Transfer-Encoding", "chunked")
    ELSE IF res.body = <<>> THEN set_header(res, "Content-Length", 0)
    ELSE set_header(del_header(WithBodyType(res, "CONTENT_LENGTH"), "Transfer-Encoding"),
                    "Content-Length", Len(res.body))

Crlf == <<<<CR>>, <<LF>>>>
Raw(text) == [i \in 1 .. Len(text) |-> <<text[i]>>]

HeaderLines(h) ==
    FoldSet(LAMBDA key, lines : lines \o <<<<"field", key, h[key]>>>> \o Crlf, <<>>, DOMAIN h)

Chunk(data) == <<<<"size", Len(data)>>>> \o Crlf \o Raw(data) \o Crlf

MutantLastChunk == <<<<"size", 0>>>> \o Crlf
LastChunk == <<<<"size", 0>>>> \o Crlf \o Crlf

\* The loop over the body, MAX_CHUCK_SIZE octets at a time.
ChunkedBody(body) ==
    LET From[offset \in 0 .. Len(body)] ==
            LET end == Min({offset + MAX_CHUCK_SIZE, Len(body)})
            IN  IF offset < Len(body)
                THEN Chunk(SubSeq(body, offset + 1, end)) \o From[end]
                ELSE LastChunk
    IN  From[0]

Encode(response, is_head_request) ==
    LET res == SetResponseHeader(response)
    IN  <<<<"status", res.status>>>> \o Crlf \o HeaderLines(res.headers) \o Crlf
            \o (IF is_head_request THEN <<>>
                ELSE IF res.body_type = "CONTENT_LENGTH" THEN Raw(res.body)
                ELSE ChunkedBody(res.body))

-----------------------------------------------------------------------------
(* What the read task does with a request, and with one it cannot parse *)

WantsKeepAlive(r) ==
    LET conn == r.headers["connection"]
    IN  conn \notin SaysClose /\ (conn \in SaysKeepAlive \/ r.line \in Http11)

Respond(request) == FinalizeForConnection(Route(request), WantsKeepAlive(request))

BadRequest ==
    FinalizeForConnection(html(set_status(NewResponse, 400), <<"badRequest">>), FALSE)

\* What append_unsent_data gets for these requests, then for a refusal; the read
\* task encodes every answer as one that is not for HEAD.
Wire(requests, refused) ==
    LET UpTo[n \in 0 .. Len(requests)] ==
            IF n = 0 THEN <<>> ELSE UpTo[n - 1] \o Encode(Respond(requests[n]), FALSE)
    IN  UpTo[Len(requests)] \o (IF refused THEN Encode(BadRequest, FALSE) ELSE <<>>)
=============================================================================
