----------------------------- MODULE HttpClient ------------------------------
(***************************************************************************)
(* What a client reads from the octets a connection delivers, by the rules *)
(* of HTTP/1.1 for the length of a message body: the reference for         *)
(* HttpMessages, which writes them.                                        *)
(*                                                                         *)
(* A reading is a record: ok, whether there is a complete, unambiguous     *)
(* item; next, where the item after it begins; and what was read.          *)
(***************************************************************************)
EXTENDS Integers, Sequences

CONSTANTS CR, LF

CrlfAt(s, i) == i + 1 <= Len(s) /\ s[i] = <<CR>> /\ s[i + 1] = <<LF>>
TokenAt(s, i, kind) == i <= Len(s) /\ s[i][1] = kind /\ Len(s[i]) > 1 /\ CrlfAt(s, i + 1)

\* The n octets from i on.
OctetsAt(s, i, n) ==
    [ok |-> i + n - 1 <= Len(s), next |-> i + n,
     body |-> IF i + n - 1 <= Len(s) THEN [k \in 1 .. n |-> s[i + k - 1][1]] ELSE <<>>]

\* *( field CRLF ) CRLF; a name occurs once.
RECURSIVE FieldsAt(_, _, _)
FieldsAt(s, i, h) ==
    IF TokenAt(s, i, "field") /\ s[i][2] \notin DOMAIN h
    THEN FieldsAt(s, i + 3,
                  [n \in DOMAIN h \cup {s[i][2]} |-> IF n = s[i][2] THEN s[i][3] ELSE h[n]])
    ELSE [ok |-> CrlfAt(s, i), next |-> i + 2, headers |-> h]

\* *( size CRLF octets CRLF ) 0 CRLF CRLF
RECURSIVE ChunksAt(_, _, _)
ChunksAt(s, i, body) ==
    LET d == OctetsAt(s, i + 3, s[i][2])
        No == [ok |-> FALSE, next |-> i, body |-> body]
    IN  IF ~TokenAt(s, i, "size") THEN No
        ELSE IF ~d.ok \/ ~CrlfAt(s, d.next) THEN No
        ELSE IF s[i][2] = 0 THEN [ok |-> TRUE, next |-> d.next + 2, body |-> body]
        ELSE ChunksAt(s, d.next + 2, body \o d.body)

\* One answer.  Without either framing header it would end with the connection,
\* with both of them it is ambiguous: neither is accepted here.
AnswerAt(s, i) ==
    LET f == FieldsAt(s, i + 3, <<>>)
        b == CASE "transfer-encoding" \in DOMAIN f.headers -> ChunksAt(s, f.next, <<>>)
               [] OTHER -> OctetsAt(s, f.next, f.headers["content-length"])
        framed == ("transfer-encoding" \in DOMAIN f.headers)
                      # ("content-length" \in DOMAIN f.headers)
        No == [ok |-> FALSE, next |-> i]
    IN  IF ~TokenAt(s, i, "status") \/ ~f.ok THEN No
        ELSE IF ~framed \/ ~b.ok THEN No
        ELSE [ok |-> TRUE, next |-> b.next,
              answer |-> [status |-> s[i][2], body |-> b.body,
                          close |-> f.headers["connection"] = "close"]]

\* All answers from i on; whole, if nothing is left over.
RECURSIVE AnswersAt(_, _)
AnswersAt(s, i) ==
    LET a == AnswerAt(s, i)
    IN  IF i > Len(s) THEN [whole |-> TRUE, answers |-> <<>>]
        ELSE IF ~a.ok THEN [whole |-> FALSE, answers |-> <<>>]
        ELSE LET rest == AnswersAt(s, a.next)
             IN  [rest EXCEPT !.answers = <<a.answer>> \o @]

Read(s) == AnswersAt(s, 1)
=============================================================================
