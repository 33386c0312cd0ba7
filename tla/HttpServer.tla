------------------------------ MODULE HttpServer ------------------------------
(***************************************************************************)
(* One connection of an HttpServer: HttpServer::onMessage() and onRequest() *)
(* with the request parser of HttpContext and its HttpRequest, fed by a    *)
(* client whose bytes arrive in any pieces.                                *)
(*                                                                         *)
(* The bytes of a line are two: its content and its end, so that a piece   *)
(* may end inside a line.  An iteration of the loop of parseRequest() is a *)
(* step; the next piece is read when the loop has ended.                   *)
(***************************************************************************)
EXTENDS Integers, Sequences

CONSTANTS
    Kinds,       \* the requests a client sends
    MaxRequests  \* bound on their number

(* length is the Content-Length header and the size of the body, -1 when   *)
(* there is none and the body is one byte.  "kGet" stands for every method *)
(* but kPost: the parser treats kHead, kPut and kDelete as it does kGet.   *)
(* The client gives a body to a POST only.  (That of a PUT or a DELETE     *)
(* would stay in the buffer and be parsed as the next request line.)       *)
Requests == [method : {"kGet", "kPost", "kInvalid"},
             version : {"kHttp10", "kHttp11", "kUnknown"},
             length : Nat \cup {-1}, close : BOOLEAN]

ASSUME KindsAssumption == Kinds \subseteq Requests /\ MaxRequests \in Nat

VARIABLES
    pipelined,  \* the client does not wait for the answer to a request
    sent,       \* the requests the client has sent
    wire,       \* bytes on their way
    buf,        \* inputBuffer_
    parser,     \* state_ of the HttpContext
    request,    \* request_: as in Requests, and body
    pc,         \* "idle", "parsing", "failed", "parsed", "aborted"
    conn,       \* state_ of the connection
    handled,    \* what httpCallback_ was given
    answers     \* what was sent in return

vars == <<pipelined, sent, wire, buf, parser, request, pc, conn, handled, answers>>

NewRequest == [method |-> "kInvalid", version |-> "kUnknown", length |-> -1,
               close |-> FALSE, body |-> << >>]

Init ==
    /\ pipelined \in BOOLEAN
    /\ sent = << >>
    /\ wire = << >>
    /\ buf = << >>
    /\ parser = "kExpectRequestLine"
    /\ request = NewRequest
    /\ pc = "idle"
    /\ conn = "kConnected"
    /\ handled = << >>
    /\ answers = << >>

-----------------------------------------------------------------------------
(* The client *)

End == [t |-> "end"]
Body(r, i) == [j \in 1 .. IF r.method # "kPost" THEN 0 ELSE IF r.length < 0 THEN 1 ELSE r.length
                 |-> [t |-> "body", of |-> i]]
Header(there, h) == IF there THEN <<h, End>> ELSE << >>
Bytes(r, i) ==
    <<[t |-> "line", method |-> r.method, version |-> r.version], End>>
    \o Header(r.length >= 0, [t |-> "length", n |-> r.length])
    \o Header(r.close, [t |-> "close"])
    \o <<End>> \o Body(r, i)

Unbounded(r) == r.method = "kPost" /\ r.length < 0

(* A client that gives no length sends no other request. *)
Request(r) ==
    /\ Len(sent) < MaxRequests
    /\ conn = "kConnected"
    /\ pipelined \/ Len(answers) = Len(sent)
    /\ sent # << >> => ~Unbounded(sent[Len(sent)])
    /\ sent' = Append(sent, r)
    /\ wire' = wire \o Bytes(r, Len(sent'))
    /\ UNCHANGED <<pipelined, buf, parser, request, pc, conn, handled, answers>>

(* A piece arrives, handleRead() appends it to the buffer and onMessage()  *)
(* calls parseRequest().                                                   *)
OnMessage(k) ==
    /\ pc = "idle"
    /\ buf' = buf \o SubSeq(wire, 1, k)
    /\ wire' = SubSeq(wire, k + 1, Len(wire))
    /\ pc' = "parsing"
    /\ UNCHANGED <<pipelined, sent, parser, request, conn, handled, answers>>

-----------------------------------------------------------------------------
(* parseRequest() *)

frame == <<pipelined, sent, wire, conn, handled, answers>>

(* findCRLF(): the place of the first End, or 0. *)
findCRLF ==
    IF \E i \in DOMAIN buf : buf[i] = End
      THEN CHOOSE i \in DOMAIN buf :
              buf[i] = End /\ \A j \in 1 .. i - 1 : buf[j] # End
      ELSE 0
Line == SubSeq(buf, 1, findCRLF - 1)
retrieveUntil(n) == buf' = SubSeq(buf, n + 1, Len(buf))

Return(result) == pc' = result

NoLine ==
    /\ pc = "parsing"
    /\ parser \in {"kExpectRequestLine", "kExpectHeaders"}
    /\ findCRLF = 0
    /\ Return("parsed")
    /\ UNCHANGED <<buf, parser, request, frame>>

(* setMethod(): the assertion, then the method, kInvalid for any other. *)
LineMethod == IF Len(Line) = 1 /\ Line[1].t = "line" THEN Line[1].method ELSE "kInvalid"

(* processRequestLine(): the method is stored before the version is looked *)
(* at, and what fails is not retrieved.                                    *)
RequestLine ==
    /\ pc = "parsing"
    /\ parser = "kExpectRequestLine"
    /\ findCRLF > 0
    /\ \/ /\ request.method # "kInvalid"
          /\ Return("aborted")
          /\ UNCHANGED <<buf, parser, request>>
       \/ /\ request.method = "kInvalid"
          /\ LineMethod = "kInvalid" \/ Line[1].version = "kUnknown"
          /\ request' = [request EXCEPT !.method = LineMethod]
          /\ Return("failed")
          /\ UNCHANGED <<buf, parser>>
       \/ /\ request.method = "kInvalid"
          /\ LineMethod # "kInvalid" /\ Line[1].version # "kUnknown"
          /\ request' = [request EXCEPT !.method = LineMethod,
                                        !.version = Line[1].version]
          /\ retrieveUntil(findCRLF)
          /\ parser' = "kExpectHeaders"
          /\ UNCHANGED pc
    /\ UNCHANGED frame

addHeader(h) ==
    IF h.t = "length" THEN [request EXCEPT !.length = h.n]
                      ELSE [request EXCEPT !.close = TRUE]

HeaderLine ==
    /\ pc = "parsing"
    /\ parser = "kExpectHeaders"
    /\ findCRLF > 1
    /\ request' = addHeader(Line[1])
    /\ retrieveUntil(findCRLF)
    /\ UNCHANGED <<parser, pc, frame>>

(* readableBytes() counts the empty line itself and is never 0. *)
HasBody == request.method = "kPost" /\ Len(buf) > 0

EmptyLine ==
    /\ pc = "parsing"
    /\ parser = "kExpectHeaders"
    /\ findCRLF = 1
    /\ IF HasBody THEN parser' = "kExpectBody" /\ UNCHANGED pc
                  ELSE parser' = "kGotAll" /\ Return("parsed")
    /\ retrieveUntil(1)
    /\ UNCHANGED <<request, frame>>

GotBody(n) ==
    /\ request' = [request EXCEPT !.body = SubSeq(buf, 1, n)]
    /\ retrieveUntil(n)
    /\ parser' = "kGotAll"
    /\ Return("parsed")

(* With fewer bytes than Content-Length says, an iteration does nothing,   *)
(* and is followed by another.                                             *)
ExpectBody ==
    /\ pc = "parsing"
    /\ parser = "kExpectBody"
    /\ \/ request.length >= 0 /\ Len(buf) >= request.length /\ GotBody(request.length)
       \/ request.length < 0 /\ GotBody(Len(buf))
    /\ UNCHANGED frame

-----------------------------------------------------------------------------
(* The rest of onMessage() *)

Send(answer) ==
    IF conn = "kConnected" THEN answers' = Append(answers, answer) ELSE UNCHANGED answers

Shutdown == conn' = "kDisconnecting"

(* Mutant: the headers stay for the next request. *)
Reset_KeepHeaders == [NewRequest EXCEPT !.close = request.close,
                                        !.length = request.length, !.body = request.body]

(* swap() with a new request leaves body_ where it is. *)
swap(r) == [NewRequest EXCEPT !.body = r.body]

Reset == swap(request)

BadRequest ==
    /\ pc = "failed"
    /\ Send("400")
    /\ Shutdown
    /\ Return("idle")
    /\ UNCHANGED <<pipelined, sent, wire, buf, parser, request, handled>>

(* Mutant: the context is not reset. *)
OnRequest_NoReset ==
    /\ pc = "parsed"
    /\ parser = "kGotAll"
    /\ handled' = Append(handled, request)
    /\ Send("200")
    /\ \E closeConnection \in BOOLEAN :
          IF closeConnection THEN Shutdown ELSE UNCHANGED conn
    /\ Return("idle")
    /\ UNCHANGED <<pipelined, sent, wire, buf, parser, request>>

(* The Connection header and the version only preset closeConnection:      *)
(* httpCallback_ has the last word on it (the default one says TRUE).      *)
OnRequest ==
    /\ pc = "parsed"
    /\ parser = "kGotAll"
    /\ handled' = Append(handled, request)
    /\ Send("200")
    /\ \E closeConnection \in BOOLEAN :
          IF closeConnection THEN Shutdown ELSE UNCHANGED conn
    /\ request' = Reset
    /\ parser' = "kExpectRequestLine"
    /\ Return("idle")
    /\ UNCHANGED <<pipelined, sent, wire, buf>>

NeedMore ==
    /\ pc = "parsed"
    /\ parser # "kGotAll"
    /\ Return("idle")
    /\ UNCHANGED <<pipelined, sent, wire, buf, parser, request, conn, handled, answers>>

Parse == NoLine \/ RequestLine \/ HeaderLine \/ EmptyLine \/ ExpectBody

Server == Parse \/ BadRequest \/ OnRequest \/ NeedMore

Next ==
    \/ \E r \in Kinds : Request(r)
    \/ \E k \in 1 .. Len(wire) : OnMessage(k)
    \/ Server

(* The loop thread goes on with a message it has begun, and takes one that *)
(* has arrived.                                                            *)
Spec == Init /\ [][Next]_vars
             /\ WF_vars(Server) /\ WF_vars(\E k \in 1 .. Len(wire) : OnMessage(k))

-----------------------------------------------------------------------------
Prefix(s, t) == Len(s) <= Len(t) /\ s = SubSeq(t, 1, Len(s))

(* The requests the application is given are those the client sent, in     *)
(* order and each once, whatever the pieces they arrive in: method,        *)
(* version and headers are the request's own, and so is the body of a      *)
(* POST, cut short only when it had no Content-Length.  (Of a GET the body *)
(* is not looked at: reset() leaves the one of an earlier POST there.)     *)
RequestsAsSent ==
    /\ Len(handled) <= Len(sent)
    /\ \A i \in DOMAIN handled :
          /\ handled[i].method = sent[i].method /\ handled[i].version = sent[i].version
          /\ handled[i].length = sent[i].length /\ handled[i].close = sent[i].close
          /\ sent[i].method = "kPost" =>
                IF Unbounded(sent[i]) THEN Prefix(handled[i].body, Body(sent[i], i))
                                      ELSE handled[i].body = Body(sent[i], i)

(* To a client that waits for its answers, a request whose last byte has   *)
(* been read into inputBuffer_ is answered, unless the assertion of        *)
(* setMethod() ends the process.  A body with a Content-Length that was    *)
(* split from its header is not meant: with its first bytes parseRequest() *)
(* does not end, and the others are never read.                            *)
Answered ==
    \A n \in 1 .. MaxRequests :
        (~pipelined /\ Len(sent) = n /\ wire = << >>)
            ~> (Len(answers) >= n \/ pc = "aborted")

(* HttpRequest.h:47 asserts that a method is set once for a request. *)
MethodUnset == pc # "aborted"
=============================================================================
