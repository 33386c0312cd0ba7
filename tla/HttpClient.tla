----------------------------- MODULE HttpClient -----------------------------
(***************************************************************************)
(* HttpClient (http/HttpClient.cc) over TcpClient: get() and post(), which *)
(* differ in the text of the request only, from another thread and from    *)
(* the response callback, against the loop thread; and, when retry_ is     *)
(* set, the plain client of example/tcpclient.cpp instead, which connects  *)
(* once, is reconnected by the library and keeps nothing of its own.       *)
(*                                                                         *)
(* The peer answers the requests of a connection in order, one response    *)
(* for each: a response is part of net[s] from the moment its request is   *)
(* written, and any part of net[s] may be the next that arrives.  The      *)
(* thread pool for callbacks is off, as it is by default, and connect() is *)
(* left to get() and post().                                               *)
(***************************************************************************)
EXTENDS TcpClient, Functions, FiniteSetsExt

CONSTANT MaxRequests  \* bound on the calls of get() and post()

ASSUME RequestsAssumption == MaxRequests \in Nat

VARIABLES
    connected,     \* connected_
    isConnecting,  \* isConnecting_
    requests,      \* requests_
    made,          \* requests so far: the number of a request is its name
    lock,          \* mutex_: 0, or the request whose get() holds it, after connect()
    net,           \* of each socket: what the peer answered and was not read
    buf,           \* of each socket: inputBuffer_ of the connection
    clearing,      \* the flags that DOWN has still to clear
    sent,          \* requests written, in order
    queueBorn,     \* requests that were put into requests_
    delivered,     \* of each socket: requests whose response the callback was given
    crossed        \* a disconnect() came between kConnected and its callback

httpVars == <<connected, isConnecting, requests, made, lock, net, buf, clearing, sent,
              queueBorn, delivered, crossed>>

HttpInit ==
    /\ Init
    /\ connected = FALSE
    /\ isConnecting = FALSE
    /\ requests = << >>
    /\ made = 0
    /\ lock = 0
    /\ net = [s \in Socks |-> << >>]
    /\ buf = [s \in Socks |-> << >>]
    /\ clearing = {}
    /\ sent = << >>
    /\ queueBorn = {}
    /\ delivered = [s \in Socks |-> << >>]
    /\ crossed = FALSE

-----------------------------------------------------------------------------
(* The text of a response: a status line, one header, the empty line and a *)
(* body that has no CRLF in it.                                            *)

Token(kind, r) == [kind |-> kind, of |-> r]
Crlf == Token("crlf", None)
Response(r) == <<Token("status", r), Crlf, Token("header", r), Crlf, Crlf, Token("body", r)>>

Ends(text) == {i \in DOMAIN text : text[i] = Crlf}
IsStatusLine(line) == Len(line) = 1 /\ line[1].kind = "status"
(* Behind the status line, the first line without a colon ends the headers. *)
HeadersEnd(text) == {i \in Ends(text) : i > Min(Ends(text)) /\ text[i - 1].kind # "header"}

Parsed(ok, gotAll, rest) == [ok |-> ok, gotAll |-> gotAll, rest |-> rest]
After(text, i) == SubSeq(text, i + 1, Len(text))

(* parseResponse() of a new HttpContext: an incomplete first line waits in *)
(* the buffer, a bad one stays there, a good one is gone even when the     *)
(* headers behind it are incomplete, and the body is all the rest: whether *)
(* there is one is tested before the empty line is retrieved.              *)
ParseResponse(text) ==
    CASE Ends(text) = {} -> Parsed(TRUE, FALSE, text)
      [] Ends(text) # {} /\ ~IsStatusLine(SubSeq(text, 1, Min(Ends(text)) - 1)) ->
             Parsed(FALSE, FALSE, text)
      [] OTHER -> IF HeadersEnd(text) = {}
                    THEN Parsed(TRUE, FALSE, After(text, Max(Ends(text))))
                    ELSE Parsed(TRUE, TRUE, << >>)

-----------------------------------------------------------------------------
(* get() and post() *)

Usable(s) == s # None /\ life[s] = "up"

Write(s, r, answer, base) ==
    /\ sent' = IF answer = r THEN Append(sent, r) ELSE sent
    /\ net' = [base EXCEPT ![s] = @ \o Response(answer)]

(* sendRequest() on the loop thread: written at once, or dropped.  Base is *)
(* what was to be read before.                                             *)
SendRequest(r, base) ==
    IF Usable(connection) THEN Write(connection, r, r, base) ELSE net' = base /\ UNCHANGED sent

(* Mutant: an attempt that is under way is forgotten. *)
MustConnect_NotConnected == ~connected

MustConnect == ~connected /\ ~isConnecting

(* On another thread, up to the connect() that they may call under the     *)
(* lock: a stop() or disconnect() of a third may be in progress.           *)
Get ==
    /\ phase # "crashed"
    /\ lock = 0
    /\ made < MaxRequests /\ calls < MaxCalls
    /\ made' = made + 1
    /\ calls' = calls + 1
    /\ lock' = made'
    /\ IF MustConnect
         THEN Connect /\ isConnecting' = TRUE
         ELSE UNCHANGED <<loopSide, life, wanted, connect, q, call, stopped, isConnecting>>
    /\ UNCHANGED <<connected, requests, net, buf, clearing, sent, queueBorn, delivered,
                   crossed>>

SendFunctor(s, r) == [op |-> "send", s |-> s, r |-> r]

(* The rest of it: queued for later, or sent at once by a functor that     *)
(* holds plain pointers to the connection and into the text, a local of    *)
(* sendRequest() that is gone when the functor runs.                       *)
GetPut ==
    /\ phase # "crashed"
    /\ lock # 0
    /\ lock' = 0
    /\ requests' = IF connected THEN requests ELSE Append(requests, lock)
    /\ queueBorn' = IF connected THEN queueBorn ELSE queueBorn \cup {lock}
    /\ IF connected /\ Usable(connection)
         THEN q' = Append(q, SendFunctor(connection, lock))
         ELSE UNCHANGED q
    /\ UNCHANGED <<loopSide, life, wanted, connect, calls, call, stopped>>
    /\ UNCHANGED <<connected, isConnecting, made, net, buf, clearing, sent, delivered, crossed>>

(* sendInLoop(): what the dead buffer holds is the request still, or       *)
(* something that the peer answers as no request of ours.  Behind the FIN  *)
(* of a shutdown() the write fails.                                        *)
RunSend ==
    /\ Run("send")
    /\ \/ /\ life[Head(batch).s] \in {"up", "shut"}
          /\ \E answer \in {Head(batch).r, None} :
                Write(Head(batch).s, Head(batch).r, answer, net)
       \/ /\ life[Head(batch).s] # "up"
          /\ UNCHANGED <<sent, net>>
    /\ UNCHANGED <<state, channel, registered, life, attempts, q, phase>>
    /\ UNCHANGED <<connected, isConnecting, requests, made, lock, buf, clearing, queueBorn,
                   delivered, crossed>>

-----------------------------------------------------------------------------
(* onConnection() and onMessage() *)

(* Mutant: the first request waits for a response to come by. *)
SendFirst_Later == UNCHANGED <<requests, sent, net>>

(* Mutant: the request stays in the queue. *)
SendNext_NoPop ==
    IF requests = << >> THEN UNCHANGED <<requests, sent, net>>
    ELSE SendRequest(Head(requests), net) /\ UNCHANGED requests

(* The request at the front is sent and popped, whatever became of it. *)
SendNext ==
    IF requests = << >> THEN UNCHANGED <<requests, sent, net>>
    ELSE SendRequest(Head(requests), net) /\ requests' = Tail(requests)

SendFirst == SendNext

(* A disconnect() may come between the test of connected() and the lock:   *)
(* the request is then popped and send() drops it.                         *)
OnUp ==
    /\ UpDone
    /\ lock = 0
    /\ connected' = TRUE
    /\ SendFirst
    /\ UNCHANGED <<isConnecting, made, lock, buf, clearing, queueBorn, delivered, crossed>>

(* A disconnect() was here first: connected() is false, taken for DOWN. *)
OnUpCrossed ==
    /\ UpDone
    /\ life[current] # "up"
    /\ connected' = FALSE
    /\ isConnecting' = FALSE
    /\ crossed' = TRUE
    /\ UNCHANGED <<requests, made, lock, net, buf, clearing, sent, queueBorn, delivered>>

(* DOWN clears the flags without the lock: get() may see either, or both. *)
HttpClose(s) ==
    /\ HandleClose(s)
    /\ clearing' = {"connected", "isConnecting"}
    /\ UNCHANGED <<connected, isConnecting, requests, made, lock, net, buf, sent, queueBorn,
                   delivered, crossed>>

OnDown ==
    /\ phase = "down"
    /\ \E flags \in (SUBSET clearing) \ {{}} :
          /\ clearing' = clearing \ flags
          /\ connected' = (connected /\ "connected" \notin flags)
          /\ isConnecting' = (isConnecting /\ "isConnecting" \notin flags)
    /\ UNCHANGED <<vars, requests, made, lock, net, buf, sent, queueBorn, delivered, crossed>>

CloseDone ==
    /\ clearing = {}
    /\ RemoveConnection
    /\ UNCHANGED httpVars

(* handleResponse() of what has arrived, whose callback may call get() ... *)
HandleResponse(s, text, unread) ==
    LET parsed == ParseResponse(text)
    IN  /\ buf' = [buf EXCEPT ![s] = parsed.rest]
        /\ IF parsed.ok THEN UNCHANGED life ELSE Shutdown(s)
        /\ delivered' = IF parsed.gotAll THEN [delivered EXCEPT ![s] = Append(@, text[1].of)]
                                         ELSE delivered
        /\ \/ net' = unread /\ UNCHANGED <<made, sent>>
           \/ /\ parsed.gotAll
              /\ lock = 0 /\ connected /\ made < MaxRequests
              /\ made' = made + 1
              /\ SendRequest(made', unread)

OnMessage(s) ==
    /\ phase = "poll"
    /\ life[s] \in {"up", "shut"}
    /\ \E k \in 1 .. Len(net[s]) :
          HandleResponse(s, buf[s] \o SubSeq(net[s], 1, k), [net EXCEPT ![s] = After(@, k)])
    /\ phase' = "message"
    /\ UNCHANGED <<connect, state, channel, registered, connection, attempts, q, batch,
                   current, callerSide>>
    /\ UNCHANGED <<connected, isConnecting, requests, lock, clearing, queueBorn, crossed>>

(* ... and the next request. *)
MessageDone ==
    /\ phase = "message"
    /\ lock = 0
    /\ SendNext
    /\ phase' = "handled"
    /\ UNCHANGED <<connect, state, channel, registered, connection, life, attempts, q, batch,
                   current, callerSide>>
    /\ UNCHANGED <<connected, isConnecting, made, lock, buf, clearing, queueBorn, delivered,
                   crossed>>

-----------------------------------------------------------------------------
(* The plain client of example/tcpclient.cpp *)
PlainConnect == MayCall /\ calls = 0 /\ Connect

PlainNext ==
    /\ retry
    /\ \/ PlainConnect \/ UpDone \/ RemoveConnection
       \/ \E s \in Socks : HandleClose(s)
    /\ UNCHANGED httpVars

HttpClientNext ==
    /\ ~retry
    /\ \/ Get \/ GetPut \/ RunSend
       \/ OnUp \/ OnUpCrossed \/ OnDown \/ CloseDone \/ MessageDone
       \/ \E s \in Socks : HttpClose(s) \/ OnMessage(s)

TcpClientNext == (Attempt \/ LoopNext \/ CallerNext) /\ UNCHANGED httpVars

(* Nothing is said of what follows once a registered channel is destroyed. *)
HttpNext ==
    /\ registered \subseteq {channel}
    /\ TcpClientNext \/ PlainNext \/ HttpClientNext

allVars == <<vars, httpVars>>

HttpSpec == HttpInit /\ [][HttpNext]_allVars

-----------------------------------------------------------------------------
(* Properties *)

(* However get(), DOWN and stop() interleave, isConnecting_ keeps a second *)
(* attempt from starting while one is under way, whose channel would be    *)
(* destroyed in the poller: the Connector has the one channel it knows.    *)
(* All but for one race of the code, a disconnect() that crosses UP: both  *)
(* flags are then cleared under a live connection.                         *)
OneAttempt == ~crossed => ChannelRegistered

(* requests_ is emptied by responses alone once the connection is up: while *)
(* a request waits in it, a response is on its way, so that it is neither  *)
(* left there for ever nor dependent on another get().                     *)
QueueServed ==
    (connected /\ Usable(connection) /\ requests # << >> /\ phase \notin {"up", "message"})
        => net[connection] # << >>

(* A request is written once at the most, over all reconnections; those    *)
(* that had to queue keep their order (direct ones may overtake them); and *)
(* the callback is given the responses of a connection in the order of the *)
(* requests, none twice, in whatever pieces they come.                     *)
OnceInOrder ==
    /\ IsInjective(sent)
    /\ \A i, j \in DOMAIN sent :
          i < j /\ {sent[i], sent[j]} \subseteq queueBorn => sent[i] < sent[j]
    /\ \A s \in Socks :
          LET answers == delivered[s]
          IN  \A i, j \in DOMAIN answers :
                  i < j /\ None \notin {answers[i], answers[j]} =>
                      \E m, n \in DOMAIN sent :
                          m < n /\ sent[m] = answers[i] /\ sent[n] = answers[j]
=============================================================================
