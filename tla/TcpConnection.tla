---------------------------- MODULE TcpConnection ----------------------------
(***************************************************************************)
(* One TcpConnection (TcpConnection.cpp), from the moment its owner, a     *)
(* TcpServer, has queued connectEstablished() to the moment it is freed.   *)
(*                                                                         *)
(* The loop thread dispatches the events of the channel in the order of    *)
(* Channel::handleEventWithGuard() and runs queued functors; its queue is  *)
(* the FIFO that FunctorQueue promises.  Callers are other threads that    *)
(* hold the connection and call send() and shutdown(); state_ is a plain   *)
(* enum that they test and set without a lock, so those are steps of their *)
(* own.  A byte is named <<k, i>>: position i of the buffer of the k-th    *)
(* call of send().  A write to a broken socket returns an error: the       *)
(* application is taken to ignore SIGPIPE.                                 *)
(***************************************************************************)
EXTENDS Naturals, Sequences, FiniteSets, Poller

CONSTANTS
    Callers,        \* threads other than the loop's
    MaxSends,       \* bound on the calls of send()
    MsgLen,         \* bytes of one call
    HighWaterMark   \* highWaterMark_

ASSUME SizesAssumption ==
    MaxSends \in Nat /\ MsgLen \in Nat \ {0} /\ HighWaterMark \in Nat \ {0}

VARIABLES
    state,      \* state_
    channel,    \* channel_ and its registration
    out,        \* the bytes of outputBuffer_
    wire,       \* the bytes the kernel has taken, in order
    accepted,   \* the bytes sendInLoop() has taken charge of, in order
    finSent,    \* shutdownWrite() was called
    peer,       \* "open", "closed" (its FIN has arrived) or "reset"
    sockErr,    \* SO_ERROR is set
    revents,    \* the events of the current dispatch not yet handled
    q,          \* the functors of the loop that concern this connection
    call,       \* the step each caller is at
    holders,    \* callers that hold a TcpConnectionPtr
    sends,      \* calls of send() so far
    downs,      \* connectionCallback_ calls that report the end
    removals,   \* closeCallback_ calls the server has yet to act on
    inServer,   \* connections_ of the server holds the connection
    raced,      \* shutdown() has overwritten a state that was not kConnected
    overtaken   \* ~TcpServer() ran connectDestroyed() ahead of the queue

vars == <<state, channel, out, wire, accepted, finSent, peer, sockErr, revents,
          q, call, holders, sends, downs, removals, inServer, raced, overtaken>>

ioVars == <<out, wire, accepted, finSent>>
lifeVars == <<downs, removals, inServer, overtaken>>
callVars == <<call, holders, raced>>

Raw(f) == f.op \in {"send", "shutdown"}  \* bound to a plain this

Functor(op) == [op |-> op, k |-> 0, late |-> FALSE]

NoCall == [step |-> "none", k |-> 0]

Message(k) == [i \in 1 .. MsgLen |-> <<k, i>>]

(* The last TcpConnectionPtr is gone: not in connections_, in no functor,  *)
(* with no caller, not guarded by a dispatch.                              *)
Freed ==
    /\ ~inServer
    /\ removals = 0
    /\ holders = {}
    /\ revents = {}
    /\ \A i \in DOMAIN q : Raw(q[i])

Init ==
    /\ state = "kConnecting"
    /\ channel = NewChannel
    /\ out = << >> /\ wire = << >> /\ accepted = << >>
    /\ finSent = FALSE
    /\ peer = "open" /\ sockErr = FALSE
    /\ revents = {}
    /\ q = <<Functor("established")>>
    /\ call = [t \in Callers |-> NoCall]
    /\ holders = {}
    /\ sends = 0
    /\ downs = 0 /\ removals = 0 /\ inServer = TRUE
    /\ raced = FALSE /\ overtaken = FALSE

-----------------------------------------------------------------------------
(* Pieces of the handlers *)

Broken == finSent \/ peer = "reset"  \* write() fails with EPIPE or ECONNRESET

(* Mutant: the bytes that write() has taken are kept too. *)
Unsent_All(bytes, n) == bytes
Unsent(bytes, n) == SubSeq(bytes, n + 1, Len(bytes))

(* Mutant: the channel is not told. *)
WantWrite_Never(left) == channel
WantWrite(left) ==
    IF left # << >> /\ ~IsWriting(channel) THEN EnableWriting(channel) ELSE channel

(* The rest of a message is appended to outputBuffer_, the high water mark *)
(* is tested, and the channel asks for EPOLLOUT.                           *)
Keep(left, queue) ==
    /\ out' = out \o left
    /\ channel' = WantWrite(left)
    /\ q' = IF /\ left # << >>
               /\ Len(out) + Len(left) > HighWaterMark
               /\ Len(out) < HighWaterMark
              THEN Append(queue, Functor("highWater")) ELSE queue

(* sendInLoop(): write at once if nothing is waiting, keep the rest.       *)
(* queue is what the functor queue holds otherwise.                        *)
SendInLoop(bytes, queue) ==
    \/ /\ state = "kDisconnected"
       /\ q' = queue
       /\ UNCHANGED <<channel, out, wire, accepted, sockErr>>
    \/ /\ state # "kDisconnected"
       /\ IsWriting(channel) \/ out # << >>
       /\ Keep(bytes, queue)
       /\ accepted' = accepted \o bytes
       /\ UNCHANGED <<wire, sockErr>>
    \/ /\ state # "kDisconnected"
       /\ ~IsWriting(channel) /\ out = << >>
       /\ Broken  \* faultError: the message is given up
       /\ q' = queue
       /\ sockErr' = FALSE
       /\ UNCHANGED <<channel, out, wire, accepted>>
    \/ /\ state # "kDisconnected"
       /\ ~IsWriting(channel) /\ out = << >>
       /\ ~Broken
       /\ \E n \in 0 .. Len(bytes) :  \* 0: EWOULDBLOCK
             /\ wire' = wire \o SubSeq(bytes, 1, n)
             /\ Keep(Unsent(bytes, n),
                     IF n = Len(bytes) THEN Append(queue, Functor("writeComplete"))
                                       ELSE queue)
       /\ accepted' = accepted \o bytes
       /\ UNCHANGED sockErr

(* Mutant: the half close does not wait for the buffered bytes. *)
ShutdownInLoop_AtOnce == finSent' = TRUE
ShutdownInLoop == finSent' = (finSent \/ ~IsWriting(channel))

(* Mutant: the channel stays registered. *)
HandleClose_KeepEvents ==
    /\ state' = "kDisconnected"
    /\ channel' = channel
    /\ downs' = downs + 1
    /\ removals' = removals + 1
    /\ UNCHANGED <<inServer, overtaken>>

(* handleClose(), with closeCallback_ = TcpServer::removeConnection *)
HandleClose ==
    /\ state' = "kDisconnected"
    /\ channel' = DisableAll(channel)
    /\ downs' = downs + 1
    /\ removals' = removals + 1
    /\ UNCHANGED <<inServer, overtaken>>

(* Mutant: the channel of a connection that is already closed is not       *)
(* removed.                                                                *)
ConnectDestroyed_OnlyConnected ==
    IF state = "kConnected"
      THEN /\ state' = "kDisconnected"
           /\ channel' = RemoveChannel(DisableAll(channel))
           /\ downs' = downs + 1
      ELSE UNCHANGED <<state, channel, downs>>

ConnectDestroyed ==
    IF state = "kConnected"
      THEN /\ state' = "kDisconnected"
           /\ channel' = RemoveChannel(DisableAll(channel))
           /\ downs' = downs + 1
      ELSE /\ channel' = RemoveChannel(channel)
           /\ UNCHANGED <<state, downs>>

(* ~TcpServer() on the thread of the connection's own loop, as there are   *)
(* no sub-loops: runInLoop() calls connectDestroyed() at once, ahead of    *)
(* what is queued.  newConnection() had called connectEstablished() there  *)
(* in the same way.                                                        *)
DestroyedAtOnce ==
    /\ inServer
    /\ state # "kConnecting"
    /\ ConnectDestroyed
    /\ inServer' = FALSE
    /\ overtaken' = TRUE
    /\ UNCHANGED removals

-----------------------------------------------------------------------------
(* Events: Channel::handleEventWithGuard() takes close, error, read and    *)
(* write in this order.                                                    *)

Idle == revents = {} /\ ~Freed

(* What the kernel has to report; data and space stand for received bytes  *)
(* and for room in the send buffer.                                        *)
Ready(data, space) ==
    (IF data \/ peer # "open" THEN {"IN"} ELSE {})
    \cup (IF space \/ Broken THEN {"OUT"} ELSE {})
    \cup (IF (finSent /\ peer = "closed") \/ peer = "reset" THEN {"HUP"} ELSE {})
    \cup (IF sockErr THEN {"ERR"} ELSE {})

Poll(data, space) ==
    /\ Idle
    /\ Reported(channel, Ready(data, space)) # {}
    /\ revents' = Reported(channel, Ready(data, space))
    /\ UNCHANGED <<state, channel, ioVars, peer, sockErr, q, callVars, sends,
                   lifeVars>>

EventHup ==  \* a hangup with input left to read is handled by the read
    /\ "HUP" \in revents
    /\ revents' = revents \ {"HUP"}
    /\ IF "IN" \in revents THEN UNCHANGED <<state, channel, lifeVars>>
                           ELSE HandleClose
    /\ UNCHANGED <<ioVars, peer, sockErr, q, callVars, sends>>

EventErr ==  \* handleError(): getsockopt(SO_ERROR) clears the error
    /\ "HUP" \notin revents
    /\ "ERR" \in revents
    /\ revents' = revents \ {"ERR"}
    /\ sockErr' = FALSE
    /\ UNCHANGED <<state, channel, ioVars, peer, q, callVars, sends, lifeVars>>

(* handleRead(): n > 0, messageCallback_, in which the user may answer     *)
(* with send() or shutdown() on the loop thread, or destroy the server.    *)
EventRead ==
    /\ revents \cap {"HUP", "ERR"} = {}
    /\ "IN" \in revents
    /\ peer = "open"
    /\ revents' = revents \ {"IN"}
    /\ \/ UNCHANGED <<state, channel, ioVars, sockErr, q, sends, lifeVars>>
       \/ /\ state = "kConnected"
          /\ sends < MaxSends
          /\ sends' = sends + 1
          /\ SendInLoop(Message(sends + 1), q)
          /\ UNCHANGED <<state, finSent, lifeVars>>
       \/ /\ state = "kConnected"
          /\ state' = "kDisconnecting"
          /\ ShutdownInLoop
          /\ UNCHANGED <<channel, out, wire, accepted, sockErr, q, sends, lifeVars>>
       \/ /\ DestroyedAtOnce
          /\ UNCHANGED <<ioVars, sockErr, q, sends>>
    /\ UNCHANGED <<peer, callVars>>

EventReadEnd ==  \* handleRead(): n = 0, or n < 0 and handleError()
    /\ revents \cap {"HUP", "ERR"} = {}
    /\ "IN" \in revents
    /\ peer # "open"
    /\ revents' = revents \ {"IN"}
    /\ IF sockErr THEN sockErr' = FALSE /\ UNCHANGED <<state, channel, lifeVars>>
                  ELSE HandleClose /\ UNCHANGED sockErr
    /\ UNCHANGED <<ioVars, peer, q, callVars, sends>>

(* Mutant: the pending half close is forgotten when the buffer runs empty. *)
DrainedShutdown_Never == UNCHANGED finSent
DrainedShutdown == finSent' = (finSent \/ state = "kDisconnecting")

(* handleWrite(): nothing if the channel no longer asks for EPOLLOUT. *)
EventWrite ==
    /\ revents = {"OUT"}
    /\ revents' = {}
    /\ \/ /\ ~IsWriting(channel) \/ Broken
          /\ sockErr' = (sockErr /\ ~IsWriting(channel))
          /\ UNCHANGED <<channel, ioVars, q>>
       \/ /\ IsWriting(channel) /\ ~Broken
          /\ \E n \in 1 .. Len(out) :
                /\ wire' = wire \o SubSeq(out, 1, n)
                /\ out' = Unsent(out, n)
                /\ IF n = Len(out)
                     THEN /\ channel' = DisableWriting(channel)
                          /\ q' = Append(q, Functor("writeComplete"))
                          /\ DrainedShutdown
                     ELSE UNCHANGED <<channel, q, finSent>>
          /\ UNCHANGED <<accepted, sockErr>>
    /\ UNCHANGED <<state, peer, callVars, sends, lifeVars>>

Event == EventHup \/ EventErr \/ EventRead \/ EventReadEnd \/ EventWrite

-----------------------------------------------------------------------------
(* Functors *)

ConnectEstablished ==
    /\ state' = "kConnected"
    /\ channel' = EnableReading(channel)
    /\ holders' = Callers  \* connectionCallback_ gives the connection out
    /\ q' = Tail(q)
    /\ UNCHANGED <<ioVars, sockErr, call, raced, lifeVars>>

RunFunctor ==
    /\ Idle
    /\ q # << >>
    /\ CASE Head(q).op = "established" -> ConnectEstablished
         [] Head(q).op = "destroyed" ->
              /\ ConnectDestroyed
              /\ q' = Tail(q)
              /\ UNCHANGED <<ioVars, sockErr, callVars, removals, inServer, overtaken>>
         [] Head(q).op = "send" ->
              /\ SendInLoop(Message(Head(q).k), Tail(q))
              /\ UNCHANGED <<state, finSent, callVars, lifeVars>>
         [] Head(q).op = "shutdown" ->
              /\ ShutdownInLoop
              /\ q' = Tail(q)
              /\ UNCHANGED <<state, channel, out, wire, accepted, sockErr,
                             callVars, lifeVars>>
         [] OTHER ->  \* writeCompleteCallback_, highWaterMarkCallback_
              /\ q' = Tail(q)
              /\ UNCHANGED <<state, channel, ioVars, sockErr, callVars, lifeVars>>
    /\ UNCHANGED <<peer, revents, sends>>

-----------------------------------------------------------------------------
(* Other threads *)

BeginCall(t) ==  \* the test of state_ in send() and shutdown()
    /\ t \in holders
    /\ call[t] = NoCall
    /\ state = "kConnected"
    /\ \/ sends < MaxSends /\ sends' = sends + 1
          /\ call' = [call EXCEPT ![t] = [step |-> "send", k |-> sends + 1]]
       \/ call' = [call EXCEPT ![t] = [step |-> "set", k |-> 0]] /\ UNCHANGED sends
    /\ UNCHANGED <<state, channel, ioVars, peer, sockErr, revents, q, holders,
                   raced, lifeVars>>

Push(f) == q' = Append(q, [f EXCEPT !.late = downs > 0 \/ ~inServer])

QueueSend(t) ==
    /\ call[t].step = "send"
    /\ Push([op |-> "send", k |-> call[t].k, late |-> FALSE])
    /\ call' = [call EXCEPT ![t] = NoCall]
    /\ UNCHANGED <<state, channel, ioVars, peer, sockErr, revents, holders,
                   sends, raced, lifeVars>>

SetDisconnecting(t) ==  \* setState(kDisconnecting), on whatever is there now
    /\ call[t].step = "set"
    /\ state' = "kDisconnecting"
    /\ raced' = (raced \/ state \notin {"kConnected", "kDisconnecting"})
    /\ call' = [call EXCEPT ![t].step = "push"]
    /\ UNCHANGED <<channel, ioVars, peer, sockErr, revents, q, holders, sends,
                   lifeVars>>

QueueShutdown(t) ==
    /\ call[t].step = "push"
    /\ Push(Functor("shutdown"))
    /\ call' = [call EXCEPT ![t] = NoCall]
    /\ UNCHANGED <<state, channel, ioVars, peer, sockErr, revents, holders,
                   sends, raced, lifeVars>>

Drop(t) ==  \* the caller lets its TcpConnectionPtr go
    /\ t \in holders
    /\ call[t] = NoCall
    /\ holders' = holders \ {t}
    /\ UNCHANGED <<state, channel, ioVars, peer, sockErr, revents, q, call,
                   sends, raced, lifeVars>>

(* Mutants: connectDestroyed() is run at once, or not at all. *)
QueueDestroyed_AtOnce == q' = <<Functor("destroyed")>> \o q
QueueDestroyed_Never == UNCHANGED q
QueueDestroyed == q' = Append(q, Functor("destroyed"))

(* The server: removeConnecitonInLoop() for a closed connection, or the    *)
(* destructor for one that still is in connections_, on another thread ... *)
ServerRemoves ==
    /\ removals > 0
    /\ removals' = removals - 1
    /\ inServer' = FALSE
    /\ QueueDestroyed
    /\ UNCHANGED <<state, channel, ioVars, peer, sockErr, revents, callVars,
                   sends, downs, overtaken>>

ServerDestroyed ==
    /\ inServer
    /\ inServer' = FALSE
    /\ q' = Append(q, Functor("destroyed"))
    /\ UNCHANGED <<state, channel, ioVars, peer, sockErr, revents, callVars,
                   sends, downs, removals, overtaken>>

(* ... or on the loop's: in a functor or the callback of another channel,  *)
(* or when loop() has returned.                                            *)
ServerDestroyedInLoop ==
    /\ Idle
    /\ DestroyedAtOnce
    /\ UNCHANGED <<ioVars, peer, sockErr, revents, q, callVars, sends>>

PeerCloses ==
    /\ peer = "open" /\ ~Freed
    /\ peer' = "closed"
    /\ UNCHANGED <<state, channel, ioVars, sockErr, revents, q, callVars,
                   sends, lifeVars>>

PeerResets ==
    /\ peer # "reset" /\ ~Freed
    /\ peer' = "reset"
    /\ sockErr' = TRUE
    /\ UNCHANGED <<state, channel, ioVars, revents, q, callVars, sends, lifeVars>>

-----------------------------------------------------------------------------
CallerStep(t) == QueueSend(t) \/ SetDisconnecting(t) \/ QueueShutdown(t)

Next ==
    \/ \E data, space \in BOOLEAN : Poll(data, space)
    \/ Event
    \/ RunFunctor
    \/ \E t \in Callers : BeginCall(t) \/ CallerStep(t) \/ Drop(t)
    \/ ServerRemoves \/ ServerDestroyed \/ ServerDestroyedInLoop
    \/ PeerCloses \/ PeerResets

Spec == Init /\ [][Next]_vars

(* The loop runs its functors in every turn and polls in every turn, the   *)
(* peer goes on reading so that there is room again, callers finish their  *)
(* calls, the server acts on a removal.                                    *)
Fairness ==
    /\ WF_vars(Event)
    /\ SF_vars(RunFunctor)
    /\ SF_vars(\E data \in BOOLEAN : Poll(data, TRUE))
    /\ \A t \in Callers : WF_vars(CallerStep(t))
    /\ WF_vars(ServerRemoves)

FairSpec == Spec /\ Fairness

-----------------------------------------------------------------------------
Bytes == (1 .. MaxSends) \X (1 .. MsgLen)

Functors ==
    [op : {"established", "destroyed", "send", "shutdown", "writeComplete",
           "highWater"},
     k : 0 .. MaxSends, late : BOOLEAN]

(* Types: the state of the connection, its channel, queues and counters;   *)
(* what is queued or about to be queued for sending is a message.          *)
TypeOK ==
    /\ state \in {"kConnecting", "kConnected", "kDisconnecting", "kDisconnected"}
    /\ q \in Seq(Functors)
    /\ \A i \in DOMAIN q : q[i].op = "send" => q[i].k # 0
    /\ call \in [Callers -> [step : {"none", "send", "set", "push"},
                            k : 0 .. MaxSends]]
    /\ \A t \in Callers : call[t].step = "send" => call[t].k # 0
    /\ channel \in Channel
    /\ out \in Seq(Bytes) /\ wire \in Seq(Bytes) /\ accepted \in Seq(Bytes)
    /\ finSent \in BOOLEAN /\ sockErr \in BOOLEAN /\ raced \in BOOLEAN
    /\ overtaken \in BOOLEAN
    /\ peer \in {"open", "closed", "reset"}
    /\ revents \subseteq {"HUP", "ERR", "IN", "OUT"}
    /\ holders \subseteq Callers
    /\ sends \in 0 .. MaxSends
    /\ downs \in Nat /\ removals \in Nat /\ inServer \in BOOLEAN

(* Whatever the partial writes were, the kernel has the first bytes of     *)
(* what sendInLoop() accepted and outputBuffer_ holds exactly the rest: no *)
(* byte is lost, doubled or out of order.                                  *)
StreamIntact == wire \o out = accepted

(* Until the connection ends, EPOLLOUT is asked for exactly while bytes    *)
(* wait: with bytes and no interest they would never go out, with interest *)
(* and no bytes the loop would spin.                                       *)
WriteInterest ==
    downs = 0 /\ inServer => (IsWriting(channel) <=> out # << >>)

(* The half close of shutdown() does not cut off bytes that were accepted. *)
FinAfterData == finSent /\ downs = 0 /\ inServer => out = << >>

(* The poller, its map and the kernel agree at all times, no epoll_ctl()   *)
(* fails fatally, and nothing is registered for a connection that is gone. *)
(* Left out are the two ways in which a connection that is gone is not     *)
(* kDisconnected, so that a send() still queued may have registered it     *)
(* again: connectDestroyed() leaves kDisconnecting as it is, and           *)
(* shutdown() overwrites the state of a closed connection.                 *)
NoDanglingChannel ==
    /\ Agrees(channel)
    /\ Freed /\ state = "kDisconnected" => ~channel.registered /\ ~channel.inMap

(* The user is told of the end at most once, unless shutdown() overwrote   *)
(* the state of a closed connection.                                       *)
OneDown == ~raced => downs <= 1

(* A functor bound to a plain this that was queued before the connection   *)
(* ended still finds the connection alive: connectDestroyed() is behind it *)
(* in the queue.  The exception is a server destroyed on the thread of the *)
(* loop: connectDestroyed() is then ahead of the send() and shutdown() of  *)
(* other threads, which run on a connection that may be freed.             *)
RawFunctorsAlive == Freed /\ ~overtaken => \A i \in DOMAIN q : q[i].late

(* What is buffered goes out, unless the connection ends. *)
Flushed == (out # << >>) ~> (out = << >> \/ downs > 0 \/ ~inServer)

(* shutdown() closes the writing half once the bytes are out, unless the   *)
(* connection ends.                                                        *)
ShutdownCompletes ==
    (state = "kDisconnecting") ~> (finSent \/ downs > 0 \/ ~inServer)

(* A connection whose peer has gone, whatever its state was, leaves the    *)
(* server and the poller, or is freed.                                     *)
ClosedIsDestroyed ==
    (peer # "open") ~> (raced \/ Freed \/ (~inServer /\ ~channel.inMap))
=============================================================================
