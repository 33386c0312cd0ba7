------------------------------ MODULE TcpClient ------------------------------
(***************************************************************************)
(* A TcpClient (TcpClient.cpp) and its Connector (Connector.cpp) on one    *)
(* loop, with another thread that calls connect(), disconnect() and        *)
(* stop().  A socket is named by the number of the attempt that made it.   *)
(*                                                                         *)
(* EventLoop never constructs its TimerQueue: runAfter(), and with it a    *)
(* retry, dereferences a null pointer and ends the process.                *)
(*                                                                         *)
(* What the application does is up to the module that extends this one:    *)
(* when it calls connect(), and what its callbacks do in the steps "up",   *)
(* between setState(kConnected) and the end of the connection callback,    *)
(* and "down", between setState(kDisconnected) and closeCallback_().  The  *)
(* destructor is left out, and of a TcpConnection all but its state_.      *)
(***************************************************************************)
EXTENDS Naturals, Sequences

CONSTANTS
    MaxAttempts,  \* bound on the calls of Connector::connect()
    MaxCalls      \* bound on the calls of disconnect() and stop()

ASSUME BoundsAssumption == MaxAttempts \in Nat /\ MaxCalls \in Nat

Socks == 1 .. MaxAttempts
None == 0

VARIABLES
    retry,       \* retry_ of the TcpClient
    wanted,      \* connect_ of the TcpClient
    connect,     \* connect_ of the Connector
    state,       \* state_ of the Connector
    channel,     \* channel_ of the Connector: the socket it is for, or None
    registered,  \* the sockets of the Connector's channels in the poller
    connection,  \* connection_: the socket of it, or None
    life,        \* of each socket: "none", "connecting", "refused" (closed, to
                 \* be retried), "closed"; of a TcpConnection: "up" (kConnected),
                 \* "shut" (kDisconnecting), "down" (kDisconnected), "destroyed"
                 \* (open still: its closeCallback_ keeps the TcpConnection)
    attempts,    \* sockets made so far
    q, batch,    \* pendingFunctors_, and the functors being run
    phase,       \* of the loop: "poll", "up", "down", "restart", "handled",
                 \* "functors", "crashed"
    current,     \* the connection whose handler is running, or None
    calls,       \* calls made by the other thread
    call,        \* "none", or where it is in TcpClient::stop(): "stop", "queue"
    stopped      \* a stop() has returned and no connect() has come since

vars == <<retry, wanted, connect, state, channel, registered, connection, life,
          attempts, q, batch, phase, current, calls, call, stopped>>

Init ==
    /\ retry \in BOOLEAN
    /\ wanted = TRUE
    /\ connect = FALSE
    /\ state = "kDisconnected"
    /\ channel = None
    /\ registered = {}
    /\ connection = None
    /\ life = [s \in Socks |-> "none"]
    /\ attempts = 0
    /\ q = << >>
    /\ batch = << >>
    /\ phase = "poll"
    /\ current = None
    /\ calls = 0
    /\ call = "none"
    /\ stopped = FALSE

Functor(op, s) == [op |-> op, s |-> s]
Queued(op) ==
    \/ \E i \in DOMAIN q : q[i].op = op
    \/ \E i \in DOMAIN batch : batch[i].op = op

-----------------------------------------------------------------------------
(* The other thread *)

loopSide == <<retry, state, channel, registered, connection, attempts, batch, phase, current>>

MayCall == phase # "crashed" /\ call = "none" /\ calls < MaxCalls /\ calls' = calls + 1

(* runInLoop() would run startInLoop() at once on the loop's own thread.   *)
(* The callers here are other threads, and the functor of a call made      *)
(* before loop() is the first of the queue.                                *)
ConnectorStart ==
    /\ connect' = TRUE
    /\ q' = Append(q, Functor("startInLoop", None))

Connect ==
    /\ wanted' = TRUE
    /\ ConnectorStart
    /\ stopped' = FALSE
    /\ UNCHANGED <<loopSide, life, call>>

(* TcpConnection::shutdown() *)
Shutdown(s) == life' = IF s # None /\ life[s] = "up" THEN [life EXCEPT ![s] = "shut"] ELSE life

(* The peer answers the FIN by closing: HandleClose may follow. *)
Disconnect ==
    /\ MayCall
    /\ wanted' = FALSE
    /\ Shutdown(connection)
    /\ UNCHANGED <<loopSide, connect, q, call, stopped>>

Stop ==
    /\ MayCall
    /\ wanted' = FALSE
    /\ call' = "stop"
    /\ UNCHANGED <<loopSide, life, connect, q, stopped>>

ConnectorStop ==
    /\ call = "stop" /\ phase # "crashed"
    /\ call' = "queue"
    /\ connect' = FALSE
    /\ UNCHANGED <<loopSide, life, wanted, q, calls, stopped>>

QueueStop ==
    /\ call = "queue" /\ phase # "crashed"
    /\ call' = "none"
    /\ q' = Append(q, Functor("stopInLoop", None))
    /\ stopped' = TRUE
    /\ UNCHANGED <<loopSide, life, wanted, connect, calls>>

-----------------------------------------------------------------------------
(* Connector, on the loop thread *)

callerSide == <<retry, wanted, calls, call, stopped>>

(* retry(sockfd): runAfter() when it is wanted still. *)
Retry(s, then) ==
    /\ state' = "kDisconnected"
    /\ life' = [life EXCEPT ![s] = IF connect' THEN "refused" ELSE "closed"]
    /\ phase' = IF connect' THEN "crashed" ELSE then

Connecting(s, then) ==
    /\ state' = "kConnecting"
    /\ channel' = s
    /\ registered' = registered \cup {s}
    /\ life' = [life EXCEPT ![s] = "connecting"]
    /\ phase' = then

(* connect(): the system call may be under way or done, be refused, or fail *)
(* for good; restart() has set the state to kDisconnected before.          *)
DoConnect(then) ==
    /\ attempts < MaxAttempts
    /\ attempts' = attempts + 1
    /\ \/ Connecting(attempts', then)
       \/ Retry(attempts', then) /\ UNCHANGED <<channel, registered>>
       \/ /\ life' = [life EXCEPT ![attempts'] = "closed"]
          /\ state' = IF phase = "restart" THEN "kDisconnected" ELSE state
          /\ phase' = then
          /\ UNCHANGED <<channel, registered>>

StartInLoop(then) ==
    IF connect' THEN DoConnect(then)
                ELSE phase' = then /\ UNCHANGED <<state, channel, registered, life, attempts>>

RemoveAndResetChannel ==
    /\ registered' = registered \ {channel}
    /\ q' = Append(q, Functor("resetChannel", None))

(* handleError(), or handleWrite() with an error or a self-connection *)
ConnectFails ==
    /\ phase = "poll"
    /\ registered # {} /\ state = "kConnecting"
    /\ UNCHANGED connect
    /\ RemoveAndResetChannel
    /\ Retry(channel, "handled")
    /\ UNCHANGED <<channel, connection, attempts, batch, current, callerSide>>

(* TcpClient::newConnection() and connectEstablished() up to its callback *)
NewConnection(s) ==
    /\ connection' = s
    /\ life' = [life EXCEPT ![s] = "up"]
    /\ current' = s
    /\ phase' = "up"

(* Established: the socket is closed when it is not wanted any more. *)
HandleWrite ==
    /\ phase = "poll"
    /\ registered # {} /\ state = "kConnecting"
    /\ RemoveAndResetChannel
    /\ state' = "kConnected"
    /\ IF connect
         THEN NewConnection(channel)
         ELSE /\ life' = [life EXCEPT ![channel] = "closed"]
              /\ phase' = "handled"
              /\ UNCHANGED <<connection, current>>
    /\ UNCHANGED <<connect, channel, attempts, batch, callerSide>>

(* The connection callback returns from connectEstablished(). *)
UpDone ==
    /\ phase = "up"
    /\ phase' = "handled"
    /\ current' = None
    /\ UNCHANGED <<connect, state, channel, registered, connection, life, attempts,
                   q, batch, callerSide>>

(* Mutant: the test forgets that the connection may not be wanted. *)
MustRestart_Retry == retry

MustRestart == retry /\ wanted

(* The connection ends: TcpConnection::handleClose() up to its callbacks, *)
HandleClose(s) ==
    /\ phase = "poll"
    /\ life[s] \in {"up", "shut"}
    /\ life' = [life EXCEPT ![s] = "down"]
    /\ current' = s
    /\ phase' = "down"
    /\ UNCHANGED <<connect, state, channel, registered, connection, attempts, q, batch,
                   callerSide>>

(* TcpClient::removeConnection(), which resets whatever connection_ holds, *)
(* up to its test of retry_ and connect_ ...                               *)
RemoveConnection ==
    /\ phase = "down"
    /\ connection' = None
    /\ q' = Append(q, Functor("connectDestroyed", current))
    /\ current' = None
    /\ phase' = IF MustRestart THEN "restart" ELSE "handled"
    /\ UNCHANGED <<connect, state, channel, registered, life, attempts, batch, callerSide>>

(* ... and restart(): it is wanted again whatever stop() stored meanwhile. *)
Restart ==
    /\ phase = "restart"
    /\ connect' = TRUE
    /\ StartInLoop("handled")
    /\ UNCHANGED <<connection, q, batch, current, callerSide>>

BeginFunctors ==
    /\ phase = "handled" \/ (phase = "poll" /\ q # << >>)
    /\ batch' = q
    /\ q' = << >>
    /\ phase' = "functors"
    /\ UNCHANGED <<connect, state, channel, registered, connection, life, attempts,
                   current, callerSide>>

EndFunctors ==
    /\ phase = "functors"
    /\ batch = << >>
    /\ phase' = "poll"
    /\ UNCHANGED <<connect, state, channel, registered, connection, life, attempts,
                   q, batch, current, callerSide>>

Run(op) ==
    /\ phase = "functors"
    /\ batch # << >>
    /\ Head(batch).op = op
    /\ batch' = Tail(batch)
    /\ UNCHANGED <<connect, connection, current, callerSide>>

RunStart ==
    /\ Run("startInLoop")
    /\ StartInLoop("functors")
    /\ UNCHANGED q

StopInLoop ==
    /\ Run("stopInLoop")
    /\ IF state = "kConnecting"
         THEN RemoveAndResetChannel /\ Retry(channel, "functors")
         ELSE UNCHANGED <<registered, q, life, state, phase>>
    /\ UNCHANGED <<channel, attempts>>

ResetChannel ==
    /\ Run("resetChannel")
    /\ channel' = None
    /\ UNCHANGED <<state, registered, life, attempts, q, phase>>

(* TcpConnection::connectDestroyed(): the channel leaves the poller. *)
ConnectDestroyed ==
    /\ Run("connectDestroyed")
    /\ life' = [life EXCEPT ![Head(batch).s] = "destroyed"]
    /\ UNCHANGED <<state, channel, registered, attempts, q, phase>>

Attempt == ConnectFails \/ HandleWrite

LoopNext ==
    \/ Restart \/ BeginFunctors \/ EndFunctors
    \/ RunStart \/ StopInLoop \/ ResetChannel \/ ConnectDestroyed

CallerNext == Disconnect \/ Stop \/ ConnectorStop \/ QueueStop

-----------------------------------------------------------------------------
(* Properties *)

(* The deferred resetChannel() never destroys a channel that the poller    *)
(* still points to: what is registered is exactly the channel of the       *)
(* attempt under way, whatever stop(), failures and restarts came between  *)
(* removeAndResetChannel() and its functor.                                *)
ChannelRegistered ==
    registered = IF state = "kConnecting" THEN {channel} \ {None} ELSE {}

(* Once the stopInLoop() of a stop() has run, no socket is made and no     *)
(* connection reported before the next connect().  With the attempt of a   *)
(* restart() that overrode it under way, this is true only because the     *)
(* process ends: connect_ is set again, so the retry() of stopInLoop()     *)
(* goes for timerQueue_, which is null (phase "crashed").                  *)
StopIsFinal ==
    [][stopped /\ stopped' /\ ~Queued("stopInLoop") =>
         attempts' = attempts /\ connection' \in {None, connection}]_vars
=============================================================================
