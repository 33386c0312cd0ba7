------------------------------ MODULE TcpServer ------------------------------
(***************************************************************************)
(* A TcpServer (TcpServer.cpp) with its Acceptor, its EventLoopThreadPool  *)
(* and its connections: who owns a connection, on which loop each step of  *)
(* its life runs, and in which order the steps arrive there.               *)
(*                                                                         *)
(* Loop 0 is the base loop, 1 .. numThreads are the sub-loops, each a      *)
(* thread.  A loop polls, dispatches the channels that epoll_wait()        *)
(* returned as plain pointers, swaps its functor queue and runs the batch. *)
(* Sending is left to TcpConnection.tla; of the user's calls shutdown() in *)
(* messageCallback_ is kept.  When the base loop has ended the main thread *)
(* destroys the server.                                                    *)
(***************************************************************************)
EXTENDS Naturals, Sequences, FiniteSets, Poller

CONSTANTS
    MaxConns,    \* bound on the connections accepted
    MaxThreads   \* bound on setThreadNum()

ASSUME BoundsAssumption == MaxConns \in Nat /\ MaxThreads \in Nat

Conns == 1 .. MaxConns     \* named by nextConnId_
Loops == 0 .. MaxThreads
Acc == 0                   \* acceptChannel_, among the channels of loop 0

VARIABLES
    numThreads,   \* numThreads_
    started,      \* started_ > 0
    next,         \* next_
    accepted,     \* connections accepted so far
    connections,  \* connections_
    loopOf,       \* the loop_ of each connection
    state,        \* the state_ of each connection
    channel,      \* the channel of each connection, and of the acceptor
    gone,         \* connections whose peer has closed
    phase,        \* of each loop: "poll", "dispatch", "functors", "exited"
    active,       \* activateChannels_ of each loop, not yet dispatched
    batch,        \* the functors a loop is running
    q,            \* pendingFunctors_ of each loop
    quit,         \* quit_ of each loop
    ups, downs,   \* connectionCallback_ calls for each connection
    server        \* "alive", "destroying", "joining", "gone"

vars == <<numThreads, started, next, accepted, connections, loopOf, state,
          channel, gone, phase, active, batch, q, quit, ups, downs, server>>

poolVars == <<numThreads, started, next>>
loopVars == <<phase, active, batch, quit>>

Init ==
    /\ numThreads \in 0 .. MaxThreads
    /\ started = FALSE
    /\ next = 0
    /\ accepted = 0
    /\ connections = {}
    /\ loopOf = [c \in Conns |-> 0]
    /\ state = [c \in Conns |-> "kConnecting"]
    /\ channel = [c \in Conns \cup {Acc} |-> NewChannel]
    /\ gone = {}
    /\ phase = [l \in Loops |-> "poll"]
    /\ active = [l \in Loops |-> {}]
    /\ batch = [l \in Loops |-> << >>]
    /\ q = [l \in Loops |-> << >>]
    /\ quit = [l \in Loops |-> FALSE]
    /\ ups = [c \in Conns |-> 0]
    /\ downs = [c \in Conns |-> 0]
    /\ server = "alive"

Functor(op, c) == [op |-> op, c |-> c]

Queue(l, f) == [q EXCEPT ![l] = Append(@, f)]  \* queueInLoop()

Mentions(fs, c) == \E i \in DOMAIN fs : fs[i].c = c

(* The last TcpConnectionPtr to c is gone: none in connections_ and none   *)
(* in a functor.                                                           *)
Freed(c) ==
    /\ c <= accepted
    /\ c \notin connections
    /\ \A l \in Loops : ~Mentions(q[l], c) /\ ~Mentions(batch[l], c)

-----------------------------------------------------------------------------
(* Steps of a connection, run on its loop *)

ConnectEstablished(c) ==
    /\ state' = [state EXCEPT ![c] = "kConnected"]
    /\ channel' = [channel EXCEPT ![c] = EnableReading(@)]
    /\ ups' = [ups EXCEPT ![c] = @ + 1]

(* Mutants: the channel is left in the poller; state_ is not tested. *)
ConnectDestroyed_NoRemove(c) ==
    IF state[c] = "kConnected"
      THEN /\ state' = [state EXCEPT ![c] = "kDisconnected"]
           /\ channel' = [channel EXCEPT ![c] = DisableAll(@)]
           /\ downs' = [downs EXCEPT ![c] = @ + 1]
      ELSE UNCHANGED <<state, channel, downs>>

ConnectDestroyed_Always(c) ==
    /\ state' = [state EXCEPT ![c] = "kDisconnected"]
    /\ channel' = [channel EXCEPT ![c] = RemoveChannel(DisableAll(@))]
    /\ downs' = [downs EXCEPT ![c] = @ + 1]

ConnectDestroyed(c) ==
    IF state[c] = "kConnected"
      THEN /\ state' = [state EXCEPT ![c] = "kDisconnected"]
           /\ channel' = [channel EXCEPT ![c] = RemoveChannel(DisableAll(@))]
           /\ downs' = [downs EXCEPT ![c] = @ + 1]
      ELSE /\ channel' = [channel EXCEPT ![c] = RemoveChannel(@)]
           /\ UNCHANGED <<state, downs>>

RemoveConnectionInLoop(c) ==
    /\ connections' = connections \ {c}
    /\ q' = Queue(loopOf[c], Functor("destroyed", c))

(* Mutant: closeCallback_ is not called. *)
RemoveConnection_Skip(c, l) == UNCHANGED <<q, connections>>

(* removeConnection() goes through the base loop: at once if this is it. *)
RemoveConnection(c, l) ==
    IF l = 0 THEN RemoveConnectionInLoop(c)
             ELSE q' = Queue(0, Functor("remove", c)) /\ UNCHANGED connections

HandleClose(c, l) ==
    /\ state' = [state EXCEPT ![c] = "kDisconnected"]
    /\ channel' = [channel EXCEPT ![c] = DisableAll(@)]
    /\ downs' = [downs EXCEPT ![c] = @ + 1]
    /\ RemoveConnection(c, l)

-----------------------------------------------------------------------------
(* The server on the base loop *)

PoolStart == started' = TRUE  \* the sub-loops run from here on
Listen == channel' = [channel EXCEPT ![Acc] = EnableReading(@)]

Start ==
    /\ ~started /\ server = "alive"
    /\ PoolStart
    /\ Listen
    /\ UNCHANGED <<numThreads, next, accepted, connections, loopOf, state, gone,
                   loopVars, q, ups, downs, server>>

Advance(n) == IF n + 1 >= numThreads THEN 0 ELSE n + 1

(* Round robin over the sub-loops, or the base loop *)
GetNextLoop(c) ==
    IF numThreads = 0 THEN loopOf' = [loopOf EXCEPT ![c] = 0] /\ UNCHANGED next
                      ELSE loopOf' = [loopOf EXCEPT ![c] = next + 1] /\ next' = Advance(next)

NewConnection(c) ==
    /\ GetNextLoop(c)
    /\ connections' = connections \cup {c}
    /\ IF loopOf'[c] = 0
         THEN ConnectEstablished(c) /\ UNCHANGED q
         ELSE /\ q' = Queue(loopOf'[c], Functor("established", c))
              /\ UNCHANGED <<state, channel, ups>>

-----------------------------------------------------------------------------
(* The loops *)

Registered(l) ==
    {c \in Conns : loopOf[c] = l /\ channel[c].registered}
    \cup (IF l = 0 /\ channel[Acc].registered THEN {Acc} ELSE {})

MustReport(l) == Registered(l) \cap gone

(* poll() returns with ready channels, or because the loop was woken up. *)
Poll(l) ==
    /\ l <= numThreads
    /\ phase[l] = "poll"
    /\ l = 0 \/ started
    /\ \E more \in SUBSET Registered(l) :
          /\ active' = [active EXCEPT ![l] = MustReport(l) \cup more]
          /\ MustReport(l) \cup more # {} \/ q[l] # << >> \/ quit[l]
    /\ phase' = [phase EXCEPT ![l] = "dispatch"]
    /\ UNCHANGED <<poolVars, accepted, connections, loopOf, state, channel,
                   gone, batch, q, quit, ups, downs, server>>

Accept ==  \* Acceptor::handleRead()
    /\ Acc \in active[0]
    /\ active' = [active EXCEPT ![0] = @ \ {Acc}]
    /\ \/ /\ accepted < MaxConns
          /\ accepted' = accepted + 1
          /\ NewConnection(accepted + 1)
       \/ \* accept() fails, for want of descriptors or because nobody is there
          UNCHANGED <<next, accepted, connections, loopOf, state, channel, q, ups>>
    /\ UNCHANGED <<numThreads, started, gone, phase, batch, quit, downs, server>>

HandleEvent(l, c) ==
    /\ c \in active[l] \ {Acc}
    /\ active' = [active EXCEPT ![l] = @ \ {c}]
    /\ \/ c \in gone /\ HandleClose(c, l)
       \/ /\ c \notin gone  \* messageCallback_, which may call shutdown()
          /\ \/ UNCHANGED state
             \/ /\ state[c] = "kConnected"
                /\ state' = [state EXCEPT ![c] = "kDisconnecting"]
          /\ UNCHANGED <<channel, downs, connections, q>>
    /\ UNCHANGED <<poolVars, accepted, loopOf, gone, phase, batch, quit, ups,
                   server>>

SwapFunctors(l) ==
    /\ phase[l] = "dispatch"
    /\ active[l] = {}
    /\ batch' = [batch EXCEPT ![l] = q[l]]
    /\ q' = [q EXCEPT ![l] = << >>]
    /\ phase' = [phase EXCEPT ![l] = "functors"]
    /\ UNCHANGED <<poolVars, accepted, connections, loopOf, state, channel,
                   gone, active, quit, ups, downs, server>>

RunFunctor(l) ==
    /\ batch[l] # << >>
    /\ batch' = [batch EXCEPT ![l] = Tail(@)]
    /\ LET f == Head(batch[l]) IN
         \/ /\ f.op = "established"
            /\ ConnectEstablished(f.c)
            /\ UNCHANGED <<connections, q, downs>>
         \/ /\ f.op = "destroyed"
            /\ ConnectDestroyed(f.c)
            /\ UNCHANGED <<connections, q, ups>>
         \/ /\ f.op = "remove"
            /\ RemoveConnectionInLoop(f.c)
            /\ UNCHANGED <<state, channel, ups, downs>>
    /\ UNCHANGED <<poolVars, accepted, loopOf, gone, phase, active, quit, server>>

(* The end of a turn.  A loop that quits runs no further functors; that of *)
(* a sub-loop is destroyed with what is left in its queue.                 *)
EndTurn(l) ==
    /\ phase[l] = "functors"
    /\ batch[l] = << >>
    /\ phase' = [phase EXCEPT ![l] = IF quit[l] THEN "exited" ELSE "poll"]
    /\ q' = IF quit[l] /\ l # 0 THEN [q EXCEPT ![l] = << >>] ELSE q
    /\ UNCHANGED <<poolVars, accepted, connections, loopOf, state, channel,
                   gone, active, batch, quit, ups, downs, server>>

-----------------------------------------------------------------------------
(* The end: the base loop is told to quit, then ~TcpServer() runs on its   *)
(* thread; the members go after the body, threadPool_ before acceptor_.    *)

QuitBase ==
    /\ ~quit[0]
    /\ quit' = [quit EXCEPT ![0] = TRUE]
    /\ UNCHANGED <<poolVars, accepted, connections, loopOf, state, channel,
                   gone, phase, active, batch, q, ups, downs, server>>

DestroyServer ==
    /\ server = "alive"
    /\ phase[0] = "exited"
    /\ server' = "destroying"
    /\ UNCHANGED <<poolVars, accepted, connections, loopOf, state, channel,
                   gone, loopVars, q, ups, downs>>

(* Mutant: connectDestroyed() is called on the thread of the destructor. *)
RunDestroyed_Here(c) == ConnectDestroyed(c) /\ UNCHANGED q

RunDestroyed(c) ==  \* runInLoop(connectDestroyed)
    IF loopOf[c] = 0
      THEN ConnectDestroyed(c) /\ UNCHANGED q
      ELSE /\ q' = Queue(loopOf[c], Functor("destroyed", c))
           /\ UNCHANGED <<state, channel, downs>>

DestroyConnection(c) ==  \* for each connection in turn
    /\ server = "destroying"
    /\ c \in connections
    /\ connections' = connections \ {c}
    /\ RunDestroyed(c)
    /\ UNCHANGED <<poolVars, accepted, loopOf, gone, loopVars, ups, server>>

DestroyPool ==
    /\ server = "destroying"
    /\ connections = {}
    /\ server' = "joining"
    /\ UNCHANGED <<poolVars, accepted, connections, loopOf, state, channel,
                   gone, loopVars, q, ups, downs>>

QuitLoop(l) ==  \* ~EventLoopThread(), one after the other
    /\ server = "joining"
    /\ started
    /\ l \in 1 .. numThreads
    /\ ~quit[l]
    /\ \A k \in 1 .. l - 1 : phase[k] = "exited"
    /\ quit' = [quit EXCEPT ![l] = TRUE]
    /\ UNCHANGED <<poolVars, accepted, connections, loopOf, state, channel,
                   gone, phase, active, batch, q, ups, downs, server>>

DestroyAcceptor ==  \* acceptChannel_ disableAll() and remove()
    /\ server = "joining"
    /\ started => \A l \in 1 .. numThreads : phase[l] = "exited"
    /\ channel' = [channel EXCEPT ![Acc] = RemoveChannel(DisableAll(@))]
    /\ server' = "gone"
    /\ UNCHANGED <<poolVars, accepted, connections, loopOf, state, gone,
                   loopVars, q, ups, downs>>

PeerCloses(c) ==
    /\ c <= accepted
    /\ c \notin gone
    /\ gone' = gone \cup {c}
    /\ UNCHANGED <<poolVars, accepted, connections, loopOf, state, channel,
                   loopVars, q, ups, downs, server>>

-----------------------------------------------------------------------------
LoopStep(l) ==
    \/ Poll(l)
    \/ l = 0 /\ Accept
    \/ \E c \in Conns : HandleEvent(l, c)
    \/ SwapFunctors(l)
    \/ RunFunctor(l)
    \/ EndTurn(l)

MainStep ==
    \/ DestroyServer
    \/ \E c \in Conns : DestroyConnection(c)
    \/ DestroyPool
    \/ \E l \in Loops : QuitLoop(l)
    \/ DestroyAcceptor

Next ==
    \/ Start
    \/ \E l \in Loops : LoopStep(l)
    \/ QuitBase
    \/ MainStep
    \/ \E c \in Conns : PeerCloses(c)

Spec == Init /\ [][Next]_vars

(* Every loop thread and the main thread keep running. *)
FairSpec ==
    /\ Spec
    /\ \A l \in Loops : WF_vars(LoopStep(l))
    /\ WF_vars(MainStep)

-----------------------------------------------------------------------------
(* Types; round robin stays inside the pool, and a connection is assigned  *)
(* to a loop that exists.                                                  *)
TypeOK ==
    /\ numThreads \in 0 .. MaxThreads
    /\ started \in BOOLEAN
    /\ next \in 0 .. MaxThreads
    /\ numThreads > 0 => next < numThreads
    /\ accepted \in 0 .. MaxConns
    /\ connections \subseteq 1 .. accepted
    /\ loopOf \in [Conns -> 0 .. numThreads]
    /\ state \in [Conns -> {"kConnecting", "kConnected", "kDisconnecting",
                            "kDisconnected"}]
    /\ channel \in [Conns \cup {Acc} -> Channel]
    /\ gone \subseteq 1 .. accepted
    /\ phase \in [Loops -> {"poll", "dispatch", "functors", "exited"}]
    /\ active \in [Loops -> SUBSET (Conns \cup {Acc})]
    /\ quit \in [Loops -> BOOLEAN]
    /\ server \in {"alive", "destroying", "joining", "gone"}

(* epoll_wait() returns plain Channel pointers.  None of those a loop has  *)
(* still to dispatch belongs to a connection that was freed meanwhile,     *)
(* although the base loop and the destructor drop connections that other   *)
(* loops are busy with.                                                    *)
ActiveAlive == \A l \in Loops : \A c \in active[l] \ {Acc} : ~Freed(c)

(* A connection is freed only after its channel has left the poller of its *)
(* loop, and the poller agrees with the kernel all along; only a sub-loop  *)
(* that has ended may leave the removal undone.                            *)
RemovedBeforeFreed ==
    /\ \A c \in Conns \cup {Acc} : Agrees(channel[c])
    /\ \A c \in Conns :
          Freed(c) /\ (loopOf[c] = 0 \/ phase[loopOf[c]] # "exited")
              => ~channel[c].registered /\ ~channel[c].inMap

(* connectionCallback_ reports the start of a connection once and its end  *)
(* at most once and afterwards, and before the connection is freed; a      *)
(* connection that the destructor finds in kDisconnecting, or whose loop   *)
(* has ended, gets no report of its end.                                   *)
UpThenDown ==
    \A c \in Conns :
        /\ downs[c] <= ups[c] /\ ups[c] <= 1
        /\ Freed(c) => \/ downs[c] = ups[c]
                       \/ state[c] = "kDisconnecting"
                       \/ loopOf[c] # 0 /\ phase[loopOf[c]] = "exited"

(* A connection whose peer has closed is removed and freed, through the    *)
(* hop to the base loop and back, while the base loop runs.                *)
Reclaimed == \A c \in Conns : (c \in gone) ~> (Freed(c) \/ quit[0])
=============================================================================
