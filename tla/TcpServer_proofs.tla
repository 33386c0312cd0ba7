--------------------------- MODULE TcpServer_proofs ---------------------------
(***************************************************************************)
(* Proofs about TcpServer.tla, for any number of sub-loops and             *)
(* connections.                                                            *)
(*                                                                         *)
(* A connection passes through four stages, and a stage decides its state, *)
(* its channel and the reports of it.  The inductive invariant says which  *)
(* stage a connection is in, that somebody is left who will destroy it     *)
(* (connections_, a queued connectDestroyed(), or nobody because its       *)
(* sub-loop has ended), and what the functors waiting in a loop may be.    *)
(***************************************************************************)
EXTENDS TcpServer, SequenceTheorems, TLAPS

(* What the channel of a connection can be, besides new *)
Reading ==
    [events |-> {"IN"}, index |-> "kAdded", inMap |-> TRUE, registered |-> TRUE,
     interest |-> {"IN"}, fatal |-> FALSE]
Disabled ==
    [events |-> {}, index |-> "kDeleted", inMap |-> TRUE, registered |-> FALSE,
     interest |-> {}, fatal |-> FALSE]
Dropped ==
    [events |-> {"IN"}, index |-> "kNew", inMap |-> FALSE, registered |-> FALSE,
     interest |-> {}, fatal |-> FALSE]

-----------------------------------------------------------------------------
(* The inductive invariant *)

Ops == {"established", "destroyed", "remove"}
Functors == [op : Ops, c : Conns]

QueuesOK == batch \in [Loops -> Seq(Functors)] /\ q \in [Loops -> Seq(Functors)]

CountsOK == ups \in [Conns -> Nat] /\ downs \in [Conns -> Nat]

(* A loop dispatches and runs functors in these phases only, and the       *)
(* server is destroyed behind the base loop.                               *)
PhaseOK ==
    /\ \A l \in Loops : active[l] # {} => phase[l] = "dispatch"
    /\ \A l \in Loops : batch[l] # << >> => phase[l] = "functors"
    /\ server # "alive" => phase[0] = "exited"

(* The acceptor's channel is registered by start() and by nothing else. *)
AcceptorOK ==
    /\ channel[Acc] \in {NewChannel, Reading}
    /\ ~started => channel[Acc] = NewChannel

(* What waits in a loop, the batch b it runs and the queue s behind, in    *)
(* order: whether it has an operation on c, and that nothing about a       *)
(* connection is in front of its connectEstablished().                     *)
Waits(b, s, op, c) ==
    \E i \in 1 .. Len(b \o s) : (b \o s)[i].op = op /\ (b \o s)[i].c = c

EstablishedFirst(b, s) ==
    \A i, j \in 1 .. Len(b \o s) :
        (b \o s)[i].op = "established" /\ j < i => (b \o s)[j].c # (b \o s)[i].c

(* Where an operation on c may wait: on the loop of the connection, or on  *)
(* the base loop for one of a sub-loop.                                    *)
Rule(op, c, l) ==
    /\ c <= accepted
    /\ op = "remove" => l = 0 /\ loopOf[c] # 0
    /\ op = "destroyed" => l = loopOf[c]
    /\ op = "established" => l # 0 /\ l = loopOf[c] /\ state[c] = "kConnecting"

FunctorRules ==
    \A l \in Loops :
        /\ EstablishedFirst(batch[l], q[l])
        /\ \A op \in Ops, c \in Conns : Waits(batch[l], q[l], op, c) => Rule(op, c, l)

(* A channel that epoll_wait() has returned is registered until it is      *)
(* dispatched.                                                             *)
ActiveRules ==
    \A l \in Loops : \A c \in active[l] \ {Acc} :
        c <= accepted /\ loopOf[c] = l /\ channel[c] = Reading

(* The stages *)
Unborn(c) ==
    state[c] = "kConnecting" /\ channel[c] = NewChannel /\ ups[c] = 0 /\ downs[c] = 0
Up(c) ==
    /\ state[c] \in {"kConnected", "kDisconnecting"} /\ channel[c] = Reading
    /\ ups[c] = 1 /\ downs[c] = 0
Closed(c) ==
    state[c] = "kDisconnected" /\ channel[c] = Disabled /\ ups[c] = 1 /\ downs[c] = 1
Done(c) ==
    /\ ups[c] = 1
    /\ \/ state[c] = "kDisconnected" /\ channel[c] = NewChannel /\ downs[c] = 1
       \/ state[c] = "kDisconnecting" /\ channel[c] = Dropped /\ downs[c] = 0

Ended(c) == loopOf[c] # 0 /\ phase[loopOf[c]] = "exited"

(* Somebody will establish it, and somebody will destroy it. *)
Coming(c) == Waits(batch[loopOf[c]], q[loopOf[c]], "established", c) \/ Ended(c)
Kept(c) ==
    \/ c \in connections
    \/ Waits(batch[loopOf[c]], q[loopOf[c]], "destroyed", c)
    \/ Ended(c)

Stage(c) ==
    /\ c > accepted => Unborn(c)
    /\ c <= accepted => (Unborn(c) /\ Coming(c)) \/ Up(c) \/ Closed(c) \/ Done(c)
    /\ c <= accepted => Done(c) \/ Kept(c)

Stages == \A c \in Conns : Stage(c)

IInv ==
    /\ TypeOK /\ QueuesOK /\ CountsOK /\ PhaseOK /\ AcceptorOK
    /\ FunctorRules /\ ActiveRules /\ Stages

-----------------------------------------------------------------------------
(* The functors that wait in a loop *)

(* queueInLoop() adds one behind the others. *)
Grown(b, s, f, t) ==
    /\ t \in Seq(Functors)
    /\ \A op, c : Waits(b, t, op, c) <=> Waits(b, s, op, c) \/ (op = f.op /\ c = f.c)
    /\ /\ EstablishedFirst(b, s)
       /\ f.op # "established" \/ \A op \in Ops : ~Waits(b, s, op, f.c)
       => EstablishedFirst(b, t)

LEMMA Push ==
    ASSUME NEW b \in Seq(Functors), NEW s \in Seq(Functors), NEW f \in Functors,
           NEW t, t = Append(s, f)
    PROVE  Grown(b, s, f, t)
<1> DEFINE u == b \o s
           v == b \o t
<1>1. u \in Seq(Functors) /\ t \in Seq(Functors) /\ v \in Seq(Functors)
  OBVIOUS
<1>2. Len(v) = Len(u) + 1 /\ v[Len(v)] = f /\ \A i \in 1 .. Len(u) : v[i] = u[i]
  OBVIOUS
<1>3. \A i \in 1 .. Len(u) : u[i] \in Functors
  BY <1>1
<1>4. Len(u) \in Nat
  BY <1>1
<1>5. \A op, c : Waits(b, s, op, c) <=> \E i \in 1 .. Len(u) : u[i].op = op /\ u[i].c = c
  BY DEF Waits
<1>6. \A op, c : Waits(b, t, op, c) <=> \E i \in 1 .. Len(v) : v[i].op = op /\ v[i].c = c
  BY DEF Waits
<1>7. EstablishedFirst(b, s) <=> \A i, j \in 1 .. Len(u) :
          u[i].op = "established" /\ j < i => u[j].c # u[i].c
  BY DEF EstablishedFirst
<1>8. EstablishedFirst(b, t) <=> \A i, j \in 1 .. Len(v) :
          v[i].op = "established" /\ j < i => v[j].c # v[i].c
  BY DEF EstablishedFirst
<1> HIDE DEF u, v
<1>9. \A op, c : Waits(b, t, op, c) <=> Waits(b, s, op, c) \/ (op = f.op /\ c = f.c)
  <2> SUFFICES ASSUME NEW op, NEW c
               PROVE  Waits(b, t, op, c) <=> Waits(b, s, op, c) \/ (op = f.op /\ c = f.c)
    OBVIOUS
  <2>1. ASSUME Waits(b, t, op, c)
        PROVE  Waits(b, s, op, c) \/ (op = f.op /\ c = f.c)
    <3>1. PICK i \in 1 .. Len(v) : v[i].op = op /\ v[i].c = c
      BY <1>6, <2>1
    <3>2. i = Len(v) \/ i \in 1 .. Len(u)
      BY <1>2, <1>4
    <3> QED BY <1>2, <1>5, <3>1, <3>2
  <2>2. ASSUME Waits(b, s, op, c)
        PROVE  Waits(b, t, op, c)
    <3>1. PICK i \in 1 .. Len(u) : u[i].op = op /\ u[i].c = c
      BY <1>5, <2>2
    <3>2. i \in 1 .. Len(v) /\ v[i] = u[i]
      BY <1>2, <1>4
    <3> QED BY <1>6, <3>1, <3>2
  <2>3. ASSUME op = f.op, c = f.c
        PROVE  Waits(b, t, op, c)
    <3>1. Len(v) \in 1 .. Len(v)
      BY <1>2, <1>4
    <3> QED BY <1>2, <1>6, <2>3, <3>1
  <2> QED BY <2>1, <2>2, <2>3
<1>10. ASSUME EstablishedFirst(b, s),
              f.op # "established" \/ \A op \in Ops : ~Waits(b, s, op, f.c),
              NEW i \in 1 .. Len(v), NEW j \in 1 .. Len(v),
              v[i].op = "established", j < i
       PROVE  v[j].c # v[i].c
  <2>1. j \in 1 .. Len(u) /\ v[j] = u[j]
    BY <1>2, <1>4, <1>10
  <2>2. CASE i = Len(v)
    <3>1. u[j].op \in Ops
      BY <1>3, <2>1 DEF Functors
    <3> QED BY <1>2, <1>5, <1>10, <2>1, <2>2, <3>1
  <2>3. CASE i # Len(v)
    BY <1>2, <1>4, <1>7, <1>10, <2>1, <2>3
  <2> QED BY <2>2, <2>3
<1> QED BY <1>1, <1>8, <1>9, <1>10 DEF Grown

(* The front of the batch is taken out.  Behind it nothing establishes the *)
(* connection it is about.                                                 *)
LEMMA Pop ==
    ASSUME NEW b \in Seq(Functors), NEW s \in Seq(Functors), b # << >>,
           EstablishedFirst(b, s), NEW t, t = Tail(b)
    PROVE  /\ t \in Seq(Functors)
           /\ b[1] \in Functors /\ Waits(b, s, b[1].op, b[1].c)
           /\ \A op, c : Waits(b, s, op, c) =>
                             Waits(t, s, op, c) \/ (op = b[1].op /\ c = b[1].c)
           /\ \A op, c : Waits(t, s, op, c) => Waits(b, s, op, c)
           /\ EstablishedFirst(t, s)
           /\ ~Waits(t, s, "established", b[1].c)
<1> DEFINE u == b \o s
           v == t \o s
<1>1. u \in Seq(Functors) /\ t \in Seq(Functors) /\ v \in Seq(Functors) /\ b[1] \in Functors
  OBVIOUS
<1>2. Len(u) = Len(v) + 1 /\ u[1] = b[1] /\ \A i \in 1 .. Len(v) : v[i] = u[i + 1]
  OBVIOUS
<1>4. Len(v) \in Nat
  BY <1>1
<1>5. \A op, c : Waits(b, s, op, c) <=> \E i \in 1 .. Len(u) : u[i].op = op /\ u[i].c = c
  BY DEF Waits
<1>6. \A op, c : Waits(t, s, op, c) <=> \E i \in 1 .. Len(v) : v[i].op = op /\ v[i].c = c
  BY DEF Waits
<1>7. \A i, j \in 1 .. Len(u) : u[i].op = "established" /\ j < i => u[j].c # u[i].c
  BY DEF EstablishedFirst
<1>8. EstablishedFirst(t, s) <=> \A i, j \in 1 .. Len(v) :
          v[i].op = "established" /\ j < i => v[j].c # v[i].c
  BY DEF EstablishedFirst
<1> HIDE DEF u, v
<1>9. Waits(b, s, b[1].op, b[1].c)
  BY <1>2, <1>4, <1>5
<1>10. ASSUME NEW op, NEW c, Waits(b, s, op, c)
       PROVE  Waits(t, s, op, c) \/ (op = b[1].op /\ c = b[1].c)
  <2>1. PICK i \in 1 .. Len(u) : u[i].op = op /\ u[i].c = c
    BY <1>5, <1>10
  <2>2. CASE i = 1
    BY <1>2, <2>1, <2>2
  <2>3. CASE i # 1
    <3>1. i - 1 \in 1 .. Len(v) /\ v[i - 1] = u[i]
      BY <1>2, <1>4, <2>3
    <3> QED BY <1>6, <2>1, <3>1
  <2> QED BY <2>2, <2>3
<1>11. \A i \in 1 .. Len(v) : i + 1 \in 1 .. Len(u)
  BY <1>2, <1>4
<1>12. \A op, c : Waits(t, s, op, c) => Waits(b, s, op, c)
  <2> SUFFICES ASSUME NEW op, NEW c, Waits(t, s, op, c) PROVE Waits(b, s, op, c)
    OBVIOUS
  <2>1. PICK i \in 1 .. Len(v) : v[i].op = op /\ v[i].c = c
    BY <1>6
  <2>2. i + 1 \in 1 .. Len(u) /\ u[i + 1] = v[i]
    BY <1>2, <1>11
  <2> QED BY <1>5, <2>1, <2>2
<1>13. EstablishedFirst(t, s)
  <2> SUFFICES ASSUME NEW i \in 1 .. Len(v), NEW j \in 1 .. Len(v),
                      v[i].op = "established", j < i
               PROVE  v[j].c # v[i].c
    BY <1>8
  <2>1. /\ i + 1 \in 1 .. Len(u) /\ u[i + 1] = v[i]
        /\ j + 1 \in 1 .. Len(u) /\ u[j + 1] = v[j]
    BY <1>2, <1>11
  <2>2. j + 1 < i + 1
    BY <1>4
  <2> QED BY <1>7, <2>1, <2>2
<1>14. ~Waits(t, s, "established", b[1].c)
  <2>1. ASSUME NEW i \in 1 .. Len(v), v[i].op = "established"
        PROVE  v[i].c # b[1].c
    <3>1. u[i + 1] = v[i] /\ i + 1 \in 1 .. Len(u) /\ 1 \in 1 .. Len(u) /\ 1 < i + 1
      BY <1>2, <1>4, <1>11
    <3>2. u[i + 1].op = "established"
      BY <2>1, <3>1
    <3>3. u[1].c # u[i + 1].c
      BY <1>7, <3>1, <3>2
    <3> QED BY <1>2, <3>1, <3>3
  <2> QED BY <1>6, <2>1
<1> QED BY <1>1, <1>9, <1>10, <1>12, <1>13, <1>14

(* swap() with an empty batch changes nothing of what waits. *)
LEMMA Swap ==
    ASSUME NEW s \in Seq(Functors)
    PROVE  /\ \A op, c : Waits(s, << >>, op, c) <=> Waits(<< >>, s, op, c)
           /\ EstablishedFirst(<< >>, s) => EstablishedFirst(s, << >>)
<1>1. s \o << >> = s /\ << >> \o s = s
  OBVIOUS
<1> QED BY <1>1 DEF Waits, EstablishedFirst

LEMMA NothingWaits ==
    /\ \A op, c : ~Waits(<< >>, << >>, op, c)
    /\ EstablishedFirst(<< >>, << >>)
<1>1. << >> \o << >> = << >> /\ Len(<< >>) = 0
  OBVIOUS
<1> QED BY <1>1 DEF Waits, EstablishedFirst

(* A functor that waits keeps its connection. *)
LEMMA WaitingMentions ==
    ASSUME NEW b \in Seq(Functors), NEW s \in Seq(Functors), NEW op, NEW c, Waits(b, s, op, c)
    PROVE  Mentions(s, c) \/ Mentions(b, c)
<1>1. PICK i \in 1 .. Len(b \o s) : (b \o s)[i].c = c
  BY DEF Waits
<1>2. CASE i <= Len(b)
  BY <1>1, <1>2 DEF Mentions
<1>3. CASE i > Len(b)
  <2>1. i - Len(b) \in DOMAIN s /\ (b \o s)[i] = s[i - Len(b)]
    BY <1>3
  <2> QED BY <1>1, <2>1 DEF Mentions
<1> QED BY <1>2, <1>3

-----------------------------------------------------------------------------
(* The channel of a connection, and of the acceptor, through its life *)
LEMMA ChannelTypes ==
    /\ {NewChannel, Reading, Disabled, Dropped} \subseteq Channel
    /\ Agrees(NewChannel) /\ Agrees(Reading) /\ Agrees(Disabled) /\ Agrees(Dropped)
    /\ ~NewChannel.registered /\ ~NewChannel.inMap /\ Reading.registered
    /\ ~Disabled.registered /\ ~Dropped.registered /\ ~Dropped.inMap
BY DEF NewChannel, Reading, Disabled, Dropped, Channel, Events, Agrees

LEMMA SameChannel ==
    ASSUME NEW a \in Channel, NEW b \in Channel,
           a.events = b.events, a.index = b.index, a.inMap = b.inMap,
           a.registered = b.registered, a.interest = b.interest, a.fatal = b.fatal
    PROVE  a = b
BY DEF Channel

LEMMA ChannelLife ==
    /\ EnableReading(NewChannel) = Reading
    /\ DisableAll(Reading) = Disabled
    /\ RemoveChannel(DisableAll(Reading)) = NewChannel
    /\ RemoveChannel(DisableAll(NewChannel)) = NewChannel
    /\ RemoveChannel(Disabled) = NewChannel
    /\ RemoveChannel(NewChannel) = NewChannel
    /\ RemoveChannel(Reading) = Dropped
    /\ RemoveChannel(Dropped) = Dropped
<1>1. ASSUME NEW n \in Channel, n = NewChannel
      PROVE  EnableReading(n) = Reading /\ RemoveChannel(DisableAll(n)) = NewChannel
  <2>1. n.events = {} /\ n.index = "kNew" /\ ~n.inMap /\ ~n.registered
        /\ n.interest = {} /\ ~n.fatal
    BY <1>1 DEF NewChannel
  <2>2. EnableReading(n) = Reading
    <3> DEFINE m == [n EXCEPT !.events = @ \cup {"IN"}]
               r == [m EXCEPT !.index = "kAdded", !.inMap = TRUE, !.registered = TRUE,
                              !.interest = m.events]
    <3>1. m \in Channel /\ m.events = {"IN"} /\ m.index = "kNew" /\ ~m.registered /\ ~m.fatal
      BY <2>1 DEF Channel, Events
    <3>2. EnableReading(n) = UpdateChannel(m)
      BY DEF EnableReading
    <3> HIDE DEF m
    <3>3. UpdateChannel(m) = r
      BY <3>1 DEF UpdateChannel, CtlAdd, Channel
    <3>4. /\ r \in Channel /\ r.events = {"IN"} /\ r.index = "kAdded" /\ r.inMap = TRUE
          /\ r.registered = TRUE /\ r.interest = {"IN"} /\ r.fatal = FALSE
      BY <3>1 DEF Channel
    <3> HIDE DEF r
    <3>5. r = Reading
      BY <3>4, SameChannel, ChannelTypes DEF Reading
    <3> QED BY <3>2, <3>3, <3>5
  <2>3. RemoveChannel(DisableAll(n)) = NewChannel
    <3> DEFINE m == [n EXCEPT !.events = {}]
               a == [m EXCEPT !.index = "kAdded", !.inMap = TRUE, !.registered = TRUE,
                              !.interest = m.events]
               r == [a EXCEPT !.registered = FALSE, !.interest = {}, !.inMap = FALSE,
                              !.index = "kNew"]
    <3>1. m \in Channel /\ m.events = {} /\ m.index = "kNew" /\ ~m.registered /\ ~m.fatal
      BY <2>1 DEF Channel, Events
    <3>2. DisableAll(n) = UpdateChannel(m)
      BY DEF DisableAll
    <3> HIDE DEF m
    <3>3. UpdateChannel(m) = a
      BY <3>1 DEF UpdateChannel, CtlAdd, Channel
    <3>4. a \in Channel /\ a.events = {} /\ a.index = "kAdded" /\ ~a.fatal
      BY <3>1 DEF Channel
    <3> HIDE DEF a
    <3>5. RemoveChannel(a) = r
      BY <3>4 DEF RemoveChannel, CtlDel, Channel
    <3>6. /\ r \in Channel /\ r.events = {} /\ r.index = "kNew" /\ r.inMap = FALSE
          /\ r.registered = FALSE /\ r.interest = {} /\ r.fatal = FALSE
      BY <3>4 DEF Channel
    <3> HIDE DEF r
    <3>7. r = NewChannel
      BY <3>6, SameChannel, ChannelTypes DEF NewChannel
    <3> QED BY <3>2, <3>3, <3>5, <3>7
  <2> QED BY <2>2, <2>3
<1>2. ASSUME NEW n \in Channel, n = Reading
      PROVE  DisableAll(n) = Disabled /\ RemoveChannel(n) = Dropped
  <2>1. n.events = {"IN"} /\ n.index = "kAdded" /\ n.inMap /\ n.registered
        /\ n.interest = {"IN"} /\ ~n.fatal
    BY <1>2 DEF Reading
  <2>2. DisableAll(n) = Disabled
    <3> DEFINE m == [n EXCEPT !.events = {}]
               r == [m EXCEPT !.registered = FALSE, !.interest = {}, !.index = "kDeleted"]
    <3>1. m \in Channel /\ m.events = {} /\ m.index = "kAdded" /\ m.inMap /\ ~m.fatal
      BY <2>1 DEF Channel, Events
    <3>2. DisableAll(n) = UpdateChannel(m)
      BY DEF DisableAll
    <3> HIDE DEF m
    <3>3. UpdateChannel(m) = r
      BY <3>1 DEF UpdateChannel, CtlDel, Channel
    <3>4. /\ r \in Channel /\ r.events = {} /\ r.index = "kDeleted" /\ r.inMap = TRUE
          /\ r.registered = FALSE /\ r.interest = {} /\ r.fatal = FALSE
      BY <3>1 DEF Channel
    <3> HIDE DEF r
    <3> QED BY <3>2, <3>3, <3>4, SameChannel, ChannelTypes DEF Disabled
  <2>3. RemoveChannel(n) = Dropped
    <3> DEFINE r == [n EXCEPT !.registered = FALSE, !.interest = {}, !.inMap = FALSE,
                              !.index = "kNew"]
    <3>1. RemoveChannel(n) = r
      BY <2>1 DEF RemoveChannel, CtlDel, Channel
    <3>2. /\ r \in Channel /\ r.events = {"IN"} /\ r.index = "kNew" /\ r.inMap = FALSE
          /\ r.registered = FALSE /\ r.interest = {} /\ r.fatal = FALSE
      BY <2>1 DEF Channel
    <3> HIDE DEF r
    <3> QED BY <3>1, <3>2, SameChannel, ChannelTypes DEF Dropped
  <2> QED BY <2>2, <2>3
<1>3. ASSUME NEW n \in Channel, n.index # "kAdded",
             ~n.registered, n.interest = {}, ~n.fatal
      PROVE  RemoveChannel(n) = IF n.events = {} THEN NewChannel
                                ELSE [Dropped EXCEPT !.events = n.events]
  <2> DEFINE r == [n EXCEPT !.inMap = FALSE, !.index = "kNew"]
             d == [Dropped EXCEPT !.events = n.events]
  <2>1. RemoveChannel(n) = r
    BY <1>3 DEF RemoveChannel
  <2>2. /\ r \in Channel /\ r.events = n.events /\ r.index = "kNew" /\ r.inMap = FALSE
        /\ r.registered = FALSE /\ r.interest = {} /\ r.fatal = FALSE
    BY <1>3 DEF Channel
  <2>3. /\ d \in Channel /\ d.events = n.events /\ d.index = "kNew" /\ d.inMap = FALSE
        /\ d.registered = FALSE /\ d.interest = {} /\ d.fatal = FALSE
    BY ChannelTypes DEF Channel, Dropped
  <2> HIDE DEF r, d
  <2>4. r = d
    BY <2>2, <2>3, SameChannel
  <2>5. n.events = {} => r = NewChannel
    BY <2>2, SameChannel, ChannelTypes DEF NewChannel
  <2> QED BY <2>1, <2>4, <2>5 DEF d
<1>4. RemoveChannel(Disabled) = NewChannel /\ RemoveChannel(NewChannel) = NewChannel
  BY <1>3, ChannelTypes DEF Disabled, NewChannel
<1>5. [Dropped EXCEPT !.events = {"IN"}] = Dropped
  BY DEF Dropped
<1>6. RemoveChannel(Dropped) = Dropped
  BY <1>3, <1>5, ChannelTypes DEF Dropped
<1> QED BY <1>1, <1>2, <1>4, <1>6, ChannelTypes

-----------------------------------------------------------------------------
(* The stages and the functors under a step *)

LEMMA LoopOfConnection ==
    ASSUME TypeOK PROVE \A c \in Conns : loopOf[c] \in Loops /\ c \in Nat
<1>1. numThreads \in 0 .. MaxThreads /\ \A c \in Conns : loopOf[c] \in 0 .. numThreads
  BY DEF TypeOK
<1> QED BY <1>1, BoundsAssumption DEF Loops, Conns

(* A connection that a step does not concern stays in its stage, and stays *)
(* kept, when the functors about it go on waiting or its sub-loop ends.    *)
LEMMA StageKept ==
    ASSUME NEW c \in Conns, Stage(c),
           c > accepted' <=> c > accepted,
           c <= accepted' <=> c <= accepted,
           loopOf'[c] = loopOf[c], state'[c] = state[c], channel'[c] = channel[c],
           ups'[c] = ups[c], downs'[c] = downs[c],
           c \in connections =>
               c \in connections'
                   \/ Waits(batch'[loopOf[c]], q'[loopOf[c]], "destroyed", c),
           \A op \in {"established", "destroyed"} :
               Waits(batch[loopOf[c]], q[loopOf[c]], op, c) =>
                   Waits(batch'[loopOf[c]], q'[loopOf[c]], op, c) \/ Ended(c)',
           phase[loopOf[c]] = "exited" => phase'[loopOf[c]] = "exited"
    PROVE  Stage(c)'
<1>1. Ended(c) => Ended(c)'
  BY DEF Ended
<1>2. Coming(c) => Coming(c)'
  BY <1>1 DEF Coming
<1>3. Kept(c) => Kept(c)'
  BY <1>1 DEF Kept
<1>4. /\ Unborn(c) => Unborn(c)'
      /\ Up(c) => Up(c)'
      /\ Closed(c) => Closed(c)'
      /\ Done(c) => Done(c)'
  BY DEF Unborn, Up, Closed, Done
<1> QED BY <1>2, <1>3, <1>4 DEF Stage

(* A step that leaves the connections and the functors alone. *)
LEMMA Quiet ==
    ASSUME IInv,
           UNCHANGED <<accepted, connections, loopOf, state, batch, q, ups, downs>>,
           \A c \in Conns : channel'[c] = channel[c],
           \A l \in Loops : phase[l] = "exited" => phase'[l] = "exited"
    PROVE  FunctorRules' /\ Stages' /\ QueuesOK' /\ CountsOK'
<1>1. UNCHANGED accepted /\ UNCHANGED connections /\ UNCHANGED loopOf /\ UNCHANGED state
      /\ UNCHANGED batch /\ UNCHANGED q /\ UNCHANGED ups /\ UNCHANGED downs
  OBVIOUS
<1>2. QueuesOK' /\ CountsOK'
  BY <1>1 DEF IInv, QueuesOK, CountsOK
<1>3. FunctorRules'
  BY <1>1 DEF IInv, FunctorRules, Rule
<1>4. ASSUME NEW c \in Conns PROVE Stage(c)'
  <2>1. Stage(c) /\ loopOf[c] \in Loops
    BY LoopOfConnection DEF IInv, Stages
  <2> QED BY <1>1, <2>1, StageKept
<1> QED BY <1>2, <1>3, <1>4 DEF Stages

LEMMA QuietStep ==
    ASSUME IInv,
           \/ Start \/ QuitBase \/ DestroyServer \/ DestroyPool \/ DestroyAcceptor
           \/ \E l \in Loops : Poll(l) \/ QuitLoop(l)
           \/ \E c \in Conns : PeerCloses(c)
    PROVE  IInv'
<1> USE DEF IInv
<1>1. CASE Start
  <2>1. /\ ~started /\ started' = TRUE
        /\ channel' = [channel EXCEPT ![Acc] = EnableReading(@)]
        /\ UNCHANGED <<numThreads, next, accepted, connections, loopOf, state, gone,
                       phase, active, batch, quit, q, ups, downs, server>>
    BY <1>1 DEF Start, PoolStart, Listen, loopVars
  <2>2. channel[Acc] = NewChannel /\ channel' = [channel EXCEPT ![Acc] = Reading]
    BY <2>1, ChannelLife DEF AcceptorOK
  <2>3. channel' \in [Conns \cup {Acc} -> Channel] /\ channel'[Acc] = Reading
        /\ \A c \in Conns : channel'[c] = channel[c]
    BY <2>2, ChannelTypes, BoundsAssumption DEF TypeOK, Conns, Acc
  <2>4. TypeOK'
    BY <2>1, <2>3 DEF TypeOK
  <2>5. PhaseOK' /\ AcceptorOK'
    BY <2>1, <2>3 DEF PhaseOK, AcceptorOK
  <2>6. ActiveRules'
    BY <2>1, <2>3 DEF ActiveRules, TypeOK, Acc
  <2> QED BY <2>1, <2>3, <2>4, <2>5, <2>6, Quiet
<1>2. CASE DestroyAcceptor
  <2>1. /\ server = "joining" /\ server' = "gone"
        /\ channel' = [channel EXCEPT ![Acc] = RemoveChannel(DisableAll(@))]
        /\ UNCHANGED <<numThreads, started, next, accepted, connections, loopOf, state, gone,
                       phase, active, batch, quit, q, ups, downs>>
    BY <1>2 DEF DestroyAcceptor, poolVars, loopVars
  <2>2. RemoveChannel(DisableAll(channel[Acc])) = NewChannel
    BY ChannelLife DEF AcceptorOK
  <2>3. channel' \in [Conns \cup {Acc} -> Channel] /\ channel'[Acc] = NewChannel
        /\ \A c \in Conns : channel'[c] = channel[c]
    BY <2>1, <2>2, ChannelTypes, BoundsAssumption DEF TypeOK, Conns, Acc
  <2>4. TypeOK'
    BY <2>1, <2>3 DEF TypeOK
  <2>5. PhaseOK' /\ AcceptorOK'
    BY <2>1, <2>3 DEF PhaseOK, AcceptorOK
  <2>6. ActiveRules'
    BY <2>1, <2>3 DEF ActiveRules, TypeOK, Acc
  <2> QED BY <2>1, <2>3, <2>4, <2>5, <2>6, Quiet
<1>3. CASE QuitBase \/ DestroyServer \/ DestroyPool \/ \E l \in Loops : QuitLoop(l)
  <2>1. /\ quit' \in [Loops -> BOOLEAN]
        /\ server' \in {"alive", "destroying", "joining", "gone"}
        /\ server' # server => phase[0] = "exited"
        /\ UNCHANGED <<numThreads, started, next, accepted, connections, loopOf, state,
                       channel, gone, phase, active, batch, q, ups, downs>>
    BY <1>3 DEF QuitBase, DestroyServer, DestroyPool, QuitLoop, poolVars, loopVars, TypeOK,
                PhaseOK
  <2>2. TypeOK'
    BY <2>1 DEF TypeOK
  <2>3. PhaseOK' /\ AcceptorOK' /\ ActiveRules'
    BY <2>1 DEF PhaseOK, AcceptorOK, ActiveRules
  <2> QED BY <2>1, <2>2, <2>3, Quiet
<1>4. ASSUME NEW c \in Conns, PeerCloses(c) PROVE IInv'
  <2>1. /\ c <= accepted /\ gone' = gone \cup {c}
        /\ UNCHANGED <<numThreads, started, next, accepted, connections, loopOf, state,
                       channel, phase, active, batch, q, quit, ups, downs, server>>
    BY <1>4 DEF PeerCloses, poolVars, loopVars
  <2>2. TypeOK'
    BY <2>1 DEF TypeOK, Conns
  <2>3. PhaseOK' /\ AcceptorOK' /\ ActiveRules'
    BY <2>1 DEF PhaseOK, AcceptorOK, ActiveRules
  <2> QED BY <2>1, <2>2, <2>3, Quiet
<1>5. ASSUME NEW l \in Loops, Poll(l) PROVE IInv'
  <2>1. /\ phase[l] = "poll" /\ phase' = [phase EXCEPT ![l] = "dispatch"]
        /\ UNCHANGED <<numThreads, started, next, accepted, connections, loopOf, state,
                       channel, gone, batch, q, quit, ups, downs, server>>
    BY <1>5 DEF Poll, poolVars
  <2>2. PICK rs \in SUBSET Registered(l) : active' = [active EXCEPT ![l] = rs]
    BY <1>5 DEF Poll, MustReport
  <2>3. \A c \in rs \ {Acc} : c \in Conns /\ loopOf[c] = l /\ channel[c].registered
    BY <2>2 DEF Registered
  <2>4. \A c \in rs \ {Acc} : c <= accepted /\ channel[c] = Reading
    <3> SUFFICES ASSUME NEW c \in rs \ {Acc} PROVE c <= accepted /\ channel[c] = Reading
      OBVIOUS
    <3>1. c \in Conns /\ channel[c].registered /\ Stage(c)
      BY <2>3 DEF Stages
    <3>2. channel[c] # NewChannel /\ channel[c] # Disabled /\ channel[c] # Dropped
      BY <3>1, ChannelTypes
    <3>3. c <= accepted \/ c > accepted
      BY <3>1 DEF TypeOK, Conns
    <3> QED BY <3>1, <3>2, <3>3 DEF Stage, Unborn, Up, Closed, Done
  <2>5. active' \in [Loops -> SUBSET (Conns \cup {Acc})]
        /\ phase' \in [Loops -> {"poll", "dispatch", "functors", "exited"}]
    BY <2>1, <2>2, <2>3 DEF TypeOK
  <2>6. TypeOK'
    BY <2>1, <2>5 DEF TypeOK
  <2>7. PhaseOK'
    BY <2>1, <2>2 DEF PhaseOK, TypeOK
  <2>8. ActiveRules'
    BY <2>1, <2>2, <2>3, <2>4 DEF ActiveRules, TypeOK
  <2>9. AcceptorOK'
    BY <2>1 DEF AcceptorOK
  <2>10. \A k \in Loops : phase[k] = "exited" => phase'[k] = "exited"
    BY <2>1 DEF TypeOK
  <2> QED BY <2>1, <2>6, <2>7, <2>8, <2>9, <2>10, Quiet
<1> QED BY <1>1, <1>2, <1>3, <1>4, <1>5

-----------------------------------------------------------------------------
(* The functors of all loops under a step *)

(* One more functor waits in loop k. *)
LEMMA Pushed ==
    ASSUME QueuesOK, FunctorRules, NEW k \in Loops, NEW o \in Ops, NEW d \in Conns,
           q' = Queue(k, Functor(o, d)), batch' = batch,
           o # "established" \/ \A op \in Ops : ~Waits(batch[k], q[k], op, d)
    PROVE  /\ QueuesOK'
           /\ \A l \in Loops :
                 /\ EstablishedFirst(batch'[l], q'[l])
                 /\ \A op, c : Waits(batch'[l], q'[l], op, c) <=>
                        Waits(batch[l], q[l], op, c) \/ (l = k /\ op = o /\ c = d)
<1> DEFINE f == Functor(o, d)
<1>1. f \in Functors /\ f.op = o /\ f.c = d
  BY DEF Functor, Functors
<1> HIDE DEF f
<1>2. q' = [q EXCEPT ![k] = Append(q[k], f)]
  BY DEF Queue, f
<1>3. \A l \in Loops : batch[l] \in Seq(Functors) /\ q[l] \in Seq(Functors)
  BY DEF QueuesOK
<1>4. q'[k] = Append(q[k], f) /\ \A l \in Loops : l # k => q'[l] = q[l]
  BY <1>2 DEF QueuesOK
<1>5. EstablishedFirst(batch[k], q[k])
  BY DEF FunctorRules
<1>6. /\ q'[k] \in Seq(Functors)
      /\ EstablishedFirst(batch[k], q'[k])
      /\ \A op, c : Waits(batch[k], q'[k], op, c) <=>
             Waits(batch[k], q[k], op, c) \/ (op = o /\ c = d)
  <2>1. Grown(batch[k], q[k], f, q'[k])
    BY <1>1, <1>3, <1>4, Push
  <2> QED BY <1>1, <1>5, <2>1 DEF Grown
<1>7. QueuesOK'
  BY <1>2, <1>4, <1>6 DEF QueuesOK
<1> QED BY <1>4, <1>6, <1>7 DEF FunctorRules

(* The functor f at the front of the batch of loop l has been taken out,   *)
(* and this is what it was.                                                *)
TakenOut(f, l) ==
    /\ batch' \in [Loops -> Seq(Functors)]
    /\ \A k \in Loops \ {l} : batch'[k] = batch[k]
    /\ phase[l] = "functors"
    /\ f.op \in Ops /\ f.c \in Conns /\ Rule(f.op, f.c, l)
    /\ EstablishedFirst(batch'[l], q'[l])
    /\ ~Waits(batch'[l], q'[l], "established", f.c)
    /\ \A op, c : Waits(batch'[l], q'[l], op, c) => Waits(batch[l], q[l], op, c)
    /\ \A op, c : Waits(batch[l], q[l], op, c) =>
           Waits(batch'[l], q'[l], op, c) \/ (op = f.op /\ c = f.c)

LEMMA Popped ==
    ASSUME IInv, NEW l \in Loops, batch[l] # << >>, batch' = [batch EXCEPT ![l] = Tail(@)],
           q'[l] = q[l], NEW f, f = Head(batch[l])
    PROVE  TakenOut(f, l)
<1> USE DEF IInv
<1>1. batch[l] \in Seq(Functors) /\ q[l] \in Seq(Functors) /\ batch \in [Loops -> Seq(Functors)]
  BY DEF QueuesOK
<1>2. batch'[l] = Tail(batch[l]) /\ \A k \in Loops \ {l} : batch'[k] = batch[k]
  BY <1>1
<1>3. f = batch[l][1]
  BY <1>1
<1>4. EstablishedFirst(batch[l], q[l])
  BY DEF FunctorRules
<1>5. /\ batch'[l] \in Seq(Functors)
      /\ f \in Functors
      /\ Waits(batch[l], q[l], f.op, f.c)
      /\ EstablishedFirst(batch'[l], q'[l])
      /\ ~Waits(batch'[l], q'[l], "established", f.c)
      /\ \A op, c : Waits(batch'[l], q'[l], op, c) => Waits(batch[l], q[l], op, c)
      /\ \A op, c : Waits(batch[l], q[l], op, c) =>
             Waits(batch'[l], q'[l], op, c) \/ (op = f.op /\ c = f.c)
  <2> DEFINE b == batch[l]
             s == q[l]
             t == batch'[l]
  <2>1. b \in Seq(Functors) /\ s \in Seq(Functors) /\ b # << >> /\ EstablishedFirst(b, s)
        /\ t = Tail(b) /\ f = b[1]
    BY <1>1, <1>2, <1>3, <1>4
  <2> HIDE DEF b, s, t
  <2>2. /\ t \in Seq(Functors)
        /\ b[1] \in Functors /\ Waits(b, s, b[1].op, b[1].c)
        /\ \A op, c : Waits(b, s, op, c) =>
                          Waits(t, s, op, c) \/ (op = b[1].op /\ c = b[1].c)
        /\ \A op, c : Waits(t, s, op, c) => Waits(b, s, op, c)
        /\ EstablishedFirst(t, s)
        /\ ~Waits(t, s, "established", b[1].c)
    BY <2>1, Pop
  <2> QED BY <2>1, <2>2 DEF b, s, t
<1>6. f.op \in Ops /\ f.c \in Conns
  BY <1>5 DEF Functors
<1>7. Rule(f.op, f.c, l)
  BY <1>5, <1>6 DEF FunctorRules
<1>8. phase[l] = "functors"
  BY DEF PhaseOK
<1>9. batch' \in [Loops -> Seq(Functors)]
  <2>1. Tail(batch[l]) \in Seq(Functors)
    BY <1>2, <1>5
  <2> QED BY <1>1, <2>1
<1> QED BY <1>2, <1>5, <1>6, <1>7, <1>8, <1>9 DEF TakenOut

-----------------------------------------------------------------------------
(* swap(), and the end of a turn *)

LEMMA SwapStep ==
    ASSUME IInv, NEW l \in Loops, SwapFunctors(l) PROVE IInv'
<1> USE DEF IInv
<1>1. /\ phase[l] = "dispatch" /\ active[l] = {}
      /\ batch' = [batch EXCEPT ![l] = q[l]]
      /\ q' = [q EXCEPT ![l] = << >>]
      /\ phase' = [phase EXCEPT ![l] = "functors"]
      /\ UNCHANGED <<numThreads, started, next, accepted, connections, loopOf, state, channel,
                     gone, active, quit, ups, downs, server>>
  BY DEF SwapFunctors, poolVars
<1>2. batch[l] = << >> /\ q[l] \in Seq(Functors)
  BY <1>1 DEF PhaseOK, QueuesOK
<1>3. QueuesOK'
  BY <1>1, <1>2 DEF QueuesOK
<1>4. /\ batch'[l] = q[l] /\ q'[l] = << >> /\ phase'[l] = "functors"
      /\ \A k \in Loops \ {l} : batch'[k] = batch[k] /\ q'[k] = q[k] /\ phase'[k] = phase[k]
  BY <1>1 DEF QueuesOK, TypeOK
<1>5. \A k \in Loops : \A op, c :
          Waits(batch'[k], q'[k], op, c) <=> Waits(batch[k], q[k], op, c)
  BY <1>2, <1>4, Swap
<1>6. \A k \in Loops : EstablishedFirst(batch'[k], q'[k])
  BY <1>2, <1>4, Swap DEF FunctorRules
<1>7. FunctorRules'
  <2> SUFFICES ASSUME NEW k \in Loops, NEW op \in Ops, NEW c \in Conns,
                      Waits(batch'[k], q'[k], op, c)
               PROVE  Rule(op, c, k)'
    BY <1>6 DEF FunctorRules
  <2>1. Rule(op, c, k)
    BY <1>5 DEF FunctorRules
  <2> QED BY <1>1, <2>1 DEF Rule
<1>8. phase' \in [Loops -> {"poll", "dispatch", "functors", "exited"}]
  BY <1>1 DEF TypeOK
<1>9. TypeOK'
  BY <1>1, <1>8 DEF TypeOK
<1>10. PhaseOK'
  <2>1. \A k \in Loops : active[k] # {} => phase'[k] = "dispatch"
    BY <1>1, <1>4 DEF PhaseOK
  <2>2. \A k \in Loops : batch'[k] # << >> => phase'[k] = "functors"
    BY <1>4 DEF PhaseOK
  <2>3. 0 \in Loops
    BY BoundsAssumption DEF Loops
  <2>4. server # "alive" => phase'[0] = "exited"
    BY <1>1, <1>4, <2>3 DEF PhaseOK
  <2> QED BY <1>1, <2>1, <2>2, <2>4 DEF PhaseOK
<1>11. AcceptorOK' /\ ActiveRules' /\ CountsOK'
  BY <1>1 DEF AcceptorOK, ActiveRules, CountsOK
<1>12. ASSUME NEW c \in Conns PROVE Stage(c)'
  <2>1. Stage(c) /\ loopOf[c] \in Loops
    BY LoopOfConnection DEF Stages
  <2>2. phase[loopOf[c]] = "exited" => phase'[loopOf[c]] = "exited"
    BY <1>1, <1>4, <2>1
  <2>3. \A op \in {"established", "destroyed"} :
            Waits(batch[loopOf[c]], q[loopOf[c]], op, c) =>
                Waits(batch'[loopOf[c]], q'[loopOf[c]], op, c)
    BY <1>5, <2>1
  <2> QED BY <1>1, <2>1, <2>2, <2>3, StageKept
<1> QED BY <1>3, <1>7, <1>9, <1>10, <1>11, <1>12 DEF Stages

(* A sub-loop that ends takes its functors with it; its connections have   *)
(* ended with it.                                                          *)
LEMMA EndTurnStep ==
    ASSUME IInv, NEW l \in Loops, EndTurn(l) PROVE IInv'
<1> USE DEF IInv
<1> DEFINE p == IF quit[l] THEN "exited" ELSE "poll"
<1>1. /\ phase[l] = "functors" /\ batch[l] = << >>
      /\ phase' = [phase EXCEPT ![l] = p]
      /\ q' = IF quit[l] /\ l # 0 THEN [q EXCEPT ![l] = << >>] ELSE q
      /\ UNCHANGED <<numThreads, started, next, accepted, connections, loopOf, state, channel,
                     gone, active, batch, quit, ups, downs, server>>
  BY DEF EndTurn, poolVars
<1>2. p \in {"poll", "exited"}
  OBVIOUS
<1>3. phase'[l] = p /\ \A k \in Loops \ {l} : phase'[k] = phase[k] /\ q'[k] = q[k]
  BY <1>1 DEF TypeOK, QueuesOK
<1>4. q'[l] = q[l] \/ (q'[l] = << >> /\ l # 0 /\ phase'[l] = "exited")
  BY <1>1, <1>3 DEF QueuesOK
<1> HIDE DEF p
<1>5. QueuesOK'
  BY <1>1 DEF QueuesOK
<1>6. \A k \in Loops : \A op, c :
          Waits(batch'[k], q'[k], op, c) => Waits(batch[k], q[k], op, c)
  BY <1>1, <1>3, <1>4, NothingWaits
<1>7. \A k \in Loops : EstablishedFirst(batch'[k], q'[k])
  BY <1>1, <1>3, <1>4, NothingWaits DEF FunctorRules
<1>8. FunctorRules'
  BY <1>1, <1>6, <1>7 DEF FunctorRules, Rule
<1>9. phase' \in [Loops -> {"poll", "dispatch", "functors", "exited"}]
  BY <1>1, <1>2 DEF TypeOK
<1>10. TypeOK'
  BY <1>1, <1>9 DEF TypeOK
<1>11. PhaseOK'
  <2>1. \A k \in Loops : active[k] # {} => phase'[k] = "dispatch"
    BY <1>1, <1>3 DEF PhaseOK
  <2>2. \A k \in Loops : batch[k] # << >> => phase'[k] = "functors"
    BY <1>1, <1>3 DEF PhaseOK
  <2>3. 0 \in Loops
    BY BoundsAssumption DEF Loops
  <2>4. server # "alive" => phase'[0] = "exited"
    BY <1>1, <1>3, <2>3 DEF PhaseOK
  <2> QED BY <1>1, <2>1, <2>2, <2>4 DEF PhaseOK
<1>12. AcceptorOK' /\ ActiveRules' /\ CountsOK'
  BY <1>1 DEF AcceptorOK, ActiveRules, CountsOK
<1>13. ASSUME NEW c \in Conns PROVE Stage(c)'
  <2>1. Stage(c) /\ loopOf[c] \in Loops
    BY LoopOfConnection DEF Stages
  <2>2. phase[loopOf[c]] = "exited" => phase'[loopOf[c]] = "exited"
    BY <1>1, <1>3, <2>1
  <2>3. ASSUME NEW op, Waits(batch[loopOf[c]], q[loopOf[c]], op, c)
        PROVE  Waits(batch'[loopOf[c]], q'[loopOf[c]], op, c) \/ Ended(c)'
    BY <1>1, <1>3, <1>4, <2>1, <2>3 DEF Ended
  <2> QED BY <1>1, <2>1, <2>2, <2>3, StageKept
<1> QED BY <1>5, <1>8, <1>10, <1>11, <1>12, <1>13 DEF Stages

-----------------------------------------------------------------------------
(* The steps of a connection *)

ConnTypes ==
    /\ state \in [Conns -> {"kConnecting", "kConnected", "kDisconnecting", "kDisconnected"}]
    /\ channel \in [Conns \cup {Acc} -> Channel]
    /\ CountsOK

(* Nothing of another connection, nor the acceptor, changes. *)
OnlyOf(c) ==
    /\ \A d \in Conns \ {c} :
          /\ state'[d] = state[d] /\ channel'[d] = channel[d]
          /\ ups'[d] = ups[d] /\ downs'[d] = downs[d]
    /\ channel'[Acc] = channel[Acc]

LEMMA EstablishedEffect ==
    ASSUME ConnTypes, NEW c \in Conns, Unborn(c), ConnectEstablished(c), downs' = downs
    PROVE  ConnTypes' /\ OnlyOf(c) /\ Up(c)'
<1>1. /\ state' = [state EXCEPT ![c] = "kConnected"]
      /\ channel' = [channel EXCEPT ![c] = Reading]
      /\ ups' = [ups EXCEPT ![c] = 1]
  BY ChannelLife DEF ConnectEstablished, Unborn, ConnTypes, CountsOK
<1>2. c # Acc
  BY DEF Conns, Acc
<1>3. Reading \in Channel
  BY ChannelTypes
<1>4. state' \in [Conns -> {"kConnecting", "kConnected", "kDisconnecting", "kDisconnected"}]
  BY <1>1 DEF ConnTypes
<1>5. channel' \in [Conns \cup {Acc} -> Channel]
  BY <1>1, <1>3 DEF ConnTypes
<1>6. CountsOK'
  BY <1>1 DEF ConnTypes, CountsOK
<1>7. OnlyOf(c)
  BY <1>1, <1>2 DEF OnlyOf, ConnTypes, CountsOK
<1>8. Up(c)'
  BY <1>1 DEF Up, Unborn, ConnTypes, CountsOK
<1> QED BY <1>4, <1>5, <1>6, <1>7, <1>8 DEF ConnTypes

LEMMA DestroyedEffect ==
    ASSUME ConnTypes, NEW c \in Conns, Up(c) \/ Closed(c) \/ Done(c),
           ConnectDestroyed(c), ups' = ups
    PROVE  ConnTypes' /\ OnlyOf(c) /\ Done(c)'
<1>1. c # Acc
  BY DEF Conns, Acc
<1>2. NewChannel \in Channel /\ Dropped \in Channel
  BY ChannelTypes
<1>3. CASE state[c] = "kConnected"
  <2>1. Up(c)
    BY <1>3 DEF Closed, Done
  <2>2. /\ state' = [state EXCEPT ![c] = "kDisconnected"]
        /\ channel' = [channel EXCEPT ![c] = NewChannel]
        /\ downs' = [downs EXCEPT ![c] = 1]
    BY <1>3, <2>1, ChannelLife DEF ConnectDestroyed, Up, ConnTypes, CountsOK
  <2>3. state' \in [Conns -> {"kConnecting", "kConnected", "kDisconnecting", "kDisconnected"}]
    BY <2>2 DEF ConnTypes
  <2>4. channel' \in [Conns \cup {Acc} -> Channel]
    BY <1>2, <2>2 DEF ConnTypes
  <2>5. CountsOK'
    BY <2>2 DEF ConnTypes, CountsOK
  <2>6. OnlyOf(c)
    BY <1>1, <2>2 DEF OnlyOf, ConnTypes, CountsOK
  <2>7. Done(c)'
    BY <2>1, <2>2 DEF Up, Done, ConnTypes, CountsOK
  <2> QED BY <2>3, <2>4, <2>5, <2>6, <2>7 DEF ConnTypes
<1>4. CASE state[c] # "kConnected"
  <2>1. PICK ch \in {NewChannel, Dropped} :
            /\ channel' = [channel EXCEPT ![c] = ch]
            /\ ch = IF state[c] = "kDisconnecting" THEN Dropped ELSE NewChannel
    BY <1>4, ChannelLife DEF ConnectDestroyed, Up, Closed, Done
  <2>2. state' = state /\ downs' = downs
    BY <1>4 DEF ConnectDestroyed
  <2>3. channel' \in [Conns \cup {Acc} -> Channel] /\ channel'[c] = ch
    BY <1>2, <2>1 DEF ConnTypes
  <2>4. ConnTypes'
    BY <2>2, <2>3 DEF ConnTypes, CountsOK
  <2>5. OnlyOf(c)
    BY <1>1, <2>1, <2>2 DEF OnlyOf, ConnTypes
  <2>6. Done(c)'
    BY <1>4, <2>1, <2>2, <2>3 DEF Up, Closed, Done
  <2> QED BY <2>4, <2>5, <2>6
<1> QED BY <1>3, <1>4

LEMMA ClosedEffect ==
    ASSUME ConnTypes, NEW c \in Conns, Up(c),
           state' = [state EXCEPT ![c] = "kDisconnected"],
           channel' = [channel EXCEPT ![c] = DisableAll(@)],
           downs' = [downs EXCEPT ![c] = @ + 1], ups' = ups
    PROVE  ConnTypes' /\ OnlyOf(c) /\ Closed(c)'
<1>1. /\ channel' = [channel EXCEPT ![c] = Disabled]
      /\ downs' = [downs EXCEPT ![c] = 1]
  BY ChannelLife DEF Up, ConnTypes, CountsOK
<1>2. c # Acc
  BY DEF Conns, Acc
<1>3. Disabled \in Channel
  BY ChannelTypes
<1>4. state' \in [Conns -> {"kConnecting", "kConnected", "kDisconnecting", "kDisconnected"}]
  BY DEF ConnTypes
<1>5. channel' \in [Conns \cup {Acc} -> Channel]
  BY <1>1, <1>3 DEF ConnTypes
<1>6. CountsOK'
  BY <1>1 DEF ConnTypes, CountsOK
<1>7. OnlyOf(c)
  BY <1>1, <1>2 DEF OnlyOf, ConnTypes, CountsOK
<1>8. Closed(c)'
  BY <1>1 DEF Closed, Up, ConnTypes, CountsOK
<1> QED BY <1>4, <1>5, <1>6, <1>7, <1>8 DEF ConnTypes

(* A channel that is to be dispatched is that of a connection that is up.  *)
LEMMA StageOfActive ==
    ASSUME IInv, NEW l \in Loops, NEW c \in active[l] \ {Acc}
    PROVE  /\ c \in Conns /\ c <= accepted /\ loopOf[c] = l /\ Up(c)
           /\ phase[l] = "dispatch"
<1> USE DEF IInv
<1>1. c \in Conns
  BY DEF TypeOK
<1>2. c <= accepted /\ loopOf[c] = l /\ channel[c] = Reading
  BY DEF ActiveRules
<1>3. Stage(c)
  BY <1>1 DEF Stages
<1>4. Up(c)
  <2>1. Reading # NewChannel /\ Reading # Disabled /\ Reading # Dropped
    BY ChannelTypes
  <2> QED BY <1>2, <1>3, <2>1 DEF Stage, Unborn, Closed, Done
<1>5. phase[l] = "dispatch"
  BY DEF PhaseOK
<1> QED BY <1>1, <1>2, <1>4, <1>5

LEMMA UpIsKept ==
    ASSUME NEW c, Up(c), Stage(c), c <= accepted PROVE Kept(c)
<1>1. Reading # NewChannel /\ Reading # Dropped
  BY ChannelTypes
<1> QED BY <1>1 DEF Stage, Up, Done

LEMMA HandleEventStep ==
    ASSUME IInv, NEW l \in Loops, NEW c \in Conns, HandleEvent(l, c) PROVE IInv'
<1> USE DEF IInv
<1>1. /\ c \in active[l] \ {Acc}
      /\ active' = [active EXCEPT ![l] = @ \ {c}]
      /\ UNCHANGED <<numThreads, started, next, accepted, loopOf, gone, phase, batch, quit,
                     ups, server>>
  BY DEF HandleEvent, poolVars
<1>2. c <= accepted /\ loopOf[c] = l /\ Up(c) /\ phase[l] = "dispatch"
  BY <1>1, StageOfActive
<1>3. /\ active' \in [Loops -> SUBSET (Conns \cup {Acc})]
      /\ \A k \in Loops : active'[k] \subseteq active[k]
      /\ active'[l] = active[l] \ {c}
  BY <1>1 DEF TypeOK
<1>4. PhaseOK'
  BY <1>1, <1>3 DEF PhaseOK
<1>5. ConnTypes
  BY DEF TypeOK, ConnTypes
<1>6. \A k \in Loops : c \notin active'[k]
  BY <1>1, <1>2, <1>3 DEF ActiveRules
<1>7. ASSUME OnlyOf(c) PROVE ActiveRules' /\ AcceptorOK'
  <2>1. AcceptorOK'
    BY <1>1, <1>7 DEF OnlyOf, AcceptorOK
  <2>2. ASSUME NEW k \in Loops, NEW d \in active'[k] \ {Acc}
        PROVE  d <= accepted /\ loopOf[d] = k /\ channel'[d] = Reading
    <3>1. d \in active[k] \ {Acc} /\ d # c /\ d \in Conns
      BY <1>3, <1>6, <2>2 DEF TypeOK
    <3> QED BY <1>7, <3>1 DEF ActiveRules, OnlyOf
  <2> QED BY <1>1, <2>1, <2>2 DEF ActiveRules
<1>8. CASE c \in gone /\ HandleClose(c, l)
  <2>1. ConnTypes' /\ OnlyOf(c) /\ Closed(c)'
    BY <1>1, <1>2, <1>5, <1>8, ClosedEffect DEF HandleClose
  <2>2. PICK k \in Loops, o \in {"destroyed", "remove"} :
            /\ q' = Queue(k, Functor(o, c))
            /\ Rule(o, c, k)
            /\ connections' \subseteq connections
            /\ \A d \in connections : d # c => d \in connections'
            /\ c \in connections => c \in connections' \/ (o = "destroyed" /\ k = l)
    <3>1. 0 \in Loops
      BY BoundsAssumption DEF Loops
    <3> QED BY <1>2, <1>8, <3>1 DEF HandleClose, RemoveConnection, RemoveConnectionInLoop, Rule
  <2>3. /\ QueuesOK'
        /\ \A m \in Loops :
              /\ EstablishedFirst(batch'[m], q'[m])
              /\ \A op, d : Waits(batch'[m], q'[m], op, d) <=>
                     Waits(batch[m], q[m], op, d) \/ (m = k /\ op = o /\ d = c)
    <3>1. o \in Ops /\ o # "established"
      BY DEF Ops
    <3> QED BY <1>1, <2>2, <3>1, Pushed
  <2>4. FunctorRules'
    <3>1. ASSUME NEW m \in Loops, NEW op \in Ops, NEW d \in Conns,
                 Waits(batch'[m], q'[m], op, d)
          PROVE  Rule(op, d, m)'
      <4>1. Rule(op, d, m)
        BY <2>2, <2>3, <3>1 DEF FunctorRules
      <4>2. state[c] # "kConnecting"
        BY <1>2 DEF Up
      <4> QED BY <1>1, <2>1, <4>1, <4>2 DEF Rule, OnlyOf
    <3> QED BY <2>3, <3>1 DEF FunctorRules
  <2>5. TypeOK'
    BY <1>1, <1>3, <2>1, <2>2 DEF TypeOK, ConnTypes
  <2>6. ASSUME NEW d \in Conns PROVE Stage(d)'
    <3>1. Stage(d) /\ loopOf[d] \in Loops
      BY LoopOfConnection DEF Stages
    <3>2. CASE d # c
      <4>1. state'[d] = state[d] /\ channel'[d] = channel[d] /\ downs'[d] = downs[d]
        BY <2>1, <3>2 DEF OnlyOf
      <4>2. \A op \in {"established", "destroyed"} :
               Waits(batch[loopOf[d]], q[loopOf[d]], op, d) =>
                   Waits(batch'[loopOf[d]], q'[loopOf[d]], op, d)
        BY <2>3, <3>1
      <4>3. d \in connections => d \in connections'
        BY <2>2, <3>2
      <4> QED BY <1>1, <3>1, <4>1, <4>2, <4>3, StageKept
    <3>3. CASE d = c
      <4>1. Kept(c)
        BY <1>2, <3>1, <3>3, UpIsKept
      <4>2. Kept(c)'
        BY <1>1, <1>2, <2>2, <2>3, <4>1 DEF Kept, Ended
      <4>3. ~(c > accepted')
        BY <1>1, <1>2 DEF TypeOK, Conns
      <4> QED BY <2>1, <3>3, <4>2, <4>3 DEF Stage
    <3> QED BY <3>2, <3>3
  <2>7. CountsOK'
    BY <2>1 DEF ConnTypes
  <2> QED BY <1>4, <1>7, <2>1, <2>3, <2>4, <2>5, <2>6, <2>7 DEF Stages
<1>9. CASE /\ c \notin gone
           /\ \/ UNCHANGED state
              \/ /\ state[c] = "kConnected"
                 /\ state' = [state EXCEPT ![c] = "kDisconnecting"]
           /\ UNCHANGED <<channel, downs, connections, q>>
  <2>1. state' \in [Conns -> {"kConnecting", "kConnected", "kDisconnecting", "kDisconnected"}]
    BY <1>9 DEF TypeOK
  <2>2. OnlyOf(c) /\ Up(c)'
    BY <1>1, <1>2, <1>9 DEF OnlyOf, Up, TypeOK
  <2>3. TypeOK'
    BY <1>1, <1>3, <1>9, <2>1 DEF TypeOK
  <2>4. QueuesOK' /\ CountsOK'
    BY <1>1, <1>9 DEF QueuesOK, CountsOK
  <2>5. FunctorRules'
    <3>1. \A d \in Conns : state[d] = "kConnecting" => state'[d] = "kConnecting"
      BY <1>2, <2>2 DEF OnlyOf, Up
    <3> QED BY <1>1, <1>9, <3>1 DEF FunctorRules, Rule
  <2>6. ASSUME NEW d \in Conns PROVE Stage(d)'
    <3>1. Stage(d) /\ loopOf[d] \in Loops
      BY LoopOfConnection DEF Stages
    <3>2. CASE d # c
      <4>1. state'[d] = state[d]
        BY <2>2, <3>2 DEF OnlyOf
      <4> QED BY <1>1, <1>9, <3>1, <4>1, StageKept
    <3>3. CASE d = c
      <4>1. Kept(c)
        BY <1>2, <3>1, <3>3, UpIsKept
      <4>2. Kept(c)'
        BY <1>1, <1>9, <4>1 DEF Kept, Ended
      <4>3. ~(c > accepted')
        BY <1>1, <1>2 DEF TypeOK, Conns
      <4> QED BY <2>2, <3>3, <4>2, <4>3 DEF Stage
    <3> QED BY <3>2, <3>3
  <2> QED BY <1>4, <1>7, <2>2, <2>3, <2>4, <2>5, <2>6 DEF Stages
<1> QED BY <1>8, <1>9 DEF HandleEvent

(* The new connection is n: nothing waits for it yet.  It is established   *)
(* at once on the base loop, or the functor that does it is queued.        *)
LEMMA AcceptStep ==
    ASSUME IInv, Accept PROVE IInv'
<1> USE DEF IInv
<1>1. /\ Acc \in active[0]
      /\ active' = [active EXCEPT ![0] = @ \ {Acc}]
      /\ UNCHANGED <<numThreads, started, gone, phase, batch, quit, downs, server>>
  BY DEF Accept
<1>2. 0 \in Loops
  BY BoundsAssumption DEF Loops
<1>3. /\ active' \in [Loops -> SUBSET (Conns \cup {Acc})]
      /\ \A k \in Loops : active'[k] \subseteq active[k]
  BY <1>1, <1>2 DEF TypeOK
<1>4. PhaseOK'
  BY <1>1, <1>3 DEF PhaseOK
<1>5. CASE UNCHANGED <<next, accepted, connections, loopOf, state, channel, q, ups>>
  <2>1. TypeOK'
    BY <1>1, <1>3, <1>5 DEF TypeOK
  <2>2. ActiveRules' /\ AcceptorOK'
    BY <1>1, <1>3, <1>5 DEF ActiveRules, AcceptorOK
  <2> QED BY <1>1, <1>4, <1>5, <2>1, <2>2, Quiet
<1>6. CASE accepted < MaxConns /\ accepted' = accepted + 1 /\ NewConnection(accepted + 1)
  <2>0. PICK n \in Conns : n = accepted + 1
    BY <1>6, BoundsAssumption DEF TypeOK, Conns
  <2>1. /\ accepted' = n /\ n > accepted
        /\ \A d \in Conns : d <= accepted => d <= n /\ d # n
        /\ \A d \in Conns \ {n} : d <= n <=> d <= accepted
        /\ \A d \in Conns \ {n} : d > n <=> d > accepted
        /\ ~(n > n) /\ n <= n
        /\ accepted' \in 0 .. MaxConns
    BY <1>6, <2>0, BoundsAssumption DEF TypeOK, Conns
  <2>2. connections' = connections \cup {n}
    BY <1>6, <2>0 DEF NewConnection
  <2>3. connections' \subseteq 1 .. accepted' /\ gone' \subseteq 1 .. accepted'
    BY <1>1, <2>0, <2>1, <2>2 DEF TypeOK, Conns
  <2>4. PICK m \in 0 .. numThreads :
            /\ loopOf' = [loopOf EXCEPT ![n] = m]
            /\ next' \in 0 .. MaxThreads
            /\ numThreads > 0 => next' < numThreads
    BY <1>6, <2>0, BoundsAssumption DEF NewConnection, GetNextLoop, Advance, TypeOK
  <2>5. /\ loopOf' \in [Conns -> 0 .. numThreads] /\ loopOf'[n] = m
        /\ \A d \in Conns \ {n} : loopOf'[d] = loopOf[d]
    BY <2>1, <2>4 DEF TypeOK
  <2>6. m \in Loops
    BY <2>4, BoundsAssumption DEF TypeOK, Loops
  <2>7. Unborn(n) /\ ConnTypes
    BY <2>1 DEF Stages, Stage, TypeOK, ConnTypes
  <2>8. \A k \in Loops, op \in Ops : ~Waits(batch[k], q[k], op, n)
    BY <2>1 DEF FunctorRules, Rule
  <2>9. \A k \in Loops : n \notin active[k] \ {Acc}
    BY <2>1 DEF ActiveRules
  <2>10. CASE m = 0
    <3>1. ConnectEstablished(n) /\ q' = q
      BY <1>6, <2>0, <2>5, <2>10 DEF NewConnection
    <3>2. ConnTypes' /\ OnlyOf(n) /\ Up(n)'
      BY <1>1, <2>1, <2>7, <3>1, EstablishedEffect
    <3>3. TypeOK'
      BY <1>1, <1>3, <2>1, <2>3, <2>4, <2>5, <3>2 DEF TypeOK, ConnTypes
    <3>4. QueuesOK' /\ CountsOK'
      BY <1>1, <3>1, <3>2 DEF QueuesOK, ConnTypes
    <3>5. AcceptorOK'
      BY <1>1, <3>2 DEF AcceptorOK, OnlyOf
    <3>6. ActiveRules'
      BY <1>1, <1>3, <2>1, <2>5, <2>9, <3>2 DEF ActiveRules, OnlyOf, TypeOK
    <3>7. FunctorRules'
      <4>1. ASSUME NEW k \in Loops, NEW op \in Ops, NEW d \in Conns,
                   Waits(batch'[k], q'[k], op, d)
            PROVE  Rule(op, d, k)'
        <5>1. Rule(op, d, k) /\ d # n
          BY <1>1, <2>8, <3>1, <4>1 DEF FunctorRules
        <5> QED BY <2>1, <2>5, <3>2, <5>1 DEF Rule, OnlyOf
      <4> QED BY <1>1, <3>1, <4>1 DEF FunctorRules
    <3>8. ASSUME NEW d \in Conns PROVE Stage(d)'
      <4>1. Stage(d) /\ loopOf[d] \in Loops
        BY LoopOfConnection DEF Stages
      <4>2. CASE d # n
        <5>1. /\ d > accepted' <=> d > accepted
              /\ d <= accepted' <=> d <= accepted
          BY <2>1, <4>2
        <5>2. /\ loopOf'[d] = loopOf[d] /\ state'[d] = state[d] /\ channel'[d] = channel[d]
              /\ ups'[d] = ups[d] /\ downs'[d] = downs[d]
          BY <2>5, <3>2, <4>2 DEF OnlyOf
        <5> QED BY <1>1, <2>2, <3>1, <4>1, <5>1, <5>2, StageKept
      <4>3. CASE d = n
        <5>1. Kept(n)'
          BY <2>2 DEF Kept
        <5> QED BY <2>1, <3>2, <4>3, <5>1 DEF Stage
      <4> QED BY <4>2, <4>3
    <3> QED BY <1>4, <3>3, <3>4, <3>5, <3>6, <3>7, <3>8 DEF Stages
  <2>11. CASE m # 0
    <3>1. q' = Queue(m, Functor("established", n)) /\ UNCHANGED <<state, channel, ups>>
      BY <1>6, <2>0, <2>5, <2>11 DEF NewConnection
    <3>2. /\ QueuesOK'
          /\ \A k \in Loops :
                /\ EstablishedFirst(batch'[k], q'[k])
                /\ \A op, d : Waits(batch'[k], q'[k], op, d) <=>
                       Waits(batch[k], q[k], op, d) \/ (k = m /\ op = "established" /\ d = n)
      BY <1>1, <2>1, <2>6, <2>8, <3>1, Pushed DEF Ops
    <3>3. TypeOK'
      BY <1>1, <1>3, <2>1, <2>3, <2>4, <2>5, <3>1 DEF TypeOK
    <3>4. CountsOK' /\ AcceptorOK'
      BY <1>1, <3>1 DEF CountsOK, AcceptorOK
    <3>6. ActiveRules'
      BY <1>1, <1>3, <2>1, <2>5, <2>9, <3>1 DEF ActiveRules, TypeOK
    <3>7. FunctorRules'
      <4>1. ASSUME NEW k \in Loops, NEW op \in Ops, NEW d \in Conns,
                   Waits(batch'[k], q'[k], op, d)
            PROVE  Rule(op, d, k)'
        <5>1. CASE d # n
          <6>1. Rule(op, d, k)
            BY <3>2, <4>1, <5>1 DEF FunctorRules
          <6> QED BY <2>1, <2>5, <3>1, <5>1, <6>1 DEF Rule
        <5>2. CASE d = n
          <6>1. k = m /\ op = "established"
            BY <2>8, <3>2, <4>1, <5>2
          <6> QED BY <2>1, <2>5, <2>7, <2>11, <3>1, <5>2, <6>1 DEF Rule, Unborn
        <5> QED BY <5>1, <5>2
      <4> QED BY <3>2, <4>1 DEF FunctorRules
    <3>8. ASSUME NEW d \in Conns PROVE Stage(d)'
      <4>1. Stage(d) /\ loopOf[d] \in Loops
        BY LoopOfConnection DEF Stages
      <4>2. CASE d # n
        <5>1. /\ d > accepted' <=> d > accepted
              /\ d <= accepted' <=> d <= accepted
          BY <2>1, <4>2
        <5>2. loopOf'[d] = loopOf[d] /\ (d \in connections => d \in connections')
          BY <2>2, <2>5, <4>2
        <5>3. \A op \in {"established", "destroyed"} :
                 Waits(batch[loopOf[d]], q[loopOf[d]], op, d) =>
                     Waits(batch'[loopOf[d]], q'[loopOf[d]], op, d)
          BY <3>2, <4>1
        <5> QED BY <1>1, <3>1, <4>1, <5>1, <5>2, <5>3, StageKept
      <4>3. CASE d = n
        <5>1. Kept(n)'
          BY <2>2 DEF Kept
        <5>2. Unborn(n)'
          BY <1>1, <2>7, <3>1 DEF Unborn
        <5>3. Coming(n)'
          BY <2>5, <2>6, <3>2 DEF Coming
        <5> QED BY <2>1, <4>3, <5>1, <5>2, <5>3 DEF Stage
      <4> QED BY <4>2, <4>3
    <3> QED BY <1>4, <3>2, <3>3, <3>4, <3>6, <3>7, <3>8 DEF Stages
  <2> QED BY <2>10, <2>11
<1> QED BY <1>5, <1>6 DEF Accept

LEMMA RunEstablishedStep ==
    ASSUME IInv, NEW l \in Loops, RunFunctor(l), Head(batch[l]).op = "established" PROVE IInv'
<1>1. PICK f : f = Head(batch[l])
  OBVIOUS
<1>2. PICK c : c = f.c
  OBVIOUS
<1>3. /\ batch[l] # << >> /\ batch' = [batch EXCEPT ![l] = Tail(@)]
      /\ f.op = "established" /\ ConnectEstablished(c) /\ q' = q
      /\ UNCHANGED <<numThreads, started, next, accepted, connections, loopOf, gone, phase,
                     active, quit, downs, server>>
  BY <1>1, <1>2 DEF RunFunctor, poolVars
<1>4. /\ batch' \in [Loops -> Seq(Functors)]
      /\ \A k \in Loops \ {l} : batch'[k] = batch[k]
      /\ phase[l] = "functors"
      /\ c \in Conns /\ Rule("established", c, l)
      /\ EstablishedFirst(batch'[l], q'[l])
      /\ ~Waits(batch'[l], q'[l], "established", c)
      /\ \A op, d : Waits(batch'[l], q'[l], op, d) => Waits(batch[l], q[l], op, d)
      /\ \A op, d : Waits(batch[l], q[l], op, d) =>
             Waits(batch'[l], q'[l], op, d) \/ (op = "established" /\ d = c)
  <2>1. q'[l] = q[l] /\ batch[l] # << >> /\ batch' = [batch EXCEPT ![l] = Tail(@)]
    BY <1>3
  <2>2. TakenOut(f, l)
    BY <1>1, <2>1, Popped
  <2> QED BY <1>2, <1>3, <2>2 DEF TakenOut
<1> USE DEF IInv
<1>5. c <= accepted /\ loopOf[c] = l /\ l # 0 /\ state[c] = "kConnecting"
  BY <1>4 DEF Rule
<1>6. Unborn(c) /\ Kept(c)
  <2>1. Stage(c)
    BY <1>4 DEF Stages
  <2> QED BY <1>5, <2>1 DEF Stage, Up, Closed, Done
<1>7. ConnTypes
  BY DEF TypeOK, ConnTypes
<1>8. ConnTypes' /\ OnlyOf(c) /\ Up(c)'
  BY <1>3, <1>4, <1>6, <1>7, EstablishedEffect
<1>9. TypeOK'
  BY <1>3, <1>8 DEF TypeOK, ConnTypes
<1>10. QueuesOK' /\ CountsOK' /\ AcceptorOK'
  BY <1>3, <1>4, <1>8 DEF QueuesOK, ConnTypes, AcceptorOK, OnlyOf
<1>11. PhaseOK'
  BY <1>3, <1>4 DEF PhaseOK
<1>12. ActiveRules'
  <2>1. \A k \in Loops : c \notin active[k] \ {Acc}
    BY <1>4, <1>5 DEF ActiveRules, PhaseOK
  <2> QED BY <1>3, <1>8, <2>1 DEF ActiveRules, OnlyOf, TypeOK
<1>13. FunctorRules'
  <2>1. ASSUME NEW k \in Loops, NEW op \in Ops, NEW d \in Conns,
               Waits(batch'[k], q'[k], op, d)
        PROVE  Rule(op, d, k)'
    <3>1. Waits(batch[k], q[k], op, d)
      BY <1>3, <1>4, <2>1
    <3>2. Rule(op, d, k)
      BY <3>1 DEF FunctorRules
    <3>3. op = "established" => d # c
      BY <1>4, <1>5, <2>1, <3>2 DEF Rule
    <3> QED BY <1>3, <1>8, <3>2, <3>3 DEF Rule, OnlyOf
  <2>2. \A k \in Loops : EstablishedFirst(batch'[k], q'[k])
    BY <1>3, <1>4 DEF FunctorRules
  <2> QED BY <2>1, <2>2 DEF FunctorRules
<1>14. ASSUME NEW d \in Conns PROVE Stage(d)'
  <2>1. Stage(d) /\ loopOf[d] \in Loops
    BY LoopOfConnection DEF Stages
  <2>2. CASE d # c
    <3>1. /\ state'[d] = state[d] /\ channel'[d] = channel[d]
          /\ ups'[d] = ups[d] /\ downs'[d] = downs[d]
      BY <1>8, <2>2 DEF OnlyOf
    <3>2. \A op \in {"established", "destroyed"} :
             Waits(batch[loopOf[d]], q[loopOf[d]], op, d) =>
                 Waits(batch'[loopOf[d]], q'[loopOf[d]], op, d)
      BY <1>3, <1>4, <2>1, <2>2
    <3> QED BY <1>3, <2>1, <3>1, <3>2, StageKept
  <2>3. CASE d = c
    <3>1. Kept(c)'
      BY <1>3, <1>4, <1>5, <1>6 DEF Kept, Ended
    <3>2. ~(c > accepted')
      BY <1>3, <1>4, <1>5 DEF TypeOK, Conns
    <3> QED BY <1>8, <2>3, <3>1, <3>2 DEF Stage
  <2> QED BY <2>2, <2>3
<1> QED BY <1>9, <1>10, <1>11, <1>12, <1>13, <1>14 DEF Stages

LEMMA RunDestroyedStep ==
    ASSUME IInv, NEW l \in Loops, RunFunctor(l), Head(batch[l]).op = "destroyed" PROVE IInv'
<1>1. PICK f : f = Head(batch[l])
  OBVIOUS
<1>2. PICK c : c = f.c
  OBVIOUS
<1>3. /\ batch[l] # << >> /\ batch' = [batch EXCEPT ![l] = Tail(@)]
      /\ f.op = "destroyed" /\ ConnectDestroyed(c) /\ q' = q
      /\ UNCHANGED <<numThreads, started, next, accepted, connections, loopOf, gone, phase,
                     active, quit, ups, server>>
  BY <1>1, <1>2 DEF RunFunctor, poolVars
<1>4. /\ batch' \in [Loops -> Seq(Functors)]
      /\ \A k \in Loops \ {l} : batch'[k] = batch[k]
      /\ phase[l] = "functors"
      /\ c \in Conns /\ Rule("destroyed", c, l)
      /\ EstablishedFirst(batch'[l], q'[l])
      /\ ~Waits(batch'[l], q'[l], "established", c)
      /\ \A op, d : Waits(batch'[l], q'[l], op, d) => Waits(batch[l], q[l], op, d)
      /\ \A op, d : Waits(batch[l], q[l], op, d) =>
             Waits(batch'[l], q'[l], op, d) \/ (op = "destroyed" /\ d = c)
  <2>1. q'[l] = q[l] /\ batch[l] # << >> /\ batch' = [batch EXCEPT ![l] = Tail(@)]
    BY <1>3
  <2>2. TakenOut(f, l)
    BY <1>1, <2>1, Popped
  <2> QED BY <1>2, <1>3, <2>2 DEF TakenOut
<1> USE DEF IInv
<1>5. c <= accepted /\ loopOf[c] = l
  BY <1>4 DEF Rule
<1>6. Up(c) \/ Closed(c) \/ Done(c)
  <2>1. Stage(c)
    BY <1>4 DEF Stages
  <2>2. ~Coming(c)
    BY <1>4, <1>5 DEF Coming, Ended
  <2> QED BY <1>5, <2>1, <2>2 DEF Stage
<1>7. ConnTypes
  BY DEF TypeOK, ConnTypes
<1>8. ConnTypes' /\ OnlyOf(c) /\ Done(c)'
  BY <1>3, <1>4, <1>6, <1>7, DestroyedEffect
<1>9. TypeOK'
  BY <1>3, <1>8 DEF TypeOK, ConnTypes
<1>10. QueuesOK' /\ CountsOK' /\ AcceptorOK'
  BY <1>3, <1>4, <1>8 DEF QueuesOK, ConnTypes, AcceptorOK, OnlyOf
<1>11. PhaseOK'
  BY <1>3, <1>4 DEF PhaseOK
<1>12. ActiveRules'
  <2>1. \A k \in Loops : c \notin active[k] \ {Acc}
    BY <1>4, <1>5 DEF ActiveRules, PhaseOK
  <2> QED BY <1>3, <1>8, <2>1 DEF ActiveRules, OnlyOf, TypeOK
<1>13. FunctorRules'
  <2>1. ASSUME NEW k \in Loops, NEW op \in Ops, NEW d \in Conns,
               Waits(batch'[k], q'[k], op, d)
        PROVE  Rule(op, d, k)'
    <3>1. Waits(batch[k], q[k], op, d)
      BY <1>3, <1>4, <2>1
    <3>2. Rule(op, d, k)
      BY <3>1 DEF FunctorRules
    <3>3. op = "established" => d # c
      BY <1>4, <1>5, <2>1, <3>2 DEF Rule
    <3> QED BY <1>3, <1>8, <3>2, <3>3 DEF Rule, OnlyOf
  <2>2. \A k \in Loops : EstablishedFirst(batch'[k], q'[k])
    BY <1>3, <1>4 DEF FunctorRules
  <2> QED BY <2>1, <2>2 DEF FunctorRules
<1>14. ASSUME NEW d \in Conns PROVE Stage(d)'
  <2>1. Stage(d) /\ loopOf[d] \in Loops
    BY LoopOfConnection DEF Stages
  <2>2. CASE d # c
    <3>1. /\ state'[d] = state[d] /\ channel'[d] = channel[d]
          /\ ups'[d] = ups[d] /\ downs'[d] = downs[d]
      BY <1>8, <2>2 DEF OnlyOf
    <3>2. \A op \in {"established", "destroyed"} :
             Waits(batch[loopOf[d]], q[loopOf[d]], op, d) =>
                 Waits(batch'[loopOf[d]], q'[loopOf[d]], op, d)
      BY <1>3, <1>4, <2>1, <2>2
    <3> QED BY <1>3, <2>1, <3>1, <3>2, StageKept
  <2>3. CASE d = c
    <3>1. ~(c > accepted')
      BY <1>3, <1>4, <1>5 DEF TypeOK, Conns
    <3> QED BY <1>8, <2>3, <3>1 DEF Stage
  <2> QED BY <2>2, <2>3
<1> QED BY <1>9, <1>10, <1>11, <1>12, <1>13, <1>14 DEF Stages

(* removeConnectionInLoop() of a connection of a sub-loop: the functor of  *)
(* the base loop is replaced by one of that sub-loop.                      *)
LEMMA RunRemoveStep ==
    ASSUME IInv, NEW l \in Loops, RunFunctor(l), Head(batch[l]).op = "remove" PROVE IInv'
<1>1. PICK f : f = Head(batch[l])
  OBVIOUS
<1>2. PICK c : c = f.c
  OBVIOUS
<1>3. /\ batch[l] # << >> /\ batch' = [batch EXCEPT ![l] = Tail(@)]
      /\ f.op = "remove" /\ connections' = connections \ {c}
      /\ q' = Queue(loopOf[c], Functor("destroyed", c))
      /\ UNCHANGED <<numThreads, started, next, accepted, loopOf, state, channel, gone, phase,
                     active, quit, ups, downs, server>>
  BY <1>1, <1>2 DEF RunFunctor, RemoveConnectionInLoop, poolVars
<1>4. f.op \in Ops /\ c \in Conns /\ Rule("remove", c, l)
  <2>1. batch[l] \in Seq(Functors) /\ q[l] \in Seq(Functors)
    BY DEF IInv, QueuesOK
  <2>2. EstablishedFirst(batch[l], q[l]) /\ f = batch[l][1]
    BY <1>1, <2>1 DEF IInv, FunctorRules
  <2>3. f \in Functors /\ Waits(batch[l], q[l], f.op, f.c)
    BY <1>3, <2>1, <2>2, Pop
  <2>4. f.op \in Ops /\ f.c \in Conns
    BY <2>3 DEF Functors
  <2> QED BY <1>2, <1>3, <2>3, <2>4 DEF IInv, FunctorRules
<1>5. PICK m \in Loops : m = loopOf[c] /\ m # l /\ l = 0 /\ c <= accepted
  BY <1>4, LoopOfConnection DEF IInv, Rule
<1>6. /\ q'[m] = Append(q[m], Functor("destroyed", c))
      /\ \A k \in Loops \ {m} : q'[k] = q[k]
  BY <1>3, <1>5 DEF IInv, Queue, QueuesOK
<1>7. /\ batch' \in [Loops -> Seq(Functors)]
      /\ \A k \in Loops \ {l} : batch'[k] = batch[k]
      /\ phase[l] = "functors"
      /\ EstablishedFirst(batch'[l], q'[l])
      /\ \A op, d : Waits(batch'[l], q'[l], op, d) => Waits(batch[l], q[l], op, d)
      /\ \A op, d : Waits(batch[l], q[l], op, d) =>
             Waits(batch'[l], q'[l], op, d) \/ (op = "remove" /\ d = c)
  <2>1. q'[l] = q[l] /\ batch[l] # << >> /\ batch' = [batch EXCEPT ![l] = Tail(@)]
    BY <1>3, <1>5, <1>6
  <2>2. TakenOut(f, l)
    BY <1>1, <2>1, Popped
  <2> QED BY <1>2, <1>3, <2>2 DEF TakenOut
<1> USE DEF IInv
<1>8. /\ q'[m] \in Seq(Functors)
      /\ EstablishedFirst(batch'[m], q'[m])
      /\ \A op, d : Waits(batch'[m], q'[m], op, d) <=>
             Waits(batch[m], q[m], op, d) \/ (op = "destroyed" /\ d = c)
  <2>1. PICK g \in Functors : g = Functor("destroyed", c)
    BY <1>4 DEF Functor, Functors, Ops
  <2>2. g.op = "destroyed" /\ g.c = c
    BY <2>1 DEF Functor
  <2>3. batch[m] \in Seq(Functors) /\ q[m] \in Seq(Functors) /\ batch'[m] = batch[m]
    BY <1>5, <1>7 DEF QueuesOK
  <2>4. EstablishedFirst(batch[m], q[m]) /\ q'[m] = Append(q[m], g)
    BY <1>6, <2>1 DEF FunctorRules
  <2>5. Grown(batch[m], q[m], g, q'[m])
    BY <2>3, <2>4, Push
  <2> QED BY <2>2, <2>3, <2>4, <2>5 DEF Grown
<1>9. QueuesOK'
  <2>1. q' = [q EXCEPT ![m] = q'[m]]
    BY <1>3, <1>5 DEF Queue, QueuesOK
  <2> QED BY <1>7, <1>8, <2>1 DEF QueuesOK
<1>10. TypeOK'
  BY <1>3 DEF TypeOK
<1>11. CountsOK' /\ AcceptorOK' /\ ActiveRules'
  BY <1>3 DEF CountsOK, AcceptorOK, ActiveRules
<1>12. PhaseOK'
  BY <1>3, <1>7 DEF PhaseOK
<1>13. FunctorRules'
  <2>1. ASSUME NEW k \in Loops, NEW op \in Ops, NEW d \in Conns,
               Waits(batch'[k], q'[k], op, d)
        PROVE  Rule(op, d, k)
    <3>1. Waits(batch[k], q[k], op, d) \/ (k = m /\ op = "destroyed" /\ d = c)
      BY <1>6, <1>7, <1>8, <2>1
    <3> QED BY <1>5, <3>1 DEF FunctorRules, Rule
  <2>2. \A k \in Loops : EstablishedFirst(batch'[k], q'[k])
    BY <1>6, <1>7, <1>8 DEF FunctorRules
  <2> QED BY <1>3, <2>1, <2>2 DEF FunctorRules, Rule
<1>14. ASSUME NEW d \in Conns PROVE Stage(d)'
  <2>1. Stage(d) /\ loopOf[d] \in Loops
    BY LoopOfConnection DEF Stages
  <2>2. \A op \in {"established", "destroyed"} :
           Waits(batch[loopOf[d]], q[loopOf[d]], op, d) =>
               Waits(batch'[loopOf[d]], q'[loopOf[d]], op, d)
    BY <1>6, <1>7, <1>8, <2>1
  <2>3. d \in connections => d \in connections'
                              \/ Waits(batch'[loopOf[d]], q'[loopOf[d]], "destroyed", d)
    BY <1>3, <1>5, <1>8
  <2> QED BY <1>3, <2>1, <2>2, <2>3, StageKept
<1> QED BY <1>9, <1>10, <1>11, <1>12, <1>13, <1>14 DEF Stages

(* The destructor, behind the base loop: a connection of that loop is      *)
(* destroyed at once, any other by a functor of its own loop.              *)
LEMMA DestroyConnectionStep ==
    ASSUME IInv, NEW c \in Conns, DestroyConnection(c) PROVE IInv'
<1> USE DEF IInv
<1>1. /\ server = "destroying" /\ c \in connections /\ connections' = connections \ {c}
      /\ UNCHANGED <<numThreads, started, next, accepted, loopOf, gone, phase, active, batch,
                     quit, ups, server>>
  BY DEF DestroyConnection, poolVars, loopVars
<1>2. phase[0] = "exited" /\ c <= accepted /\ 0 \in Loops
  BY <1>1, BoundsAssumption DEF PhaseOK, TypeOK, Loops
<1>3. PhaseOK'
  BY <1>1 DEF PhaseOK
<1>4. CASE loopOf[c] = 0
  <2>1. ConnectDestroyed(c) /\ q' = q
    BY <1>4 DEF DestroyConnection, RunDestroyed
  <2>2. \A k \in Loops : ~Waits(batch[k], q[k], "established", c)
    BY <1>4 DEF FunctorRules, Rule, Ops
  <2>3. Up(c) \/ Closed(c) \/ Done(c)
    <3>1. Stage(c) /\ ~Coming(c)
      BY <1>2, <1>4, <2>2 DEF Stages, Coming, Ended
    <3> QED BY <1>2, <3>1 DEF Stage
  <2>4. ConnTypes
    BY DEF TypeOK, ConnTypes
  <2>5. ConnTypes' /\ OnlyOf(c) /\ Done(c)'
    BY <1>1, <2>1, <2>3, <2>4, DestroyedEffect
  <2>6. TypeOK'
    BY <1>1, <2>5 DEF TypeOK, ConnTypes
  <2>7. QueuesOK' /\ CountsOK' /\ AcceptorOK'
    BY <1>1, <2>1, <2>5 DEF QueuesOK, ConnTypes, AcceptorOK, OnlyOf
  <2>8. ActiveRules'
    <3>1. \A k \in Loops : c \notin active[k] \ {Acc}
      BY <1>2, <1>4 DEF ActiveRules, PhaseOK
    <3> QED BY <1>1, <2>5, <3>1 DEF ActiveRules, OnlyOf, TypeOK
  <2>9. FunctorRules'
    <3>1. ASSUME NEW k \in Loops, NEW op \in Ops, NEW d \in Conns,
                 Waits(batch[k], q[k], op, d)
          PROVE  Rule(op, d, k)'
      <4>1. Rule(op, d, k) /\ (op = "established" => d # c)
        BY <2>2, <3>1 DEF FunctorRules
      <4> QED BY <1>1, <2>5, <4>1 DEF Rule, OnlyOf
    <3> QED BY <1>1, <2>1, <3>1 DEF FunctorRules
  <2>10. ASSUME NEW d \in Conns PROVE Stage(d)'
    <3>1. Stage(d) /\ loopOf[d] \in Loops
      BY LoopOfConnection DEF Stages
    <3>2. CASE d # c
      <4>1. /\ state'[d] = state[d] /\ channel'[d] = channel[d]
            /\ ups'[d] = ups[d] /\ downs'[d] = downs[d]
        BY <2>5, <3>2 DEF OnlyOf
      <4> QED BY <1>1, <2>1, <3>1, <3>2, <4>1, StageKept
    <3>3. CASE d = c
      <4>1. ~(c > accepted')
        BY <1>1, <1>2 DEF TypeOK, Conns
      <4> QED BY <2>5, <3>3, <4>1 DEF Stage
    <3> QED BY <3>2, <3>3
  <2> QED BY <1>3, <2>6, <2>7, <2>8, <2>9, <2>10 DEF Stages
<1>5. CASE loopOf[c] # 0
  <2>1. PICK m \in Loops : m = loopOf[c]
    BY LoopOfConnection
  <2>2. q' = Queue(m, Functor("destroyed", c)) /\ UNCHANGED <<state, channel, downs>>
    BY <1>5, <2>1 DEF DestroyConnection, RunDestroyed
  <2>3. /\ QueuesOK'
        /\ \A k \in Loops :
              /\ EstablishedFirst(batch'[k], q'[k])
              /\ \A op, d : Waits(batch'[k], q'[k], op, d) <=>
                     Waits(batch[k], q[k], op, d) \/ (k = m /\ op = "destroyed" /\ d = c)
    <3>1. "destroyed" \in Ops
      BY DEF Ops
    <3> QED BY <1>1, <2>2, <3>1, Pushed
  <2>4. TypeOK'
    BY <1>1, <2>2 DEF TypeOK
  <2>5. CountsOK' /\ AcceptorOK' /\ ActiveRules'
    BY <1>1, <2>2 DEF CountsOK, AcceptorOK, ActiveRules
  <2>6. FunctorRules'
    <3>1. ASSUME NEW k \in Loops, NEW op \in Ops, NEW d \in Conns,
                 Waits(batch'[k], q'[k], op, d)
          PROVE  Rule(op, d, k)
      BY <1>2, <2>1, <2>3, <3>1 DEF FunctorRules, Rule
    <3> QED BY <1>1, <2>2, <2>3, <3>1 DEF FunctorRules, Rule
  <2>7. ASSUME NEW d \in Conns PROVE Stage(d)'
    <3>1. Stage(d) /\ loopOf[d] \in Loops
      BY LoopOfConnection DEF Stages
    <3>2. \A op \in {"established", "destroyed"} :
             Waits(batch[loopOf[d]], q[loopOf[d]], op, d) =>
                 Waits(batch'[loopOf[d]], q'[loopOf[d]], op, d)
      BY <2>3, <3>1
    <3>3. d \in connections => d \in connections'
                                \/ Waits(batch'[loopOf[d]], q'[loopOf[d]], "destroyed", d)
      BY <1>1, <2>1, <2>3
    <3> QED BY <1>1, <2>2, <3>1, <3>2, <3>3, StageKept
  <2> QED BY <1>3, <2>3, <2>4, <2>5, <2>6, <2>7 DEF Stages
<1> QED BY <1>4, <1>5

-----------------------------------------------------------------------------
(* The theorems *)

LEMMA InitInv == Init => IInv
<1> SUFFICES ASSUME Init PROVE IInv
  OBVIOUS
<1> USE BoundsAssumption DEF Init
<1>1. 0 \in Loops /\ 0 \in 0 .. numThreads /\ 0 \in 0 .. MaxThreads /\ 0 \in 0 .. MaxConns
      /\ (numThreads > 0 => 0 < numThreads)
  BY DEF Loops
<1>2. channel \in [Conns \cup {Acc} -> Channel]
  BY ChannelTypes
<1>3. TypeOK
  BY <1>1, <1>2 DEF TypeOK
<1>4. QueuesOK /\ CountsOK
  BY DEF QueuesOK, CountsOK
<1>5. PhaseOK /\ AcceptorOK /\ ActiveRules
  BY <1>1 DEF PhaseOK, AcceptorOK, ActiveRules
<1>6. FunctorRules
  BY NothingWaits DEF FunctorRules
<1>7. \A c \in Conns : Unborn(c) /\ ~(c <= accepted)
  BY DEF Unborn, Conns
<1>8. Stages
  BY <1>7 DEF Stages, Stage
<1> QED BY <1>3, <1>4, <1>5, <1>6, <1>8 DEF IInv

LEMMA NextInv == IInv /\ [Next]_vars => IInv'
<1> SUFFICES ASSUME IInv, [Next]_vars PROVE IInv'
  OBVIOUS
<1>1. ASSUME NEW l \in Loops, LoopStep(l) PROVE IInv'
  <2>1. CASE RunFunctor(l)
    <3>1. Head(batch[l]).op \in {"established", "destroyed", "remove"}
      BY <2>1 DEF RunFunctor
    <3> QED BY <2>1, <3>1, RunEstablishedStep, RunDestroyedStep, RunRemoveStep
  <2>2. CASE Poll(l)
    BY <2>2, QuietStep
  <2>3. CASE Accept
    BY <2>3, AcceptStep
  <2>4. CASE \E c \in Conns : HandleEvent(l, c)
    BY <2>4, HandleEventStep
  <2>5. CASE SwapFunctors(l)
    BY <2>5, SwapStep
  <2>6. CASE EndTurn(l)
    BY <2>6, EndTurnStep
  <2> QED BY <1>1, <2>1, <2>2, <2>3, <2>4, <2>5, <2>6 DEF LoopStep
<1>2. CASE MainStep
  <2>1. CASE \E c \in Conns : DestroyConnection(c)
    BY <2>1, DestroyConnectionStep
  <2>2. CASE DestroyServer \/ DestroyPool \/ DestroyAcceptor \/ \E l \in Loops : QuitLoop(l)
    BY <2>2, QuietStep
  <2> QED BY <1>2, <2>1, <2>2 DEF MainStep
<1>3. CASE Start \/ QuitBase \/ \E c \in Conns : PeerCloses(c)
  BY <1>3, QuietStep
<1>4. CASE UNCHANGED vars
  <2>1. UNCHANGED <<numThreads, started, next, accepted, connections, loopOf, state,
                    channel, gone, phase, active, batch, q, quit, ups, downs, server>>
    BY <1>4 DEF vars
  <2>2. TypeOK' /\ PhaseOK' /\ AcceptorOK' /\ ActiveRules'
    BY <2>1 DEF IInv, TypeOK, PhaseOK, AcceptorOK, ActiveRules
  <2>3. FunctorRules' /\ Stages' /\ QueuesOK' /\ CountsOK'
    BY <2>1, Quiet
  <2> QED BY <2>2, <2>3 DEF IInv
<1> QED BY <1>1, <1>2, <1>3, <1>4 DEF Next

(* The inductive invariant: every connection is in one of its stages, and  *)
(* one that is not done has somebody who will destroy it.                  *)
THEOREM Inductive == Spec => []IInv
<1>1. Init => IInv
  BY InitInv
<1>2. IInv /\ [Next]_vars => IInv'
  BY NextInv
<1> QED BY <1>1, <1>2, PTL DEF Spec

(* Types: EventLoopThreadPool::getNextLoop() stays inside the pool, and    *)
(* every connection is given to a loop that exists.                        *)
THEOREM TypeCorrect == Spec => []TypeOK
<1>1. IInv => TypeOK
  BY DEF IInv
<1> QED BY <1>1, Inductive, PTL

(* A connection that is freed is done, or its sub-loop has ended: no       *)
(* connectDestroyed() is left for it.                                      *)
LEMMA FreedIsDone ==
    ASSUME IInv, NEW c \in Conns, Freed(c)
    PROVE  c <= accepted /\ (Done(c) \/ Ended(c))
<1>1. Stage(c) /\ loopOf[c] \in Loops
  BY LoopOfConnection DEF IInv, Stages
<1>2. c <= accepted /\ c \notin connections
      /\ ~Mentions(q[loopOf[c]], c) /\ ~Mentions(batch[loopOf[c]], c)
  BY <1>1 DEF Freed
<1>3. batch[loopOf[c]] \in Seq(Functors) /\ q[loopOf[c]] \in Seq(Functors)
  BY <1>1 DEF IInv, QueuesOK
<1>4. \A op : ~Waits(batch[loopOf[c]], q[loopOf[c]], op, c)
  BY <1>2, <1>3, WaitingMentions
<1> QED BY <1>1, <1>2, <1>4 DEF Stage, Kept

(* No loop dispatches a channel of a connection that was freed: neither    *)
(* removeConnection() on the base loop nor the destructor of the server    *)
(* takes the last TcpConnectionPtr while epoll_wait()'s plain pointer to   *)
(* its channel is still to be used.                                        *)
THEOREM NoDanglingDispatch == Spec => []ActiveAlive
<1>1. IInv => ActiveAlive
  <2> SUFFICES ASSUME IInv, NEW l \in Loops, NEW c \in active[l] \ {Acc} PROVE ~Freed(c)
    BY DEF ActiveAlive
  <2>1. c \in Conns /\ c <= accepted /\ loopOf[c] = l /\ Up(c) /\ phase[l] = "dispatch"
    BY StageOfActive
  <2>2. ~Ended(c)
    BY <2>1 DEF Ended
  <2>3. ~Done(c)
    <3>1. Reading # NewChannel /\ Reading # Dropped
      BY ChannelTypes
    <3> QED BY <2>1, <3>1 DEF Up, Done
  <2> QED BY <2>1, <2>2, <2>3, FreedIsDone
<1> QED BY <1>1, Inductive, PTL

(* The poller agrees with the kernel about every channel, and a connection *)
(* is freed only after connectDestroyed() has taken its channel out of the *)
(* poller, unless its sub-loop has ended.                                  *)
THEOREM ChannelsRemoved == Spec => []RemovedBeforeFreed
<1>1. IInv => RemovedBeforeFreed
  <2> SUFFICES ASSUME IInv PROVE RemovedBeforeFreed
    OBVIOUS
  <2>1. ASSUME NEW c \in Conns
        PROVE  channel[c] \in {NewChannel, Reading, Disabled, Dropped}
    <3>1. Stage(c) /\ (c > accepted \/ c <= accepted)
      BY DEF IInv, Stages, TypeOK, Conns
    <3> QED BY <3>1 DEF Stage, Unborn, Up, Closed, Done
  <2>2. \A c \in Conns \cup {Acc} : Agrees(channel[c])
    BY <2>1, ChannelTypes DEF IInv, AcceptorOK
  <2>3. ASSUME NEW c \in Conns, Freed(c), loopOf[c] = 0 \/ phase[loopOf[c]] # "exited"
        PROVE  ~channel[c].registered /\ ~channel[c].inMap
    <3>1. Done(c)
      BY <2>3, FreedIsDone DEF Ended
    <3> QED BY <3>1, ChannelTypes DEF Done
  <2> QED BY <2>2, <2>3 DEF RemovedBeforeFreed
<1> QED BY <1>1, Inductive, PTL

(* connectionCallback_ reports the start of a connection once, its end at  *)
(* most once and afterwards, and before the connection is freed; a         *)
(* connection in kDisconnecting that the destructor finds, or one whose    *)
(* sub-loop has ended, gets no report.                                     *)
THEOREM ReportedInOrder == Spec => []UpThenDown
<1>1. IInv => UpThenDown
  <2> SUFFICES ASSUME IInv, NEW c \in Conns
               PROVE  /\ downs[c] <= ups[c] /\ ups[c] <= 1
                      /\ Freed(c) => \/ downs[c] = ups[c]
                                     \/ state[c] = "kDisconnecting"
                                     \/ loopOf[c] # 0 /\ phase[loopOf[c]] = "exited"
    BY DEF UpThenDown
  <2>1. Stage(c) /\ (c > accepted \/ c <= accepted)
    BY DEF IInv, Stages, TypeOK, Conns
  <2>2. downs[c] <= ups[c] /\ ups[c] <= 1
    BY <2>1 DEF Stage, Unborn, Up, Closed, Done
  <2>3. Freed(c) => Done(c) \/ Ended(c)
    BY FreedIsDone
  <2> QED BY <2>2, <2>3 DEF Done, Ended
<1> QED BY <1>1, Inductive, PTL
=============================================================================
