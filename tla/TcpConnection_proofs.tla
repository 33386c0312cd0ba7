------------------------- MODULE TcpConnection_proofs -------------------------
(***************************************************************************)
(* Proofs about TcpConnection, for any callers, messages and high water    *)
(* mark: the types, the stream of bytes, the interest in EPOLLOUT, the     *)
(* half close, the registration with the poller, the end of the connection *)
(* and the functors that are bound to a plain this.                        *)
(***************************************************************************)
EXTENDS TcpConnection, SequenceTheorems, TLAPS

(* The inductive invariant.  First what is said of the functor queue.      *)
SendsMessages(s) == \A i \in DOMAIN s : s[i].op = "send" => s[i].k # 0

Established(s) == s # << >> /\ s[1].op = "established"

OnlyFirst(s) == \A i \in DOMAIN s : s[i].op = "established" => i = 1

HasDestroyed(s) == \E i \in DOMAIN s : s[i].op = "destroyed"

(* A raw functor that was queued before the end is ahead of a              *)
(* connectDestroyed(), unless the server still has the connection.         *)
RawAhead(s, srv) ==
    \A i \in DOMAIN s : Raw(s[i]) /\ ~s[i].late =>
        srv \/ \E j \in DOMAIN s : j > i /\ s[j].op = "destroyed"

(* connectEstablished() is the first functor of the connection, and until  *)
(* it has run nothing of it is registered and nobody holds it.             *)
EstablishedFirst ==
    /\ state = "kConnecting" <=> Established(q)
    /\ OnlyFirst(q)
    /\ state = "kConnecting" => ~channel.inMap
    /\ holders # {} => state # "kConnecting"
    /\ \A t \in Callers : call[t] # NoCall => t \in holders

(* A dispatch is of a connection that was established, and one that may    *)
(* still close it is of a channel that is registered.                      *)
DispatchOfRegistered ==
    /\ revents # {} => state # "kConnecting"
    /\ "HUP" \in revents \/ "IN" \in revents => channel.registered

(* Once the end was reported, and shutdown() has not overwritten the state *)
(* since, the state is kDisconnected, no event is on its way that could    *)
(* report the end again, and none can come.  A connection in that state    *)
(* does not write.                                                         *)
ToldOnce ==
    /\ OneDown
    /\ state = "kDisconnected" => ~IsWriting(channel)
    /\ ~raced /\ downs > 0 =>
          /\ state = "kDisconnected"
          /\ ~channel.registered /\ ~IsWriting(channel)
          /\ "HUP" \notin revents /\ "IN" \notin revents

(* connectDestroyed() is queued when the server lets the connection go,    *)
(* and not before; a removal is asked for by handleClose() only.           *)
RemovedByServer ==
    /\ HasDestroyed(q) => ~inServer
    /\ removals > 0 => downs > 0
    /\ state = "kDisconnected" => downs > 0

(* A closed connection that the poller still knows has connectDestroyed()  *)
(* ahead of it.                                                            *)
ToBeRemoved ==
    state = "kDisconnected" /\ channel.inMap
        => inServer \/ removals > 0 \/ HasDestroyed(q)

(* All but the destructor on the loop's own thread keep to the queue. *)
RawInTime == ~overtaken => RawAhead(q, inServer)

IInv ==
    /\ TypeOK
    /\ StreamIntact
    /\ Agrees(channel)
    /\ WriteInterest
    /\ FinAfterData
    /\ EstablishedFirst
    /\ DispatchOfRegistered
    /\ ToldOnce
    /\ RemovedByServer
    /\ ToBeRemoved
    /\ RawInTime

-----------------------------------------------------------------------------
(* Channel and EpollPoller: what each operation does to a channel about    *)
(* which poller and kernel agree.  They go on agreeing, so no epoll_ctl()  *)
(* fails fatally.                                                          *)

(* updateChannel() leaves the kernel with exactly the events of the        *)
(* channel; only one that was registered and has no events left is taken   *)
(* out.                                                                    *)
LEMMA UpdateKeeps ==
    ASSUME NEW c \in Channel, NEW ch \in Channel, Agrees(ch),
           c = [ch EXCEPT !.events = c.events],
           NEW r, r = UpdateChannel(c)
    PROVE  /\ r \in Channel /\ Agrees(r)
           /\ r.inMap
           /\ r.events = c.events
           /\ r.registered <=> c.events # {} \/ ~ch.registered
<1>1. /\ ~c.fatal /\ c.registered = ch.registered
      /\ c.registered <=> c.index = "kAdded"
      /\ c.inMap <=> c.index # "kNew"
  BY DEF Channel, Agrees
<1>2. CASE c.index # "kAdded"
  <2>1. r = [c EXCEPT !.index = "kAdded", !.inMap = TRUE,
                      !.registered = TRUE, !.interest = c.events]
    BY <1>1, <1>2 DEF Channel, UpdateChannel, CtlAdd
  <2> QED BY <1>1, <1>2, <2>1 DEF Channel, Agrees
<1>3. CASE c.index = "kAdded" /\ c.events = {}
  <2>1. r = [c EXCEPT !.index = "kDeleted", !.registered = FALSE, !.interest = {}]
    BY <1>1, <1>3 DEF Channel, UpdateChannel, CtlDel
  <2> QED BY <1>1, <1>3, <2>1 DEF Channel, Agrees
<1>4. CASE c.index = "kAdded" /\ c.events # {}
  <2>1. r = [c EXCEPT !.interest = c.events]
    BY <1>1, <1>4 DEF Channel, UpdateChannel, CtlMod
  <2> QED BY <1>1, <1>4, <2>1 DEF Channel, Agrees
<1> QED BY <1>2, <1>3, <1>4

LEMMA EnableReadingKeeps ==
    ASSUME NEW ch \in Channel, Agrees(ch), NEW r, r = EnableReading(ch)
    PROVE  /\ r \in Channel /\ Agrees(r)
           /\ r.inMap /\ r.registered
           /\ IsWriting(r) <=> IsWriting(ch)
<1> DEFINE c == [ch EXCEPT !.events = @ \cup {"IN"}]
<1>1. /\ c \in Channel /\ c = [ch EXCEPT !.events = c.events]
      /\ c.events = ch.events \cup {"IN"} /\ r = UpdateChannel(c)
  BY DEF Channel, Events, EnableReading
<1> HIDE DEF c
<1> QED BY <1>1, UpdateKeeps DEF IsWriting

LEMMA EnableWritingKeeps ==
    ASSUME NEW ch \in Channel, Agrees(ch), NEW r, r = EnableWriting(ch)
    PROVE  /\ r \in Channel /\ Agrees(r)
           /\ r.inMap /\ r.registered
           /\ IsWriting(r)
<1> DEFINE c == [ch EXCEPT !.events = @ \cup {"OUT"}]
<1>1. /\ c \in Channel /\ c = [ch EXCEPT !.events = c.events]
      /\ c.events = ch.events \cup {"OUT"} /\ r = UpdateChannel(c)
  BY DEF Channel, Events, EnableWriting
<1> HIDE DEF c
<1> QED BY <1>1, UpdateKeeps DEF IsWriting

LEMMA DisableWritingKeeps ==
    ASSUME NEW ch \in Channel, Agrees(ch), NEW r, r = DisableWriting(ch)
    PROVE  r \in Channel /\ Agrees(r) /\ r.inMap /\ ~IsWriting(r)
<1> DEFINE c == [ch EXCEPT !.events = @ \ {"OUT"}]
<1>1. /\ c \in Channel /\ c = [ch EXCEPT !.events = c.events]
      /\ c.events = ch.events \ {"OUT"} /\ r = UpdateChannel(c)
  BY DEF Channel, Events, DisableWriting
<1> HIDE DEF c
<1> QED BY <1>1, UpdateKeeps DEF IsWriting

(* disableAll() takes a registered channel out of the kernel's set; one    *)
(* that is not registered it adds, with no events.                         *)
LEMMA DisableAllKeeps ==
    ASSUME NEW ch \in Channel, Agrees(ch), NEW r, r = DisableAll(ch)
    PROVE  /\ r \in Channel /\ Agrees(r)
           /\ r.inMap /\ ~IsWriting(r)
           /\ r.registered <=> ~ch.registered
<1> DEFINE c == [ch EXCEPT !.events = {}]
<1>1. /\ c \in Channel /\ c = [ch EXCEPT !.events = c.events]
      /\ c.events = {} /\ r = UpdateChannel(c)
  BY DEF Channel, Events, DisableAll
<1> HIDE DEF c
<1> QED BY <1>1, UpdateKeeps DEF IsWriting

LEMMA RemoveChannelKeeps ==
    ASSUME NEW ch \in Channel, Agrees(ch), NEW r, r = RemoveChannel(ch)
    PROVE  /\ r \in Channel /\ Agrees(r)
           /\ ~r.inMap /\ ~r.registered
           /\ IsWriting(r) <=> IsWriting(ch)
<1> QED BY DEF Channel, Agrees, RemoveChannel, CtlDel, IsWriting

(* What epoll_wait() reports is of a registered channel. *)
LEMMA ReportedRegistered ==
    ASSUME NEW ch, NEW ready, Reported(ch, ready) # {}
    PROVE  ch.registered /\ Reported(ch, ready) \subseteq ready
<1> QED BY DEF Reported

-----------------------------------------------------------------------------
(* The functor queue *)

(* What the functors of a connection keep in place: a queue t that differs *)
(* from s by user callbacks at its end only.                               *)
QueueKept(s, t) ==
    /\ t \in Seq(Functors)
    /\ SendsMessages(s) => SendsMessages(t)
    /\ Established(s) <=> Established(t)
    /\ OnlyFirst(s) => OnlyFirst(t)
    /\ HasDestroyed(s) <=> HasDestroyed(t)
    /\ \A srv \in BOOLEAN : RawAhead(s, srv) => RawAhead(t, srv)

(* The queue t is s with f behind it. *)
Pushed(s, f, t) ==
    /\ t \in Seq(Functors)
    /\ SendsMessages(s) => SendsMessages(t)
    /\ s # << >> => (Established(s) <=> Established(t))
    /\ ~Established(s) => ~Established(t)
    /\ OnlyFirst(s) => OnlyFirst(t)
    /\ HasDestroyed(t) <=> HasDestroyed(s) \/ f.op = "destroyed"
    /\ \A srv \in BOOLEAN :
          RawAhead(s, srv) /\ (Raw(f) /\ ~f.late => srv) => RawAhead(t, srv)
    /\ f.op = "destroyed" => RawAhead(t, FALSE)

(* queueInLoop() of a functor other than connectEstablished(). *)
LEMMA PushQueue ==
    ASSUME NEW s \in Seq(Functors), NEW f \in Functors, NEW t, t = Append(s, f),
           f.op # "established", f.op = "send" => f.k # 0
    PROVE  Pushed(s, f, t)
<1> DEFINE n == Len(s)
<1>1. /\ n \in Nat /\ DOMAIN s = 1 .. n
      /\ t \in Seq(Functors) /\ DOMAIN t = 1 .. n + 1
      /\ \A i \in 1 .. n : t[i] = s[i]
      /\ t[n + 1] = f
      /\ s = << >> <=> n = 0
      /\ t # << >>
  BY AppendProperties, LenProperties, EmptySeq
<1> HIDE DEF n
<1>2. \A i \in 1 .. n + 1 : i \in 1 .. n \/ i = n + 1
  BY <1>1
<1>3. \A i \in 1 .. n : i \in 1 .. n + 1 /\ n + 1 > i
  BY <1>1
<1>4. n + 1 \in 1 .. n + 1
  BY <1>1
<1>5. SendsMessages(s) => SendsMessages(t)
  BY <1>1, <1>2 DEF SendsMessages
<1>6. OnlyFirst(s) => OnlyFirst(t)
  BY <1>1, <1>2 DEF OnlyFirst
<1>7. /\ s # << >> => (Established(s) <=> Established(t))
      /\ ~Established(s) => ~Established(t)
  BY <1>1 DEF Established
<1>8. HasDestroyed(t) <=> HasDestroyed(s) \/ f.op = "destroyed"
  BY <1>1, <1>2, <1>3, <1>4 DEF HasDestroyed
<1>9. ASSUME NEW srv \in BOOLEAN, RawAhead(s, srv), Raw(f) /\ ~f.late => srv
      PROVE  RawAhead(t, srv)
  <2> SUFFICES ASSUME NEW i \in DOMAIN t, Raw(t[i]), ~t[i].late, ~srv
               PROVE  \E j \in DOMAIN t : j > i /\ t[j].op = "destroyed"
    BY DEF RawAhead
  <2>1. i \in 1 .. n /\ t[i] = s[i]
    BY <1>1, <1>2, <1>9
  <2>2. PICK j \in DOMAIN s : j > i /\ s[j].op = "destroyed"
    BY <1>1, <1>9, <2>1 DEF RawAhead
  <2> QED BY <1>1, <1>3, <2>2
<1>10. ASSUME f.op = "destroyed" PROVE RawAhead(t, FALSE)
  <2> SUFFICES ASSUME NEW i \in DOMAIN t, Raw(t[i])
               PROVE  \E j \in DOMAIN t : j > i /\ t[j].op = "destroyed"
    BY DEF RawAhead
  <2>1. i \in 1 .. n
    BY <1>1, <1>2, <1>10 DEF Raw
  <2> QED BY <1>1, <1>3, <1>4, <1>10, <2>1
<1> QED BY <1>1, <1>5, <1>6, <1>7, <1>8, <1>9, <1>10 DEF Pushed

(* The queue t is s without its head. *)
Popped(s, t) ==
    /\ t \in Seq(Functors)
    /\ Head(s) \in Functors /\ Head(s) = s[1] /\ 1 \in DOMAIN s
    /\ SendsMessages(s) => SendsMessages(t)
    /\ OnlyFirst(s) => OnlyFirst(t) /\ ~Established(t)
    /\ HasDestroyed(t) => HasDestroyed(s)
    /\ Head(s).op # "destroyed" => (HasDestroyed(s) => HasDestroyed(t))
    /\ \A srv \in BOOLEAN : RawAhead(s, srv) => RawAhead(t, srv)

LEMMA PopQueue ==
    ASSUME NEW s \in Seq(Functors), s # << >>, NEW t, t = Tail(s)
    PROVE  Popped(s, t)
<1> DEFINE n == Len(t)
<1>1. /\ n \in Nat /\ DOMAIN t = 1 .. n
      /\ t \in Seq(Functors) /\ DOMAIN s = 1 .. n + 1
      /\ \A i \in 1 .. n : t[i] = s[i + 1]
      /\ Head(s) = s[1] /\ Head(s) \in Functors
      /\ t = << >> <=> n = 0
  <2>1. Len(s) \in Nat /\ DOMAIN s = 1 .. Len(s) /\ Len(s) # 0
    BY LenProperties, EmptySeq
  <2>2. /\ Head(s) \in Functors /\ Head(s) = s[1] /\ t \in Seq(Functors)
        /\ n = Len(s) - 1 /\ \A i \in 1 .. n : t[i] = s[i + 1]
    BY HeadTailProperties
  <2>3. n \in Nat /\ DOMAIN t = 1 .. n /\ (t = << >> <=> n = 0)
    BY <2>2, LenProperties, EmptySeq
  <2>4. Len(s) = n + 1
    BY <2>1, <2>2
  <2> QED BY <2>1, <2>2, <2>3, <2>4
<1> HIDE DEF n
<1>2. \A i \in 1 .. n + 1 : i = 1 \/ (i - 1 \in 1 .. n /\ t[i - 1] = s[i])
  BY <1>1
<1>3. \A i \in 1 .. n : i + 1 \in 1 .. n + 1 /\ i + 1 # 1
  BY <1>1
<1>4. 1 \in 1 .. n + 1
  BY <1>1
<1>5. SendsMessages(s) => SendsMessages(t)
  BY <1>1, <1>3 DEF SendsMessages
<1>6. OnlyFirst(s) => OnlyFirst(t) /\ ~Established(t)
  <2> SUFFICES ASSUME OnlyFirst(s) PROVE \A i \in 1 .. n : t[i].op # "established"
    BY <1>1 DEF OnlyFirst, Established
  <2> QED BY <1>1, <1>3 DEF OnlyFirst
<1>7. HasDestroyed(t) => HasDestroyed(s)
  BY <1>1, <1>3 DEF HasDestroyed
<1>8. ASSUME Head(s).op # "destroyed", HasDestroyed(s)
      PROVE  HasDestroyed(t)
  <2>1. PICK i \in 1 .. n + 1 : s[i].op = "destroyed"
    BY <1>1, <1>8 DEF HasDestroyed
  <2>2. i # 1
    BY <1>1, <1>8, <2>1
  <2>3. i - 1 \in 1 .. n /\ t[i - 1] = s[i]
    BY <1>2, <2>1, <2>2
  <2> QED BY <1>1, <2>1, <2>3 DEF HasDestroyed
<1>9. ASSUME NEW srv \in BOOLEAN, RawAhead(s, srv) PROVE RawAhead(t, srv)
  <2> SUFFICES ASSUME NEW i \in DOMAIN t, Raw(t[i]), ~t[i].late, ~srv
               PROVE  \E j \in DOMAIN t : j > i /\ t[j].op = "destroyed"
    BY DEF RawAhead
  <2>1. i \in 1 .. n /\ i + 1 \in 1 .. n + 1 /\ t[i] = s[i + 1]
    BY <1>1, <1>3
  <2>2. PICK j \in DOMAIN s : j > i + 1 /\ s[j].op = "destroyed"
    BY <1>1, <1>9, <2>1 DEF RawAhead
  <2>3. j \in 1 .. n + 1 /\ j # 1 /\ j - 1 > i
    BY <1>1, <2>1, <2>2
  <2> QED BY <1>1, <1>2, <2>2, <2>3
<1> QED BY <1>1, <1>4, <1>5, <1>6, <1>7, <1>8, <1>9 DEF Popped

(* A user callback queued behind a functor that is there disturbs nothing. *)
LEMMA PushCallback ==
    ASSUME NEW s \in Seq(Functors), NEW f,
           f \in {Functor("writeComplete"), Functor("highWater")}
    PROVE  QueueKept(s, s) /\ QueueKept(s, Append(s, f))
<1>1. /\ f \in Functors /\ ~Raw(f)
      /\ f.op \notin {"established", "destroyed", "send"}
  <2>1. 0 \in 0 .. MaxSends
    BY SizesAssumption
  <2>2. CASE f = Functor("writeComplete")
    BY <2>1, <2>2 DEF Functor, Functors, Raw
  <2>3. CASE f = Functor("highWater")
    BY <2>1, <2>3 DEF Functor, Functors, Raw
  <2> QED BY <2>2, <2>3
<1>2. s = << >> => ~Established(s) /\ ~Established(Append(s, f))
  <2>1. s = << >> => Append(s, f) = <<f>>
    OBVIOUS
  <2> QED BY <1>1, <2>1 DEF Established
<1> DEFINE t == Append(s, f)
<1>3. QueueKept(s, s)
  BY DEF QueueKept
<1>4. QueueKept(s, t)
  <2>1. Pushed(s, f, t)
    BY <1>1, PushQueue
  <2> HIDE DEF t
  <2>2. Established(s) <=> Established(t)
    BY <1>2, <2>1 DEF Pushed, t
  <2> QED BY <1>1, <2>1, <2>2 DEF QueueKept, Pushed
<1> QED BY <1>3, <1>4

LEMMA QueueKeptTransitive ==
    ASSUME NEW r, NEW s, NEW t, QueueKept(r, s), QueueKept(s, t)
    PROVE  QueueKept(r, t)
<1> QED BY DEF QueueKept

-----------------------------------------------------------------------------
(* The stream *)

(* What a partial write has taken and what Unsent keeps are the whole. *)
LEMMA PartialWrite ==
    ASSUME NEW bytes \in Seq(Bytes), NEW n \in 0 .. Len(bytes)
    PROVE  /\ SubSeq(bytes, 1, n) \in Seq(Bytes)
           /\ Unsent(bytes, n) \in Seq(Bytes)
           /\ SubSeq(bytes, 1, n) \o Unsent(bytes, n) = bytes
           /\ Unsent(bytes, n) = << >> <=> n = Len(bytes)
<1>1. Len(bytes) \in Nat /\ n \in Nat /\ n <= Len(bytes)
  BY LenProperties
<1>2. \A i \in 1 .. Len(bytes) : bytes[i] \in Bytes
  BY ElementOfSeq
<1> DEFINE f == SubSeq(bytes, 1, n)
           g == Unsent(bytes, n)
<1>3. /\ f \in Seq(Bytes) /\ Len(f) = n
      /\ \A i \in 1 .. n : f[i] = bytes[i]
  <2>1. \A i \in 1 .. n : bytes[i] \in Bytes
    BY <1>1, <1>2
  <2>2. /\ f \in Seq(Bytes)
        /\ Len(f) = IF 1 <= n THEN n - 1 + 1 ELSE 0
        /\ \A i \in 1 .. n - 1 + 1 : f[i] = bytes[1 + i - 1]
    BY <1>1, <2>1, SubSeqProperties
  <2> QED BY <1>1, <2>2
<1>4. /\ g \in Seq(Bytes) /\ Len(g) = Len(bytes) - n
      /\ \A i \in 1 .. Len(bytes) - n : g[i] = bytes[n + i]
  <2>1. \A i \in n + 1 .. Len(bytes) : bytes[i] \in Bytes
    BY <1>1, <1>2
  <2>2. /\ g \in Seq(Bytes)
        /\ Len(g) = IF n + 1 <= Len(bytes) THEN Len(bytes) - (n + 1) + 1 ELSE 0
        /\ \A i \in 1 .. Len(bytes) - (n + 1) + 1 : g[i] = bytes[(n + 1) + i - 1]
    BY <1>1, <2>1, SubSeqProperties DEF Unsent
  <2> QED BY <1>1, <2>2
<1> HIDE DEF f, g
<1>5. /\ f \o g \in Seq(Bytes) /\ Len(f \o g) = Len(bytes)
      /\ \A i \in 1 .. Len(bytes) : (f \o g)[i] = IF i <= n THEN f[i] ELSE g[i - n]
  <2>1. Len(f) + Len(g) = Len(bytes)
    BY <1>1, <1>3, <1>4
  <2> QED BY <1>3, <1>4, <2>1, ConcatProperties
<1>6. \A i \in 1 .. Len(bytes) : (f \o g)[i] = bytes[i]
  BY <1>1, <1>3, <1>4, <1>5
<1>7. f \o g = bytes
  BY <1>5, <1>6, SeqEqual
<1>8. g = << >> <=> n = Len(bytes)
  BY <1>1, <1>4, EmptySeq
<1> QED BY <1>3, <1>4, <1>7, <1>8 DEF f, g

(* Concatenation of bytes is associative. *)
LEMMA Associative ==
    \A a, b, c \in Seq(Bytes) : (a \o b) \o c = a \o (b \o c)
<1> QED BY ConcatAssociative

(* The buffer of one call of send() is not empty. *)
LEMMA MessageBytes ==
    ASSUME NEW k \in 1 .. MaxSends
    PROVE  Message(k) \in Seq(Bytes) /\ Message(k) # << >>
<1>1. \A i \in 1 .. MsgLen : <<k, i>> \in Bytes
  BY DEF Bytes
<1>2. Message(k) \in [1 .. MsgLen -> Bytes]
  BY <1>1 DEF Message
<1>3. MsgLen \in Nat /\ Message(k) \in Seq(Bytes)
  BY <1>2, SizesAssumption
<1>4. DOMAIN Message(k) = 1 .. MsgLen /\ 1 \in 1 .. MsgLen
  BY SizesAssumption DEF Message
<1> QED BY <1>3, <1>4, EmptySeq, LenProperties

(* The connection has not ended. *)
Alive == downs = 0 /\ inServer

(* Keep: the rest is behind what was buffered, EPOLLOUT is asked for if    *)
(* there is a rest, and no more than a callback is queued.                 *)
LEMMA KeepEffect ==
    ASSUME TypeOK, Agrees(channel),
           NEW left \in Seq(Bytes), NEW queue \in Seq(Functors), Keep(left, queue)
    PROVE  /\ out' = out \o left /\ out' \in Seq(Bytes)
           /\ channel' \in Channel /\ Agrees(channel)'
           /\ IsWriting(channel)' <=> IsWriting(channel) \/ left # << >>
           /\ channel.inMap => channel'.inMap
           /\ channel.registered => channel'.registered
           /\ QueueKept(queue, q')
<1>1. out' = out \o left /\ out' \in Seq(Bytes)
  BY ConcatProperties DEF Keep, TypeOK
<1>2. channel' = IF left # << >> /\ ~IsWriting(channel)
                   THEN EnableWriting(channel) ELSE channel
  BY DEF Keep, WantWrite
<1>3. channel \in Channel
  BY DEF TypeOK
<1>4. QueueKept(queue, q')
  BY PushCallback DEF Keep
<1>5. CASE left # << >> /\ ~IsWriting(channel)
  BY <1>1, <1>2, <1>3, <1>4, <1>5, EnableWritingKeeps
<1>6. CASE ~(left # << >> /\ ~IsWriting(channel))
  BY <1>1, <1>2, <1>3, <1>4, <1>6
<1> QED BY <1>5, <1>6

(* What sendInLoop() of a message leaves behind: the stream is intact,     *)
(* EPOLLOUT is asked for exactly while bytes are left, and no byte is      *)
(* added after the half close.                                             *)
Sent(queue) ==
    /\ out' \in Seq(Bytes) /\ wire' \in Seq(Bytes)
    /\ accepted' \in Seq(Bytes) /\ sockErr' \in BOOLEAN
    /\ StreamIntact'
    /\ channel' \in Channel /\ Agrees(channel)'
    /\ Alive => (IsWriting(channel)' <=> out' # << >>)
    /\ Alive /\ finSent => out' = << >>
    /\ channel.inMap => channel'.inMap
    /\ channel.registered => channel'.registered
    /\ state = "kDisconnected" => channel' = channel
    /\ QueueKept(queue, q')

LEMMA SendEffect ==
    ASSUME TypeOK, StreamIntact, Agrees(channel), WriteInterest, FinAfterData,
           NEW bytes \in Seq(Bytes), bytes # << >>,
           NEW queue \in Seq(Functors), SendInLoop(bytes, queue)
    PROVE  Sent(queue)
<1> USE DEF WriteInterest, FinAfterData, Alive, Sent
<1>a. /\ out \in Seq(Bytes) /\ wire \in Seq(Bytes) /\ accepted \in Seq(Bytes)
      /\ sockErr \in BOOLEAN /\ channel \in Channel
  BY DEF TypeOK
<1>0. /\ out \in Seq(Bytes) /\ wire \in Seq(Bytes) /\ accepted \in Seq(Bytes)
      /\ sockErr \in BOOLEAN /\ channel \in Channel /\ wire \o out = accepted
  BY <1>a DEF StreamIntact
<1>1. ASSUME UNCHANGED <<channel, out, wire, accepted>>, q' = queue,
             sockErr' \in BOOLEAN
      PROVE  Sent(queue)
  <2>1. QueueKept(queue, q')
    BY <1>1, PushCallback
  <2>2. StreamIntact' /\ Agrees(channel)' /\ (IsWriting(channel)' <=> IsWriting(channel))
    BY <1>1 DEF StreamIntact
  <2> QED BY <1>0, <1>1, <2>1, <2>2
<1>2. CASE /\ state # "kDisconnected"
           /\ IsWriting(channel) \/ out # << >>
           /\ Keep(bytes, queue)
           /\ accepted' = accepted \o bytes
           /\ UNCHANGED <<wire, sockErr>>
  <2>1. /\ out' = out \o bytes /\ out' \in Seq(Bytes)
        /\ channel' \in Channel /\ Agrees(channel)'
        /\ IsWriting(channel)'
        /\ channel.inMap => channel'.inMap
        /\ channel.registered => channel'.registered
        /\ QueueKept(queue, q')
    BY <1>2, KeepEffect
  <2>2. out' # << >>
    BY <1>0, <2>1, ConcatEqualIffEmpty
  <2>3. wire \o (out \o bytes) = (wire \o out) \o bytes /\ accepted' \in Seq(Bytes)
    <3>1. wire \o (out \o bytes) = (wire \o out) \o bytes
      BY <1>a, Associative, Zenon
    <3>2. accepted' \in Seq(Bytes)
      BY <1>0, <1>2, ConcatProperties
    <3> QED BY <3>1, <3>2
  <2>4. StreamIntact'
    BY <1>0, <1>2, <2>1, <2>3 DEF StreamIntact
  <2> QED BY <1>0, <1>2, <2>1, <2>2, <2>3, <2>4
<1>3. ASSUME NEW n \in 0 .. Len(bytes), state # "kDisconnected",
             ~IsWriting(channel), out = << >>, ~Broken,
             wire' = wire \o SubSeq(bytes, 1, n),
             Keep(Unsent(bytes, n),
                  IF n = Len(bytes) THEN Append(queue, Functor("writeComplete"))
                                    ELSE queue),
             accepted' = accepted \o bytes, UNCHANGED sockErr
      PROVE  Sent(queue)
  <2> DEFINE pre == SubSeq(bytes, 1, n)
             left == Unsent(bytes, n)
             queue2 == IF n = Len(bytes) THEN Append(queue, Functor("writeComplete"))
                                         ELSE queue
  <2>1. pre \in Seq(Bytes) /\ left \in Seq(Bytes) /\ pre \o left = bytes
    BY PartialWrite
  <2>2. QueueKept(queue, queue2) /\ queue2 \in Seq(Functors)
    BY PushCallback DEF QueueKept
  <2>3. Keep(left, queue2)
    BY <1>3
  <2> HIDE DEF pre, left, queue2
  <2>4. /\ out' = out \o left /\ out' \in Seq(Bytes)
        /\ channel' \in Channel /\ Agrees(channel)'
        /\ IsWriting(channel)' <=> left # << >>
        /\ channel.inMap => channel'.inMap
        /\ channel.registered => channel'.registered
        /\ QueueKept(queue2, q')
    BY <1>3, <2>1, <2>2, <2>3, KeepEffect
  <2>5. QueueKept(queue, q')
    BY <2>2, <2>4, QueueKeptTransitive
  <2>6. out' = left /\ wire = accepted
    BY <1>0, <1>3, <2>1, <2>4, ConcatEmptySeq
  <2>7. /\ wire' \in Seq(Bytes) /\ accepted' \in Seq(Bytes)
        /\ (wire \o pre) \o left = wire \o (pre \o left)
    <3>1. (wire \o pre) \o left = wire \o (pre \o left)
      <4>1. /\ wire \in Seq(Bytes) /\ pre \in Seq(Bytes) /\ left \in Seq(Bytes)
        BY <1>a, <2>1
      <4> QED BY ONLY <4>1, Associative, Zenon
    <3>2. wire' \in Seq(Bytes) /\ accepted' \in Seq(Bytes)
      BY <1>0, <1>3, <2>1, ConcatProperties DEF pre
    <3> QED BY <3>1, <3>2
  <2>8. StreamIntact'
    BY <1>3, <2>1, <2>6, <2>7 DEF StreamIntact, pre
  <2>9. ~finSent
    BY <1>3 DEF Broken
  <2> QED BY <1>0, <1>3, <2>4, <2>5, <2>6, <2>7, <2>8, <2>9
<1> QED BY <1>0, <1>1, <1>2, <1>3 DEF SendInLoop

-----------------------------------------------------------------------------
(* The steps *)

(* A functor without an argument is a functor. *)
LEMMA FunctorType ==
    \A op \in {"established", "destroyed", "shutdown", "writeComplete", "highWater"} :
        /\ Functor(op) \in Functors
        /\ Functor(op).op = op /\ Functor(op).k = 0 /\ Functor(op).late = FALSE
<1>1. 0 \in 0 .. MaxSends
  BY SizesAssumption
<1> QED BY <1>1 DEF Functor, Functors

(* Initially only connectEstablished() is queued. *)
LEMMA InitInv == Init => IInv
<1> SUFFICES ASSUME Init PROVE IInv
  OBVIOUS
<1>1. /\ Functor("established") \in Functors
      /\ Functor("established").op = "established"
  BY FunctorType
<1> USE SizesAssumption DEF Init
<1>2. /\ q \in Seq(Functors) /\ q # << >> /\ DOMAIN q = {1}
      /\ q[1].op = "established"
  BY <1>1
<1>3. /\ NewChannel \in Channel /\ Agrees(NewChannel)
      /\ ~IsWriting(NewChannel) /\ ~NewChannel.inMap
  BY DEF NewChannel, Channel, Agrees, IsWriting
<1>4. TypeOK
  <2>1. /\ NoCall \in [step : {"none", "send", "set", "push"}, k : 0 .. MaxSends]
        /\ NoCall.step # "send"
    BY DEF NoCall
  <2>2. \A i \in DOMAIN q : q[i].op = "send" => q[i].k # 0
    BY <1>2
  <2>3. << >> \in Seq(Bytes)
    BY EmptySeq
  <2>4. channel \in Channel
    BY <1>3
  <2>5. /\ call \in [Callers -> [step : {"none", "send", "set", "push"},
                                 k : 0 .. MaxSends]]
        /\ \A t \in Callers : call[t].step = "send" => call[t].k # 0
    BY <2>1
  <2>6. /\ out \in Seq(Bytes) /\ wire \in Seq(Bytes) /\ accepted \in Seq(Bytes)
        /\ revents \subseteq {"HUP", "ERR", "IN", "OUT"}
        /\ holders \subseteq Callers
        /\ sends \in 0 .. MaxSends
        /\ downs \in Nat /\ removals \in Nat
    BY <2>3
  <2> QED BY <1>2, <2>2, <2>4, <2>5, <2>6 DEF TypeOK
<1>5. StreamIntact /\ WriteInterest /\ FinAfterData
  BY <1>3 DEF StreamIntact, WriteInterest, FinAfterData
<1>6. EstablishedFirst
  BY <1>2, <1>3 DEF EstablishedFirst, Established, OnlyFirst
<1>7. RemovedByServer /\ ToBeRemoved /\ ToldOnce /\ DispatchOfRegistered
  BY <1>2 DEF RemovedByServer, ToBeRemoved, ToldOnce, OneDown,
     DispatchOfRegistered, HasDestroyed
<1>8. RawInTime
  BY <1>2 DEF RawInTime, RawAhead
<1> QED BY <1>3, <1>4, <1>5, <1>6, <1>7, <1>8 DEF IInv

(* Poll: what is reported is of a registered channel. *)
LEMMA PollStep ==
    ASSUME IInv, NEW data \in BOOLEAN, NEW space \in BOOLEAN, Poll(data, space)
    PROVE  IInv'
<1> USE DEF IInv, ioVars, callVars, lifeVars
<1>1. /\ revents' \subseteq {"HUP", "ERR", "IN", "OUT"}
      /\ channel.registered /\ channel.inMap
  <2>1. Ready(data, space) \subseteq {"HUP", "ERR", "IN", "OUT"}
    BY DEF Ready
  <2>2. channel.registered => channel.inMap
    BY DEF Agrees
  <2> QED BY <2>1, <2>2, ReportedRegistered DEF Poll
<1>2. UNCHANGED <<state, channel, out, wire, accepted, finSent, peer, sockErr, q,
                  call, holders, raced, sends, downs, removals, inServer, overtaken>>
  BY DEF Poll
<1>3. TypeOK'
  BY <1>1, <1>2 DEF TypeOK
<1>4. StreamIntact' /\ WriteInterest' /\ FinAfterData' /\ Agrees(channel)'
  BY <1>2 DEF StreamIntact, WriteInterest, FinAfterData
<1>5. EstablishedFirst' /\ RemovedByServer' /\ ToBeRemoved' /\ RawInTime'
  BY <1>2 DEF EstablishedFirst, RemovedByServer, ToBeRemoved, RawInTime
<1>6. state # "kConnecting"
  BY <1>1 DEF EstablishedFirst
<1>7. DispatchOfRegistered' /\ ToldOnce'
  BY <1>1, <1>2, <1>6 DEF DispatchOfRegistered, ToldOnce, OneDown
<1> QED BY <1>3, <1>4, <1>5, <1>7

(* A step that handles an event and touches nothing but the events left    *)
(* and the pending error, or a step of the peer.                           *)
LEMMA QuietStep ==
    ASSUME IInv, revents' \subseteq revents, sockErr' \in BOOLEAN,
           peer' \in {"open", "closed", "reset"},
           UNCHANGED <<state, channel, out, wire, accepted, finSent, q, call,
                       holders, raced, sends, downs, removals, inServer, overtaken>>
    PROVE  IInv'
<1> USE DEF IInv
<1>1. TypeOK'
  BY DEF TypeOK
<1>2. StreamIntact' /\ WriteInterest' /\ FinAfterData' /\ Agrees(channel)'
  BY DEF StreamIntact, WriteInterest, FinAfterData
<1>3. EstablishedFirst' /\ RemovedByServer' /\ ToBeRemoved' /\ RawInTime'
  BY DEF EstablishedFirst, RemovedByServer, ToBeRemoved, RawInTime
<1>4. DispatchOfRegistered' /\ ToldOnce'
  BY DEF DispatchOfRegistered, ToldOnce, OneDown
<1> QED BY <1>1, <1>2, <1>3, <1>4

(* handleClose() in a dispatch: the channel was registered, so disableAll() *)
(* takes it out; what is left of the dispatch cannot close again.           *)
LEMMA CloseStep ==
    ASSUME IInv, "HUP" \in revents \/ "IN" \in revents, HandleClose,
           revents' \subseteq revents, "HUP" \notin revents', "IN" \notin revents',
           sockErr' \in BOOLEAN,
           UNCHANGED <<out, wire, accepted, finSent, peer, q, call, holders, raced,
                       sends>>
    PROVE  IInv'
<1> USE DEF IInv
<1>1. channel.registered /\ channel.inMap /\ channel \in Channel
  BY DEF DispatchOfRegistered, TypeOK, Agrees
<1>2. /\ channel' \in Channel /\ Agrees(channel)'
      /\ channel'.inMap /\ ~channel'.registered /\ ~IsWriting(channel)'
  <2>1. channel' = DisableAll(channel)
    BY DEF HandleClose
  <2> QED BY <1>1, <2>1, DisableAllKeeps
<1>3. /\ state' = "kDisconnected" /\ downs' = downs + 1 /\ removals' = removals + 1
      /\ inServer' = inServer /\ overtaken' = overtaken
      /\ downs \in Nat /\ removals \in Nat
  BY DEF HandleClose, TypeOK
<1>4. state # "kConnecting"
  BY <1>1 DEF EstablishedFirst
<1>5. ~raced => downs = 0
  BY <1>1, <1>3 DEF ToldOnce
<1>6. TypeOK'
  BY <1>2, <1>3 DEF TypeOK
<1>7. StreamIntact' /\ WriteInterest' /\ FinAfterData'
  BY <1>3 DEF StreamIntact, WriteInterest, FinAfterData
<1>8. EstablishedFirst'
  BY <1>3, <1>4 DEF EstablishedFirst
<1>9. RemovedByServer' /\ ToBeRemoved' /\ RawInTime'
  BY <1>3 DEF RemovedByServer, ToBeRemoved, RawInTime
<1>10. DispatchOfRegistered' /\ ToldOnce'
  BY <1>2, <1>3, <1>5 DEF DispatchOfRegistered, ToldOnce, OneDown
<1> QED BY <1>2, <1>6, <1>7, <1>8, <1>9, <1>10

(* messageCallback_ answers with send() on the loop thread. *)
LEMMA AnswerSendStep ==
    ASSUME IInv, "IN" \in revents, revents' = revents \ {"IN"},
           state = "kConnected", sends < MaxSends, sends' = sends + 1,
           SendInLoop(Message(sends + 1), q),
           UNCHANGED <<state, finSent, peer, call, holders, raced, downs, removals,
                       inServer, overtaken>>
    PROVE  IInv'
<1> USE DEF IInv
<1>1. /\ sends + 1 \in 1 .. MaxSends /\ sends' \in 0 .. MaxSends
      /\ q \in Seq(Functors) /\ SendsMessages(q) /\ inServer \in BOOLEAN
  BY SizesAssumption DEF TypeOK, SendsMessages
<1>2. Sent(q)
  BY <1>1, MessageBytes, SendEffect
<1>3. QueueKept(q, q')
  BY <1>2 DEF Sent
<1>4. TypeOK'
  BY <1>1, <1>2, <1>3 DEF TypeOK, Sent, QueueKept, SendsMessages
<1>5. StreamIntact' /\ WriteInterest' /\ FinAfterData' /\ Agrees(channel)'
  BY <1>2 DEF Sent, Alive, WriteInterest, FinAfterData
<1>6. EstablishedFirst' /\ RemovedByServer' /\ ToBeRemoved'
  BY <1>3 DEF QueueKept, EstablishedFirst, RemovedByServer, ToBeRemoved
<1>7. RawInTime'
  BY <1>1, <1>3 DEF QueueKept, RawInTime
<1>8. DispatchOfRegistered' /\ ToldOnce'
  BY <1>2 DEF Sent, DispatchOfRegistered, ToldOnce, OneDown
<1> QED BY <1>2, <1>4, <1>5, <1>6, <1>7, <1>8

(* messageCallback_ answers with shutdown() on the loop thread. *)
LEMMA AnswerShutdownStep ==
    ASSUME IInv, "IN" \in revents, revents' = revents \ {"IN"},
           state = "kConnected", state' = "kDisconnecting", ShutdownInLoop,
           UNCHANGED <<channel, out, wire, accepted, sockErr, q, sends, peer, call,
                       holders, raced, downs, removals, inServer, overtaken>>
    PROVE  IInv'
<1> USE DEF IInv
<1>1. TypeOK'
  BY DEF TypeOK, ShutdownInLoop
<1>2. StreamIntact' /\ WriteInterest' /\ FinAfterData' /\ Agrees(channel)'
  BY DEF StreamIntact, WriteInterest, FinAfterData, ShutdownInLoop
<1>3. EstablishedFirst' /\ RemovedByServer' /\ ToBeRemoved' /\ RawInTime'
  BY DEF EstablishedFirst, RemovedByServer, ToBeRemoved, RawInTime
<1>4. DispatchOfRegistered' /\ ToldOnce'
  BY DEF DispatchOfRegistered, ToldOnce, OneDown
<1> QED BY <1>1, <1>2, <1>3, <1>4

(* handleWrite() that writes: the channel stops asking for EPOLLOUT with   *)
(* the last byte, and only then is a pending half close carried out.       *)
LEMMA WriteStep ==
    ASSUME IInv, revents = {"OUT"}, revents' = {},
           IsWriting(channel), ~Broken, NEW n \in 1 .. Len(out),
           wire' = wire \o SubSeq(out, 1, n), out' = Unsent(out, n),
           IF n = Len(out)
             THEN /\ channel' = DisableWriting(channel)
                  /\ q' = Append(q, Functor("writeComplete"))
                  /\ DrainedShutdown
             ELSE UNCHANGED <<channel, q, finSent>>,
           UNCHANGED <<accepted, sockErr, state, peer, call, holders, raced, sends,
                       downs, removals, inServer, overtaken>>
    PROVE  IInv'
<1> USE DEF IInv
<1>1. /\ q \in Seq(Functors) /\ SendsMessages(q) /\ inServer \in BOOLEAN
      /\ out \in Seq(Bytes) /\ wire \in Seq(Bytes) /\ channel \in Channel
      /\ state \notin {"kConnecting", "kDisconnected"} /\ finSent = FALSE
  BY DEF TypeOK, SendsMessages, DispatchOfRegistered, ToldOnce, Broken
<1>2. n \in 0 .. Len(out)
  BY <1>1, LenProperties
<1>3. /\ SubSeq(out, 1, n) \in Seq(Bytes) /\ out' \in Seq(Bytes)
      /\ SubSeq(out, 1, n) \o out' = out
      /\ out' = << >> <=> n = Len(out)
  BY <1>1, <1>2, PartialWrite
<1>4. wire' \in Seq(Bytes)
  BY <1>1, <1>3, ConcatProperties
<1>5. StreamIntact'
  <2>1. (wire \o SubSeq(out, 1, n)) \o out' = wire \o (SubSeq(out, 1, n) \o out')
    BY <1>1, <1>3, Associative, Zenon
  <2> QED BY <1>3, <2>1 DEF StreamIntact
<1>6. QueueKept(q, q')
  BY <1>1, PushCallback
<1>7. /\ channel' \in Channel /\ Agrees(channel)'
      /\ IsWriting(channel)' <=> out' # << >>
      /\ finSent' \in BOOLEAN
      /\ finSent' => out' = << >>
  <2>1. CASE n = Len(out)
    BY <1>1, <1>3, <2>1, DisableWritingKeeps DEF DrainedShutdown, TypeOK
  <2>2. CASE n # Len(out)
    BY <1>1, <1>3, <2>2
  <2> QED BY <2>1, <2>2
<1>8. TypeOK'
  BY <1>3, <1>4, <1>6, <1>7 DEF TypeOK, QueueKept, SendsMessages
<1>9. WriteInterest' /\ FinAfterData'
  BY <1>7 DEF WriteInterest, FinAfterData
<1>10. EstablishedFirst' /\ RemovedByServer' /\ ToBeRemoved'
  BY <1>1, <1>6, <1>7 DEF QueueKept, EstablishedFirst, RemovedByServer, ToBeRemoved
<1>11. RawInTime'
  BY <1>1, <1>6 DEF QueueKept, RawInTime
<1>12. DispatchOfRegistered' /\ ToldOnce'
  <2>1. ~raced => downs = 0
    BY <1>1 DEF ToldOnce, TypeOK
  <2> QED BY <1>1, <2>1 DEF DispatchOfRegistered, ToldOnce, OneDown
<1> QED BY <1>5, <1>7, <1>8, <1>9, <1>10, <1>11, <1>12

(* connectEstablished() *)
LEMMA EstablishedStep ==
    ASSUME IInv, revents = {}, q # << >>, Head(q).op = "established",
           ConnectEstablished, UNCHANGED <<peer, revents, sends>>
    PROVE  IInv'
<1> USE DEF IInv, ioVars, lifeVars
<1>1. /\ q \in Seq(Functors) /\ channel \in Channel /\ SendsMessages(q)
      /\ inServer \in BOOLEAN
  BY DEF TypeOK, SendsMessages
<1>2. /\ state' = "kConnected" /\ channel' = EnableReading(channel)
      /\ holders' = Callers /\ q' = Tail(q)
      /\ UNCHANGED <<out, wire, accepted, finSent, sockErr, call, raced, downs,
                     removals, inServer, overtaken, peer, revents, sends>>
  BY DEF ConnectEstablished
<1>3. /\ q' \in Seq(Functors) /\ SendsMessages(q') /\ Head(q) = q[1]
      /\ OnlyFirst(q') /\ ~Established(q')
      /\ HasDestroyed(q') => HasDestroyed(q)
      /\ ~overtaken => RawAhead(q', inServer)
  <2>1. Popped(q, q')
    BY <1>1, <1>2, PopQueue
  <2> QED BY <1>1, <1>2, <2>1 DEF Popped, EstablishedFirst, RawInTime
<1>4. /\ channel' \in Channel /\ Agrees(channel)' /\ channel'.inMap
      /\ IsWriting(channel)' <=> IsWriting(channel)
  BY <1>1, <1>2, EnableReadingKeeps
<1>5. state = "kConnecting"
  BY <1>3 DEF EstablishedFirst, Established
<1>6. TypeOK'
  BY <1>2, <1>3, <1>4 DEF TypeOK, SendsMessages
<1>7. StreamIntact' /\ WriteInterest' /\ FinAfterData'
  BY <1>2, <1>4 DEF StreamIntact, WriteInterest, FinAfterData
<1>8. EstablishedFirst'
  <2>1. \A t \in Callers : t \in holders'
    BY <1>2
  <2> QED BY <1>2, <1>3, <2>1 DEF EstablishedFirst
<1>9. RemovedByServer' /\ ToBeRemoved' /\ RawInTime'
  BY <1>2, <1>3 DEF RemovedByServer, ToBeRemoved, RawInTime
<1>10. ~raced => downs = 0
  BY <1>5 DEF ToldOnce, TypeOK
<1>11. DispatchOfRegistered' /\ ToldOnce'
  BY <1>2, <1>10 DEF DispatchOfRegistered, ToldOnce, OneDown
<1> QED BY <1>4, <1>6, <1>7, <1>8, <1>9, <1>11

(* connectDestroyed(): the channel leaves the poller in every state, and   *)
(* the end is reported if it was not.                                      *)
LEMMA DestroyedEffect ==
    ASSUME IInv, ConnectDestroyed
    PROVE  /\ channel' \in Channel /\ Agrees(channel)'
           /\ ~channel'.inMap /\ ~channel'.registered
           /\ state' = "kConnecting" <=> state = "kConnecting"
           /\ downs' \in Nat
           /\ \/ state = "kConnected" /\ state' = "kDisconnected" /\ downs' = downs + 1
                 /\ ~IsWriting(channel)'
              \/ state # "kConnected" /\ UNCHANGED <<state, downs>>
                 /\ (IsWriting(channel)' <=> IsWriting(channel))
<1>1. channel \in Channel /\ Agrees(channel) /\ downs \in Nat
  BY DEF IInv, TypeOK
<1>2. CASE state = "kConnected"
  <2> DEFINE c == DisableAll(channel)
  <2>1. c \in Channel /\ Agrees(c) /\ ~IsWriting(c)
    BY <1>1, DisableAllKeeps
  <2>2. channel' = RemoveChannel(c) /\ state' = "kDisconnected" /\ downs' = downs + 1
    BY <1>2 DEF ConnectDestroyed
  <2> HIDE DEF c
  <2> QED BY <1>1, <1>2, <2>1, <2>2, RemoveChannelKeeps
<1>3. CASE state # "kConnected"
  <2>1. channel' = RemoveChannel(channel) /\ UNCHANGED <<state, downs>>
    BY <1>3 DEF ConnectDestroyed
  <2> QED BY <1>1, <1>3, <2>1, RemoveChannelKeeps
<1> QED BY <1>2, <1>3

(* connectDestroyed() as a functor, or called by the destructor of the     *)
(* server: then revents may still hold the writing of the same dispatch.   *)
LEMMA DestroyedStep ==
    ASSUME IInv, ConnectDestroyed, state # "kConnecting",
           "HUP" \notin revents', "IN" \notin revents', revents' \subseteq revents,
           inServer' = FALSE, overtaken' \in BOOLEAN,
           q' \in Seq(Functors), SendsMessages(q'), OnlyFirst(q'), ~Established(q'),
           ~overtaken' => RawAhead(q', FALSE),
           UNCHANGED <<out, wire, accepted, finSent, sockErr, call, holders, raced,
                       removals, peer, sends>>
    PROVE  IInv'
<1> USE DEF IInv
<1>1. /\ channel' \in Channel /\ Agrees(channel)'
      /\ ~channel'.inMap /\ ~channel'.registered
      /\ state' # "kConnecting" /\ downs' \in Nat /\ downs \in Nat
      /\ \/ state = "kConnected" /\ state' = "kDisconnected" /\ downs' = downs + 1
            /\ ~IsWriting(channel)'
         \/ state # "kConnected" /\ UNCHANGED <<state, downs>>
            /\ (IsWriting(channel)' <=> IsWriting(channel))
  BY DestroyedEffect DEF TypeOK
<1>2. TypeOK'
  BY <1>1 DEF TypeOK, SendsMessages
<1>3. StreamIntact' /\ WriteInterest' /\ FinAfterData'
  BY DEF StreamIntact, WriteInterest, FinAfterData
<1>4. EstablishedFirst'
  BY <1>1 DEF EstablishedFirst
<1>5. RemovedByServer' /\ ToBeRemoved' /\ RawInTime'
  <2>1. RemovedByServer'
    BY <1>1 DEF RemovedByServer
  <2> QED BY <1>1, <2>1 DEF ToBeRemoved, RawInTime
<1>6. DispatchOfRegistered'
  BY <1>1 DEF DispatchOfRegistered
<1>7. ToldOnce'
  BY <1>1 DEF ToldOnce, OneDown
<1> QED BY <1>1, <1>2, <1>3, <1>4, <1>5, <1>6, <1>7

(* It is run as a functor: the server has let the connection go. *)
LEMMA DestroyedFunctorStep ==
    ASSUME IInv, revents = {}, q # << >>, Head(q).op = "destroyed",
           ConnectDestroyed, q' = Tail(q),
           UNCHANGED <<out, wire, accepted, finSent, sockErr, call, holders, raced,
                       removals, inServer, overtaken, peer, revents, sends>>
    PROVE  IInv'
<1> USE DEF IInv
<1>1. /\ q \in Seq(Functors) /\ SendsMessages(q) /\ inServer \in BOOLEAN
      /\ overtaken \in BOOLEAN
  BY DEF TypeOK, SendsMessages
<1>2. /\ q' \in Seq(Functors) /\ SendsMessages(q') /\ Head(q) = q[1] /\ 1 \in DOMAIN q
      /\ OnlyFirst(q') /\ ~Established(q')
      /\ ~overtaken => RawAhead(q', inServer)
  <2>1. Popped(q, q')
    BY <1>1, PopQueue
  <2> QED BY <1>1, <2>1 DEF Popped, EstablishedFirst, RawInTime
<1>3. state # "kConnecting" /\ inServer = FALSE
  BY <1>1, <1>2 DEF EstablishedFirst, Established, RemovedByServer, HasDestroyed
<1> QED BY <1>1, <1>2, <1>3, DestroyedStep

(* The destructor calls it at once: what is queued is overtaken. *)
LEMMA AtOnceStep ==
    ASSUME IInv, DestroyedAtOnce,
           "HUP" \notin revents', "IN" \notin revents', revents' \subseteq revents,
           UNCHANGED <<out, wire, accepted, finSent, sockErr, q, call, holders, raced,
                       peer, sends>>
    PROVE  IInv'
<1>1. /\ ConnectDestroyed /\ state # "kConnecting" /\ inServer' = FALSE
      /\ overtaken' = TRUE /\ UNCHANGED removals
  BY DEF DestroyedAtOnce
<1>2. /\ q' \in Seq(Functors) /\ SendsMessages(q') /\ OnlyFirst(q') /\ ~Established(q')
  BY <1>1 DEF IInv, TypeOK, SendsMessages, EstablishedFirst
<1> QED BY <1>1, <1>2, DestroyedStep

(* sendInLoop() as a functor. *)
LEMMA SendStep ==
    ASSUME IInv, revents = {}, q # << >>, Head(q).op = "send",
           SendInLoop(Message(Head(q).k), Tail(q)),
           UNCHANGED <<state, finSent, call, holders, raced, downs, removals,
                       inServer, overtaken, peer, revents, sends>>
    PROVE  IInv'
<1> USE DEF IInv
<1>1. /\ q \in Seq(Functors) /\ SendsMessages(q) /\ inServer \in BOOLEAN
  BY DEF TypeOK, SendsMessages
<1> DEFINE t == Tail(q)
<1>2. /\ t \in Seq(Functors) /\ SendsMessages(t)
      /\ Head(q) \in Functors /\ Head(q) = q[1] /\ 1 \in DOMAIN q
      /\ OnlyFirst(t) /\ ~Established(t)
      /\ HasDestroyed(t) <=> HasDestroyed(q)
      /\ ~overtaken => RawAhead(t, inServer)
  <2>1. Popped(q, t)
    BY <1>1, PopQueue
  <2> HIDE DEF t
  <2> QED BY <1>1, <2>1 DEF Popped, EstablishedFirst, RawInTime
<1>3. Head(q).k \in 1 .. MaxSends
  <2>1. Head(q).k \in 0 .. MaxSends /\ Head(q).k # 0
    BY <1>1, <1>2 DEF Functors, SendsMessages
  <2> QED BY <2>1, SizesAssumption
<1>4. Sent(t)
  BY <1>2, <1>3, MessageBytes, SendEffect
<1> HIDE DEF t
<1>5. /\ q' \in Seq(Functors) /\ SendsMessages(q')
      /\ OnlyFirst(q') /\ ~Established(q')
      /\ HasDestroyed(q') <=> HasDestroyed(q)
      /\ ~overtaken => RawAhead(q', inServer)
  BY <1>1, <1>2, <1>4 DEF Sent, QueueKept
<1>6. state # "kConnecting"
  BY <1>2 DEF EstablishedFirst, Established
<1>7. TypeOK'
  BY <1>4, <1>5 DEF TypeOK, Sent, SendsMessages
<1>8. StreamIntact' /\ WriteInterest' /\ FinAfterData' /\ Agrees(channel)'
  BY <1>4 DEF Sent, Alive, WriteInterest, FinAfterData
<1>9. EstablishedFirst' /\ RemovedByServer' /\ ToBeRemoved' /\ RawInTime'
  BY <1>4, <1>5, <1>6 DEF Sent, EstablishedFirst, RemovedByServer, ToBeRemoved, RawInTime
<1>10. DispatchOfRegistered' /\ ToldOnce'
  BY <1>4 DEF Sent, DispatchOfRegistered, ToldOnce, OneDown
<1> QED BY <1>7, <1>8, <1>9, <1>10

(* shutdownInLoop() as a functor, and the user's callbacks. *)
LEMMA CallbackStep ==
    ASSUME IInv, revents = {}, q # << >>,
           Head(q).op \notin {"established", "destroyed", "send"},
           q' = Tail(q), ShutdownInLoop \/ UNCHANGED finSent,
           UNCHANGED <<state, channel, out, wire, accepted, sockErr, call, holders,
                       raced, downs, removals, inServer, overtaken, peer, revents, sends>>
    PROVE  IInv'
<1> USE DEF IInv
<1>1. /\ q \in Seq(Functors) /\ SendsMessages(q) /\ inServer \in BOOLEAN
  BY DEF TypeOK, SendsMessages
<1>2. /\ q' \in Seq(Functors) /\ SendsMessages(q') /\ Head(q) = q[1]
      /\ OnlyFirst(q') /\ ~Established(q')
      /\ HasDestroyed(q') <=> HasDestroyed(q)
      /\ ~overtaken => RawAhead(q', inServer)
  <2>1. Popped(q, q')
    BY <1>1, PopQueue
  <2> QED BY <1>1, <2>1 DEF Popped, EstablishedFirst, RawInTime
<1>3. state # "kConnecting"
  BY <1>2 DEF EstablishedFirst, Established
<1>4. TypeOK'
  <2>1. finSent' \in BOOLEAN
    BY DEF TypeOK, ShutdownInLoop
  <2> QED BY <1>2, <2>1 DEF TypeOK, SendsMessages
<1>5. StreamIntact' /\ WriteInterest' /\ FinAfterData' /\ Agrees(channel)'
  <2>1. StreamIntact' /\ WriteInterest' /\ Agrees(channel)'
    BY DEF StreamIntact, WriteInterest
  <2>2. CASE ShutdownInLoop
    BY <2>1, <2>2 DEF WriteInterest, FinAfterData, ShutdownInLoop
  <2>3. CASE UNCHANGED finSent
    BY <2>1, <2>3 DEF FinAfterData
  <2> QED BY <2>2, <2>3
<1>6. EstablishedFirst' /\ RemovedByServer' /\ ToBeRemoved' /\ RawInTime'
  BY <1>2, <1>3 DEF EstablishedFirst, RemovedByServer, ToBeRemoved, RawInTime
<1>7. DispatchOfRegistered' /\ ToldOnce'
  BY DEF DispatchOfRegistered, ToldOnce, OneDown
<1> QED BY <1>4, <1>5, <1>6, <1>7

(* RunFunctor: one functor of each kind. *)
LEMMA RunFunctorStep == IInv /\ RunFunctor => IInv'
<1> SUFFICES ASSUME IInv, RunFunctor PROVE IInv'
  OBVIOUS
<1>1. revents = {} /\ q # << >> /\ UNCHANGED <<peer, revents, sends>>
  BY DEF RunFunctor, Idle
<1>2. CASE Head(q).op = "established"
  <2>1. ConnectEstablished BY <1>2 DEF RunFunctor
  <2> QED BY <1>1, <1>2, <2>1, EstablishedStep
<1>3. CASE Head(q).op = "destroyed"
  <2>1. /\ ConnectDestroyed /\ q' = Tail(q)
        /\ UNCHANGED <<out, wire, accepted, finSent, sockErr, call, holders, raced,
                       removals, inServer, overtaken>>
    BY <1>3 DEF RunFunctor, ioVars, callVars
  <2> QED BY <1>1, <1>3, <2>1, DestroyedFunctorStep
<1>4. CASE Head(q).op = "send"
  <2>1. /\ SendInLoop(Message(Head(q).k), Tail(q))
        /\ UNCHANGED <<state, finSent, call, holders, raced, downs, removals, inServer, overtaken>>
    BY <1>4 DEF RunFunctor, callVars, lifeVars
  <2> QED BY <1>1, <1>4, <2>1, SendStep
<1>5. CASE Head(q).op \notin {"established", "destroyed", "send"}
  <2>1. /\ q' = Tail(q) /\ (ShutdownInLoop \/ UNCHANGED finSent)
        /\ UNCHANGED <<state, channel, out, wire, accepted, sockErr, call, holders,
                       raced, downs, removals, inServer, overtaken>>
    BY <1>5 DEF RunFunctor, ioVars, callVars, lifeVars
  <2> QED BY <1>1, <1>5, <2>1, CallbackStep
<1> QED BY <1>2, <1>3, <1>4, <1>5

(* The events of a dispatch. *)
LEMMA EventStep == IInv /\ Event => IInv'
<1> SUFFICES ASSUME IInv, Event PROVE IInv'
  OBVIOUS
<1> USE DEF ioVars, callVars, lifeVars
<1>0. sockErr \in BOOLEAN /\ peer \in {"open", "closed", "reset"}
  BY DEF IInv, TypeOK
<1>1. CASE EventHup
  <2>1. CASE "IN" \in revents
    BY <1>0, <1>1, <2>1, QuietStep DEF EventHup
  <2>2. CASE "IN" \notin revents
    BY <1>0, <1>1, <2>2, CloseStep DEF EventHup
  <2> QED BY <2>1, <2>2
<1>2. CASE EventErr
  BY <1>0, <1>2, QuietStep DEF EventErr
<1>3. CASE EventRead
  <2>0. /\ "IN" \in revents /\ "HUP" \notin revents /\ revents' = revents \ {"IN"}
        /\ UNCHANGED <<peer, call, holders, raced>>
    BY <1>3 DEF EventRead
  <2>1. CASE UNCHANGED <<state, channel, ioVars, sockErr, q, sends, lifeVars>>
    BY <1>0, <2>0, <2>1, QuietStep
  <2>2. CASE /\ state = "kConnected"
             /\ sends < MaxSends
             /\ sends' = sends + 1
             /\ SendInLoop(Message(sends + 1), q)
             /\ UNCHANGED <<state, finSent, lifeVars>>
    BY <2>0, <2>2, AnswerSendStep
  <2>3. CASE /\ state = "kConnected"
             /\ state' = "kDisconnecting"
             /\ ShutdownInLoop
             /\ UNCHANGED <<channel, out, wire, accepted, sockErr, q, sends, lifeVars>>
    BY <2>0, <2>3, AnswerShutdownStep
  <2>4. CASE DestroyedAtOnce /\ UNCHANGED <<ioVars, sockErr, q, sends>>
    <3>1. "HUP" \notin revents' /\ "IN" \notin revents' /\ revents' \subseteq revents
      BY <2>0
    <3> QED BY <2>0, <2>4, <3>1, AtOnceStep
  <2> QED BY <1>3, <2>1, <2>2, <2>3, <2>4 DEF EventRead
<1>4. CASE EventReadEnd
  <2>1. CASE sockErr
    BY <1>0, <1>4, <2>1, QuietStep DEF EventReadEnd
  <2>2. CASE ~sockErr
    <3>1. "IN" \in revents /\ "HUP" \notin revents /\ revents' = revents \ {"IN"}
      BY <1>4 DEF EventReadEnd
    <3>2. /\ HandleClose /\ sockErr' \in BOOLEAN
          /\ UNCHANGED <<out, wire, accepted, finSent, peer, q, call, holders,
                         raced, sends>>
      BY <1>0, <1>4, <2>2 DEF EventReadEnd
    <3>3. revents' \subseteq revents /\ "HUP" \notin revents' /\ "IN" \notin revents'
      BY <3>1
    <3> QED BY <3>1, <3>2, <3>3, CloseStep
  <2> QED BY <2>1, <2>2
<1>5. CASE EventWrite
  <2>0. /\ revents = {"OUT"} /\ revents' = {}
        /\ UNCHANGED <<state, peer, call, holders, raced, sends, downs, removals,
                       inServer, overtaken>>
    BY <1>5 DEF EventWrite
  <2>1. CASE /\ ~IsWriting(channel) \/ Broken
             /\ sockErr' = (sockErr /\ ~IsWriting(channel))
             /\ UNCHANGED <<channel, ioVars, q>>
    BY <1>0, <2>0, <2>1, QuietStep
  <2>2. ASSUME IsWriting(channel), ~Broken, NEW n \in 1 .. Len(out),
               wire' = wire \o SubSeq(out, 1, n), out' = Unsent(out, n),
               IF n = Len(out)
                 THEN /\ channel' = DisableWriting(channel)
                      /\ q' = Append(q, Functor("writeComplete"))
                      /\ DrainedShutdown
                 ELSE UNCHANGED <<channel, q, finSent>>,
               UNCHANGED <<accepted, sockErr>>
        PROVE  IInv'
    BY <2>0, <2>2, WriteStep
  <2> QED BY <1>5, <2>1, <2>2 DEF EventWrite
<1> QED BY <1>1, <1>2, <1>3, <1>4, <1>5 DEF Event

(* A caller's functor is late if the connection had ended, and otherwise   *)
(* the server still holds the connection.                                  *)
LEMMA PushStep ==
    ASSUME IInv, NEW f \in Functors, f.op \in {"send", "shutdown"},
           f.op = "send" => f.k # 0, Push(f)
    PROVE  /\ q' \in Seq(Functors) /\ SendsMessages(q')
           /\ ~Established(q) => ~Established(q')
           /\ q # << >> => (Established(q) <=> Established(q'))
           /\ OnlyFirst(q')
           /\ HasDestroyed(q') <=> HasDestroyed(q)
           /\ ~overtaken => RawAhead(q', inServer)
<1> DEFINE g == [f EXCEPT !.late = downs > 0 \/ ~inServer]
<1>1. /\ g \in Functors /\ g.op = f.op /\ g.k = f.k
      /\ g.late = (downs > 0 \/ ~inServer)
  BY DEF Functors
<1>2. /\ q \in Seq(Functors) /\ SendsMessages(q) /\ OnlyFirst(q)
      /\ inServer \in BOOLEAN /\ (~overtaken => RawAhead(q, inServer))
  BY DEF IInv, TypeOK, SendsMessages, EstablishedFirst, RawInTime
<1>3. q' = Append(q, g)
  BY DEF Push
<1> HIDE DEF g
<1>4. Raw(g) /\ ~g.late => inServer
  BY <1>1
<1>5. Pushed(q, g, q')
  BY <1>1, <1>2, <1>3, PushQueue
<1> QED BY <1>1, <1>2, <1>4, <1>5 DEF Pushed

(* The callers: state_ is tested in one step and set or used in a later    *)
(* one.                                                                    *)
LEMMA CallerInv ==
    ASSUME IInv, NEW t \in Callers, BeginCall(t) \/ CallerStep(t) \/ Drop(t)
    PROVE  IInv'
<1> USE SizesAssumption DEF IInv, ioVars, lifeVars, callVars
<1> DEFINE Calls == [step : {"none", "send", "set", "push"}, k : 0 .. MaxSends]
<1>0. /\ call \in [Callers -> Calls] /\ q \in Seq(Functors) /\ SendsMessages(q)
      /\ sends \in 0 .. MaxSends /\ holders \subseteq Callers
      /\ \A u \in Callers : call[u].step = "send" => call[u].k # 0
      /\ \A u \in Callers : call[u] # NoCall => u \in holders
      /\ 0 \in 0 .. MaxSends
      /\ NoCall \in Calls /\ NoCall.step = "none"
  BY DEF TypeOK, SendsMessages, EstablishedFirst, NoCall
<1>1. ASSUME NEW c \in Calls, call' = [call EXCEPT ![t] = c],
             c.step = "send" => c.k # 0, c # NoCall => t \in holders
      PROVE  /\ call' \in [Callers -> Calls]
             /\ \A u \in Callers : call'[u].step = "send" => call'[u].k # 0
             /\ \A u \in Callers : call'[u] # NoCall => u \in holders
  BY <1>0, <1>1
<1>2. CASE BeginCall(t)
  <2>1. /\ t \in holders /\ state = "kConnected"
        /\ UNCHANGED <<state, channel, out, wire, accepted, finSent, peer, sockErr,
                       revents, q, holders, raced, downs, removals, inServer, overtaken>>
    BY <1>2 DEF BeginCall
  <2>2. /\ sends' \in 0 .. MaxSends
        /\ \E c \in Calls : /\ call' = [call EXCEPT ![t] = c]
                            /\ c.step = "send" => c.k # 0
    <3>1. CASE /\ sends < MaxSends /\ sends' = sends + 1
               /\ call' = [call EXCEPT ![t] = [step |-> "send", k |-> sends + 1]]
      <4>1. /\ sends + 1 \in 0 .. MaxSends /\ sends + 1 # 0
            /\ [step |-> "send", k |-> sends + 1] \in Calls
        BY <1>0, <3>1
      <4> QED BY <3>1, <4>1
    <3>2. CASE /\ call' = [call EXCEPT ![t] = [step |-> "set", k |-> 0]]
               /\ UNCHANGED sends
      <4>1. [step |-> "set", k |-> 0] \in Calls
        BY <1>0
      <4> QED BY <1>0, <3>2, <4>1
    <3> QED BY <1>2, <3>1, <3>2 DEF BeginCall
  <2>3. /\ call' \in [Callers -> Calls]
        /\ \A u \in Callers : call'[u].step = "send" => call'[u].k # 0
        /\ \A u \in Callers : call'[u] # NoCall => u \in holders
    BY <1>1, <2>1, <2>2
  <2> HIDE DEF NoCall
  <2>4. TypeOK'
    BY <2>1, <2>2, <2>3 DEF TypeOK
  <2>5. StreamIntact' /\ WriteInterest' /\ FinAfterData' /\ Agrees(channel)'
    BY <2>1 DEF StreamIntact, WriteInterest, FinAfterData
  <2>6. EstablishedFirst' /\ RemovedByServer' /\ ToBeRemoved' /\ RawInTime'
    BY <2>1, <2>3 DEF EstablishedFirst, RemovedByServer, ToBeRemoved, RawInTime
  <2>7. DispatchOfRegistered' /\ ToldOnce'
    BY <2>1 DEF DispatchOfRegistered, ToldOnce, OneDown
  <2> QED BY <2>4, <2>5, <2>6, <2>7
<1>3. ASSUME NEW f \in Functors, f.op \in {"send", "shutdown"},
             f.op = "send" => f.k # 0, Push(f),
             call[t] # NoCall, call' = [call EXCEPT ![t] = NoCall],
             UNCHANGED <<state, channel, out, wire, accepted, finSent, peer, sockErr,
                         revents, holders, sends, raced, downs, removals, inServer, overtaken>>
      PROVE  IInv'
  <2>1. /\ q' \in Seq(Functors) /\ SendsMessages(q')
        /\ ~Established(q) => ~Established(q')
        /\ OnlyFirst(q')
        /\ HasDestroyed(q') <=> HasDestroyed(q)
        /\ ~overtaken => RawAhead(q', inServer)
    BY <1>3, PushStep
  <2>2. state # "kConnecting" /\ ~Established(q)
    BY <1>0, <1>3 DEF EstablishedFirst
  <2>3. /\ call' \in [Callers -> Calls]
        /\ \A u \in Callers : call'[u].step = "send" => call'[u].k # 0
        /\ \A u \in Callers : call'[u] # NoCall => u \in holders
    BY <1>0, <1>1, <1>3
  <2>4. TypeOK'
    BY <1>3, <2>1, <2>3 DEF TypeOK, SendsMessages
  <2>5. StreamIntact' /\ WriteInterest' /\ FinAfterData' /\ Agrees(channel)'
    BY <1>3 DEF StreamIntact, WriteInterest, FinAfterData
  <2>6. EstablishedFirst' /\ RemovedByServer' /\ ToBeRemoved' /\ RawInTime'
    BY <1>3, <2>1, <2>2, <2>3 DEF EstablishedFirst, RemovedByServer, ToBeRemoved, RawInTime
  <2>7. DispatchOfRegistered' /\ ToldOnce'
    BY <1>3 DEF DispatchOfRegistered, ToldOnce, OneDown
  <2> QED BY <2>4, <2>5, <2>6, <2>7
<1>4. CASE QueueSend(t)
  <2> DEFINE f == [op |-> "send", k |-> call[t].k, late |-> FALSE]
  <2>1. f \in Functors /\ f.op = "send" /\ f.k # 0 /\ call[t] # NoCall
    BY <1>0, <1>4 DEF QueueSend, Functors
  <2>2. /\ Push(f) /\ call' = [call EXCEPT ![t] = NoCall]
        /\ UNCHANGED <<state, channel, out, wire, accepted, finSent, peer, sockErr,
                       revents, holders, sends, raced, downs, removals, inServer, overtaken>>
    BY <1>4 DEF QueueSend
  <2> HIDE DEF f
  <2> QED BY <1>3, <2>1, <2>2
<1>5. CASE QueueShutdown(t)
  <2>1. /\ Functor("shutdown") \in Functors /\ Functor("shutdown").op = "shutdown"
        /\ call[t] # NoCall
    BY <1>0, <1>5, FunctorType DEF QueueShutdown
  <2>2. /\ Push(Functor("shutdown")) /\ call' = [call EXCEPT ![t] = NoCall]
        /\ UNCHANGED <<state, channel, out, wire, accepted, finSent, peer, sockErr,
                       revents, holders, sends, raced, downs, removals, inServer, overtaken>>
    BY <1>5 DEF QueueShutdown
  <2> QED BY <1>3, <2>1, <2>2
<1>6. CASE SetDisconnecting(t)
  <2>1. /\ call[t].step = "set" /\ state' = "kDisconnecting"
        /\ raced' = (raced \/ state \notin {"kConnected", "kDisconnecting"})
        /\ call' = [call EXCEPT ![t] = [call[t] EXCEPT !.step = "push"]]
        /\ UNCHANGED <<channel, out, wire, accepted, finSent, peer, sockErr,
                       revents, q, holders, sends, downs, removals, inServer, overtaken>>
    BY <1>6 DEF SetDisconnecting
  <2>2. t \in holders /\ state # "kConnecting"
    BY <1>0, <2>1 DEF EstablishedFirst
  <2>3. /\ call' \in [Callers -> Calls]
        /\ \A u \in Callers : call'[u].step = "send" => call'[u].k # 0
        /\ \A u \in Callers : call'[u] # NoCall => u \in holders
    <3>1. /\ [call[t] EXCEPT !.step = "push"] \in Calls
          /\ [call[t] EXCEPT !.step = "push"].step # "send"
      BY <1>0
    <3> QED BY <1>1, <2>1, <2>2, <3>1
  <2>4. ~raced' => downs = 0 /\ ~raced
    <3>1. ~raced' => ~raced /\ state # "kDisconnected"
      BY <2>1
    <3>2. downs \in Nat
      BY DEF TypeOK
    <3> QED BY <3>1, <3>2 DEF ToldOnce
  <2>5. TypeOK'
    BY <2>1, <2>3 DEF TypeOK
  <2>6. StreamIntact' /\ WriteInterest' /\ FinAfterData' /\ Agrees(channel)'
    BY <2>1 DEF StreamIntact, WriteInterest, FinAfterData
  <2>7. EstablishedFirst' /\ RemovedByServer' /\ ToBeRemoved' /\ RawInTime'
    BY <2>1, <2>2, <2>3 DEF EstablishedFirst, RemovedByServer, ToBeRemoved, RawInTime
  <2>8. DispatchOfRegistered' /\ ToldOnce'
    BY <2>1, <2>4 DEF DispatchOfRegistered, ToldOnce, OneDown
  <2> QED BY <2>5, <2>6, <2>7, <2>8
<1>7. CASE Drop(t)
  <2>1. /\ call[t] = NoCall /\ holders' = holders \ {t}
        /\ UNCHANGED <<state, channel, out, wire, accepted, finSent, peer, sockErr,
                       revents, q, call, raced, sends, downs, removals, inServer, overtaken>>
    BY <1>7 DEF Drop
  <2>2. TypeOK'
    BY <2>1 DEF TypeOK
  <2>3. StreamIntact' /\ WriteInterest' /\ FinAfterData' /\ Agrees(channel)'
    BY <2>1 DEF StreamIntact, WriteInterest, FinAfterData
  <2>4. EstablishedFirst' /\ RemovedByServer' /\ ToBeRemoved' /\ RawInTime'
    BY <2>1 DEF EstablishedFirst, RemovedByServer, ToBeRemoved, RawInTime
  <2>5. DispatchOfRegistered' /\ ToldOnce'
    BY <2>1 DEF DispatchOfRegistered, ToldOnce, OneDown
  <2> QED BY <2>2, <2>3, <2>4, <2>5
<1> QED BY <1>2, <1>4, <1>5, <1>6, <1>7 DEF CallerStep

(* The server lets the connection go: connectDestroyed() is behind every   *)
(* functor that was queued before.                                         *)
LEMMA ServerStep == IInv /\ (ServerRemoves \/ ServerDestroyed) => IInv'
<1> SUFFICES ASSUME IInv, ServerRemoves \/ ServerDestroyed PROVE IInv'
  OBVIOUS
<1> USE DEF IInv, ioVars, callVars
<1>1. /\ q' = Append(q, Functor("destroyed")) /\ inServer' = FALSE
      /\ removals' \in Nat /\ removals' <= removals /\ removals \in Nat
      /\ UNCHANGED <<state, channel, out, wire, accepted, finSent, peer, sockErr,
                     revents, call, holders, raced, sends, downs, overtaken>>
  BY DEF ServerRemoves, ServerDestroyed, QueueDestroyed, TypeOK
<1>2. /\ Functor("destroyed") \in Functors /\ Functor("destroyed").op = "destroyed"
      /\ q \in Seq(Functors) /\ SendsMessages(q)
  BY FunctorType DEF TypeOK, SendsMessages
<1>3. /\ q' \in Seq(Functors) /\ SendsMessages(q')
      /\ q # << >> => (Established(q) <=> Established(q'))
      /\ ~Established(q) => ~Established(q')
      /\ OnlyFirst(q') /\ HasDestroyed(q')
      /\ RawAhead(q', FALSE)
  <2>1. Pushed(q, Functor("destroyed"), q')
    BY <1>1, <1>2, PushQueue
  <2> QED BY <1>1, <1>2, <2>1 DEF Pushed, EstablishedFirst
<1>4. Established(q') <=> Established(q)
  BY <1>3 DEF Established
<1>5. TypeOK'
  BY <1>1, <1>3 DEF TypeOK, SendsMessages
<1>6. StreamIntact' /\ WriteInterest' /\ FinAfterData' /\ Agrees(channel)'
  BY <1>1 DEF StreamIntact, WriteInterest, FinAfterData
<1>7. EstablishedFirst' /\ RemovedByServer' /\ ToBeRemoved' /\ RawInTime'
  <2>1. EstablishedFirst'
    BY <1>1, <1>3, <1>4 DEF EstablishedFirst
  <2>2. RemovedByServer'
    BY <1>1 DEF RemovedByServer, TypeOK
  <2>3. ToBeRemoved' /\ RawInTime'
    BY <1>1, <1>3 DEF ToBeRemoved, RawInTime
  <2> QED BY <2>1, <2>2, <2>3
<1>8. DispatchOfRegistered' /\ ToldOnce'
  BY <1>1 DEF DispatchOfRegistered, ToldOnce, OneDown
<1> QED BY <1>5, <1>6, <1>7, <1>8

-----------------------------------------------------------------------------
(* Every step preserves the invariant. *)
LEMMA InvStep == IInv /\ [Next]_vars => IInv'
<1> SUFFICES ASSUME IInv, [Next]_vars PROVE IInv'
  OBVIOUS
<1>1. ASSUME NEW data \in BOOLEAN, NEW space \in BOOLEAN, Poll(data, space)
      PROVE  IInv'
  BY <1>1, PollStep
<1>2. CASE Event BY <1>2, EventStep
<1>3. CASE RunFunctor BY <1>3, RunFunctorStep
<1>4. ASSUME NEW t \in Callers, BeginCall(t) \/ CallerStep(t) \/ Drop(t)
      PROVE  IInv'
  BY <1>4, CallerInv
<1>5. CASE ServerRemoves \/ ServerDestroyed BY <1>5, ServerStep
<1>6. CASE ServerDestroyedInLoop
  <2>1. /\ DestroyedAtOnce /\ revents = {} /\ revents' = revents
        /\ UNCHANGED <<out, wire, accepted, finSent, sockErr, q, call, holders, raced,
                       peer, sends>>
    BY <1>6 DEF ServerDestroyedInLoop, Idle, ioVars, callVars
  <2> QED BY <2>1, AtOnceStep
<1>7. CASE PeerCloses \/ PeerResets
  <2>1. /\ revents' \subseteq revents /\ sockErr' \in BOOLEAN
        /\ peer' \in {"open", "closed", "reset"}
        /\ UNCHANGED <<state, channel, out, wire, accepted, finSent, q, call,
                       holders, raced, sends, downs, removals, inServer, overtaken>>
    BY <1>7 DEF PeerCloses, PeerResets, IInv, TypeOK, ioVars, callVars, lifeVars
  <2> QED BY <2>1, QuietStep
<1>8. CASE UNCHANGED vars
  <2>1. /\ revents' \subseteq revents /\ sockErr' \in BOOLEAN
        /\ peer' \in {"open", "closed", "reset"}
        /\ UNCHANGED <<state, channel, out, wire, accepted, finSent, q, call,
                       holders, raced, sends, downs, removals, inServer, overtaken>>
    BY <1>8 DEF vars, IInv, TypeOK
  <2> QED BY <2>1, QuietStep
<1> QED BY <1>1, <1>2, <1>3, <1>4, <1>5, <1>6, <1>7, <1>8 DEF Next

(* The conjunction of the parts holds in every reachable state. *)
THEOREM Inductive == Spec => []IInv
<1> QED BY InitInv, InvStep, PTL DEF Spec

(* The state of a connection, its buffers and its functors are of their    *)
(* types in every reachable state.                                         *)
THEOREM TypeCorrect == Spec => []TypeOK
<1>1. IInv => TypeOK
  BY DEF IInv
<1> QED BY <1>1, Inductive, PTL

(* No byte that sendInLoop() accepted is lost, doubled or out of order,    *)
(* whatever the sizes of the partial writes of sendInLoop() and            *)
(* handleWrite() were.                                                     *)
THEOREM NoByteLost == Spec => []StreamIntact
<1>1. IInv => StreamIntact
  BY DEF IInv
<1> QED BY <1>1, Inductive, PTL

(* Until the connection ends, EPOLLOUT is asked for exactly while          *)
(* outputBuffer_ holds bytes.                                              *)
THEOREM InterestMatchesBuffer == Spec => []WriteInterest
<1>1. IInv => WriteInterest
  BY DEF IInv
<1> QED BY <1>1, Inductive, PTL

(* shutdownInLoop() and handleWrite() close the writing half only behind   *)
(* the last accepted byte.                                                 *)
THEOREM HalfCloseAfterData == Spec => []FinAfterData
<1>1. IInv => FinAfterData
  BY DEF IInv
<1> QED BY <1>1, Inductive, PTL

(* updateChannel() and removeChannel() never disagree with the kernel, and *)
(* a closed connection that is freed has left the poller: handleClose()    *)
(* always leads to a connectDestroyed() that removes the channel.          *)
THEOREM ChannelRemoved == Spec => []NoDanglingChannel
<1>1. IInv => NoDanglingChannel
  <2> SUFFICES ASSUME IInv, Freed, state = "kDisconnected"
               PROVE  ~channel.registered /\ ~channel.inMap
    BY DEF IInv, NoDanglingChannel
  <2>1. ~HasDestroyed(q)
    BY DEF Freed, HasDestroyed, Raw
  <2>2. ~channel.inMap
    BY <2>1 DEF IInv, ToBeRemoved, Freed
  <2> QED BY <2>2 DEF IInv, Agrees
<1> QED BY <1>1, Inductive, PTL

(* handleClose() and connectDestroyed() together report the end once,      *)
(* unless shutdown() has overwritten the state of a closed connection.     *)
THEOREM EndReportedOnce == Spec => []OneDown
<1>1. IInv => OneDown
  BY DEF IInv, ToldOnce
<1> QED BY <1>1, Inductive, PTL

(* sendInLoop() and shutdownInLoop(), bound to a plain this, find the      *)
(* connection alive when they were queued before its end, unless the       *)
(* server was destroyed on the thread of the loop: the removal of a closed *)
(* connection and the destructor on another thread queue connectDestroyed() *)
(* behind them.                                                            *)
THEOREM RawFunctorsSafe == Spec => []RawFunctorsAlive
<1>1. IInv => RawFunctorsAlive
  <2> SUFFICES ASSUME IInv, Freed, ~overtaken, NEW i \in DOMAIN q PROVE q[i].late
    BY DEF RawFunctorsAlive
  <2>1. ~inServer /\ \A j \in DOMAIN q : q[j].op # "destroyed"
    BY DEF Freed, Raw
  <2>2. Raw(q[i])
    BY DEF Freed
  <2> QED BY <2>1, <2>2 DEF IInv, RawInTime, RawAhead
<1> QED BY <1>1, Inductive, PTL
=============================================================================
