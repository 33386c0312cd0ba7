-------------------------- MODULE HttpClient_proofs --------------------------
(***************************************************************************)
(* Proofs about TcpClient.tla under its two applications in HttpClient.tla, *)
(* for any number of attempts, calls and requests: a stop() is final, one  *)
(* attempt at a time, queued requests are served, and requests and their   *)
(* responses keep their order.                                             *)
(***************************************************************************)
EXTENDS HttpClient, SequenceTheorems, WellFoundedInduction, TLAPS

Places == Socks \cup {None}
Functors ==
    [op : {"startInLoop", "stopInLoop", "resetChannel", "connectDestroyed"}, s : Places]
        \cup [op : {"send"}, s : Places, r : Nat]
Tokens == [kind : {"status", "crlf", "header", "body"}, of : Nat]
Lives == {"none", "connecting", "refused", "closed", "up", "shut", "down", "destroyed"}

ClientTypes ==
    /\ retry \in BOOLEAN /\ wanted \in BOOLEAN /\ connect \in BOOLEAN /\ stopped \in BOOLEAN
    /\ state \in {"kDisconnected", "kConnecting", "kConnected"}
    /\ channel \in Places /\ connection \in Places /\ current \in Places
    /\ registered \subseteq Socks
    /\ life \in [Socks -> Lives]
    /\ attempts \in Nat
    /\ q \in Seq(Functors) /\ batch \in Seq(Functors)
    /\ phase \in {"poll", "up", "down", "restart", "message", "handled", "functors", "crashed"}
    /\ phase \notin {"functors", "crashed"} => batch = << >>
    /\ calls \in Nat
    /\ call \in {"none", "stop", "queue"}

HttpTypes ==
    /\ connected \in BOOLEAN /\ isConnecting \in BOOLEAN /\ crossed \in BOOLEAN
    /\ requests \in Seq(Nat) /\ sent \in Seq(Nat)
    /\ made \in Nat /\ lock \in Nat
    /\ net \in [Socks -> Seq(Tokens)] /\ buf \in [Socks -> Seq(Tokens)]
    /\ clearing \subseteq {"connected", "isConnecting"}
    /\ queueBorn \subseteq Nat
    /\ delivered \in [Socks -> Seq(Nat)]

Types == ClientTypes /\ HttpTypes

-----------------------------------------------------------------------------
(* The functors that are waiting, in the order in which they will run, and *)
(* what is said of such a queue.                                           *)
Waiting == batch \o q

Has(s, op) == \E i \in 1 .. Len(s) : s[i].op = op

(* A stopInLoop() comes behind every startInLoop(). *)
StopsBehind(s) ==
    \A i \in 1 .. Len(s) : s[i].op = "startInLoop" =>
        \E j \in 1 .. Len(s) : j > i /\ s[j].op = "stopInLoop"

OneStart(s) ==
    \A i, j \in 1 .. Len(s) : s[i].op = "startInLoop" /\ s[j].op = "startInLoop" => i = j

(* No startInLoop() runs before the channel of an earlier attempt is reset. *)
ResetsFirst(s) ==
    \A i, j \in 1 .. Len(s) : s[i].op = "startInLoop" /\ s[j].op = "resetChannel" => j < i

-----------------------------------------------------------------------------
(* stop() *)

(* What a stop() that has returned leaves: until its functor has run there *)
(* may be an attempt in progress or in front of it, afterwards not.  The   *)
(* connection of a client that reconnects is not wanted then.              *)
StopInv ==
    /\ retry /\ calls = 0 => call = "none" /\ ~stopped
    /\ retry /\ (call # "none" \/ stopped) => ~wanted
    /\ phase = "restart" => retry
    /\ stopped => StopsBehind(Waiting)
    /\ stopped /\ ~Has(Waiting, "stopInLoop") => state # "kConnecting" /\ phase # "restart"

-----------------------------------------------------------------------------
(* The attempts *)

Live == {s \in Socks : life[s] \in {"up", "shut"}}

(* An attempt that is to come or under way, or a connection *)
Busy == Has(Waiting, "startInLoop") \/ state = "kConnecting" \/ Live # {}

(* One of them at a time *)
Exclusive ==
    /\ OneStart(Waiting) /\ ResetsFirst(Waiting)
    /\ ~(Has(Waiting, "startInLoop") /\ state = "kConnecting")
    /\ ~(Has(Waiting, "startInLoop") /\ Live # {})
    /\ ~(state = "kConnecting" /\ Live # {})
    /\ \A s, t \in Live : s = t

ChannelInv ==
    IF state = "kConnecting"
      THEN registered = {channel} /\ channel # None /\ ~Has(Waiting, "resetChannel")
      ELSE registered = {}

(* The flags of the HttpClient, or the one call of connect() and the       *)
(* retries, make it so; and the channel of an attempt is reset in the turn *)
(* of the loop that made its connection.                                   *)
FlagsInv ==
    /\ retry /\ calls = 0 => ~Busy /\ phase \notin {"up", "down", "restart"}
    /\ phase = "restart" => ~Busy
    /\ phase = "down" /\ (retry \/ clearing # {}) => ~Busy
    /\ ~retry /\ Busy => isConnecting
    /\ ~retry /\ Live # {} /\ phase # "up" => connected
    /\ ~retry /\ phase = "down" => /\ "connected" \in clearing => connected
                                   /\ "isConnecting" \in clearing => isConnecting
    /\ (Live # {} \/ phase \in {"down", "restart"}) /\ phase \notin {"up", "handled"} =>
          ~Has(q, "resetChannel")

OneAtATime == Exclusive /\ ChannelInv /\ FlagsInv
AttemptInv == ~crossed => OneAtATime

-----------------------------------------------------------------------------
(* The requests *)

InSeq(s, r) == \E i \in 1 .. Len(s) : s[i] = r

(* The request of a functor that is to send it *)
ToSend(s, r) == \E i \in 1 .. Len(s) : s[i].op = "send" /\ s[i].r = r

SendsOnce(s) ==
    \A i, j \in 1 .. Len(s) :
        s[i].op = "send" /\ s[j].op = "send" /\ s[i].r = s[j].r => i = j

Increasing(s) == \A i, j \in 1 .. Len(s) : i < j => s[i] < s[j]

(* A request is held in one place: requests_, a functor, get(), or it was  *)
(* written; and numbers tell their order.                                  *)
PlaceInv ==
    /\ Increasing(requests) /\ IsInjective(sent) /\ SendsOnce(Waiting)
    /\ \A r : InSeq(requests, r) => r # None /\ r <= made /\ r \in queueBorn
                                    /\ ~InSeq(sent, r) /\ ~ToSend(Waiting, r)
    /\ \A r : ToSend(Waiting, r) => r # None /\ r <= made /\ r \notin queueBorn
                                    /\ ~InSeq(sent, r)
    /\ \A r : InSeq(sent, r) => r # None /\ r <= made
    /\ \A r \in queueBorn : r <= made
    /\ lock # 0 => /\ lock = made /\ lock \notin queueBorn
                   /\ ~InSeq(sent, lock) /\ ~ToSend(Waiting, lock)

BornInOrder(s, born) ==
    \A i, j \in 1 .. Len(s) : i < j /\ s[i] \in born /\ s[j] \in born => s[i] < s[j]

(* Of those that had to queue, what was written is before what waits. *)
QueueInv ==
    /\ BornInOrder(sent, queueBorn)
    /\ \A r, t : InSeq(sent, r) /\ r \in queueBorn /\ InSeq(requests, t) => r < t

-----------------------------------------------------------------------------
(* The responses *)

Precedes(s, a, b) == \E m, n \in 1 .. Len(s) : m < n /\ s[m] = a /\ s[n] = b

(* Token i of the text t is the status line of a response to a request of  *)
(* ours.                                                                   *)
Answers(t, i) == t[i].kind = "status" /\ t[i].of # None

(* The status lines of a text t are in the order of the requests in s. *)
TextInOrder(t, s) ==
    /\ \A i \in 1 .. Len(t) : Answers(t, i) => InSeq(s, t[i].of)
    /\ \A i, j \in 1 .. Len(t) :
          i < j /\ Answers(t, i) /\ Answers(t, j) => Precedes(s, t[i].of, t[j].of)

(* So are the requests d that were answered, and before those of t. *)
GivenInOrder(d, t, s) ==
    /\ \A i \in 1 .. Len(d) : d[i] # None => InSeq(s, d[i])
    /\ \A i, j \in 1 .. Len(d) :
          i < j /\ d[i] # None /\ d[j] # None => Precedes(s, d[i], d[j])
    /\ \A i \in 1 .. Len(d) : \A j \in 1 .. Len(t) :
          d[i] # None /\ Answers(t, j) => Precedes(s, d[i], t[j].of)

Text(s) == buf[s] \o net[s]

ResponseInv ==
    \A s \in Socks : TextInOrder(Text(s), sent) /\ GivenInOrder(delivered[s], Text(s), sent)

-----------------------------------------------------------------------------
(* requests_ is used by an HttpClient only. *)
ServedInv == QueueServed /\ (retry => requests = << >> /\ lock = 0)

IInv ==
    /\ Types /\ StopInv /\ AttemptInv
    /\ PlaceInv /\ QueueInv /\ ResponseInv /\ ServedInv

-----------------------------------------------------------------------------
(* The queue *)

(* The queue t is s with f behind it. *)
Pushed(s, f, t) ==
    /\ t \in Seq(Functors)
    /\ \A op : Has(t, op) <=> Has(s, op) \/ f.op = op
    /\ StopsBehind(s) /\ f.op # "startInLoop" => StopsBehind(t)
    /\ f.op = "stopInLoop" => StopsBehind(t)
    /\ OneStart(s) /\ (f.op = "startInLoop" => ~Has(s, "startInLoop")) => OneStart(t)
    /\ ResetsFirst(s) /\ (f.op = "resetChannel" => ~Has(s, "startInLoop")) => ResetsFirst(t)
    /\ \A r : ToSend(t, r) <=> ToSend(s, r) \/ (f.op = "send" /\ f.r = r)
    /\ SendsOnce(s) /\ (f.op = "send" => ~ToSend(s, f.r)) => SendsOnce(t)

(* The queue t is s without the functor f that was its first. *)
Popped(s, f, t) ==
    /\ t \in Seq(Functors) /\ f \in Functors
    /\ \A op : Has(s, op) <=> Has(t, op) \/ f.op = op
    /\ StopsBehind(s) => StopsBehind(t)
    /\ StopsBehind(s) /\ f.op = "startInLoop" => Has(t, "stopInLoop")
    /\ OneStart(s) => OneStart(t)
    /\ OneStart(s) /\ f.op = "startInLoop" => ~Has(t, "startInLoop")
    /\ ResetsFirst(s) => ResetsFirst(t)
    /\ ResetsFirst(s) /\ f.op = "startInLoop" => ~Has(t, "resetChannel")
    /\ \A r : ToSend(s, r) <=> ToSend(t, r) \/ (f.op = "send" /\ f.r = r)
    /\ SendsOnce(s) => SendsOnce(t)
    /\ SendsOnce(s) /\ f.op = "send" => ~ToSend(t, f.r)

LEMMA PushFunctor ==
    ASSUME NEW s \in Seq(Functors), NEW f \in Functors, NEW t, t = Append(s, f)
    PROVE  Pushed(s, f, t)
<1>1. /\ t \in Seq(Functors) /\ Len(s) \in Nat /\ Len(t) = Len(s) + 1 /\ t[Len(t)] = f
      /\ \A i \in 1 .. Len(s) : t[i] = s[i]
  OBVIOUS
<1>2. \A i \in 1 .. Len(t) : i \in 1 .. Len(s) \/ i = Len(t)
  BY <1>1
<1>3. Len(t) \in 1 .. Len(t) /\ \A i \in 1 .. Len(s) : i \in 1 .. Len(t) /\ i < Len(t)
  BY <1>1
<1>4. \A op : Has(t, op) <=> Has(s, op) \/ f.op = op
  BY <1>1, <1>2, <1>3 DEF Has
<1>5. StopsBehind(s) /\ f.op # "startInLoop" => StopsBehind(t)
  BY <1>1, <1>2, <1>3 DEF StopsBehind
<1>6. f.op = "stopInLoop" => StopsBehind(t)
  BY <1>1, <1>2, <1>3 DEF StopsBehind
<1>7. OneStart(s) /\ (f.op = "startInLoop" => ~Has(s, "startInLoop")) => OneStart(t)
  BY <1>1, <1>2 DEF OneStart, Has
<1>8. ResetsFirst(s) /\ (f.op = "resetChannel" => ~Has(s, "startInLoop")) => ResetsFirst(t)
  BY <1>1, <1>2, <1>3 DEF ResetsFirst, Has
<1>9. \A r : ToSend(t, r) <=> ToSend(s, r) \/ (f.op = "send" /\ f.r = r)
  BY <1>1, <1>2, <1>3 DEF ToSend
<1>10. SendsOnce(s) /\ (f.op = "send" => ~ToSend(s, f.r)) => SendsOnce(t)
  BY <1>1, <1>2 DEF SendsOnce, ToSend
<1> QED BY <1>1, <1>4, <1>5, <1>6, <1>7, <1>8, <1>9, <1>10 DEF Pushed

LEMMA PopFunctor ==
    ASSUME NEW s \in Seq(Functors), s # << >>, NEW t, t = Tail(s), NEW f, f = Head(s)
    PROVE  Popped(s, f, t)
<1>1. /\ t \in Seq(Functors) /\ f \in Functors /\ f = s[1]
      /\ Len(t) \in Nat /\ Len(s) = Len(t) + 1
      /\ \A i \in 1 .. Len(t) : t[i] = s[i + 1]
  OBVIOUS
<1>2. \A i \in 1 .. Len(t) : i + 1 \in 1 .. Len(s) /\ i + 1 # 1
  BY <1>1
<1>3. \A i \in 1 .. Len(s) : i = 1 \/ (i - 1 \in 1 .. Len(t) /\ t[i - 1] = s[i])
  BY <1>1
<1>4. 1 \in 1 .. Len(s)
  BY <1>1
<1>5. \A op : Has(s, op) <=> Has(t, op) \/ f.op = op
  BY <1>1, <1>2, <1>3, <1>4 DEF Has
<1>6. ASSUME StopsBehind(s)
      PROVE  StopsBehind(t)
  <2> SUFFICES ASSUME NEW i \in 1 .. Len(t), t[i].op = "startInLoop"
               PROVE  \E j \in 1 .. Len(t) : j > i /\ t[j].op = "stopInLoop"
    BY DEF StopsBehind
  <2>1. PICK j \in 1 .. Len(s) : j > i + 1 /\ s[j].op = "stopInLoop"
    BY <1>1, <1>2, <1>6 DEF StopsBehind
  <2>2. j - 1 \in 1 .. Len(t) /\ t[j - 1] = s[j] /\ j - 1 > i
    BY <1>3, <2>1
  <2> QED BY <2>1, <2>2
<1>7. ASSUME StopsBehind(s), f.op = "startInLoop"
      PROVE  Has(t, "stopInLoop")
  <2>1. PICK j \in 1 .. Len(s) : j > 1 /\ s[j].op = "stopInLoop"
    BY <1>1, <1>4, <1>7 DEF StopsBehind
  <2> QED BY <1>3, <2>1 DEF Has
<1>8. ASSUME OneStart(s)
      PROVE  OneStart(t)
  <2> SUFFICES ASSUME NEW i \in 1 .. Len(t), NEW j \in 1 .. Len(t),
                      t[i].op = "startInLoop", t[j].op = "startInLoop"
               PROVE  i = j
    BY DEF OneStart
  <2>1. i + 1 = j + 1
    BY <1>1, <1>2, <1>8 DEF OneStart
  <2> QED BY <2>1
<1>9. OneStart(s) /\ f.op = "startInLoop" => ~Has(t, "startInLoop")
  BY <1>1, <1>2, <1>4 DEF OneStart, Has
<1>10. ASSUME ResetsFirst(s)
       PROVE  ResetsFirst(t)
  <2> SUFFICES ASSUME NEW i \in 1 .. Len(t), NEW j \in 1 .. Len(t),
                      t[i].op = "startInLoop", t[j].op = "resetChannel"
               PROVE  j < i
    BY DEF ResetsFirst
  <2>1. j + 1 < i + 1
    BY <1>1, <1>2, <1>10 DEF ResetsFirst
  <2> QED BY <2>1
<1>11. ASSUME ResetsFirst(s), f.op = "startInLoop"
       PROVE  ~Has(t, "resetChannel")
  <2> SUFFICES ASSUME NEW j \in 1 .. Len(t), t[j].op = "resetChannel"
               PROVE  FALSE
    BY DEF Has
  <2>1. j + 1 < 1
    BY <1>1, <1>2, <1>4, <1>11 DEF ResetsFirst
  <2> QED BY <2>1
<1>12. \A r : ToSend(s, r) <=> ToSend(t, r) \/ (f.op = "send" /\ f.r = r)
  <2> SUFFICES ASSUME NEW r
               PROVE  ToSend(s, r) <=> ToSend(t, r) \/ (f.op = "send" /\ f.r = r)
    OBVIOUS
  <2>1. ToSend(s, r) => ToSend(t, r) \/ (f.op = "send" /\ f.r = r)
    BY <1>1, <1>3 DEF ToSend
  <2>2. ToSend(t, r) => ToSend(s, r)
    BY <1>1, <1>2 DEF ToSend
  <2>3. f.op = "send" /\ f.r = r => ToSend(s, r)
    BY <1>1, <1>4 DEF ToSend
  <2> QED BY <2>1, <2>2, <2>3
<1>13. ASSUME SendsOnce(s)
       PROVE  SendsOnce(t)
  <2> SUFFICES ASSUME NEW i \in 1 .. Len(t), NEW j \in 1 .. Len(t),
                      t[i].op = "send", t[j].op = "send", t[i].r = t[j].r
               PROVE  i = j
    BY DEF SendsOnce
  <2>1. i + 1 = j + 1
    BY <1>1, <1>2, <1>13 DEF SendsOnce
  <2> QED BY <2>1
<1>14. SendsOnce(s) /\ f.op = "send" => ~ToSend(t, f.r)
  BY <1>1, <1>2, <1>4 DEF SendsOnce, ToSend
<1> QED BY <1>1, <1>5, <1>6, <1>7, <1>8, <1>9, <1>10, <1>11, <1>12, <1>13, <1>14 DEF Popped

(* The three things that happen to the functors that wait *)
LEMMA WaitingTyped ==
    ASSUME ClientTypes
    PROVE  Waiting \in Seq(Functors)
BY DEF ClientTypes, Waiting

LEMMA WaitingPushed ==
    ASSUME ClientTypes, NEW f \in Functors, q' = Append(q, f), batch' = batch
    PROVE  Pushed(Waiting, f, Waiting') /\ q' \in Seq(Functors)
<1>1. q \in Seq(Functors) /\ batch \in Seq(Functors)
  BY DEF ClientTypes
<1>2. batch \o Append(q, f) = Append(batch \o q, f)
  BY <1>1
<1>3. Waiting' = Append(Waiting, f)
  BY <1>2 DEF Waiting
<1>4. Pushed(Waiting, f, Waiting')
  BY <1>3, WaitingTyped, PushFunctor
<1> QED BY <1>1, <1>4

LEMMA WaitingPopped ==
    ASSUME ClientTypes, batch # << >>, batch' = Tail(batch)
    PROVE  /\ Popped(Waiting, Head(batch), batch' \o q)
           /\ batch' \in Seq(Functors) /\ Head(batch) \in Functors
<1>1. q \in Seq(Functors) /\ batch \in Seq(Functors)
  BY DEF ClientTypes
<1>2. /\ batch \o q # << >> /\ Head(batch \o q) = Head(batch)
      /\ Tail(batch \o q) = Tail(batch) \o q
  BY <1>1
<1>3. Popped(batch \o q, Head(batch), batch' \o q)
  BY <1>1, <1>2, WaitingTyped, PopFunctor DEF Waiting
<1> QED BY <1>1, <1>3 DEF Waiting

LEMMA WaitingSwapped ==
    ASSUME ClientTypes, batch = << >>, batch' = q, q' = << >>
    PROVE  Waiting' = Waiting
<1>1. q \in Seq(Functors)
  BY DEF ClientTypes
<1> QED BY <1>1, ConcatEmptySeq DEF Waiting

-----------------------------------------------------------------------------
(* parseResponse() *)

LEMMA Smallest ==
    ASSUME NEW S, S \subseteq Nat, S # {}
    PROVE  \E x \in S : \A y \in S : x <= y
<1>1. PICK R : R = OpToRel(<, Nat)
  OBVIOUS
<1>2. IsWellFoundedOn(R, Nat)
  BY <1>1, NatLessThanWellFounded
<1>3. \E x \in S : \A y \in S : ~ (<<y, x>> \in R)
  BY <1>2, WFMin
<1>4. R = {ss \in Nat \X Nat : ss[1] < ss[2]}
  BY <1>1 DEF OpToRel
<1>5. \A x, y \in S : ~ (<<y, x>> \in R) => x <= y
  BY <1>4
<1> QED BY <1>3, <1>5

LEMMA MinOfPlaces ==
    ASSUME NEW n \in Nat, NEW S, S \subseteq 1 .. n, S # {}
    PROVE  Min(S) \in S /\ \A y \in S : Min(S) <= y
<1>1. S \subseteq Nat
  OBVIOUS
<1>2. \E x \in S : \A y \in S : x <= y
  BY <1>1, Smallest
<1> QED BY <1>2 DEF Min

LEMMA MaxOfPlaces ==
    ASSUME NEW n \in Nat, NEW S, S \subseteq 1 .. n, S # {}
    PROVE  Max(S) \in S
<1>1. PICK M : M = {n - x : x \in S}
  OBVIOUS
<1>2. M \subseteq Nat /\ M # {}
  <2>1. \A x \in S : n - x \in Nat
    OBVIOUS
  <2> QED BY <1>1, <2>1
<1>3. PICK m \in M : \A y \in M : m <= y
  BY <1>2, Smallest
<1>4. PICK x \in S : m = n - x
  BY <1>1, <1>3
<1>5. \A y \in S : n - x <= n - y
  BY <1>1, <1>3, <1>4
<1>6. \A y \in S : x >= y
  BY <1>5
<1> QED BY <1>6 DEF Max

(* The text t loses d of its first tokens, and is u then. *)
Suffix(t, d, u) ==
    /\ u \in Seq(Tokens) /\ d \in 0 .. Len(t) /\ Len(u) = Len(t) - d
    /\ \A i \in 1 .. Len(u) : u[i] = t[i + d]

LEMMA DropFirst ==
    ASSUME NEW s \in Seq(Tokens), NEW d \in 0 .. Len(s), NEW t, t = SubSeq(s, d + 1, Len(s))
    PROVE  Suffix(s, d, t)
<1>1. Len(s) \in Nat /\ d \in Nat /\ d <= Len(s)
  OBVIOUS
<1>2. Len(t) = Len(s) - d
  BY <1>1
<1>3. t \in Seq(Tokens)
  BY <1>1
<1>4. \A i \in 1 .. Len(t) : t[i] = s[i + d]
  BY <1>1, <1>2
<1> QED BY <1>2, <1>3, <1>4 DEF Suffix

(* What stays in the buffer is the end of the text, and a response that is *)
(* given to the callback is that of the text's first token.                *)
LEMMA ParseDrops ==
    ASSUME NEW text \in Seq(Tokens), NEW parsed, parsed = ParseResponse(text)
    PROVE  \E d \in 0 .. Len(text) :
              /\ parsed.rest = SubSeq(text, d + 1, Len(text))
              /\ parsed.gotAll => d >= 1 /\ text[1].kind = "status"
<1>1. PICK ends : ends = Ends(text)
  OBVIOUS
<1>2. ends \subseteq 1 .. Len(text) /\ Len(text) \in Nat
  BY <1>1 DEF Ends
<1>3. CASE ends = {}
  <2>1. parsed = Parsed(TRUE, FALSE, text)
    BY <1>1, <1>3 DEF ParseResponse
  <2>2. parsed.rest = text /\ parsed.gotAll = FALSE
    BY <2>1 DEF Parsed
  <2>3. text = SubSeq(text, 0 + 1, Len(text)) /\ 0 \in 0 .. Len(text)
    BY <1>2
  <2> QED BY <2>2, <2>3
<1>4. CASE ends # {} /\ ~IsStatusLine(SubSeq(text, 1, Min(ends) - 1))
  <2>1. parsed = Parsed(FALSE, FALSE, text)
    BY <1>1, <1>4 DEF ParseResponse
  <2>2. parsed.rest = text /\ parsed.gotAll = FALSE
    BY <2>1 DEF Parsed
  <2>3. text = SubSeq(text, 0 + 1, Len(text)) /\ 0 \in 0 .. Len(text)
    BY <1>2
  <2> QED BY <2>2, <2>3
<1>5. CASE ends # {} /\ IsStatusLine(SubSeq(text, 1, Min(ends) - 1))
  <2>1. parsed = IF HeadersEnd(text) = {} THEN Parsed(TRUE, FALSE, After(text, Max(ends)))
                                          ELSE Parsed(TRUE, TRUE, << >>)
    BY <1>1, <1>5 DEF ParseResponse
  <2>2. Min(ends) \in 1 .. Len(text) /\ Max(ends) \in 1 .. Len(text)
    BY <1>2, <1>5, MinOfPlaces, MaxOfPlaces
  <2>3. CASE HeadersEnd(text) = {}
    <3>1. PICK d \in 0 .. Len(text) : d = Max(ends)
      BY <1>2, <2>2
    <3>2. parsed = Parsed(TRUE, FALSE, SubSeq(text, d + 1, Len(text)))
      BY <2>1, <2>3, <3>1 DEF After
    <3>3. parsed.rest = SubSeq(text, d + 1, Len(text)) /\ parsed.gotAll = FALSE
      BY <3>2 DEF Parsed
    <3> QED BY <3>3
  <2>4. CASE HeadersEnd(text) # {}
    <3>1. parsed.rest = << >> /\ parsed.gotAll = TRUE
      BY <2>1, <2>4 DEF Parsed
    <3>2. PICK line : line = SubSeq(text, 1, Min(ends) - 1)
      OBVIOUS
    <3>3. Len(line) = 1 /\ line[1].kind = "status"
      BY <1>5, <3>2 DEF IsStatusLine
    <3>4. Len(line) = Min(ends) - 1 /\ \A i \in 1 .. Min(ends) - 1 : line[i] = text[i]
      BY <2>2, <3>2
    <3>5. text[1].kind = "status" /\ Len(text) >= 1
      BY <2>2, <3>3, <3>4
    <3>6. SubSeq(text, Len(text) + 1, Len(text)) = << >>
      BY <1>2
    <3>7. Len(text) \in 0 .. Len(text)
      BY <1>2
    <3> QED BY <3>1, <3>5, <3>6, <3>7
  <2> QED BY <2>3, <2>4
<1> QED BY <1>3, <1>4, <1>5

(* The socket's text was t; what was read of it was parsed, and m is left. *)
ReadOf(t, text, parsed, m) ==
    /\ m \in Seq(Tokens) /\ parsed.rest \in Seq(Tokens)
    /\ parsed.gotAll => text[1].of \in Nat
    /\ \E d \in Nat :
          /\ Suffix(t, d, parsed.rest \o m)
          /\ parsed.gotAll => d >= 1 /\ text[1] = t[1] /\ text[1].kind = "status"

LEMMA ReadDrops ==
    ASSUME NEW b \in Seq(Tokens), NEW n \in Seq(Tokens), NEW k \in 1 .. Len(n),
           NEW text, text = b \o SubSeq(n, 1, k),
           NEW parsed, parsed = ParseResponse(text),
           NEW m, m = After(n, k)
    PROVE  ReadOf(b \o n, text, parsed, m)
<1>1. Len(n) \in Nat /\ Len(b) \in Nat /\ k \in Nat /\ k <= Len(n)
  OBVIOUS
<1>2. PICK a : a = SubSeq(n, 1, k)
  OBVIOUS
<1>3. a \in Seq(Tokens) /\ Len(a) = k /\ \A i \in 1 .. k : a[i] = n[i]
  BY <1>1, <1>2
<1>4. /\ text \in Seq(Tokens) /\ Len(text) = Len(b) + k
      /\ \A i \in 1 .. Len(text) : text[i] = IF i <= Len(b) THEN b[i] ELSE a[i - Len(b)]
  BY <1>2, <1>3
<1>5. /\ m \in Seq(Tokens) /\ Len(m) = Len(n) - k
      /\ \A i \in 1 .. Len(m) : m[i] = n[i + k]
  <2>1. k \in 0 .. Len(n) /\ m = SubSeq(n, k + 1, Len(n))
    BY <1>1 DEF After
  <2>2. Suffix(n, k, m)
    BY <2>1, DropFirst
  <2> QED BY <2>2 DEF Suffix
<1>6. PICK d \in 0 .. Len(text) :
          /\ parsed.rest = SubSeq(text, d + 1, Len(text))
          /\ parsed.gotAll => d >= 1 /\ text[1].kind = "status"
  BY <1>4, ParseDrops
<1>7. PICK rest : rest = parsed.rest
  OBVIOUS
<1>8. /\ rest \in Seq(Tokens) /\ Len(rest) = Len(text) - d
      /\ \A i \in 1 .. Len(rest) : rest[i] = text[i + d]
  <2>1. rest = SubSeq(text, d + 1, Len(text)) /\ text \in Seq(Tokens)
    BY <1>4, <1>6, <1>7
  <2>2. d \in 0 .. Len(text)
    BY <1>6
  <2>3. Suffix(text, d, rest)
    BY <2>1, <2>2, DropFirst
  <2> QED BY <2>3 DEF Suffix
<1>9. PICK t : t = b \o n
  OBVIOUS
<1>10. /\ t \in Seq(Tokens) /\ Len(t) = Len(b) + Len(n)
       /\ \A i \in 1 .. Len(t) : t[i] = IF i <= Len(b) THEN b[i] ELSE n[i - Len(b)]
  BY <1>9
<1>11. \A i \in 1 .. Len(text) : i \in 1 .. Len(t) /\ text[i] = t[i]
  <2> SUFFICES ASSUME NEW i \in 1 .. Len(text)
               PROVE  i \in 1 .. Len(t) /\ text[i] = t[i]
    OBVIOUS
  <2>1. i \in 1 .. Len(t)
    BY <1>1, <1>4, <1>10
  <2>2. CASE i <= Len(b)
    BY <1>4, <1>10, <2>1, <2>2
  <2>3. CASE i > Len(b)
    <3>1. i - Len(b) \in 1 .. k
      BY <1>1, <1>4, <2>3
    <3> QED BY <1>3, <1>4, <1>10, <2>1, <2>3, <3>1
  <2> QED BY <1>1, <2>1, <2>2, <2>3
<1>12. PICK u : u = rest \o m
  OBVIOUS
<1>13. /\ u \in Seq(Tokens) /\ Len(u) = Len(rest) + Len(m)
       /\ \A i \in 1 .. Len(u) : u[i] = IF i <= Len(rest) THEN rest[i] ELSE m[i - Len(rest)]
  <2>1. rest \in Seq(Tokens) /\ m \in Seq(Tokens)
    BY <1>5, <1>8
  <2> QED BY <1>12, <2>1
<1>14. Len(u) = Len(t) - d /\ d \in 0 .. Len(t) /\ d \in Nat
  BY <1>1, <1>4, <1>5, <1>8, <1>10, <1>13
<1>15. ASSUME NEW i \in 1 .. Len(u)
       PROVE  u[i] = t[i + d]
  <2>1. CASE i <= Len(rest)
    <3>1. u[i] = rest[i] /\ i \in 1 .. Len(rest)
      BY <1>8, <1>13, <2>1
    <3>2. rest[i] = text[i + d] /\ i + d \in 1 .. Len(text)
      BY <1>1, <1>4, <1>8, <3>1
    <3> QED BY <1>11, <3>1, <3>2
  <2>2. CASE ~(i <= Len(rest))
    <3>1. i - Len(rest) \in 1 .. Len(m)
      BY <1>5, <1>8, <1>13, <2>2
    <3>2. u[i] = n[(i - Len(rest)) + k]
      BY <1>5, <1>13, <2>2, <3>1
    <3>3. i + d \in 1 .. Len(t) /\ ~(i + d <= Len(b)) /\ (i + d) - Len(b) = (i - Len(rest)) + k
      BY <1>1, <1>4, <1>8, <1>10, <1>13, <1>14, <2>2
    <3> QED BY <1>10, <3>2, <3>3
  <2> QED BY <2>1, <2>2
<1>16. Suffix(t, d, u)
  BY <1>13, <1>14, <1>15 DEF Suffix
<1>17. parsed.gotAll => 1 \in 1 .. Len(text) /\ text[1] = t[1] /\ text[1] \in Tokens
  BY <1>1, <1>4, <1>6, <1>11
<1>18. parsed.gotAll => text[1].of \in Nat
  BY <1>17 DEF Tokens
<1> QED BY <1>5, <1>6, <1>7, <1>8, <1>9, <1>12, <1>14, <1>16, <1>17, <1>18 DEF ReadOf

-----------------------------------------------------------------------------
(* Types *)

LEMMA FunctorsTyped ==
    /\ Functor("startInLoop", None) \in Functors /\ Functor("stopInLoop", None) \in Functors
    /\ Functor("resetChannel", None) \in Functors
    /\ \A s \in Places : Functor("connectDestroyed", s) \in Functors
    /\ \A s \in Places : \A r \in Nat : SendFunctor(s, r) \in Functors
BY DEF Functors, Functor, SendFunctor, Places

LEMMA LifeTyped ==
    ASSUME ClientTypes, NEW s, NEW l \in Lives
    PROVE  [life EXCEPT ![s] = l] \in [Socks -> Lives]
BY DEF ClientTypes

LEMMA ShutdownTyped ==
    ASSUME ClientTypes, NEW s, Shutdown(s)
    PROVE  life' \in [Socks -> Lives]
BY DEF ClientTypes, Shutdown, Lives

(* What startInLoop() may change, whoever runs it *)
LEMMA StartTyped ==
    ASSUME ClientTypes, connect' \in BOOLEAN, NEW then \in {"functors", "handled"},
           StartInLoop(then)
    PROVE  /\ state' \in {"kDisconnected", "kConnecting", "kConnected"}
           /\ channel' \in Places /\ registered' \subseteq Socks
           /\ life' \in [Socks -> Lives] /\ attempts' \in Nat
           /\ phase' \in {then, "crashed"}
<1>1. CASE ~connect'
  BY <1>1 DEF StartInLoop, ClientTypes
<1>2. CASE connect'
  <2>1. DoConnect(then) /\ attempts' \in Socks
    BY <1>2, BoundsAssumption DEF StartInLoop, DoConnect, ClientTypes, Socks
  <2>2. attempts' \in Nat /\ attempts' \in Places
    BY <2>1 DEF Socks, Places
  <2>3. CASE Connecting(attempts', then)
    BY <2>1, <2>2, <2>3, LifeTyped DEF Connecting, ClientTypes, Lives
  <2>4. CASE Retry(attempts', then) /\ UNCHANGED <<channel, registered>>
    BY <2>1, <2>2, <2>4, LifeTyped DEF Retry, ClientTypes, Lives
  <2>5. CASE /\ life' = [life EXCEPT ![attempts'] = "closed"]
             /\ state' = IF phase = "restart" THEN "kDisconnected" ELSE state
             /\ phase' = then
             /\ UNCHANGED <<channel, registered>>
    BY <2>1, <2>2, <2>5, LifeTyped DEF ClientTypes, Lives
  <2> QED BY <2>1, <2>3, <2>4, <2>5 DEF DoConnect
<1> QED BY <1>1, <1>2

LEMMA CallerTypes ==
    ASSUME ClientTypes, CallerNext \/ (MayCall /\ Connect)
    PROVE  ClientTypes'
<1> USE DEF loopSide
<1>0. MayCall => calls' \in Nat
  BY DEF MayCall, ClientTypes
<1>1. CASE Disconnect
  <2>1. life' \in [Socks -> Lives]
    BY <1>1, ShutdownTyped DEF Disconnect
  <2>2. calls' \in Nat
    BY <1>0, <1>1 DEF Disconnect
  <2>3. wanted' = FALSE /\ UNCHANGED <<loopSide, connect, q, call, stopped>>
    BY <1>1 DEF Disconnect
  <2> QED BY <2>1, <2>2, <2>3 DEF ClientTypes
<1>2. CASE Stop
  <2>1. calls' \in Nat
    BY <1>0, <1>2 DEF Stop
  <2>2. /\ wanted' = FALSE /\ call' = "stop"
        /\ UNCHANGED <<loopSide, life, connect, q, stopped>>
    BY <1>2 DEF Stop
  <2> QED BY <2>1, <2>2 DEF ClientTypes
<1>3. CASE ConnectorStop
  BY <1>3 DEF ConnectorStop, ClientTypes
<1>4. CASE QueueStop
  BY <1>4, FunctorsTyped DEF QueueStop, ClientTypes
<1>5. CASE MayCall /\ Connect
  <2>1. calls' \in Nat
    BY <1>0, <1>5
  <2>2. q' \in Seq(Functors)
    BY <1>5, FunctorsTyped DEF Connect, ConnectorStart, ClientTypes
  <2>3. /\ wanted' = TRUE /\ connect' = TRUE /\ stopped' = FALSE
        /\ UNCHANGED <<loopSide, life, call>>
    BY <1>5 DEF Connect, ConnectorStart
  <2> QED BY <2>1, <2>2, <2>3 DEF ClientTypes
<1> QED BY <1>1, <1>2, <1>3, <1>4, <1>5 DEF CallerNext

LEMMA LoopTypes ==
    ASSUME ClientTypes, Attempt \/ LoopNext
    PROVE  ClientTypes'
<1> USE DEF callerSide
<1>1. CASE ConnectFails
  <2>1. life' \in [Socks -> Lives]
    BY <1>1, LifeTyped DEF ConnectFails, Retry, Lives
  <2>2. registered' \subseteq Socks /\ q' \in Seq(Functors)
    BY <1>1, FunctorsTyped DEF ConnectFails, RemoveAndResetChannel, ClientTypes
  <2>3. /\ state' = "kDisconnected" /\ phase' \in {"crashed", "handled"}
        /\ UNCHANGED <<connect, channel, connection, attempts, batch, current, callerSide>>
        /\ phase = "poll"
    BY <1>1 DEF ConnectFails, Retry
  <2> QED BY <2>1, <2>2, <2>3 DEF ClientTypes
<1>2. CASE HandleWrite
  <2>1. life' \in [Socks -> Lives]
    BY <1>2, LifeTyped DEF HandleWrite, NewConnection, Lives
  <2>2. registered' \subseteq Socks /\ q' \in Seq(Functors)
    BY <1>2, FunctorsTyped DEF HandleWrite, RemoveAndResetChannel, ClientTypes
  <2>3. /\ state' = "kConnected" /\ phase' \in {"up", "handled"} /\ phase = "poll"
        /\ connection' \in {channel, connection} /\ current' \in {channel, current}
        /\ UNCHANGED <<connect, channel, attempts, batch, callerSide>>
    BY <1>2 DEF HandleWrite, NewConnection
  <2> QED BY <2>1, <2>2, <2>3 DEF ClientTypes
<1>3. CASE Restart
  <2>1. connect' = TRUE /\ StartInLoop("handled") /\ phase = "restart"
        /\ UNCHANGED <<connection, q, batch, current, callerSide>>
    BY <1>3 DEF Restart
  <2> QED BY <2>1, StartTyped DEF ClientTypes
<1>4. CASE BeginFunctors
  BY <1>4 DEF BeginFunctors, ClientTypes
<1>5. CASE EndFunctors
  BY <1>5 DEF EndFunctors, ClientTypes
<1>6. CASE RunStart
  <2>1. /\ StartInLoop("functors") /\ phase = "functors" /\ batch' \in Seq(Functors)
        /\ UNCHANGED <<connect, connection, current, callerSide, q>>
    BY <1>6 DEF RunStart, Run, ClientTypes
  <2>2. connect' \in BOOLEAN
    BY <2>1 DEF ClientTypes
  <2> QED BY <2>1, <2>2, StartTyped DEF ClientTypes
<1>7. CASE StopInLoop
  <2>1. life' \in [Socks -> Lives]
    BY <1>7, LifeTyped DEF StopInLoop, Run, Retry, Lives, ClientTypes
  <2>2. registered' \subseteq Socks /\ q' \in Seq(Functors)
    <3>1. CASE state = "kConnecting"
      BY <1>7, <3>1, FunctorsTyped DEF StopInLoop, RemoveAndResetChannel, ClientTypes
    <3>2. CASE state # "kConnecting"
      BY <1>7, <3>2 DEF StopInLoop, ClientTypes
    <3> QED BY <3>1, <3>2
  <2>3. /\ phase = "functors" /\ phase' \in {"functors", "crashed"}
        /\ state' \in {state, "kDisconnected"} /\ batch' \in Seq(Functors)
        /\ UNCHANGED <<connect, connection, current, callerSide, channel, attempts>>
    BY <1>7 DEF StopInLoop, Run, Retry, ClientTypes
  <2> QED BY <2>1, <2>2, <2>3 DEF ClientTypes
<1>8. CASE ResetChannel
  BY <1>8 DEF ResetChannel, Run, ClientTypes, Places
<1>9. CASE ConnectDestroyed
  <2>1. life' \in [Socks -> Lives]
    BY <1>9, LifeTyped DEF ConnectDestroyed, Lives
  <2> QED BY <1>9, <2>1 DEF ConnectDestroyed, Run, ClientTypes
<1> QED BY <1>1, <1>2, <1>3, <1>4, <1>5, <1>6, <1>7, <1>8, <1>9 DEF Attempt, LoopNext

LEMMA EndTypes ==
    ASSUME ClientTypes, UpDone \/ RemoveConnection \/ \E s \in Socks : HandleClose(s)
    PROVE  ClientTypes'
<1> USE DEF callerSide
<1>1. CASE UpDone
  BY <1>1 DEF UpDone, ClientTypes, Places
<1>2. CASE RemoveConnection
  <2>1. q' \in Seq(Functors)
    BY <1>2, FunctorsTyped DEF RemoveConnection, ClientTypes
  <2>2. /\ connection' = None /\ current' = None /\ phase' \in {"restart", "handled"}
        /\ phase = "down"
        /\ UNCHANGED <<connect, state, channel, registered, life, attempts, batch, callerSide>>
    BY <1>2 DEF RemoveConnection
  <2> QED BY <2>1, <2>2 DEF ClientTypes, Places
<1>3. ASSUME NEW s \in Socks, HandleClose(s)
      PROVE  ClientTypes'
  <2>1. life' \in [Socks -> Lives]
    BY <1>3, LifeTyped DEF HandleClose, Lives
  <2>2. /\ current' \in Places /\ phase' = "down" /\ phase = "poll"
        /\ UNCHANGED <<connect, state, channel, registered, connection, attempts, q, batch,
                       callerSide>>
    BY <1>3 DEF HandleClose, Places
  <2> QED BY <2>1, <2>2 DEF ClientTypes
<1> QED BY <1>1, <1>2, <1>3

LEMMA ResponseTyped ==
    ASSUME NEW a \in Nat
    PROVE  Response(a) \in Seq(Tokens) /\ Len(Response(a)) = 6
<1>1. PICK st, c, h, b : st = Token("status", a) /\ c = Crlf /\ h = Token("header", a)
                         /\ b = Token("body", a)
  OBVIOUS
<1>2. st \in Tokens /\ c \in Tokens /\ h \in Tokens /\ b \in Tokens
  BY <1>1 DEF Token, Crlf, Tokens, None
<1>3. Response(a) = <<st, c, h, c, c, b>>
  BY <1>1 DEF Response
<1> QED BY <1>2, <1>3

LEMMA NetTyped ==
    ASSUME NEW base \in [Socks -> Seq(Tokens)], NEW s, NEW a \in Nat
    PROVE  [base EXCEPT ![s] = @ \o Response(a)] \in [Socks -> Seq(Tokens)]
<1>1. Response(a) \in Seq(Tokens)
  BY ResponseTyped
<1>2. s \in Socks => base[s] \o Response(a) \in Seq(Tokens)
  BY <1>1
<1> QED BY <1>2

LEMMA SendTyped ==
    ASSUME HttpTypes, NEW r \in Nat, NEW base \in [Socks -> Seq(Tokens)], SendRequest(r, base)
    PROVE  sent' \in Seq(Nat) /\ net' \in [Socks -> Seq(Tokens)]
<1>1. sent \in Seq(Nat)
  BY DEF HttpTypes
<1>2. CASE Usable(connection)
  <2>1. sent' = Append(sent, r) /\ net' = [base EXCEPT ![connection] = @ \o Response(r)]
    BY <1>2 DEF SendRequest, Write
  <2>2. net' \in [Socks -> Seq(Tokens)]
    BY <2>1, NetTyped
  <2> QED BY <1>1, <2>1, <2>2
<1>3. CASE ~Usable(connection)
  BY <1>1, <1>3 DEF SendRequest
<1> QED BY <1>2, <1>3

LEMMA SendNextTyped ==
    ASSUME HttpTypes, SendNext
    PROVE  /\ sent' \in Seq(Nat) /\ net' \in [Socks -> Seq(Tokens)]
           /\ requests' \in Seq(Nat)
<1>1. CASE requests = << >>
  BY <1>1 DEF SendNext, HttpTypes
<1>2. CASE requests # << >>
  <2>1. requests \in Seq(Nat) /\ net \in [Socks -> Seq(Tokens)]
    BY DEF HttpTypes
  <2>2. Head(requests) \in Nat /\ Tail(requests) \in Seq(Nat)
    BY <1>2, <2>1
  <2>3. SendRequest(Head(requests), net) /\ requests' = Tail(requests)
    BY <1>2 DEF SendNext
  <2> QED BY <2>1, <2>2, <2>3, SendTyped
<1> QED BY <1>1, <1>2

LEMMA MessageTyped ==
    ASSUME Types, NEW s \in Socks, NEW k \in 1 .. Len(net[s]),
           HandleResponse(s, buf[s] \o SubSeq(net[s], 1, k), [net EXCEPT ![s] = After(@, k)])
    PROVE  /\ life' \in [Socks -> Lives] /\ buf' \in [Socks -> Seq(Tokens)]
           /\ net' \in [Socks -> Seq(Tokens)] /\ sent' \in Seq(Nat) /\ made' \in Nat
           /\ delivered' \in [Socks -> Seq(Nat)]
<1>0. /\ buf \in [Socks -> Seq(Tokens)] /\ net \in [Socks -> Seq(Tokens)]
      /\ delivered \in [Socks -> Seq(Nat)] /\ sent \in Seq(Nat) /\ made \in Nat
  BY DEF Types, HttpTypes
<1>1. PICK text : text = buf[s] \o SubSeq(net[s], 1, k)
  OBVIOUS
<1>2. PICK unread : unread = [net EXCEPT ![s] = After(@, k)]
  OBVIOUS
<1>3. PICK parsed : parsed = ParseResponse(text)
  OBVIOUS
<1>4. /\ buf' = [buf EXCEPT ![s] = parsed.rest]
      /\ IF parsed.ok THEN UNCHANGED life ELSE Shutdown(s)
      /\ delivered' = IF parsed.gotAll THEN [delivered EXCEPT ![s] = Append(@, text[1].of)]
                                       ELSE delivered
      /\ \/ net' = unread /\ UNCHANGED <<made, sent>>
         \/ made' = made + 1 /\ SendRequest(made', unread)
  BY <1>1, <1>2, <1>3 DEF HandleResponse
<1>5. buf[s] \in Seq(Tokens) /\ net[s] \in Seq(Tokens) /\ delivered[s] \in Seq(Nat)
  BY <1>0
<1>6. /\ After(net[s], k) \in Seq(Tokens) /\ parsed.rest \in Seq(Tokens)
      /\ parsed.gotAll => text[1].of \in Nat
  <2>1. ReadOf(buf[s] \o net[s], text, parsed, After(net[s], k))
    BY <1>1, <1>3, <1>5, ReadDrops
  <2> QED BY <2>1 DEF ReadOf
<1>7. unread \in [Socks -> Seq(Tokens)] /\ buf' \in [Socks -> Seq(Tokens)]
  BY <1>0, <1>2, <1>4, <1>6
<1>8. parsed.gotAll => Append(delivered[s], text[1].of) \in Seq(Nat)
  BY <1>5, <1>6
<1>9. delivered' \in [Socks -> Seq(Nat)]
  BY <1>0, <1>4, <1>8
<1>10. life' \in [Socks -> Lives]
  BY <1>4, ShutdownTyped DEF Types, ClientTypes
<1>11. made' \in Nat
  BY <1>0, <1>4
<1>12. net' \in [Socks -> Seq(Tokens)] /\ sent' \in Seq(Nat)
  BY <1>0, <1>4, <1>7, <1>11, SendTyped DEF Types
<1> QED BY <1>7, <1>9, <1>10, <1>11, <1>12

(* Each of the actions of an HttpClient *)
LEMMA HttpClientTypes ==
    ASSUME Types, HttpClientNext
    PROVE  Types'
<1> USE DEF callerSide, loopSide, vars, httpVars
<1>0. ClientTypes /\ HttpTypes
  BY DEF Types
<1>1. CASE Get
  <2>1. made' \in Nat /\ lock' \in Nat /\ calls' \in Nat
    BY <1>0, <1>1 DEF Get, HttpTypes, ClientTypes
  <2>2. UNCHANGED <<connected, requests, net, buf, clearing, sent, queueBorn, delivered, crossed>>
    BY <1>1 DEF Get
  <2>3. CASE MustConnect
    <3>1. Connect /\ isConnecting' = TRUE
      BY <1>1, <2>3 DEF Get
    <3>2. HttpTypes'
      BY <1>0, <2>1, <2>2, <3>1 DEF HttpTypes
    <3>3. q' \in Seq(Functors)
      BY <1>0, <3>1, FunctorsTyped DEF Connect, ConnectorStart, ClientTypes
    <3>4. /\ wanted' = TRUE /\ connect' = TRUE /\ stopped' = FALSE
          /\ UNCHANGED <<loopSide, life, call>>
      BY <3>1 DEF Connect, ConnectorStart
    <3>5. ClientTypes'
      BY <1>0, <2>1, <3>3, <3>4 DEF ClientTypes
    <3> QED BY <3>2, <3>5 DEF Types
  <2>4. CASE ~MustConnect
    <3>1. UNCHANGED <<loopSide, life, wanted, connect, q, call, stopped, isConnecting>>
      BY <1>1, <2>4 DEF Get
    <3>2. HttpTypes'
      BY <1>0, <2>1, <2>2, <3>1 DEF HttpTypes
    <3>3. ClientTypes'
      BY <1>0, <2>1, <3>1 DEF ClientTypes
    <3> QED BY <3>2, <3>3 DEF Types
  <2> QED BY <2>3, <2>4
<1>2. CASE GetPut
  <2>1. /\ UNCHANGED <<loopSide, life, wanted, connect, calls, call, stopped>>
        /\ UNCHANGED <<connected, isConnecting, made, net, buf, clearing, sent, delivered, crossed>>
        /\ lock' = 0
    BY <1>2 DEF GetPut
  <2>2. requests' \in Seq(Nat) /\ queueBorn' \subseteq Nat
    BY <1>0, <1>2 DEF GetPut, HttpTypes
  <2>3. q' \in Seq(Functors)
    <3>1. connection \in Places /\ lock \in Nat /\ q \in Seq(Functors)
      BY <1>0 DEF ClientTypes, HttpTypes
    <3>2. SendFunctor(connection, lock) \in Functors
      BY <3>1, FunctorsTyped
    <3> QED BY <1>2, <3>1, <3>2 DEF GetPut
  <2>4. HttpTypes'
    BY <1>0, <2>1, <2>2 DEF HttpTypes
  <2>5. ClientTypes'
    BY <1>0, <2>1, <2>3 DEF ClientTypes
  <2> QED BY <2>4, <2>5 DEF Types
<1>3. CASE RunSend
  <2>1. /\ phase = "functors" /\ batch # << >> /\ batch' = Tail(batch) /\ Head(batch).op = "send"
        /\ UNCHANGED <<connect, connection, current, callerSide>>
        /\ UNCHANGED <<state, channel, registered, life, attempts, q, phase>>
        /\ UNCHANGED <<connected, isConnecting, requests, made, lock, buf, clearing, queueBorn,
                       delivered, crossed>>
    BY <1>3 DEF RunSend, Run
  <2>2. Head(batch) \in Functors /\ batch' \in Seq(Functors)
    BY <1>0, <2>1 DEF ClientTypes
  <2>3. Head(batch).r \in Nat
    BY <2>1, <2>2 DEF Functors
  <2>4. sent \in Seq(Nat) /\ net \in [Socks -> Seq(Tokens)]
    BY <1>0 DEF HttpTypes
  <2>5. sent' \in Seq(Nat) /\ net' \in [Socks -> Seq(Tokens)]
    <3>1. CASE UNCHANGED <<sent, net>>
      BY <2>4, <3>1
    <3>2. ASSUME NEW answer \in {Head(batch).r, None},
                 Write(Head(batch).s, Head(batch).r, answer, net)
          PROVE  sent' \in Seq(Nat) /\ net' \in [Socks -> Seq(Tokens)]
      <4>1. answer \in Nat
        BY <2>3 DEF None
      <4>2. net' \in [Socks -> Seq(Tokens)]
        BY <2>4, <3>2, <4>1, NetTyped DEF Write
      <4> QED BY <2>3, <2>4, <3>2, <4>2 DEF Write
    <3> QED BY <1>3, <3>1, <3>2 DEF RunSend
  <2>6. ClientTypes'
    BY <1>0, <2>1, <2>2 DEF ClientTypes
  <2>7. HttpTypes'
    BY <1>0, <2>1, <2>5 DEF HttpTypes
  <2> QED BY <2>6, <2>7 DEF Types
<1>4. CASE OnUp
  <2>1. /\ UpDone /\ connected' = TRUE /\ SendNext
        /\ UNCHANGED <<isConnecting, made, lock, buf, clearing, queueBorn, delivered, crossed>>
    BY <1>4 DEF OnUp, SendFirst
  <2>2. HttpTypes'
    BY <1>0, <2>1, SendNextTyped DEF HttpTypes
  <2> QED BY <1>0, <2>1, <2>2, EndTypes DEF Types
<1>5. CASE OnUpCrossed
  <2>1. /\ UpDone /\ connected' = FALSE /\ isConnecting' = FALSE /\ crossed' = TRUE
        /\ UNCHANGED <<requests, made, lock, net, buf, clearing, sent, queueBorn, delivered>>
    BY <1>5 DEF OnUpCrossed
  <2>2. HttpTypes'
    BY <1>0, <2>1 DEF HttpTypes
  <2> QED BY <1>0, <2>1, <2>2, EndTypes DEF Types
<1>6. CASE OnDown
  <2>1. /\ clearing' \subseteq clearing /\ connected' \in BOOLEAN /\ isConnecting' \in BOOLEAN
        /\ UNCHANGED <<vars, requests, made, lock, net, buf, sent, queueBorn, delivered, crossed>>
    BY <1>6, Zenon DEF OnDown
  <2>2. HttpTypes'
    BY <1>0, <2>1 DEF HttpTypes
  <2>3. ClientTypes'
    BY <1>0, <2>1 DEF ClientTypes
  <2> QED BY <2>2, <2>3 DEF Types
<1>7. CASE CloseDone
  <2>1. RemoveConnection /\ UNCHANGED httpVars
    BY <1>7 DEF CloseDone
  <2>2. HttpTypes'
    BY <1>0, <2>1 DEF HttpTypes
  <2> QED BY <1>0, <2>1, <2>2, EndTypes DEF Types
<1>8. CASE MessageDone
  <2>1. /\ SendNext /\ phase' = "handled" /\ phase = "message"
        /\ UNCHANGED <<connect, state, channel, registered, connection, life, attempts, q, batch,
                       current, callerSide>>
        /\ UNCHANGED <<connected, isConnecting, made, lock, buf, clearing, queueBorn, delivered,
                       crossed>>
    BY <1>8 DEF MessageDone
  <2>2. HttpTypes'
    BY <1>0, <2>1, SendNextTyped DEF HttpTypes
  <2>3. ClientTypes'
    BY <1>0, <2>1 DEF ClientTypes
  <2> QED BY <2>2, <2>3 DEF Types
<1>9. ASSUME NEW s \in Socks, HttpClose(s)
      PROVE  Types'
  <2>1. /\ HandleClose(s) /\ clearing' = {"connected", "isConnecting"}
        /\ UNCHANGED <<connected, isConnecting, requests, made, lock, net, buf, sent, queueBorn,
                       delivered, crossed>>
    BY <1>9 DEF HttpClose
  <2>2. HttpTypes'
    BY <1>0, <2>1 DEF HttpTypes
  <2> QED BY <1>0, <2>1, <2>2, EndTypes DEF Types
<1>10. ASSUME NEW s \in Socks, OnMessage(s)
       PROVE  Types'
  <2>1. PICK k \in 1 .. Len(net[s]) :
            HandleResponse(s, buf[s] \o SubSeq(net[s], 1, k), [net EXCEPT ![s] = After(@, k)])
    BY <1>10 DEF OnMessage
  <2>2. /\ phase = "poll" /\ phase' = "message"
        /\ UNCHANGED <<connect, state, channel, registered, connection, attempts, q, batch,
                       current, callerSide>>
        /\ UNCHANGED <<connected, isConnecting, requests, lock, clearing, queueBorn, crossed>>
    BY <1>10 DEF OnMessage
  <2>3. /\ life' \in [Socks -> Lives] /\ buf' \in [Socks -> Seq(Tokens)]
        /\ net' \in [Socks -> Seq(Tokens)] /\ sent' \in Seq(Nat) /\ made' \in Nat
        /\ delivered' \in [Socks -> Seq(Nat)]
    BY <2>1, MessageTyped
  <2>4. HttpTypes'
    BY <1>0, <2>2, <2>3 DEF HttpTypes
  <2>5. ClientTypes'
    BY <1>0, <2>2, <2>3 DEF ClientTypes
  <2> QED BY <2>4, <2>5 DEF Types
<1> QED BY <1>1, <1>2, <1>3, <1>4, <1>5, <1>6, <1>7, <1>8, <1>9, <1>10 DEF HttpClientNext

LEMMA TypesStep ==
    ASSUME Types, HttpNext
    PROVE  Types'
<1>0. ClientTypes /\ HttpTypes
  BY DEF Types
<1>1. UNCHANGED httpVars => HttpTypes'
  BY <1>0 DEF HttpTypes, httpVars
<1>2. CASE TcpClientNext
  BY <1>0, <1>1, <1>2, CallerTypes, LoopTypes DEF TcpClientNext, Types
<1>3. CASE PlainNext
  BY <1>0, <1>1, <1>3, CallerTypes, EndTypes DEF PlainNext, PlainConnect, Types
<1> QED BY <1>2, <1>3, HttpClientTypes DEF HttpNext

-----------------------------------------------------------------------------
(* What the actions do to the functors that wait *)

LEMMA FailPushes ==
    ASSUME ClientTypes, ConnectFails \/ HandleWrite
    PROVE  Pushed(Waiting, Functor("resetChannel", None), Waiting')
<1>1. q' = Append(q, Functor("resetChannel", None)) /\ batch' = batch
  BY DEF ConnectFails, HandleWrite, RemoveAndResetChannel
<1> QED BY <1>1, WaitingPushed, FunctorsTyped

LEMMA QueueStopPushes ==
    ASSUME ClientTypes, QueueStop
    PROVE  Pushed(Waiting, Functor("stopInLoop", None), Waiting')
<1>1. q' = Append(q, Functor("stopInLoop", None)) /\ batch' = batch
  BY DEF QueueStop, loopSide
<1> QED BY <1>1, WaitingPushed, FunctorsTyped

LEMMA ConnectPushes ==
    ASSUME ClientTypes, Connect
    PROVE  Pushed(Waiting, Functor("startInLoop", None), Waiting')
<1>1. q' = Append(q, Functor("startInLoop", None)) /\ batch' = batch
  BY DEF Connect, ConnectorStart, loopSide
<1> QED BY <1>1, WaitingPushed, FunctorsTyped

LEMMA RemovePushes ==
    ASSUME ClientTypes, RemoveConnection
    PROVE  Pushed(Waiting, Functor("connectDestroyed", current), Waiting')
<1>1. q' = Append(q, Functor("connectDestroyed", current)) /\ batch' = batch
  BY DEF RemoveConnection
<1>2. Functor("connectDestroyed", current) \in Functors
  BY FunctorsTyped DEF ClientTypes
<1> QED BY <1>1, <1>2, WaitingPushed

LEMMA GetPutPushes ==
    ASSUME Types, GetPut
    PROVE  IF connected /\ Usable(connection)
             THEN Pushed(Waiting, SendFunctor(connection, lock), Waiting')
             ELSE Waiting' = Waiting
<1>0. ClientTypes /\ connection \in Places /\ lock \in Nat /\ batch' = batch
  BY DEF Types, ClientTypes, HttpTypes, GetPut, loopSide
<1>1. SendFunctor(connection, lock) \in Functors
  BY <1>0, FunctorsTyped
<1>2. CASE connected /\ Usable(connection)
  <2>1. q' = Append(q, SendFunctor(connection, lock))
    BY <1>2 DEF GetPut
  <2> QED BY <1>0, <1>1, <1>2, <2>1, WaitingPushed
<1>3. CASE ~(connected /\ Usable(connection))
  <2>1. q' = q
    BY <1>3 DEF GetPut
  <2> QED BY <1>0, <1>3, <2>1 DEF Waiting
<1> QED BY <1>2, <1>3

(* One functor is run that leaves the queue alone. *)
LEMMA RunPops ==
    ASSUME ClientTypes, NEW op, Run(op), q' = q
    PROVE  Popped(Waiting, Head(batch), Waiting') /\ Head(batch).op = op
<1>1. batch # << >> /\ batch' = Tail(batch) /\ Head(batch).op = op
  BY DEF Run
<1> QED BY <1>1, WaitingPopped DEF Waiting

LEMMA StopPops ==
    ASSUME ClientTypes, StopInLoop
    PROVE  /\ Head(batch).op = "stopInLoop"
           /\ Popped(Waiting, Head(batch), batch' \o q)
           /\ IF state = "kConnecting"
                THEN Pushed(batch' \o q, Functor("resetChannel", None), Waiting')
                ELSE Waiting' = batch' \o q
<1>1. batch # << >> /\ batch' = Tail(batch) /\ Head(batch).op = "stopInLoop"
  BY DEF StopInLoop, Run
<1>2. Popped(Waiting, Head(batch), batch' \o q)
  BY <1>1, WaitingPopped
<1>3. CASE state = "kConnecting"
  <2>1. q' = Append(q, Functor("resetChannel", None))
    BY <1>3 DEF StopInLoop, RemoveAndResetChannel
  <2>2. PICK f \in Functors : f = Functor("resetChannel", None)
    BY FunctorsTyped
  <2>3. batch' \in Seq(Functors) /\ q \in Seq(Functors)
    BY <1>1, WaitingPopped DEF ClientTypes
  <2>4. batch' \o Append(q, f) = Append(batch' \o q, f) /\ batch' \o q \in Seq(Functors)
    BY <2>3
  <2>5. Waiting' = Append(batch' \o q, f)
    BY <2>1, <2>2, <2>4 DEF Waiting
  <2>6. Pushed(batch' \o q, f, Waiting')
    BY <2>4, <2>5, PushFunctor
  <2> QED BY <1>1, <1>2, <1>3, <2>2, <2>6
<1>4. CASE state # "kConnecting"
  <2>1. q' = q
    BY <1>4 DEF StopInLoop
  <2> QED BY <1>1, <1>2, <1>4, <2>1 DEF Waiting
<1> QED BY <1>3, <1>4

LEMMA BeginKeeps ==
    ASSUME ClientTypes, BeginFunctors
    PROVE  Waiting' = Waiting
<1>1. batch = << >> /\ batch' = q /\ q' = << >>
  BY DEF BeginFunctors, ClientTypes
<1> QED BY <1>1, WaitingSwapped

LEMMA OthersKeep ==
    ASSUME UNCHANGED <<q, batch>>
    PROVE  Waiting' = Waiting
BY DEF Waiting

-----------------------------------------------------------------------------
(* stop() *)

StopsKept == StopsBehind(Waiting) => StopsBehind(Waiting')
StopStays == Has(Waiting, "stopInLoop") => Has(Waiting', "stopInLoop")

(* Most steps of the loop *)
LEMMA StopKept ==
    ASSUME StopInv, UNCHANGED callerSide, phase' # "restart",
           state' = "kConnecting" => state = "kConnecting", StopsKept, StopStays
    PROVE  StopInv'
BY DEF StopInv, callerSide, StopsKept, StopStays

LEMMA SameKept ==
    ASSUME UNCHANGED <<q, batch>>
    PROVE  StopsKept /\ StopStays
BY OthersKeep DEF StopsKept, StopStays

LEMMA PushedKept ==
    ASSUME NEW f, Pushed(Waiting, f, Waiting'), f.op # "startInLoop"
    PROVE  StopsKept /\ StopStays
BY DEF Pushed, StopsKept, StopStays

LEMMA PoppedKept ==
    ASSUME NEW f, Popped(Waiting, f, Waiting'), f.op # "stopInLoop"
    PROVE  StopsKept /\ StopStays
BY DEF Popped, StopsKept, StopStays

LEMMA StopOfCaller ==
    ASSUME ClientTypes, StopInv, CallerNext \/ PlainConnect
    PROVE  StopInv'
<1> USE DEF loopSide
<1>1. CASE Disconnect
  <2>1. /\ wanted' = FALSE /\ calls' # 0 /\ call = "none"
        /\ UNCHANGED <<retry, state, phase, call, stopped, q, batch>>
    BY <1>1 DEF Disconnect, MayCall, ClientTypes
  <2> QED BY <2>1, OthersKeep DEF StopInv
<1>2. CASE Stop
  <2>1. /\ wanted' = FALSE /\ calls' # 0
        /\ UNCHANGED <<retry, state, phase, stopped, q, batch>>
    BY <1>2 DEF Stop, MayCall, ClientTypes
  <2> QED BY <2>1, OthersKeep DEF StopInv
<1>3. CASE ConnectorStop
  <2>1. call = "stop" /\ UNCHANGED <<retry, state, phase, stopped, q, batch, wanted, calls>>
    BY <1>3 DEF ConnectorStop
  <2> QED BY <2>1, OthersKeep DEF StopInv
<1>4. CASE QueueStop
  <2>1. call = "queue" /\ UNCHANGED <<retry, state, phase, wanted, calls>> /\ call' = "none"
    BY <1>4 DEF QueueStop
  <2>2. StopsBehind(Waiting') /\ Has(Waiting', "stopInLoop")
    BY <1>4, QueueStopPushes DEF Pushed, Functor
  <2> QED BY <2>1, <2>2 DEF StopInv
<1>5. CASE PlainConnect
  <2>1. call' = "none" /\ stopped' = FALSE /\ UNCHANGED <<retry, phase>>
    BY <1>5 DEF PlainConnect, MayCall, Connect
  <2> QED BY <2>1 DEF StopInv
<1> QED BY <1>1, <1>2, <1>3, <1>4, <1>5 DEF CallerNext

LEMMA StopOfLoop ==
    ASSUME ClientTypes, StopInv, Attempt \/ LoopNext
    PROVE  StopInv'
<1>1. CASE ConnectFails \/ HandleWrite
  <2>1. StopsKept /\ StopStays
    BY <1>1, FailPushes, PushedKept DEF Functor
  <2>2. UNCHANGED callerSide /\ phase' # "restart" /\ state' # "kConnecting"
    BY <1>1 DEF ConnectFails, HandleWrite, Retry, NewConnection
  <2> QED BY <2>1, <2>2, StopKept
<1>2. CASE Restart
  <2>1. UNCHANGED callerSide /\ UNCHANGED <<q, batch>> /\ phase = "restart"
    BY <1>2 DEF Restart
  <2>2. phase' # "restart"
    BY <1>2 DEF Restart, StartInLoop, DoConnect, Connecting, Retry
  <2> QED BY <2>1, <2>2, OthersKeep DEF StopInv, callerSide
<1>3. CASE BeginFunctors
  <2>1. StopsKept /\ StopStays
    BY <1>3, BeginKeeps DEF StopsKept, StopStays
  <2>2. UNCHANGED callerSide /\ phase' # "restart" /\ state' = state
    BY <1>3 DEF BeginFunctors
  <2> QED BY <2>1, <2>2, StopKept
<1>4. CASE EndFunctors
  <2>1. /\ UNCHANGED callerSide /\ UNCHANGED <<q, batch>>
        /\ phase' # "restart" /\ state' = state
    BY <1>4 DEF EndFunctors
  <2> QED BY <2>1, StopKept, SameKept
<1>5. CASE RunStart
  <2>1. Run("startInLoop") /\ q' = q /\ UNCHANGED callerSide /\ phase = "functors"
    BY <1>5 DEF RunStart, Run
  <2>2. phase' # "restart"
    BY <1>5 DEF RunStart, StartInLoop, DoConnect, Connecting, Retry
  <2>3. StopsBehind(Waiting) => StopsBehind(Waiting') /\ Has(Waiting', "stopInLoop")
    BY <2>1, RunPops DEF Popped
  <2> QED BY <2>1, <2>2, <2>3 DEF StopInv, callerSide
<1>6. CASE StopInLoop
  <2>1. UNCHANGED callerSide /\ phase' # "restart" /\ state' # "kConnecting"
    BY <1>6 DEF StopInLoop, Run, Retry
  <2>2. StopsBehind(Waiting) => StopsBehind(batch' \o q)
    BY <1>6, StopPops DEF Popped
  <2>3. StopsBehind(batch' \o q) => StopsBehind(Waiting')
    BY <1>6, StopPops DEF Pushed, Functor
  <2> QED BY <2>1, <2>2, <2>3 DEF StopInv, callerSide
<1>7. CASE ResetChannel
  <2>1. /\ Run("resetChannel") /\ q' = q /\ UNCHANGED callerSide
        /\ phase' # "restart" /\ state' = state
    BY <1>7 DEF ResetChannel, Run
  <2>2. StopsKept /\ StopStays
    BY <2>1, RunPops, PoppedKept
  <2> QED BY <2>1, <2>2, StopKept
<1>8. CASE ConnectDestroyed
  <2>1. /\ Run("connectDestroyed") /\ q' = q /\ UNCHANGED callerSide
        /\ phase' # "restart" /\ state' = state
    BY <1>8 DEF ConnectDestroyed, Run
  <2>2. StopsKept /\ StopStays
    BY <2>1, RunPops, PoppedKept
  <2> QED BY <2>1, <2>2, StopKept
<1> QED BY <1>1, <1>2, <1>3, <1>4, <1>5, <1>6, <1>7, <1>8 DEF Attempt, LoopNext

LEMMA StopOfEnd ==
    ASSUME ClientTypes, StopInv, UpDone \/ RemoveConnection \/ \E s \in Socks : HandleClose(s)
    PROVE  StopInv'
<1>1. CASE UpDone \/ \E s \in Socks : HandleClose(s)
  <2>1. /\ UNCHANGED callerSide /\ UNCHANGED <<q, batch>>
        /\ phase' # "restart" /\ state' = state
    BY <1>1 DEF UpDone, HandleClose
  <2> QED BY <2>1, StopKept, SameKept
<1>2. CASE RemoveConnection
  <2>1. /\ UNCHANGED callerSide /\ state' = state
        /\ phase' = IF MustRestart THEN "restart" ELSE "handled"
    BY <1>2 DEF RemoveConnection
  <2>2. StopsKept /\ StopStays
    BY <1>2, RemovePushes, PushedKept DEF Functor
  <2> QED BY <2>1, <2>2 DEF StopInv, callerSide, MustRestart, StopsKept, StopStays
<1> QED BY <1>1, <1>2

LEMMA StopOfHttp ==
    ASSUME Types, StopInv, HttpClientNext
    PROVE  StopInv'
<1>0. ClientTypes /\ ~retry
  BY DEF Types, HttpClientNext
<1>1. CASE Get
  <2>1. CASE MustConnect
    BY <1>0, <1>1, <2>1 DEF Get, Connect, loopSide, StopInv
  <2>2. CASE ~MustConnect
    <3>1. UNCHANGED <<q, batch, retry, stopped, state, phase>>
      BY <1>1, <2>2 DEF Get, loopSide
    <3> QED BY <1>0, <3>1, OthersKeep DEF StopInv
  <2> QED BY <2>1, <2>2
<1>2. CASE GetPut
  <2>1. /\ UNCHANGED callerSide /\ phase' = phase /\ state' = state
    BY <1>2 DEF GetPut, loopSide, callerSide
  <2>2. StopsKept /\ StopStays
    BY <1>2, GetPutPushes, PushedKept DEF SendFunctor, StopsKept, StopStays
  <2>3. phase # "restart"
    BY <1>0 DEF StopInv
  <2> QED BY <2>1, <2>2, <2>3, StopKept
<1>3. CASE RunSend
  <2>1. /\ Run("send") /\ q' = q /\ UNCHANGED callerSide
        /\ phase' # "restart" /\ state' = state
    BY <1>3 DEF RunSend, Run
  <2>2. StopsKept /\ StopStays
    BY <1>0, <2>1, RunPops, PoppedKept
  <2> QED BY <2>1, <2>2, StopKept
<1>4. CASE OnUp \/ OnUpCrossed \/ CloseDone \/ \E s \in Socks : HttpClose(s)
  BY <1>0, <1>4, StopOfEnd DEF OnUp, OnUpCrossed, CloseDone, HttpClose
<1>5. CASE OnDown \/ MessageDone \/ \E s \in Socks : OnMessage(s)
  <2>1. /\ UNCHANGED callerSide /\ UNCHANGED <<q, batch>>
        /\ phase' # "restart" /\ state' = state
    BY <1>5 DEF OnDown, MessageDone, OnMessage, vars, callerSide
  <2> QED BY <2>1, StopKept, SameKept
<1> QED BY <1>1, <1>2, <1>3, <1>4, <1>5 DEF HttpClientNext

LEMMA StopStep ==
    ASSUME Types, StopInv, HttpNext
    PROVE  StopInv'
<1>0. ClientTypes
  BY DEF Types
<1> QED BY <1>0, StopOfCaller, StopOfLoop, StopOfEnd, StopOfHttp
        DEF HttpNext, TcpClientNext, PlainNext

-----------------------------------------------------------------------------
(* The attempts *)

LEMMA LiveSame ==
    ASSUME life' = life
    PROVE  Live' = Live
BY DEF Live

LEMMA LiveLess ==
    ASSUME ClientTypes, NEW s, NEW l \in Lives \ {"up", "shut"}, life' = [life EXCEPT ![s] = l]
    PROVE  Live' = Live \ {s}
BY DEF Live, ClientTypes

LEMMA LiveMore ==
    ASSUME ClientTypes, NEW s \in Socks, life' = [life EXCEPT ![s] = "up"]
    PROVE  Live' = Live \cup {s}
BY DEF Live, ClientTypes

LEMMA LiveShut ==
    ASSUME ClientTypes, NEW s, Shutdown(s)
    PROVE  Live' = Live
<1>1. CASE s # None /\ life[s] = "up"
  <2>1. life' = [life EXCEPT ![s] = "shut"]
    BY <1>1 DEF Shutdown
  <2> QED BY <1>1, <2>1 DEF Live, ClientTypes
<1>2. CASE ~(s # None /\ life[s] = "up")
  BY <1>2, LiveSame DEF Shutdown
<1> QED BY <1>1, <1>2

(* The queue still orders its starts and resets, and has no more of them. *)
WaitingKept ==
    /\ OneStart(Waiting) => OneStart(Waiting')
    /\ ResetsFirst(Waiting) => ResetsFirst(Waiting')
    /\ Has(Waiting', "startInLoop") => Has(Waiting, "startInLoop")
    /\ Has(Waiting', "resetChannel") => Has(Waiting, "resetChannel")

LEMMA SameWaiting ==
    ASSUME Waiting' = Waiting
    PROVE  WaitingKept
BY DEF WaitingKept

LEMMA PushedWaiting ==
    ASSUME NEW f, Pushed(Waiting, f, Waiting'), f.op \notin {"startInLoop", "resetChannel"}
    PROVE  WaitingKept
BY DEF Pushed, WaitingKept

LEMMA PoppedWaiting ==
    ASSUME NEW f, Popped(Waiting, f, Waiting')
    PROVE  WaitingKept
BY DEF Popped, WaitingKept

LEMMA QueueGrows ==
    ASSUME ClientTypes, NEW f \in Functors, q' = Append(q, f)
    PROVE  \A op : Has(q', op) <=> Has(q, op) \/ f.op = op
<1>1. q \in Seq(Functors)
  BY DEF ClientTypes
<1>2. Pushed(q, f, q')
  BY <1>1, PushFunctor
<1> QED BY <1>2 DEF Pushed

(* The steps that bring no attempt or connection *)
Quiet ==
    /\ UNCHANGED <<retry, connected, isConnecting, clearing, state, channel, registered>>
    /\ Live' \subseteq Live
    /\ calls' = 0 => calls = 0
    /\ WaitingKept
    /\ Has(q', "resetChannel") => Has(q, "resetChannel")
    /\ phase' \in {phase, "poll", "handled", "functors", "message"}
    /\ phase = "up" /\ ~retry => phase' = "up"
    /\ phase \in {"up", "handled"} =>
          phase' \in {phase, "handled"} \/ ~Has(q', "resetChannel")

LEMMA QuietKept ==
    ASSUME OneAtATime, Quiet
    PROVE  OneAtATime'
<1>1. Busy' => Busy
  BY DEF Busy, Quiet, WaitingKept
<1>2. Exclusive'
  BY DEF OneAtATime, Exclusive, Quiet, WaitingKept
<1>3. ChannelInv'
  BY DEF OneAtATime, ChannelInv, Quiet, WaitingKept
<1>4. FlagsInv'
  <2>1. retry' /\ calls' = 0 => ~Busy' /\ phase' \notin {"up", "down", "restart"}
    BY <1>1 DEF OneAtATime, FlagsInv, Quiet
  <2>2. phase' = "restart" => ~Busy'
    BY <1>1 DEF OneAtATime, FlagsInv, Quiet
  <2>3. phase' = "down" /\ (retry' \/ clearing' # {}) => ~Busy'
    BY <1>1 DEF OneAtATime, FlagsInv, Quiet
  <2>4. ~retry' /\ Busy' => isConnecting'
    BY <1>1 DEF OneAtATime, FlagsInv, Quiet
  <2>5. ~retry' /\ Live' # {} /\ phase' # "up" => connected'
    BY DEF OneAtATime, FlagsInv, Quiet
  <2>6. ~retry' /\ phase' = "down" => /\ "connected" \in clearing' => connected'
                                      /\ "isConnecting" \in clearing' => isConnecting'
    BY DEF OneAtATime, FlagsInv, Quiet
  <2>7. (Live' # {} \/ phase' \in {"down", "restart"}) /\ phase' \notin {"up", "handled"} =>
          ~Has(q', "resetChannel")
    BY DEF OneAtATime, FlagsInv, Quiet
  <2> QED BY <2>1, <2>2, <2>3, <2>4, <2>5, <2>6, <2>7 DEF FlagsInv
<1> QED BY <1>2, <1>3, <1>4 DEF OneAtATime

(* The steps after which there is neither *)
Idle ==
    /\ ~Busy' /\ OneStart(Waiting') /\ ResetsFirst(Waiting')
    /\ registered' = {}
    /\ phase' \in {"handled", "functors", "crashed"}

LEMMA IdleHolds ==
    ASSUME Idle
    PROVE  OneAtATime'
<1>1. ~Has(Waiting', "startInLoop") /\ state' # "kConnecting" /\ Live' = {}
  BY DEF Idle, Busy
<1>2. Exclusive'
  BY <1>1 DEF Idle, Exclusive
<1>3. ChannelInv'
  BY <1>1 DEF Idle, ChannelInv
<1>4. FlagsInv'
  BY <1>1 DEF Idle, FlagsInv
<1> QED BY <1>2, <1>3, <1>4 DEF OneAtATime

(* startInLoop(), when there was neither before *)
LEMMA StartHolds ==
    ASSUME ClientTypes, connect' \in BOOLEAN, NEW then \in {"functors", "handled"},
           StartInLoop(then),
           state # "kConnecting", registered = {}, Live = {},
           ~Has(Waiting', "startInLoop"), ~Has(Waiting', "resetChannel"),
           OneStart(Waiting'), ResetsFirst(Waiting'),
           ~retry' => isConnecting', retry' => calls' # 0
    PROVE  OneAtATime'
<1>1. CASE state' # "kConnecting"
  <2>1. phase' \in {then, "crashed"}
    BY StartTyped
  <2>2. registered' = {}
    BY <1>1 DEF StartInLoop, DoConnect, Connecting
  <2>3. Live' = {}
    <3>1. CASE ~connect'
      BY <3>1, LiveSame DEF StartInLoop
    <3>2. CASE connect'
      <4>1. PICK l \in Lives \ {"up", "shut"} : life' = [life EXCEPT ![attempts'] = l]
        BY <1>1, <3>2 DEF StartInLoop, DoConnect, Connecting, Retry, Lives
      <4> QED BY <4>1, LiveLess
    <3> QED BY <3>1, <3>2
  <2> QED BY <1>1, <2>1, <2>2, <2>3, IdleHolds DEF Idle, Busy
<1>2. CASE state' = "kConnecting"
  <2>1. connect' /\ Connecting(attempts', then) /\ attempts' = attempts + 1
    BY <1>2 DEF StartInLoop, DoConnect, Retry
  <2>2. /\ registered' = {channel'} /\ channel' # None /\ phase' = then
        /\ life' = [life EXCEPT ![attempts'] = "connecting"]
    BY <2>1 DEF Connecting, ClientTypes, None
  <2>3. Live' = {}
    BY <2>2, LiveLess DEF Lives
  <2>4. Exclusive'
    BY <2>3 DEF Exclusive
  <2>5. ChannelInv'
    BY <1>2, <2>2 DEF ChannelInv
  <2>6. FlagsInv'
    BY <2>2, <2>3 DEF FlagsInv
  <2> QED BY <2>4, <2>5, <2>6 DEF OneAtATime
<1> QED BY <1>1, <1>2

LEMMA AttemptOfCaller ==
    ASSUME ClientTypes, OneAtATime, UNCHANGED httpVars, CallerNext
    PROVE  OneAtATime'
<1> USE DEF loopSide
<1>0. UNCHANGED <<connected, isConnecting, clearing>>
  BY DEF httpVars
<1>1. CASE Disconnect
  <2>1. /\ UNCHANGED <<retry, state, channel, registered, q, batch, phase>>
        /\ Shutdown(connection) /\ calls' # 0
    BY <1>1 DEF Disconnect, MayCall, ClientTypes
  <2> QED BY <1>0, <2>1, LiveShut, OthersKeep, SameWaiting, QuietKept DEF Quiet
<1>2. CASE Stop
  <2>1. UNCHANGED <<retry, state, channel, registered, q, batch, phase, life>> /\ calls' # 0
    BY <1>2 DEF Stop, MayCall, ClientTypes
  <2> QED BY <1>0, <2>1, LiveSame, OthersKeep, SameWaiting, QuietKept DEF Quiet
<1>3. CASE ConnectorStop
  <2>1. UNCHANGED <<retry, state, channel, registered, q, batch, phase, life, calls>>
    BY <1>3 DEF ConnectorStop
  <2> QED BY <1>0, <2>1, LiveSame, OthersKeep, SameWaiting, QuietKept DEF Quiet
<1>4. CASE QueueStop
  <2>1. UNCHANGED <<retry, state, channel, registered, phase, life, calls>>
    BY <1>4 DEF QueueStop
  <2>2. WaitingKept
    BY <1>4, QueueStopPushes, PushedWaiting DEF Functor
  <2>3. Has(q', "resetChannel") => Has(q, "resetChannel")
    BY <1>4, FunctorsTyped, QueueGrows DEF QueueStop, Functor
  <2> QED BY <1>0, <2>1, <2>2, <2>3, LiveSame, QuietKept DEF Quiet
<1> QED BY <1>1, <1>2, <1>3, <1>4 DEF CallerNext

(* connect(), when there is neither an attempt nor a connection *)
LEMMA ConnectHolds ==
    ASSUME ClientTypes, OneAtATime, ~Busy, Connect, phase \notin {"down", "restart"} \/ ~retry,
           retry' => calls' # 0 , ~retry' => isConnecting' /\ connected' = connected,
           clearing' = clearing,
           ~retry /\ phase = "down" => clearing = {}, phase = "restart" => retry
    PROVE  OneAtATime'
<1>1. UNCHANGED <<retry, state, channel, registered, phase, life>>
  BY DEF Connect, loopSide
<1>2. /\ ~Has(Waiting, "startInLoop") /\ state # "kConnecting" /\ Live = {}
  BY DEF Busy
<1>3. Live' = {}
  BY <1>1, <1>2, LiveSame
<1>4. Pushed(Waiting, Functor("startInLoop", None), Waiting')
  BY ConnectPushes
<1>5. OneStart(Waiting') /\ ResetsFirst(Waiting')
  BY <1>2, <1>4 DEF Pushed, Functor, OneAtATime, Exclusive
<1>6. Exclusive'
  BY <1>1, <1>2, <1>3, <1>5 DEF Exclusive
<1>7. ChannelInv'
  BY <1>1, <1>2 DEF ChannelInv, OneAtATime
<1>8. Has(q', "resetChannel") => Has(q, "resetChannel")
  BY FunctorsTyped, QueueGrows DEF Connect, ConnectorStart, Functor
<1>9. FlagsInv'
  BY <1>1, <1>2, <1>3, <1>8 DEF FlagsInv, OneAtATime
<1> QED BY <1>6, <1>7, <1>9 DEF OneAtATime

LEMMA AttemptOfLoop ==
    ASSUME ClientTypes, StopInv, OneAtATime, UNCHANGED httpVars, Attempt \/ LoopNext
    PROVE  OneAtATime'
<1> USE DEF callerSide
<1>0. UNCHANGED <<connected, isConnecting, clearing>>
  BY DEF httpVars
<1>1. CASE ConnectFails
  <2>1. /\ state = "kConnecting" /\ state' = "kDisconnected" /\ registered' = registered \ {channel}
        /\ phase' \in {"handled", "crashed"}
    BY <1>1 DEF ConnectFails, RemoveAndResetChannel, Retry
  <2>2. PICK l \in Lives \ {"up", "shut"} : life' = [life EXCEPT ![channel] = l]
    <3>1. Retry(channel, "handled")
      BY <1>1 DEF ConnectFails
    <3>2. CASE connect'
      BY <3>1, <3>2 DEF Retry, Lives
    <3>3. CASE ~connect'
      BY <3>1, <3>3 DEF Retry, Lives
    <3> QED BY <3>2, <3>3
  <2>3. registered = {channel} /\ Live = {} /\ ~Has(Waiting, "startInLoop")
    BY <2>1 DEF OneAtATime, ChannelInv, Exclusive
  <2>4. registered' = {} /\ Live' = {}
    BY <2>1, <2>2, <2>3, LiveLess
  <2>5. OneStart(Waiting') /\ ResetsFirst(Waiting') /\ ~Has(Waiting', "startInLoop")
    BY <1>1, <2>3, FailPushes DEF Pushed, Functor, OneAtATime, Exclusive
  <2> QED BY <2>1, <2>4, <2>5, IdleHolds DEF Idle, Busy
<1>2. CASE HandleWrite
  <2>1. /\ state = "kConnecting" /\ state' = "kConnected" /\ registered' = registered \ {channel}
        /\ UNCHANGED callerSide
    BY <1>2 DEF HandleWrite, RemoveAndResetChannel
  <2>2. registered = {channel} /\ channel # None /\ Live = {} /\ ~Has(Waiting, "startInLoop")
    BY <2>1 DEF OneAtATime, ChannelInv, Exclusive
  <2>3. registered' = {} /\ channel \in Socks
    BY <2>1, <2>2 DEF ClientTypes, Places
  <2>4. OneStart(Waiting') /\ ResetsFirst(Waiting') /\ ~Has(Waiting', "startInLoop")
    BY <1>2, <2>2, FailPushes DEF Pushed, Functor, OneAtATime, Exclusive
  <2>5. CASE ~connect
    <3>1. phase' = "handled" /\ life' = [life EXCEPT ![channel] = "closed"]
      BY <1>2, <2>5 DEF HandleWrite
    <3>2. Live' = {}
      BY <2>2, <3>1, LiveLess DEF Lives
    <3> QED BY <2>1, <2>3, <2>4, <3>1, <3>2, IdleHolds DEF Idle, Busy
  <2>6. CASE connect
    <3>1. phase' = "up" /\ life' = [life EXCEPT ![channel] = "up"]
      BY <1>2, <2>6 DEF HandleWrite, NewConnection
    <3>2. Live' = {channel}
      BY <2>2, <2>3, <3>1, LiveMore
    <3>3. Exclusive'
      BY <2>1, <2>4, <3>2 DEF Exclusive
    <3>4. ChannelInv'
      BY <2>1, <2>3 DEF ChannelInv
    <3>5. Busy
      BY <2>1 DEF Busy
    <3>6. FlagsInv'
      BY <1>0, <2>1, <3>1, <3>5 DEF FlagsInv, OneAtATime
    <3> QED BY <3>3, <3>4, <3>6 DEF OneAtATime
  <2> QED BY <2>5, <2>6
<1>3. CASE Restart
  <2>1. /\ phase = "restart" /\ connect' = TRUE /\ StartInLoop("handled")
        /\ UNCHANGED <<q, batch, callerSide>>
    BY <1>3 DEF Restart
  <2>2. ~Busy /\ ~Has(q, "resetChannel") /\ retry /\ calls # 0
    BY <2>1 DEF OneAtATime, FlagsInv, StopInv
  <2>3. /\ ~Has(Waiting, "startInLoop") /\ state # "kConnecting" /\ Live = {}
        /\ registered = {}
    BY <2>2 DEF Busy, OneAtATime, ChannelInv
  <2>4. batch = << >> /\ q \in Seq(Functors)
    BY <2>1 DEF ClientTypes
  <2>5. Waiting = q
    BY <2>4, ConcatEmptySeq DEF Waiting
  <2>6. Waiting' = Waiting
    BY <2>1, OthersKeep
  <2>7. OneStart(Waiting) /\ ResetsFirst(Waiting)
    BY DEF OneAtATime, Exclusive
  <2> QED BY <2>1, <2>2, <2>3, <2>5, <2>6, <2>7, StartHolds
<1>4. CASE BeginFunctors
  <2>1. /\ UNCHANGED <<retry, state, channel, registered, life, calls>>
        /\ q' = << >> /\ phase' = "functors" /\ phase # "up"
    BY <1>4 DEF BeginFunctors
  <2>2. ~Has(q', "resetChannel")
    BY <2>1 DEF Has
  <2> QED BY <1>0, <1>4, <2>1, <2>2, BeginKeeps, SameWaiting, LiveSame, QuietKept DEF Quiet
<1>5. CASE EndFunctors
  <2>1. /\ UNCHANGED <<retry, state, channel, registered, life, calls, q, batch>>
        /\ phase = "functors" /\ phase' = "poll"
    BY <1>5 DEF EndFunctors
  <2> QED BY <1>0, <2>1, OthersKeep, SameWaiting, LiveSame, QuietKept DEF Quiet
<1>6. CASE RunStart
  <2>1. /\ Run("startInLoop") /\ q' = q /\ UNCHANGED callerSide /\ connect' = connect
        /\ StartInLoop("functors")
    BY <1>6 DEF RunStart, Run
  <2>2. Popped(Waiting, Head(batch), Waiting') /\ Head(batch).op = "startInLoop"
    BY <2>1, RunPops
  <2>3. /\ Has(Waiting, "startInLoop")
        /\ ~Has(Waiting', "startInLoop") /\ ~Has(Waiting', "resetChannel")
        /\ OneStart(Waiting') /\ ResetsFirst(Waiting')
    BY <2>2 DEF Popped, OneAtATime, Exclusive
  <2>4. state # "kConnecting" /\ Live = {} /\ registered = {} /\ Busy
    BY <2>3 DEF OneAtATime, Exclusive, ChannelInv, Busy
  <2>5. (~retry => isConnecting) /\ (retry => calls # 0)
    BY <2>4 DEF OneAtATime, FlagsInv
  <2>6. connect' \in BOOLEAN
    BY <2>1 DEF ClientTypes
  <2> QED BY <1>0, <2>1, <2>3, <2>4, <2>5, <2>6, StartHolds
<1>7. CASE StopInLoop
  <2>1. UNCHANGED callerSide /\ phase = "functors"
    BY <1>7 DEF StopInLoop, Run
  <2>2. /\ Popped(Waiting, Head(batch), batch' \o q)
        /\ IF state = "kConnecting"
             THEN Pushed(batch' \o q, Functor("resetChannel", None), Waiting')
             ELSE Waiting' = batch' \o q
    BY <1>7, StopPops
  <2>3. CASE state = "kConnecting"
    <3>1. /\ state' = "kDisconnected" /\ registered' = registered \ {channel}
          /\ phase' \in {"functors", "crashed"}
      BY <1>7, <2>3 DEF StopInLoop, RemoveAndResetChannel, Retry
    <3>2. PICK l \in Lives \ {"up", "shut"} : life' = [life EXCEPT ![channel] = l]
      BY <1>7, <2>3 DEF StopInLoop, Retry, Lives
    <3>3. registered = {channel} /\ Live = {} /\ ~Has(Waiting, "startInLoop")
      BY <2>3 DEF OneAtATime, ChannelInv, Exclusive
    <3>4. registered' = {} /\ Live' = {}
      BY <3>1, <3>2, <3>3, LiveLess
    <3>5. OneStart(batch' \o q) /\ ResetsFirst(batch' \o q) /\ ~Has(batch' \o q, "startInLoop")
      BY <2>2, <3>3 DEF Popped, OneAtATime, Exclusive
    <3>6. OneStart(Waiting') /\ ResetsFirst(Waiting') /\ ~Has(Waiting', "startInLoop")
      BY <2>2, <2>3, <3>5 DEF Pushed, Functor
    <3> QED BY <3>1, <3>4, <3>6, IdleHolds DEF Idle, Busy
  <2>4. CASE state # "kConnecting"
    <3>1. UNCHANGED <<registered, q, life, state, phase, channel>>
      BY <1>7, <2>4 DEF StopInLoop
    <3>2. WaitingKept
      BY <2>2, <2>4, PoppedWaiting
    <3> QED BY <1>0, <2>1, <3>1, <3>2, LiveSame, QuietKept DEF Quiet
  <2> QED BY <2>3, <2>4
<1>8. CASE ResetChannel
  <2>1. /\ Run("resetChannel") /\ q' = q /\ UNCHANGED callerSide /\ phase = "functors"
        /\ UNCHANGED <<state, registered, life, phase>>
    BY <1>8 DEF ResetChannel, Run
  <2>2. Popped(Waiting, Head(batch), Waiting') /\ Head(batch).op = "resetChannel"
    BY <2>1, RunPops
  <2>3. Has(Waiting, "resetChannel") /\ WaitingKept
    BY <2>2, PoppedWaiting DEF Popped
  <2>4. state # "kConnecting"
    BY <2>3 DEF OneAtATime, ChannelInv
  <2>5. Live' = Live
    BY <2>1, LiveSame
  <2>6. Exclusive'
    BY <2>1, <2>3, <2>5 DEF Exclusive, OneAtATime, WaitingKept
  <2>7. ChannelInv'
    BY <2>1, <2>4 DEF ChannelInv, OneAtATime
  <2>8. Busy' => Busy
    BY <2>1, <2>3, <2>5 DEF Busy, WaitingKept
  <2>9. FlagsInv'
    BY <1>0, <2>1, <2>5, <2>8 DEF FlagsInv, OneAtATime
  <2> QED BY <2>6, <2>7, <2>9 DEF OneAtATime
<1>9. CASE ConnectDestroyed
  <2>1. /\ Run("connectDestroyed") /\ q' = q /\ UNCHANGED callerSide /\ phase = "functors"
        /\ UNCHANGED <<state, channel, registered, phase>>
        /\ life' = [life EXCEPT ![Head(batch).s] = "destroyed"]
    BY <1>9 DEF ConnectDestroyed, Run
  <2>2. WaitingKept
    BY <2>1, RunPops, PoppedWaiting
  <2>3. Live' \subseteq Live
    BY <2>1, LiveLess DEF Lives
  <2> QED BY <1>0, <2>1, <2>2, <2>3, QuietKept DEF Quiet
<1> QED BY <1>1, <1>2, <1>3, <1>4, <1>5, <1>6, <1>7, <1>8, <1>9 DEF Attempt, LoopNext

LEMMA AttemptOfPlain ==
    ASSUME Types, OneAtATime, PlainNext
    PROVE  OneAtATime'
<1> USE DEF callerSide
<1>0. ClientTypes /\ retry /\ UNCHANGED <<connected, isConnecting, clearing>>
  BY DEF Types, PlainNext, httpVars
<1>1. CASE PlainConnect
  <2>1. Connect /\ calls = 0 /\ calls' # 0 /\ retry' = retry
    BY <1>0, <1>1 DEF PlainConnect, MayCall, Connect, loopSide
  <2>2. ~Busy /\ phase \notin {"down", "restart"}
    BY <1>0, <2>1 DEF OneAtATime, FlagsInv
  <2> QED BY <1>0, <2>1, <2>2, ConnectHolds
<1>2. CASE UpDone
  <2>1. /\ UNCHANGED <<retry, state, channel, registered, life, calls, q, batch>>
        /\ phase = "up" /\ phase' = "handled"
    BY <1>2 DEF UpDone
  <2> QED BY <1>0, <2>1, OthersKeep, SameWaiting, LiveSame, QuietKept DEF Quiet
<1>3. CASE RemoveConnection
  <2>1. /\ UNCHANGED <<retry, state, channel, registered, life, calls>>
        /\ phase = "down" /\ phase' \in {"restart", "handled"}
        /\ q' = Append(q, Functor("connectDestroyed", current))
    BY <1>3 DEF RemoveConnection
  <2>2. ~Busy /\ calls # 0 /\ ~Has(q, "resetChannel")
    BY <1>0, <2>1 DEF OneAtATime, FlagsInv
  <2>3. WaitingKept
    BY <1>0, <1>3, RemovePushes, PushedWaiting DEF Functor
  <2>4. Functor("connectDestroyed", current) \in Functors
    BY <1>0, FunctorsTyped DEF ClientTypes
  <2>5. ~Has(q', "resetChannel")
    BY <1>0, <2>1, <2>2, <2>4, QueueGrows DEF Functor
  <2>6. Live' = Live
    BY <2>1, LiveSame
  <2>7. ~Busy'
    BY <2>1, <2>2, <2>3, <2>6 DEF Busy, WaitingKept
  <2>8. Exclusive'
    BY <2>1, <2>3, <2>6 DEF Exclusive, OneAtATime, WaitingKept
  <2>9. ChannelInv'
    BY <2>1, <2>3 DEF ChannelInv, OneAtATime, WaitingKept
  <2>10. FlagsInv'
    BY <1>0, <2>1, <2>2, <2>5, <2>7 DEF FlagsInv
  <2> QED BY <2>8, <2>9, <2>10 DEF OneAtATime
<1>4. ASSUME NEW s \in Socks, HandleClose(s)
      PROVE  OneAtATime'
  <2>1. /\ UNCHANGED <<retry, state, channel, registered, calls, q, batch>>
        /\ phase = "poll" /\ phase' = "down" /\ life' = [life EXCEPT ![s] = "down"]
        /\ s \in Live
    BY <1>4 DEF HandleClose, Live
  <2>2. Live' = {} /\ state # "kConnecting" /\ ~Has(Waiting, "startInLoop")
    BY <1>0, <2>1, LiveLess DEF OneAtATime, Exclusive, Lives
  <2>3. Waiting' = Waiting
    BY <2>1, OthersKeep
  <2>4. Busy /\ ~Busy'
    BY <2>1, <2>2, <2>3 DEF Busy
  <2>5. Exclusive'
    BY <2>1, <2>2, <2>3 DEF Exclusive, OneAtATime
  <2>6. ChannelInv'
    BY <2>1, <2>3 DEF ChannelInv, OneAtATime
  <2>7. FlagsInv'
    BY <1>0, <2>1, <2>2, <2>4 DEF FlagsInv, OneAtATime
  <2> QED BY <2>5, <2>6, <2>7 DEF OneAtATime
<1> QED BY <1>1, <1>2, <1>3, <1>4 DEF PlainNext

LEMMA AttemptOfHttp ==
    ASSUME Types, StopInv, OneAtATime, HttpClientNext, ~crossed'
    PROVE  OneAtATime'
<1> USE DEF callerSide, loopSide
<1>0. ClientTypes /\ HttpTypes /\ ~retry /\ phase # "restart"
  BY DEF Types, HttpClientNext, StopInv
<1>1. CASE Get
  <2>1. UNCHANGED <<connected, clearing>>
    BY <1>1 DEF Get
  <2>2. CASE MustConnect
    <3>1. Connect /\ isConnecting' = TRUE /\ ~connected /\ ~isConnecting
      BY <1>1, <2>2 DEF Get, MustConnect
    <3>2. ~Busy /\ (phase = "down" => clearing = {})
      BY <1>0, <3>1 DEF OneAtATime, FlagsInv, HttpTypes
    <3>3. retry' = retry
      BY <3>1 DEF Connect
    <3> QED BY <1>0, <2>1, <3>1, <3>2, <3>3, ConnectHolds
  <2>3. CASE ~MustConnect
    <3>1. /\ UNCHANGED <<retry, state, channel, registered, life, q, batch, phase, isConnecting>>
          /\ calls' # 0
      BY <1>0, <1>1, <2>3 DEF Get, ClientTypes
    <3> QED BY <1>0, <2>1, <3>1, OthersKeep, SameWaiting, LiveSame, QuietKept DEF Quiet
  <2> QED BY <2>2, <2>3
<1>2. CASE GetPut
  <2>1. UNCHANGED <<connected, isConnecting, clearing, retry, state, channel, registered, life,
                    calls, phase>>
    BY <1>2 DEF GetPut
  <2>2. WaitingKept
    BY <1>2, GetPutPushes, PushedWaiting, SameWaiting DEF SendFunctor
  <2>3. SendFunctor(connection, lock) \in Functors
    BY <1>0, FunctorsTyped DEF ClientTypes, HttpTypes
  <2>4. Has(q', "resetChannel") => Has(q, "resetChannel")
    BY <1>0, <1>2, <2>3, QueueGrows DEF GetPut, SendFunctor
  <2> QED BY <1>0, <2>1, <2>2, <2>4, LiveSame, QuietKept DEF Quiet
<1>3. CASE RunSend
  <2>1. /\ UNCHANGED <<connected, isConnecting, clearing, retry, state, channel, registered, life,
                       calls, phase, q>>
        /\ Run("send")
    BY <1>3 DEF RunSend, Run
  <2>2. WaitingKept
    BY <1>0, <2>1, RunPops, PoppedWaiting
  <2> QED BY <1>0, <2>1, <2>2, LiveSame, QuietKept DEF Quiet
<1>4. CASE OnUp
  <2>1. /\ UNCHANGED <<isConnecting, clearing, retry, state, channel, registered, life, calls,
                       q, batch>>
        /\ phase = "up" /\ phase' = "handled" /\ connected' = TRUE
    BY <1>4 DEF OnUp, UpDone
  <2>2. Live' = Live /\ Waiting' = Waiting
    BY <2>1, LiveSame, OthersKeep
  <2>3. Exclusive'
    BY <2>1, <2>2 DEF Exclusive, OneAtATime
  <2>4. ChannelInv'
    BY <2>1, <2>2 DEF ChannelInv, OneAtATime
  <2>5. Busy' <=> Busy
    BY <2>1, <2>2 DEF Busy
  <2>6. FlagsInv'
    BY <1>0, <2>1, <2>2, <2>5 DEF FlagsInv, OneAtATime
  <2> QED BY <2>3, <2>4, <2>6 DEF OneAtATime
<1>5. CASE OnUpCrossed
  BY <1>5 DEF OnUpCrossed
<1>6. CASE OnDown
  <2>0. PICK flags \in (SUBSET clearing) \ {{}} :
            /\ clearing' = clearing \ flags
            /\ connected' = (connected /\ "connected" \notin flags)
            /\ isConnecting' = (isConnecting /\ "isConnecting" \notin flags)
    BY <1>6 DEF OnDown
  <2>1. /\ UNCHANGED <<retry, state, channel, registered, life, calls, q, batch, phase>>
        /\ phase = "down"
    BY <1>6 DEF OnDown, vars
  <2>2. Live' = Live /\ Waiting' = Waiting
    BY <2>1, LiveSame, OthersKeep
  <2>3. ~Busy
    <3>1. clearing # {}
      BY <2>0
    <3> QED BY <2>1, <3>1 DEF OneAtATime, FlagsInv
  <2>4. ~Busy'
    BY <2>1, <2>2, <2>3 DEF Busy
  <2>5. Exclusive'
    BY <2>1, <2>2 DEF Exclusive, OneAtATime
  <2>6. ChannelInv'
    BY <2>1, <2>2 DEF ChannelInv, OneAtATime
  <2>7. Live' = {}
    BY <2>4 DEF Busy
  <2>8. /\ "connected" \in clearing' => connected'
        /\ "isConnecting" \in clearing' => isConnecting'
    BY <1>0, <2>0, <2>1 DEF OneAtATime, FlagsInv
  <2>9. ~Has(q', "resetChannel")
    BY <2>1 DEF OneAtATime, FlagsInv
  <2>10. FlagsInv'
    BY <1>0, <2>1, <2>4, <2>7, <2>8, <2>9 DEF FlagsInv
  <2> QED BY <2>5, <2>6, <2>10 DEF OneAtATime
<1>7. CASE CloseDone
  <2>1. /\ UNCHANGED <<connected, isConnecting, clearing, retry, state, channel, registered, life,
                       calls>>
        /\ phase = "down" /\ phase' = "handled" /\ RemoveConnection
        /\ q' = Append(q, Functor("connectDestroyed", current))
    BY <1>0, <1>7 DEF CloseDone, RemoveConnection, MustRestart, httpVars
  <2>2. WaitingKept
    BY <1>0, <2>1, RemovePushes, PushedWaiting DEF Functor
  <2>3. Functor("connectDestroyed", current) \in Functors
    BY <1>0, FunctorsTyped DEF ClientTypes
  <2>4. Has(q', "resetChannel") => Has(q, "resetChannel")
    BY <1>0, <2>1, <2>3, QueueGrows DEF Functor
  <2> QED BY <1>0, <2>1, <2>2, <2>4, LiveSame, QuietKept DEF Quiet
<1>8. CASE MessageDone
  <2>1. /\ UNCHANGED <<connected, isConnecting, clearing, retry, state, channel, registered, life,
                       calls, q, batch>>
        /\ phase = "message" /\ phase' = "handled"
    BY <1>8 DEF MessageDone
  <2> QED BY <1>0, <2>1, OthersKeep, SameWaiting, LiveSame, QuietKept DEF Quiet
<1>9. ASSUME NEW s \in Socks, HttpClose(s)
      PROVE  OneAtATime'
  <2>1. /\ UNCHANGED <<connected, isConnecting, retry, state, channel, registered, calls,
                       q, batch>>
        /\ phase = "poll" /\ phase' = "down" /\ life' = [life EXCEPT ![s] = "down"]
        /\ s \in Live
    BY <1>9 DEF HttpClose, HandleClose, Live
  <2>2. Live' = {} /\ state # "kConnecting" /\ ~Has(Waiting, "startInLoop")
    BY <1>0, <2>1, LiveLess DEF OneAtATime, Exclusive, Lives
  <2>3. Waiting' = Waiting
    BY <2>1, OthersKeep
  <2>4. Busy /\ ~Busy'
    BY <2>1, <2>2, <2>3 DEF Busy
  <2>5. connected /\ isConnecting /\ ~Has(q, "resetChannel")
    BY <1>0, <2>1, <2>4 DEF OneAtATime, FlagsInv
  <2>6. Exclusive'
    BY <2>1, <2>2, <2>3 DEF Exclusive, OneAtATime
  <2>7. ChannelInv'
    BY <2>1, <2>3 DEF ChannelInv, OneAtATime
  <2>8. FlagsInv'
    BY <1>0, <2>1, <2>2, <2>4, <2>5 DEF FlagsInv
  <2> QED BY <2>6, <2>7, <2>8 DEF OneAtATime
<1>10. ASSUME NEW s \in Socks, OnMessage(s)
       PROVE  OneAtATime'
  <2>1. /\ UNCHANGED <<connected, isConnecting, clearing, retry, state, channel, registered,
                       calls, q, batch>>
        /\ phase = "poll" /\ phase' = "message"
    BY <1>10 DEF OnMessage
  <2>2. life' = life \/ Shutdown(s)
    BY <1>10 DEF OnMessage, HandleResponse
  <2>3. Live' = Live
    BY <1>0, <2>2, LiveSame, LiveShut
  <2> QED BY <1>0, <2>1, <2>3, OthersKeep, SameWaiting, QuietKept DEF Quiet
<1> QED BY <1>1, <1>2, <1>3, <1>4, <1>5, <1>6, <1>7, <1>8, <1>9, <1>10 DEF HttpClientNext

LEMMA AttemptStep ==
    ASSUME Types, StopInv, AttemptInv, HttpNext
    PROVE  AttemptInv'
<1>0. ClientTypes
  BY DEF Types
<1> SUFFICES ASSUME ~crossed'
             PROVE  OneAtATime'
  BY DEF AttemptInv
<1>1. CASE TcpClientNext
  <2>1. UNCHANGED httpVars /\ crossed' = crossed
    BY <1>1 DEF TcpClientNext, httpVars
  <2>2. OneAtATime
    BY <2>1 DEF AttemptInv
  <2> QED BY <1>0, <1>1, <2>1, <2>2, AttemptOfCaller, AttemptOfLoop DEF TcpClientNext
<1>2. CASE PlainNext
  <2>1. OneAtATime
    BY <1>2 DEF AttemptInv, PlainNext, httpVars
  <2> QED BY <1>2, <2>1, AttemptOfPlain
<1>3. CASE HttpClientNext
  <2>1. crossed' = crossed
    <3>1. Get \/ GetPut \/ RunSend => crossed' = crossed
      BY DEF Get, GetPut, RunSend
    <3>2. OnUp \/ OnDown \/ CloseDone \/ MessageDone => crossed' = crossed
      BY DEF OnUp, OnDown, CloseDone, MessageDone, httpVars
    <3>3. ~OnUpCrossed
      BY DEF OnUpCrossed
    <3>4. \A s \in Socks : HttpClose(s) \/ OnMessage(s) => crossed' = crossed
      BY DEF HttpClose, OnMessage
    <3> QED BY <1>3, <3>1, <3>2, <3>3, <3>4 DEF HttpClientNext
  <2>2. OneAtATime
    BY <2>1 DEF AttemptInv
  <2> QED BY <1>3, <2>2, AttemptOfHttp
<1> QED BY <1>1, <1>2, <1>3 DEF HttpNext

-----------------------------------------------------------------------------
(* The requests *)

(* The sequence t of requests is s with r behind it. *)
Added(s, r, t) ==
    /\ t \in Seq(Nat)
    /\ \A x : InSeq(t, x) <=> InSeq(s, x) \/ x = r
    /\ IsInjective(s) /\ ~InSeq(s, r) => IsInjective(t)
    /\ Increasing(s) /\ (\A x : InSeq(s, x) => x < r) => Increasing(t)
    /\ \A born : BornInOrder(s, born) /\ r \notin born => BornInOrder(t, born)
    /\ \A born : BornInOrder(s, born) /\ (\A x \in born : InSeq(s, x) => x < r)
                    => BornInOrder(t, born)

LEMMA AddRequest ==
    ASSUME NEW s \in Seq(Nat), NEW r \in Nat, NEW t, t = Append(s, r)
    PROVE  Added(s, r, t)
<1>1. /\ t \in Seq(Nat) /\ Len(s) \in Nat /\ Len(t) = Len(s) + 1 /\ t[Len(t)] = r
      /\ \A i \in 1 .. Len(s) : t[i] = s[i]
  OBVIOUS
<1>2. \A i \in 1 .. Len(t) : i \in 1 .. Len(s) \/ i = Len(t)
  BY <1>1
<1>3. Len(t) \in 1 .. Len(t) /\ \A i \in 1 .. Len(s) : i \in 1 .. Len(t) /\ i < Len(t)
  BY <1>1
<1>4. \A x : InSeq(t, x) <=> InSeq(s, x) \/ x = r
  BY <1>1, <1>2, <1>3 DEF InSeq
<1>5. DOMAIN s = 1 .. Len(s) /\ DOMAIN t = 1 .. Len(t)
  BY <1>1
<1>6. ASSUME IsInjective(s), ~InSeq(s, r)
      PROVE  IsInjective(t)
  <2> SUFFICES ASSUME NEW i \in 1 .. Len(t), NEW j \in 1 .. Len(t), t[i] = t[j]
               PROVE  i = j
    BY <1>5 DEF IsInjective
  <2> QED BY <1>1, <1>2, <1>5, <1>6 DEF IsInjective, InSeq
<1>7. ASSUME Increasing(s), \A x : InSeq(s, x) => x < r
      PROVE  Increasing(t)
  <2> SUFFICES ASSUME NEW i \in 1 .. Len(t), NEW j \in 1 .. Len(t), i < j
               PROVE  t[i] < t[j]
    BY DEF Increasing
  <2>1. i \in 1 .. Len(s)
    BY <1>1
  <2> QED BY <1>1, <1>2, <1>7, <2>1 DEF Increasing, InSeq
<1>8. ASSUME NEW born, BornInOrder(s, born), r \notin born
      PROVE  BornInOrder(t, born)
  BY <1>1, <1>2, <1>8 DEF BornInOrder
<1>9. ASSUME NEW born, BornInOrder(s, born), \A x \in born : InSeq(s, x) => x < r
      PROVE  BornInOrder(t, born)
  <2> SUFFICES ASSUME NEW i \in 1 .. Len(t), NEW j \in 1 .. Len(t), i < j,
                      t[i] \in born, t[j] \in born
               PROVE  t[i] < t[j]
    BY DEF BornInOrder
  <2>1. i \in 1 .. Len(s)
    BY <1>1
  <2>2. CASE j \in 1 .. Len(s)
    BY <1>1, <1>9, <2>1, <2>2 DEF BornInOrder
  <2>3. CASE j = Len(t)
    <3>1. t[j] = r /\ InSeq(s, t[i])
      BY <1>1, <2>1, <2>3 DEF InSeq
    <3> QED BY <1>9, <3>1
  <2> QED BY <1>2, <2>2, <2>3
<1> QED BY <1>1, <1>4, <1>6, <1>7, <1>8, <1>9 DEF Added

(* The sequence t of requests is s without the r that was its first. *)
Taken(s, r, t) ==
    /\ t \in Seq(Nat) /\ r \in Nat
    /\ \A x : InSeq(s, x) <=> InSeq(t, x) \/ x = r
    /\ Increasing(s) => Increasing(t) /\ \A x : InSeq(t, x) => r < x

LEMMA TakeRequest ==
    ASSUME NEW s \in Seq(Nat), s # << >>, NEW r, r = Head(s), NEW t, t = Tail(s)
    PROVE  Taken(s, r, t)
<1>1. /\ t \in Seq(Nat) /\ r \in Nat /\ r = s[1]
      /\ Len(t) \in Nat /\ Len(s) = Len(t) + 1
      /\ \A i \in 1 .. Len(t) : t[i] = s[i + 1]
  OBVIOUS
<1>2. \A i \in 1 .. Len(t) : i + 1 \in 1 .. Len(s) /\ 1 < i + 1
  BY <1>1
<1>3. \A i \in 1 .. Len(s) : i = 1 \/ (i - 1 \in 1 .. Len(t) /\ t[i - 1] = s[i])
  BY <1>1
<1>4. 1 \in 1 .. Len(s)
  BY <1>1
<1>5. \A x : InSeq(s, x) <=> InSeq(t, x) \/ x = r
  <2> SUFFICES ASSUME NEW x PROVE InSeq(s, x) <=> InSeq(t, x) \/ x = r
    OBVIOUS
  <2>1. ASSUME InSeq(s, x) PROVE InSeq(t, x) \/ x = r
    <3>1. PICK i \in 1 .. Len(s) : s[i] = x
      BY <2>1 DEF InSeq
    <3> QED BY <1>1, <1>3, <3>1 DEF InSeq
  <2>2. ASSUME InSeq(t, x) PROVE InSeq(s, x)
    <3>1. PICK i \in 1 .. Len(t) : t[i] = x
      BY <2>2 DEF InSeq
    <3> QED BY <1>1, <1>2, <3>1 DEF InSeq
  <2>3. InSeq(s, r)
    BY <1>1, <1>4 DEF InSeq
  <2> QED BY <2>1, <2>2, <2>3
<1>6. ASSUME Increasing(s)
      PROVE  Increasing(t)
  <2> SUFFICES ASSUME NEW i \in 1 .. Len(t), NEW j \in 1 .. Len(t), i < j
               PROVE  t[i] < t[j]
    BY DEF Increasing
  <2>1. i + 1 < j + 1
    OBVIOUS
  <2>2. s[i + 1] < s[j + 1]
    BY <1>2, <1>6, <2>1 DEF Increasing
  <2> QED BY <1>1, <2>2
<1>7. ASSUME Increasing(s)
      PROVE  \A x : InSeq(t, x) => r < x
  BY <1>1, <1>2, <1>4, <1>7 DEF Increasing, InSeq
<1> QED BY <1>1, <1>5, <1>6, <1>7 DEF Taken

(* The same requests are to be sent, or fewer. *)
SendsKept ==
    /\ SendsOnce(Waiting) => SendsOnce(Waiting')
    /\ \A r : ToSend(Waiting', r) => ToSend(Waiting, r)

LEMMA PushedSends ==
    ASSUME NEW f, Pushed(Waiting, f, Waiting'), f.op # "send"
    PROVE  SendsKept
BY DEF Pushed, SendsKept

LEMMA PoppedSends ==
    ASSUME NEW f, Popped(Waiting, f, Waiting')
    PROVE  SendsKept
BY DEF Popped, SendsKept

LEMMA SameSends ==
    ASSUME Waiting' = Waiting
    PROVE  SendsKept
BY DEF SendsKept

PlacesInv == PlaceInv /\ QueueInv

LEMMA PlacesKept ==
    ASSUME PlacesInv, UNCHANGED <<requests, sent, queueBorn, made, lock>>, SendsKept
    PROVE  PlacesInv'
<1>1. PlaceInv'
  BY DEF PlacesInv, PlaceInv, SendsKept
<1>2. QueueInv'
  BY DEF PlacesInv, QueueInv
<1> QED BY <1>1, <1>2 DEF PlacesInv

LEMMA SendsOfTcp ==
    ASSUME ClientTypes, Attempt \/ LoopNext \/ CallerNext \/ Connect \/ RemoveConnection
    PROVE  SendsKept
<1> USE DEF loopSide, callerSide
<1>1. CASE ConnectFails \/ HandleWrite
  BY <1>1, FailPushes, PushedSends DEF Functor
<1>2. CASE Restart \/ EndFunctors
  BY <1>2, OthersKeep, SameSends DEF Restart, EndFunctors
<1>3. CASE BeginFunctors
  BY <1>3, BeginKeeps, SameSends
<1>4. CASE RunStart
  BY <1>4, RunPops, PoppedSends DEF RunStart
<1>5. CASE StopInLoop
  <2>1. /\ Popped(Waiting, Head(batch), batch' \o q)
        /\ IF state = "kConnecting"
             THEN Pushed(batch' \o q, Functor("resetChannel", None), Waiting')
             ELSE Waiting' = batch' \o q
    BY <1>5, StopPops
  <2>2. /\ SendsOnce(Waiting) => SendsOnce(batch' \o q)
        /\ \A r : ToSend(batch' \o q, r) => ToSend(Waiting, r)
    BY <2>1 DEF Popped
  <2>3. /\ SendsOnce(batch' \o q) => SendsOnce(Waiting')
        /\ \A r : ToSend(Waiting', r) => ToSend(batch' \o q, r)
    BY <2>1 DEF Pushed, Functor
  <2> QED BY <2>2, <2>3 DEF SendsKept
<1>6. CASE ResetChannel
  BY <1>6, RunPops, PoppedSends DEF ResetChannel
<1>7. CASE ConnectDestroyed
  BY <1>7, RunPops, PoppedSends DEF ConnectDestroyed
<1>8. CASE Disconnect \/ Stop \/ ConnectorStop
  BY <1>8, OthersKeep, SameSends DEF Disconnect, Stop, ConnectorStop
<1>9. CASE QueueStop
  BY <1>9, QueueStopPushes, PushedSends DEF Functor
<1>10. CASE Connect
  BY <1>10, ConnectPushes, PushedSends DEF Functor
<1>11. CASE RemoveConnection
  BY <1>11, RemovePushes, PushedSends DEF Functor
<1> QED BY <1>1, <1>2, <1>3, <1>4, <1>5, <1>6, <1>7, <1>8, <1>9, <1>10, <1>11
        DEF Attempt, LoopNext, CallerNext

LEMMA RequestsTyped ==
    ASSUME Types
    PROVE  /\ \A x : InSeq(sent, x) => x \in Nat
           /\ \A x : InSeq(requests, x) => x \in Nat
           /\ \A x : ToSend(Waiting, x) => x \in Nat
<1>1. sent \in Seq(Nat) /\ requests \in Seq(Nat) /\ Waiting \in Seq(Functors)
  BY WaitingTyped DEF Types, HttpTypes
<1>2. \A x : InSeq(sent, x) => x \in Nat
  BY <1>1 DEF InSeq
<1>3. \A x : InSeq(requests, x) => x \in Nat
  BY <1>1 DEF InSeq
<1>4. \A i \in 1 .. Len(Waiting) : Waiting[i] \in Functors
  BY <1>1
<1>5. \A f \in Functors : f.op = "send" => f.r \in Nat
  BY DEF Functors
<1>6. \A x : ToSend(Waiting, x) => x \in Nat
  BY <1>4, <1>5 DEF ToSend
<1> QED BY <1>2, <1>3, <1>6

(* A request is written that is in no queue any more, *)
LEMMA PlacesWritten ==
    ASSUME Types, PlacesInv, NEW r \in Nat, r # None, Added(sent, r, sent'), ~InSeq(sent, r),
           r <= made', made <= made', made' \in Nat,
           r \notin queueBorn, lock # r, ~ToSend(Waiting', r),
           lock = 0 \/ made' = made,
           UNCHANGED <<requests, queueBorn, lock>>, SendsKept
    PROVE  PlacesInv'
<1>1. \A x : InSeq(sent', x) <=> InSeq(sent, x) \/ x = r
  BY DEF Added
<1>2. IsInjective(sent') /\ BornInOrder(sent', queueBorn)
  BY DEF Added, PlacesInv, PlaceInv, QueueInv
<1>3. ~InSeq(requests, r)
  BY DEF PlacesInv, PlaceInv
<1>4. /\ \A x \in Nat : x <= made => x <= made'
      /\ queueBorn \subseteq Nat
  BY DEF Types, HttpTypes
<1>5. /\ \A x : InSeq(sent, x) => x \in Nat
      /\ \A x : InSeq(requests, x) => x \in Nat
      /\ \A x : ToSend(Waiting, x) => x \in Nat
  BY RequestsTyped
<1>6. PlaceInv'
  <2>1. Increasing(requests') /\ IsInjective(sent') /\ SendsOnce(Waiting')
    BY <1>2 DEF PlacesInv, PlaceInv, SendsKept
  <2>2. \A x : InSeq(requests', x) => x # None /\ x <= made' /\ x \in queueBorn'
                                       /\ ~InSeq(sent', x) /\ ~ToSend(Waiting', x)
    BY <1>1, <1>3, <1>4, <1>5 DEF PlacesInv, PlaceInv, SendsKept
  <2>3. \A x : ToSend(Waiting', x) => x # None /\ x <= made' /\ x \notin queueBorn'
                                      /\ ~InSeq(sent', x)
    BY <1>1, <1>4, <1>5 DEF PlacesInv, PlaceInv, SendsKept
  <2>4. \A x : InSeq(sent', x) => x # None /\ x <= made'
    BY <1>1, <1>4, <1>5 DEF PlacesInv, PlaceInv
  <2>5. \A x \in queueBorn' : x <= made'
    BY <1>4 DEF PlacesInv, PlaceInv
  <2>6. lock' # 0 => /\ lock' = made' /\ lock' \notin queueBorn'
                     /\ ~InSeq(sent', lock') /\ ~ToSend(Waiting', lock')
    BY <1>1 DEF PlacesInv, PlaceInv, SendsKept
  <2> QED BY <2>1, <2>2, <2>3, <2>4, <2>5, <2>6 DEF PlaceInv
<1>7. QueueInv'
  BY <1>1, <1>2 DEF PlacesInv, QueueInv
<1> QED BY <1>6, <1>7 DEF PlacesInv

(* or the first of requests_, or it is dropped. *)
LEMMA PlacesNext ==
    ASSUME Types, PlacesInv, SendNext, lock = 0, UNCHANGED <<queueBorn, made, lock, q, batch>>
    PROVE  PlacesInv'
<1>0. Waiting' = Waiting /\ requests \in Seq(Nat) /\ sent \in Seq(Nat)
  BY OthersKeep DEF Types, HttpTypes
<1>1. CASE requests = << >>
  <2>1. UNCHANGED <<requests, sent>>
    BY <1>1 DEF SendNext
  <2> QED BY <1>0, <2>1, SameSends, PlacesKept
<1>2. CASE requests # << >>
  <2>1. PICK r : r = Head(requests)
    OBVIOUS
  <2>2. SendRequest(r, net) /\ requests' = Tail(requests)
    BY <1>2, <2>1 DEF SendNext
  <2>3. Taken(requests, r, requests')
    BY <1>0, <1>2, <2>1, <2>2, TakeRequest
  <2>4. sent' = sent \/ sent' = Append(sent, r)
    BY <2>2 DEF SendRequest, Write
  <2>5. r \in Nat /\ InSeq(requests, r) /\ \A x : InSeq(requests', x) => InSeq(requests, x)
    BY <2>3 DEF Taken
  <2>6. Increasing(requests') /\ \A x : InSeq(requests', x) => r < x /\ x # r
    BY <2>3 DEF Taken, PlacesInv, PlaceInv
  <2>7. r # None /\ r <= made /\ r \in queueBorn /\ ~InSeq(sent, r) /\ ~ToSend(Waiting, r)
    BY <2>5 DEF PlacesInv, PlaceInv
  <2>8. \A x : InSeq(sent', x) => InSeq(sent, x) \/ x = r
    BY <1>0, <2>4, <2>5, AddRequest DEF Added
  <2>9. \A x \in queueBorn : InSeq(sent, x) => x < r
    BY <2>5 DEF PlacesInv, QueueInv
  <2>10. IsInjective(sent') /\ BornInOrder(sent', queueBorn)
    <3>1. IsInjective(sent) /\ BornInOrder(sent, queueBorn)
      BY DEF PlacesInv, PlaceInv, QueueInv
    <3>2. CASE sent' = Append(sent, r)
      <4>1. Added(sent, r, sent')
        BY <1>0, <2>5, <3>2, AddRequest
      <4> QED BY <2>7, <2>9, <3>1, <4>1 DEF Added
    <3> QED BY <2>4, <3>1, <3>2
  <2>11. PlaceInv'
    BY <1>0, <2>5, <2>6, <2>7, <2>8, <2>10 DEF PlacesInv, PlaceInv
  <2>12. QueueInv'
    BY <2>5, <2>6, <2>8, <2>10 DEF PlacesInv, QueueInv
  <2> QED BY <2>11, <2>12 DEF PlacesInv
<1> QED BY <1>1, <1>2

LEMMA PlacesOfGet ==
    ASSUME Types, PlacesInv, Get
    PROVE  PlacesInv'
<1>0. ClientTypes /\ made \in Nat /\ queueBorn \subseteq Nat /\ sent \in Seq(Nat)
  BY DEF Types, HttpTypes
<1>1. made' = made + 1 /\ lock' = made' /\ UNCHANGED <<requests, sent, queueBorn>>
  BY DEF Get
<1>2. SendsKept
  <2>1. CASE MustConnect
    BY <1>0, <2>1, SendsOfTcp DEF Get
  <2>2. CASE ~MustConnect
    BY <2>2, OthersKeep, SameSends DEF Get, loopSide
  <2> QED BY <2>1, <2>2
<1>3. \A x \in Nat : x <= made => x <= made' /\ x # made'
  BY <1>0, <1>1
<1>4. PlaceInv'
  BY <1>0, <1>1, <1>2, <1>3, RequestsTyped DEF PlacesInv, PlaceInv, SendsKept
<1>5. QueueInv'
  BY <1>1 DEF PlacesInv, QueueInv
<1> QED BY <1>4, <1>5 DEF PlacesInv

LEMMA PlacesOfPut ==
    ASSUME Types, PlacesInv, GetPut
    PROVE  PlacesInv'
<1>0. /\ requests \in Seq(Nat) /\ lock \in Nat /\ queueBorn \subseteq Nat /\ made \in Nat
      /\ lock # 0 /\ lock' = 0 /\ UNCHANGED <<made, sent>>
  BY DEF Types, HttpTypes, GetPut
<1>1. /\ lock = made /\ lock \notin queueBorn
      /\ ~InSeq(sent, lock) /\ ~ToSend(Waiting, lock) /\ ~InSeq(requests, lock)
  BY <1>0 DEF PlacesInv, PlaceInv
<1>2. CASE connected
  <2>1. UNCHANGED <<requests, queueBorn>>
    BY <1>2 DEF GetPut
  <2>2. QueueInv'
    BY <1>0, <2>1 DEF PlacesInv, QueueInv
  <2>3. CASE Usable(connection)
    <3>1. Pushed(Waiting, SendFunctor(connection, lock), Waiting')
      BY <1>2, <2>3, GetPutPushes
    <3>2. \A r : ToSend(Waiting', r) => ToSend(Waiting, r) \/ r = lock
      BY <3>1 DEF Pushed, SendFunctor
    <3>3. SendsOnce(Waiting')
      BY <1>1, <3>1 DEF Pushed, SendFunctor, PlacesInv, PlaceInv
    <3>4. lock # None /\ lock <= made
      BY <1>0, <1>1 DEF None
    <3>5. PlaceInv'
      BY <1>0, <1>1, <2>1, <3>2, <3>3, <3>4 DEF PlacesInv, PlaceInv
    <3> QED BY <2>2, <3>5 DEF PlacesInv
  <2>4. CASE ~Usable(connection)
    <3>1. Waiting' = Waiting
      BY <2>4, GetPutPushes
    <3>2. PlaceInv'
      BY <1>0, <2>1, <3>1 DEF PlacesInv, PlaceInv
    <3> QED BY <2>2, <3>2 DEF PlacesInv
  <2> QED BY <2>3, <2>4
<1>3. CASE ~connected
  <2>1. requests' = Append(requests, lock) /\ queueBorn' = queueBorn \cup {lock}
    BY <1>3 DEF GetPut
  <2>2. Waiting' = Waiting
    BY <1>3, GetPutPushes
  <2>3. Added(requests, lock, requests')
    BY <1>0, <2>1, AddRequest
  <2>4. \A x \in Nat : x <= made /\ x # lock => x < lock
    BY <1>0, <1>1
  <2>5. /\ \A x : InSeq(requests, x) => x < lock
        /\ \A x \in queueBorn : x < lock
    BY <1>0, <1>1, <2>4, RequestsTyped DEF PlacesInv, PlaceInv
  <2>6. Increasing(requests') /\ \A x : InSeq(requests', x) => InSeq(requests, x) \/ x = lock
    BY <2>3, <2>5 DEF Added, PlacesInv, PlaceInv
  <2>7. lock # None /\ lock <= made
    BY <1>0, <1>1 DEF None
  <2>8. \A r : ToSend(Waiting, r) => r \notin queueBorn'
    BY <1>1, <2>1 DEF PlacesInv, PlaceInv
  <2>9. PlaceInv'
    BY <1>0, <1>1, <2>1, <2>2, <2>6, <2>7, <2>8 DEF PlacesInv, PlaceInv
  <2>10. BornInOrder(sent', queueBorn')
    <3>1. \A i \in 1 .. Len(sent) : sent[i] \in queueBorn' => sent[i] \in queueBorn
      BY <1>1, <2>1 DEF InSeq
    <3> QED BY <1>0, <3>1 DEF PlacesInv, QueueInv, BornInOrder
  <2>11. \A r, t : InSeq(sent', r) /\ r \in queueBorn' /\ InSeq(requests', t) => r < t
    <3>1. \A r : InSeq(sent', r) /\ r \in queueBorn' => InSeq(sent, r) /\ r \in queueBorn
      BY <1>0, <1>1, <2>1
    <3> QED BY <2>5, <2>6, <3>1 DEF PlacesInv, QueueInv
  <2>12. QueueInv'
    BY <2>10, <2>11 DEF QueueInv
  <2> QED BY <2>9, <2>12 DEF PlacesInv
<1> QED BY <1>2, <1>3

LEMMA PlacesOfSend ==
    ASSUME Types, PlacesInv, RunSend
    PROVE  PlacesInv'
<1>0. /\ Run("send") /\ q' = q /\ ClientTypes /\ made \in Nat /\ sent \in Seq(Nat)
      /\ UNCHANGED <<requests, made, lock, queueBorn>>
  BY DEF RunSend, Types, HttpTypes
<1>1. PICK f : f = Head(batch)
  OBVIOUS
<1>2. Popped(Waiting, f, Waiting') /\ f.op = "send"
  BY <1>0, <1>1, RunPops
<1>3. SendsKept
  BY <1>2, PoppedSends
<1>4. ToSend(Waiting, f.r) /\ ~ToSend(Waiting', f.r)
  BY <1>2 DEF Popped, PlacesInv, PlaceInv
<1>5. /\ f.r \in Nat /\ f.r # None /\ f.r <= made /\ f.r \notin queueBorn /\ ~InSeq(sent, f.r)
      /\ lock # f.r
  BY <1>4, RequestsTyped DEF PlacesInv, PlaceInv, None
<1>6. sent' = sent \/ sent' = Append(sent, f.r)
  BY <1>1 DEF RunSend, Write
<1>7. CASE sent' = sent
  BY <1>0, <1>3, <1>7, PlacesKept
<1>8. CASE sent' = Append(sent, f.r)
  <2>1. Added(sent, f.r, sent')
    BY <1>0, <1>5, <1>8, AddRequest
  <2> QED BY <1>0, <1>3, <1>4, <1>5, <2>1, PlacesWritten
<1> QED BY <1>6, <1>7, <1>8

LEMMA PlacesOfMessage ==
    ASSUME Types, PlacesInv, NEW s \in Socks, OnMessage(s)
    PROVE  PlacesInv'
<1>0. /\ made \in Nat /\ sent \in Seq(Nat) /\ queueBorn \subseteq Nat
      /\ UNCHANGED <<requests, lock, queueBorn, q, batch>>
  BY DEF OnMessage, Types, HttpTypes
<1>1. Waiting' = Waiting /\ SendsKept
  BY <1>0, OthersKeep, SameSends
<1>2. \/ UNCHANGED <<made, sent>>
      \/ /\ lock = 0 /\ made' = made + 1
         /\ sent' = sent \/ sent' = Append(sent, made')
  BY DEF OnMessage, HandleResponse, SendRequest, Write
<1>3. CASE UNCHANGED <<made, sent>>
  BY <1>0, <1>1, <1>3, PlacesKept
<1>4. CASE lock = 0 /\ made' = made + 1
  <2>1. \A x \in Nat : x <= made => x <= made' /\ x # made'
    BY <1>0, <1>4
  <2>2. ~InSeq(sent, made') /\ ~ToSend(Waiting, made') /\ made' \notin queueBorn
    BY <1>0, <2>1, RequestsTyped DEF PlacesInv, PlaceInv
  <2>3. CASE sent' = sent
    <3>1. PlaceInv'
      BY <1>0, <1>1, <1>4, <2>1, <2>3, RequestsTyped DEF PlacesInv, PlaceInv
    <3>2. QueueInv'
      BY <1>0, <2>3 DEF PlacesInv, QueueInv
    <3> QED BY <3>1, <3>2 DEF PlacesInv
  <2>4. CASE sent' = Append(sent, made')
    <3>1. /\ made' \in Nat /\ made' # None /\ made' <= made' /\ made <= made' /\ lock # made'
      BY <1>0, <1>4 DEF None
    <3>2. Added(sent, made', sent')
      BY <1>0, <2>4, <3>1, AddRequest
    <3> QED BY <1>0, <1>1, <1>4, <2>2, <3>1, <3>2, PlacesWritten
  <2> QED BY <1>2, <2>3, <2>4, <1>0, <1>4
<1> QED BY <1>2, <1>3, <1>4

LEMMA PlacesStep ==
    ASSUME Types, PlacesInv, HttpNext
    PROVE  PlacesInv'
<1>0. ClientTypes
  BY DEF Types
<1>1. CASE TcpClientNext
  <2>1. UNCHANGED <<requests, sent, queueBorn, made, lock>>
    BY <1>1 DEF TcpClientNext, httpVars
  <2> QED BY <1>0, <1>1, <2>1, SendsOfTcp, PlacesKept DEF TcpClientNext
<1>2. CASE PlainNext
  <2>1. UNCHANGED <<requests, sent, queueBorn, made, lock>>
    BY <1>2 DEF PlainNext, httpVars
  <2>2. SendsKept
    BY <1>0, <1>2, SendsOfTcp, OthersKeep, SameSends
       DEF PlainNext, PlainConnect, UpDone, HandleClose
  <2> QED BY <2>1, <2>2, PlacesKept
<1>3. CASE HttpClientNext
  <2>1. CASE OnUp \/ MessageDone
    BY <2>1, PlacesNext DEF OnUp, UpDone, SendFirst, MessageDone
  <2>2. CASE OnUpCrossed \/ OnDown \/ \E s \in Socks : HttpClose(s)
    <3>1. UNCHANGED <<requests, sent, queueBorn, made, lock, q, batch>>
      BY <2>2 DEF OnUpCrossed, UpDone, OnDown, HttpClose, HandleClose, vars
    <3> QED BY <3>1, OthersKeep, SameSends, PlacesKept
  <2>3. CASE CloseDone
    <3>1. UNCHANGED <<requests, sent, queueBorn, made, lock>> /\ RemoveConnection
      BY <2>3 DEF CloseDone, httpVars
    <3> QED BY <1>0, <3>1, SendsOfTcp, PlacesKept
  <2> QED BY <1>3, <2>1, <2>2, <2>3, PlacesOfGet, PlacesOfPut, PlacesOfSend, PlacesOfMessage
          DEF HttpClientNext
<1> QED BY <1>1, <1>2, <1>3 DEF HttpNext

-----------------------------------------------------------------------------
(* The responses *)

InOrder(d, t, s) == TextInOrder(t, s) /\ GivenInOrder(d, t, s)

LEMMA OrderGrows ==
    ASSUME NEW s \in Seq(Nat), NEW r \in Nat, NEW u, u = Append(s, r)
    PROVE  /\ \A a : InSeq(s, a) => InSeq(u, a) /\ Precedes(u, a, r)
           /\ InSeq(u, r)
           /\ \A a, b : Precedes(s, a, b) => Precedes(u, a, b)
<1>1. /\ Len(s) \in Nat /\ Len(u) = Len(s) + 1 /\ u[Len(u)] = r
      /\ \A i \in 1 .. Len(s) : u[i] = s[i]
  OBVIOUS
<1>2. Len(u) \in 1 .. Len(u) /\ \A i \in 1 .. Len(s) : i \in 1 .. Len(u) /\ i < Len(u)
  BY <1>1
<1>3. \A a : InSeq(s, a) => InSeq(u, a)
  BY <1>1, <1>2 DEF InSeq
<1>4. \A a : InSeq(s, a) => Precedes(u, a, r)
  BY <1>1, <1>2 DEF InSeq, Precedes
<1>5. InSeq(u, r)
  BY <1>1, <1>2 DEF InSeq
<1>6. \A a, b : Precedes(s, a, b) => Precedes(u, a, b)
  BY <1>1, <1>2 DEF Precedes
<1> QED BY <1>3, <1>4, <1>5, <1>6

(* A request more that was written, whichever its connection *)
LEMMA InOrderGrows ==
    ASSUME NEW s \in Seq(Nat), NEW r \in Nat, NEW d, NEW t, InOrder(d, t, s),
           NEW u, u = Append(s, r)
    PROVE  InOrder(d, t, u)
<1>1. /\ \A a : InSeq(s, a) => InSeq(u, a)
      /\ \A a, b : Precedes(s, a, b) => Precedes(u, a, b)
  BY OrderGrows
<1>2. TextInOrder(t, u)
  BY <1>1 DEF InOrder, TextInOrder
<1>3. GivenInOrder(d, t, u)
  BY <1>1 DEF InOrder, GivenInOrder
<1> QED BY <1>2, <1>3 DEF InOrder

(* The text t is s with the response to a behind it. *)
Answered(s, a, t) ==
    /\ \A i \in 1 .. Len(s) : i \in 1 .. Len(t) /\ t[i] = s[i]
    /\ \A i \in 1 .. Len(t) : Answers(t, i) =>
          i \in 1 .. Len(s) \/ (i = Len(s) + 1 /\ t[i].of = a /\ a # None)
    /\ Len(s) \in Nat /\ Len(t) \in Nat

(* The text t is s with p behind it. *)
Joint(s, p, t) ==
    /\ t \in Seq(Tokens) /\ Len(t) = Len(s) + Len(p)
    /\ \A i \in 1 .. Len(s) + Len(p) : t[i] = IF i <= Len(s) THEN s[i] ELSE p[i - Len(s)]

LEMMA Joined ==
    ASSUME NEW s \in Seq(Tokens), NEW p \in Seq(Tokens), NEW t, t = s \o p
    PROVE  Joint(s, p, t)
BY DEF Joint

LEMMA JoinedTwice ==
    ASSUME NEW s \in Seq(Tokens), NEW t \in Seq(Tokens), NEW p \in Seq(Tokens)
    PROVE  s \o (t \o p) = (s \o t) \o p
BY ConcatAssociative

LEMMA AnswerText ==
    ASSUME NEW s \in Seq(Tokens), NEW a \in Nat, NEW t, t = s \o Response(a)
    PROVE  Answered(s, a, t)
<1>1. PICK p : p = Response(a)
  OBVIOUS
<1>2. p \in Seq(Tokens) /\ Len(p) = 6
  BY <1>1, ResponseTyped
<1>3. p[1] = Token("status", a) /\ \A i \in 2 .. 6 : p[i].kind # "status"
  <2>1. p = <<Token("status", a), Crlf, Token("header", a), Crlf, Crlf, Token("body", a)>>
    BY <1>1 DEF Response
  <2>2. /\ p[1] = Token("status", a) /\ p[2] = Crlf /\ p[3] = Token("header", a)
        /\ p[4] = Crlf /\ p[5] = Crlf /\ p[6] = Token("body", a)
    BY <2>1
  <2>3. /\ p[2].kind # "status" /\ p[3].kind # "status" /\ p[4].kind # "status"
        /\ p[5].kind # "status" /\ p[6].kind # "status"
    BY <2>2 DEF Token, Crlf
  <2>4. \A i \in 2 .. 6 : i = 2 \/ i = 3 \/ i = 4 \/ i = 5 \/ i = 6
    OBVIOUS
  <2> QED BY <2>2, <2>3, <2>4
<1>4. /\ Len(s) \in Nat /\ Len(t) = Len(s) + 6
      /\ \A i \in 1 .. Len(t) : t[i] = IF i <= Len(s) THEN s[i] ELSE p[i - Len(s)]
  <2>1. t = s \o p
    BY <1>1
  <2>2. /\ Len(t) = Len(s) + Len(p)
        /\ \A i \in 1 .. Len(s) + Len(p) : t[i] = IF i <= Len(s) THEN s[i] ELSE p[i - Len(s)]
    <3>1. Joint(s, p, t)
      BY <1>2, <2>1, Joined
    <3> QED BY <3>1 DEF Joint
  <2> QED BY <1>2, <2>2
<1>5. \A i \in 1 .. Len(s) : i \in 1 .. Len(t) /\ t[i] = s[i]
  BY <1>4
<1>6. ASSUME NEW i \in 1 .. Len(t), Answers(t, i), i \notin 1 .. Len(s)
      PROVE  i = Len(s) + 1 /\ t[i].of = a /\ a # None
  <2>1. t[i] = p[i - Len(s)] /\ i - Len(s) \in 1 .. 6
    BY <1>4, <1>6
  <2>2. t[i].kind = "status" /\ t[i].of # None
    BY <1>6 DEF Answers
  <2>3. i - Len(s) = 1
    <3>1. i - Len(s) = 1 \/ i - Len(s) \in 2 .. 6
      BY <1>4, <2>1
    <3>2. p[i - Len(s)].kind = "status"
      BY <2>1, <2>2
    <3> QED BY <1>3, <3>1, <3>2
  <2> QED BY <1>3, <1>4, <2>1, <2>2, <2>3 DEF Token
<1> QED BY <1>4, <1>5, <1>6 DEF Answered

(* The response is behind the others: its request is the last that was     *)
(* written.                                                                *)
LEMMA InOrderWritten ==
    ASSUME NEW s \in Seq(Nat), NEW a \in Nat, NEW d \in Seq(Nat), NEW t, InOrder(d, t, s),
           NEW u, Answered(t, a, u), NEW w, w = s \/ w = Append(s, a),
           a # None => w = Append(s, a)
    PROVE  InOrder(d, u, w)
<1>1. InOrder(d, t, w)
  BY InOrderGrows
<1>2. \A i \in 1 .. Len(t) : i \in 1 .. Len(u) /\ u[i] = t[i] /\ (Answers(u, i) => Answers(t, i))
  BY DEF Answered, Answers
<1>3. \A i \in 1 .. Len(u) : Answers(u, i) =>
          i \in 1 .. Len(t) \/ (i = Len(t) + 1 /\ u[i].of = a /\ a # None)
  BY DEF Answered
<1>4. a # None => InSeq(w, a) /\ \A b : InSeq(s, b) => Precedes(w, b, a)
  BY OrderGrows
<1>5. \A i \in 1 .. Len(u) : Answers(u, i) => InSeq(w, u[i].of)
  BY <1>1, <1>2, <1>3, <1>4 DEF InOrder, TextInOrder
<1>6. ASSUME NEW i \in 1 .. Len(u), NEW j \in 1 .. Len(u), i < j, Answers(u, i), Answers(u, j)
      PROVE  Precedes(w, u[i].of, u[j].of)
  <2>0. Len(t) \in Nat /\ Len(u) \in Nat
    BY DEF Answered
  <2>1. i \in 1 .. Len(t)
    BY <1>3, <1>6, <2>0
  <2>2. u[i] = t[i] /\ Answers(t, i)
    BY <1>2, <1>6, <2>1
  <2>3. CASE j \in 1 .. Len(t)
    BY <1>1, <1>2, <1>6, <2>1, <2>2, <2>3 DEF InOrder, TextInOrder
  <2>4. CASE u[j].of = a /\ a # None
    <3>1. InSeq(s, t[i].of)
      BY <2>1, <2>2 DEF InOrder, TextInOrder
    <3> QED BY <1>4, <2>2, <2>4, <3>1
  <2> QED BY <1>3, <1>6, <2>3, <2>4
<1>7. TextInOrder(u, w)
  BY <1>5, <1>6 DEF TextInOrder
<1>8. ASSUME NEW i \in 1 .. Len(d), NEW j \in 1 .. Len(u), d[i] # None, Answers(u, j)
      PROVE  Precedes(w, d[i], u[j].of)
  <2>1. CASE j \in 1 .. Len(t)
    BY <1>1, <1>2, <1>8, <2>1 DEF InOrder, GivenInOrder
  <2>2. CASE u[j].of = a /\ a # None
    <3>1. InSeq(s, d[i])
      BY <1>8 DEF InOrder, GivenInOrder
    <3> QED BY <1>4, <2>2, <3>1
  <2> QED BY <1>3, <1>8, <2>1, <2>2
<1>9. GivenInOrder(d, u, w)
  BY <1>1, <1>8 DEF InOrder, GivenInOrder
<1> QED BY <1>7, <1>9 DEF InOrder

(* A response is left behind, *)
LEMMA InOrderDropped ==
    ASSUME NEW s, NEW d, NEW t, InOrder(d, t, s), NEW n \in Nat, NEW u, Suffix(t, n, u),
           Len(t) \in Nat
    PROVE  InOrder(d, u, s)
<1>1. \A i \in 1 .. Len(u) : /\ i + n \in 1 .. Len(t) /\ u[i] = t[i + n]
                             /\ Answers(u, i) => Answers(t, i + n)
  BY DEF Suffix, Answers
<1>2. \A i, j \in 1 .. Len(u) : i < j => i + n < j + n
  BY DEF Suffix
<1>3. TextInOrder(u, s)
  <2>1. \A i \in 1 .. Len(u) : Answers(u, i) => InSeq(s, u[i].of)
    BY <1>1 DEF InOrder, TextInOrder
  <2>2. ASSUME NEW i \in 1 .. Len(u), NEW j \in 1 .. Len(u), i < j, Answers(u, i), Answers(u, j)
        PROVE  Precedes(s, u[i].of, u[j].of)
    <3>1. Precedes(s, t[i + n].of, t[j + n].of)
      BY <1>1, <1>2, <2>2 DEF InOrder, TextInOrder
    <3> QED BY <1>1, <3>1
  <2> QED BY <2>1, <2>2 DEF TextInOrder
<1>4. GivenInOrder(d, u, s)
  BY <1>1 DEF InOrder, GivenInOrder
<1> QED BY <1>3, <1>4 DEF InOrder

(* or given to the callback. *)
LEMMA InOrderGiven ==
    ASSUME NEW s, NEW d \in Seq(Nat), NEW t, InOrder(d, t, s), NEW n \in Nat, n >= 1, NEW u,
           Suffix(t, n, u), Len(t) \in Nat, t[1].kind = "status", NEW a \in Nat, a = t[1].of,
           NEW e, e = Append(d, a)
    PROVE  InOrder(e, u, s)
<1>1. InOrder(d, u, s)
  BY InOrderDropped
<1>2. \A i \in 1 .. Len(u) : /\ i + n \in 1 .. Len(t) /\ u[i] = t[i + n] /\ 1 < i + n
                             /\ Answers(u, i) => Answers(t, i + n)
  BY DEF Suffix, Answers
<1>3. 1 \in 1 .. Len(t)
  BY DEF Suffix
<1>4. a # None => Answers(t, 1)
  BY DEF Answers
<1>5. a # None => /\ InSeq(s, a)
                  /\ \A i \in 1 .. Len(d) : d[i] # None => Precedes(s, d[i], a)
  BY <1>3, <1>4 DEF InOrder, TextInOrder, GivenInOrder
<1>6. a # None => \A i \in 1 .. Len(u) : Answers(u, i) => Precedes(s, a, u[i].of)
  <2> SUFFICES ASSUME a # None, NEW i \in 1 .. Len(u), Answers(u, i)
               PROVE  Precedes(s, a, u[i].of)
    OBVIOUS
  <2>1. Precedes(s, t[1].of, t[i + n].of)
    BY <1>2, <1>3, <1>4 DEF InOrder, TextInOrder
  <2> QED BY <1>2, <2>1
<1>7. /\ Len(d) \in Nat /\ Len(e) = Len(d) + 1 /\ e[Len(e)] = a
      /\ \A i \in 1 .. Len(d) : e[i] = d[i]
  OBVIOUS
<1>8. \A i \in 1 .. Len(e) : i \in 1 .. Len(d) \/ i = Len(e)
  BY <1>7
<1>9. \A i \in 1 .. Len(e) : e[i] # None => InSeq(s, e[i])
  BY <1>1, <1>5, <1>7, <1>8 DEF InOrder, GivenInOrder
<1>10. ASSUME NEW i \in 1 .. Len(e), NEW j \in 1 .. Len(e), i < j, e[i] # None, e[j] # None
       PROVE  Precedes(s, e[i], e[j])
  <2>1. i \in 1 .. Len(d)
    BY <1>7, <1>10
  <2>2. CASE j \in 1 .. Len(d)
    BY <1>1, <1>7, <1>10, <2>1, <2>2 DEF InOrder, GivenInOrder
  <2>3. CASE j = Len(e)
    BY <1>5, <1>7, <1>10, <2>1, <2>3
  <2> QED BY <1>8, <2>2, <2>3
<1>11. ASSUME NEW i \in 1 .. Len(e), NEW j \in 1 .. Len(u), e[i] # None, Answers(u, j)
       PROVE  Precedes(s, e[i], u[j].of)
  <2>1. CASE i \in 1 .. Len(d)
    BY <1>1, <1>7, <1>11, <2>1 DEF InOrder, GivenInOrder
  <2>2. CASE i = Len(e)
    BY <1>6, <1>7, <1>11, <2>2
  <2> QED BY <1>8, <2>1, <2>2
<1>12. GivenInOrder(e, u, s)
  BY <1>9, <1>10, <1>11 DEF GivenInOrder
<1> QED BY <1>1, <1>12 DEF InOrder

(* A request is written, b and d being what was read and answered so far. *)
LEMMA ResponsesWritten ==
    ASSUME NEW b \in [Socks -> Seq(Tokens)], NEW base \in [Socks -> Seq(Tokens)],
           NEW d \in [Socks -> Seq(Nat)], sent \in Seq(Nat),
           \A s \in Socks : InOrder(d[s], b[s] \o base[s], sent),
           NEW c, NEW r \in Nat, NEW a \in {r, None}, Write(c, r, a, base)
    PROVE  \A s \in Socks : InOrder(d[s], b[s] \o net'[s], sent')
<1>1. /\ a \in Nat /\ net' = [base EXCEPT ![c] = @ \o Response(a)]
      /\ sent' = IF a = r THEN Append(sent, r) ELSE sent
  BY DEF Write, None
<1>2. (sent' = sent \/ sent' = Append(sent, a)) /\ (a # None => sent' = Append(sent, a))
  BY <1>1
<1>3. ASSUME NEW s \in Socks
      PROVE  InOrder(d[s], b[s] \o net'[s], sent')
  <2>1. InOrder(d[s], b[s] \o base[s], sent)
    OBVIOUS
  <2>2. CASE s # c
    <3>1. net'[s] = base[s]
      BY <1>1, <2>2
    <3>2. sent' = sent \/ sent' = Append(sent, r)
      BY <1>1
    <3> QED BY <2>1, <3>1, <3>2, InOrderGrows
  <2>3. CASE s = c
    <3>1. net'[s] = base[s] \o Response(a)
      BY <1>1, <2>3
    <3>2. PICK p : p = Response(a)
      OBVIOUS
    <3>3. b[s] \in Seq(Tokens) /\ base[s] \in Seq(Tokens) /\ p \in Seq(Tokens)
      BY <1>1, <3>2, ResponseTyped
    <3>4. b[s] \o (base[s] \o p) = (b[s] \o base[s]) \o p
      BY <3>3, JoinedTwice
    <3>5. b[s] \o base[s] \in Seq(Tokens)
      BY <3>3
    <3>6. Answered(b[s] \o base[s], a, b[s] \o net'[s])
      BY <1>1, <3>1, <3>2, <3>4, <3>5, AnswerText
    <3>7. d[s] \in Seq(Nat)
      OBVIOUS
    <3> QED BY <1>1, <1>2, <2>1, <3>6, <3>7, InOrderWritten
  <2> QED BY <2>2, <2>3
<1> QED BY <1>3

LEMMA ResponsesOfRequest ==
    ASSUME NEW b \in [Socks -> Seq(Tokens)], NEW base \in [Socks -> Seq(Tokens)],
           NEW d \in [Socks -> Seq(Nat)], sent \in Seq(Nat),
           \A s \in Socks : InOrder(d[s], b[s] \o base[s], sent),
           NEW r \in Nat, SendRequest(r, base)
    PROVE  \A s \in Socks : InOrder(d[s], b[s] \o net'[s], sent')
<1>1. CASE Usable(connection)
  <2>1. Write(connection, r, r, base)
    BY <1>1 DEF SendRequest
  <2> QED BY <2>1, ResponsesWritten
<1>2. CASE ~Usable(connection)
  BY <1>2 DEF SendRequest
<1> QED BY <1>1, <1>2

LEMMA ResponsesOfNext ==
    ASSUME Types, ResponseInv, SendNext, UNCHANGED <<buf, delivered>>
    PROVE  ResponseInv'
<1>0. /\ requests \in Seq(Nat) /\ net \in [Socks -> Seq(Tokens)] /\ sent \in Seq(Nat)
      /\ buf \in [Socks -> Seq(Tokens)] /\ delivered \in [Socks -> Seq(Nat)]
  BY DEF Types, HttpTypes
<1>1. \A s \in Socks : InOrder(delivered[s], buf[s] \o net[s], sent)
  BY DEF ResponseInv, InOrder, Text
<1>2. CASE requests = << >>
  BY <1>2 DEF SendNext, ResponseInv, Text
<1>3. CASE requests # << >>
  <2>1. PICK r \in Nat : r = Head(requests)
    BY <1>0, <1>3
  <2>2. SendRequest(r, net)
    BY <1>3, <2>1 DEF SendNext
  <2>3. \A s \in Socks : InOrder(delivered[s], buf[s] \o net'[s], sent')
    BY <1>0, <1>1, <2>2, ResponsesOfRequest
  <2> QED BY <2>3 DEF ResponseInv, InOrder, Text
<1> QED BY <1>2, <1>3

LEMMA ResponsesOfSend ==
    ASSUME Types, ResponseInv, RunSend
    PROVE  ResponseInv'
<1>0. /\ net \in [Socks -> Seq(Tokens)] /\ sent \in Seq(Nat)
      /\ buf \in [Socks -> Seq(Tokens)] /\ delivered \in [Socks -> Seq(Nat)]
      /\ UNCHANGED <<buf, delivered>>
  BY DEF Types, HttpTypes, RunSend
<1>1. \A s \in Socks : InOrder(delivered[s], buf[s] \o net[s], sent)
  BY DEF ResponseInv, InOrder, Text
<1>2. CASE UNCHANGED <<sent, net>>
  BY <1>0, <1>2 DEF ResponseInv, Text
<1>3. ASSUME NEW a \in {Head(batch).r, None}, Write(Head(batch).s, Head(batch).r, a, net)
      PROVE  ResponseInv'
  <2>1. batch \in Seq(Functors) /\ batch # << >> /\ Head(batch).op = "send"
    BY DEF RunSend, Run, Types, ClientTypes
  <2>2. Head(batch) \in Functors
    BY <2>1
  <2>3. PICK r \in Nat : r = Head(batch).r
    BY <2>1, <2>2 DEF Functors
  <2>4. \A s \in Socks : InOrder(delivered[s], buf[s] \o net'[s], sent')
    BY <1>0, <1>1, <1>3, <2>3, ResponsesWritten
  <2> QED BY <1>0, <2>4 DEF ResponseInv, InOrder, Text
<1> QED BY <1>2, <1>3 DEF RunSend

LEMMA ResponsesOfMessage ==
    ASSUME Types, ResponseInv, NEW s \in Socks, OnMessage(s)
    PROVE  ResponseInv'
<1>0. /\ net \in [Socks -> Seq(Tokens)] /\ sent \in Seq(Nat) /\ made \in Nat
      /\ buf \in [Socks -> Seq(Tokens)] /\ delivered \in [Socks -> Seq(Nat)]
  BY DEF Types, HttpTypes
<1>1. \A x \in Socks : InOrder(delivered[x], buf[x] \o net[x], sent)
  BY DEF ResponseInv, InOrder, Text
<1>2. PICK k \in 1 .. Len(net[s]) :
          HandleResponse(s, buf[s] \o SubSeq(net[s], 1, k), [net EXCEPT ![s] = After(@, k)])
  BY DEF OnMessage
<1>3. PICK text : text = buf[s] \o SubSeq(net[s], 1, k)
  OBVIOUS
<1>4. PICK unread : unread = [net EXCEPT ![s] = After(@, k)]
  OBVIOUS
<1>5. PICK parsed : parsed = ParseResponse(text)
  OBVIOUS
<1>6. /\ buf' = [buf EXCEPT ![s] = parsed.rest]
      /\ delivered' = IF parsed.gotAll THEN [delivered EXCEPT ![s] = Append(@, text[1].of)]
                                       ELSE delivered
      /\ \/ net' = unread /\ UNCHANGED <<made, sent>>
         \/ made' = made + 1 /\ SendRequest(made', unread)
  BY <1>2, <1>3, <1>4, <1>5 DEF HandleResponse
<1>7. buf[s] \in Seq(Tokens) /\ net[s] \in Seq(Tokens) /\ delivered[s] \in Seq(Nat)
  BY <1>0
<1>8. PICK m : m = After(net[s], k)
  OBVIOUS
<1>9. PICK t : t = buf[s] \o net[s]
  OBVIOUS
<1>10. ReadOf(t, text, parsed, m)
  BY <1>3, <1>5, <1>7, <1>8, <1>9, ReadDrops
<1>11. PICK n \in Nat :
            /\ Suffix(t, n, parsed.rest \o m)
            /\ parsed.gotAll => n >= 1 /\ text[1] = t[1] /\ text[1].kind = "status"
  BY <1>10 DEF ReadOf
<1>12. Len(t) \in Nat /\ InOrder(delivered[s], t, sent)
  <2>1. t \in Seq(Tokens)
    BY <1>7, <1>9, Joined DEF Joint
  <2>2. Len(t) \in Nat
    BY <2>1
  <2> QED BY <1>1, <1>9, <2>2
<1>13. InOrder(delivered'[s], parsed.rest \o m, sent)
  <2>1. CASE ~parsed.gotAll
    <3>1. delivered'[s] = delivered[s]
      BY <1>6, <2>1
    <3> QED BY <1>11, <1>12, <3>1, InOrderDropped
  <2>2. CASE parsed.gotAll
    <3>1. PICK a \in Nat : a = text[1].of
      BY <1>10, <2>2 DEF ReadOf
    <3>2. delivered'[s] = Append(delivered[s], a)
      BY <1>0, <1>6, <2>2, <3>1
    <3>3. Suffix(t, n, parsed.rest \o m) /\ n >= 1 /\ t[1].kind = "status" /\ a = t[1].of
      BY <1>11, <2>2, <3>1
    <3> QED BY <1>7, <1>12, <3>2, <3>3, InOrderGiven
  <2> QED BY <2>1, <2>2
<1>14. /\ buf'[s] = parsed.rest /\ unread[s] = m
       /\ \A x \in Socks \ {s} : buf'[x] = buf[x] /\ unread[x] = net[x] /\ delivered'[x] = delivered[x]
  BY <1>0, <1>4, <1>6, <1>8
<1>15. /\ buf' \in [Socks -> Seq(Tokens)] /\ unread \in [Socks -> Seq(Tokens)]
       /\ delivered' \in [Socks -> Seq(Nat)]
  <2>1. buf' \in [Socks -> Seq(Tokens)] /\ delivered' \in [Socks -> Seq(Nat)]
    BY <1>2, MessageTyped
  <2>2. m \in Seq(Tokens)
    BY <1>10 DEF ReadOf
  <2> QED BY <1>0, <1>4, <1>8, <2>1, <2>2
<1>16. \A x \in Socks : InOrder(delivered'[x], buf'[x] \o unread[x], sent)
  BY <1>1, <1>13, <1>14
<1>17. CASE net' = unread /\ UNCHANGED <<made, sent>>
  BY <1>16, <1>17 DEF ResponseInv, InOrder, Text
<1>18. CASE made' = made + 1 /\ SendRequest(made', unread)
  <2>1. made' \in Nat
    BY <1>0, <1>18
  <2>2. \A x \in Socks : InOrder(delivered'[x], buf'[x] \o net'[x], sent')
    BY <1>0, <1>15, <1>16, <1>18, <2>1, ResponsesOfRequest
  <2> QED BY <2>2 DEF ResponseInv, InOrder, Text
<1> QED BY <1>6, <1>17, <1>18

LEMMA ResponseStep ==
    ASSUME Types, ResponseInv, HttpNext
    PROVE  ResponseInv'
<1>1. CASE UNCHANGED <<buf, net, delivered, sent>>
  BY <1>1 DEF ResponseInv, Text
<1>2. CASE TcpClientNext \/ PlainNext
  BY <1>1, <1>2 DEF TcpClientNext, PlainNext, httpVars
<1>3. CASE HttpClientNext
  <2>1. CASE OnUp \/ MessageDone
    BY <2>1, ResponsesOfNext DEF OnUp, SendFirst, MessageDone
  <2>2. CASE Get \/ GetPut \/ OnUpCrossed \/ OnDown \/ CloseDone
    BY <1>1, <2>2 DEF Get, GetPut, OnUpCrossed, OnDown, CloseDone, httpVars
  <2>3. CASE \E s \in Socks : HttpClose(s)
    BY <1>1, <2>3 DEF HttpClose
  <2> QED BY <1>3, <2>1, <2>2, <2>3, ResponsesOfSend, ResponsesOfMessage DEF HttpClientNext
<1> QED BY <1>2, <1>3 DEF HttpNext

-----------------------------------------------------------------------------
(* requests_ is served. *)

LEMMA UpKept ==
    ASSUME ClientTypes, NEW s, NEW l, l # "up", life' = [life EXCEPT ![s] = l]
    PROVE  \A x \in Socks : life'[x] = "up" => life[x] = "up"
BY DEF ClientTypes

LEMMA UpShut ==
    ASSUME ClientTypes, NEW s, Shutdown(s)
    PROVE  \A x \in Socks : life'[x] = "up" => life[x] = "up"
<1>1. life' = life \/ life' = [life EXCEPT ![s] = "shut"]
  BY DEF Shutdown
<1> QED BY <1>1, UpKept

(* The steps that leave requests_ alone and bring no connection *)
LEMMA ServedKept ==
    ASSUME Types, ServedInv, UNCHANGED <<requests, retry>>, retry => lock' = lock,
           connected' => connected, connection' \in {connection, None},
           \A x \in Socks : life'[x] = "up" => life[x] = "up",
           \A x \in Socks : net[x] # << >> => net'[x] # << >>,
           phase \in {"up", "message"} => phase' = phase \/ retry
    PROVE  ServedInv'
<1>1. retry' => requests' = << >> /\ lock' = 0
  BY DEF ServedInv
<1>2. ASSUME connected', Usable(connection)', requests' # << >>, phase' \notin {"up", "message"}
      PROVE  net'[connection'] # << >>
  <2>1. connection' = connection /\ connection \in Socks /\ life'[connection] = "up"
    BY <1>2 DEF Usable, Types, ClientTypes, Places, None
  <2>2. ~retry /\ phase \notin {"up", "message"}
    BY <1>1, <1>2
  <2>3. Usable(connection) /\ connected /\ requests # << >>
    BY <1>2, <2>1 DEF Usable, None, Socks
  <2> QED BY <2>1, <2>2, <2>3 DEF ServedInv, QueueServed
<1> QED BY <1>1, <1>2 DEF ServedInv, QueueServed

LEMMA ServedOfTcp ==
    ASSUME Types, ServedInv, TcpClientNext
    PROVE  ServedInv'
<1>0. ClientTypes /\ UNCHANGED <<requests, lock, connected, net>>
  BY DEF Types, TcpClientNext, httpVars
<1> USE DEF loopSide, callerSide
<1>1. CASE ConnectFails
  <2>1. PICK l : l # "up" /\ life' = [life EXCEPT ![channel] = l]
    <3>1. Retry(channel, "handled")
      BY <1>1 DEF ConnectFails
    <3>2. CASE connect'
      BY <3>1, <3>2 DEF Retry
    <3>3. CASE ~connect'
      BY <3>1, <3>3 DEF Retry
    <3> QED BY <3>2, <3>3
  <2>2. connection' = connection /\ phase = "poll" /\ retry' = retry
    BY <1>1 DEF ConnectFails
  <2> QED BY <1>0, <2>1, <2>2, UpKept, ServedKept
<1>2. CASE HandleWrite
  <2>1. phase = "poll" /\ retry' = retry
    BY <1>2 DEF HandleWrite
  <2>2. CASE connect
    <3>1. phase' = "up"
      BY <1>2, <2>2 DEF HandleWrite, NewConnection
    <3> QED BY <1>0, <2>1, <3>1 DEF ServedInv, QueueServed
  <2>3. CASE ~connect
    <3>1. life' = [life EXCEPT ![channel] = "closed"] /\ connection' = connection
      BY <1>2, <2>3 DEF HandleWrite
    <3> QED BY <1>0, <2>1, <3>1, UpKept, ServedKept
  <2> QED BY <2>2, <2>3
<1>3. ASSUME NEW then, StartInLoop(then)
      PROVE  \A x \in Socks : life'[x] = "up" => life[x] = "up"
  <2>1. life' = life \/ \E l : l # "up" /\ life' = [life EXCEPT ![attempts'] = l]
    <3>1. CASE connect'
      BY <1>3, <3>1 DEF StartInLoop, DoConnect, Connecting, Retry
    <3>2. CASE ~connect'
      BY <1>3, <3>2 DEF StartInLoop
    <3> QED BY <3>1, <3>2
  <2> QED BY <1>0, <2>1, UpKept
<1>4. CASE Restart
  <2>1. StartInLoop("handled") /\ phase = "restart" /\ UNCHANGED <<connection, retry>>
    BY <1>4 DEF Restart
  <2> QED BY <1>0, <1>3, <2>1, ServedKept
<1>5. CASE RunStart
  <2>1. StartInLoop("functors") /\ phase = "functors" /\ UNCHANGED <<connection, retry>>
    BY <1>5 DEF RunStart, Run
  <2> QED BY <1>0, <1>3, <2>1, ServedKept
<1>6. CASE BeginFunctors \/ EndFunctors \/ ResetChannel
  <2>1. /\ phase \notin {"up", "message"} /\ UNCHANGED <<connection, retry, life>>
    BY <1>6 DEF BeginFunctors, EndFunctors, ResetChannel, Run
  <2> QED BY <1>0, <2>1, ServedKept
<1>7. CASE StopInLoop
  <2>1. phase = "functors" /\ UNCHANGED <<connection, retry>>
    BY <1>7 DEF StopInLoop, Run
  <2>2. life' = life \/ \E l : l # "up" /\ life' = [life EXCEPT ![channel] = l]
    <3>1. life' = life \/ Retry(channel, "functors")
      BY <1>7 DEF StopInLoop
    <3> QED BY <3>1 DEF Retry
  <2>3. \A x \in Socks : life'[x] = "up" => life[x] = "up"
    BY <1>0, <2>2, UpKept
  <2> QED BY <1>0, <2>1, <2>3, ServedKept
<1>8. CASE ConnectDestroyed
  <2>1. /\ phase = "functors" /\ UNCHANGED <<connection, retry>>
        /\ life' = [life EXCEPT ![Head(batch).s] = "destroyed"]
    BY <1>8 DEF ConnectDestroyed, Run
  <2> QED BY <1>0, <2>1, UpKept, ServedKept
<1>9. CASE Disconnect
  <2>1. UNCHANGED <<connection, retry, phase>> /\ Shutdown(connection)
    BY <1>9 DEF Disconnect
  <2> QED BY <1>0, <2>1, UpShut, ServedKept
<1>10. CASE Stop \/ ConnectorStop \/ QueueStop
  <2>1. UNCHANGED <<connection, retry, phase, life>>
    BY <1>10 DEF Stop, ConnectorStop, QueueStop
  <2> QED BY <1>0, <2>1, ServedKept
<1> QED BY <1>1, <1>2, <1>4, <1>5, <1>6, <1>7, <1>8, <1>9, <1>10
        DEF TcpClientNext, Attempt, LoopNext, CallerNext

LEMMA ServedNext ==
    ASSUME Types, ServedInv, ~retry, SendNext, UNCHANGED <<retry, connection, life>>
    PROVE  ServedInv'
<1>0. net \in [Socks -> Seq(Tokens)] /\ connection \in Places
  BY DEF Types, ClientTypes, HttpTypes
<1>1. CASE requests = << >>
  BY <1>1 DEF SendNext, ServedInv, QueueServed
<1>2. CASE requests # << >>
  <2>1. SendRequest(Head(requests), net)
    BY <1>2 DEF SendNext
  <2>2. ASSUME Usable(connection)
        PROVE  net'[connection] # << >>
    <3>1. connection \in Socks
      BY <1>0, <2>2 DEF Usable, Places
    <3>2. PICK r : r = Head(requests)
      OBVIOUS
    <3>3. net'[connection] = net[connection] \o Response(r)
      BY <1>0, <2>1, <2>2, <3>1, <3>2 DEF SendRequest, Write
    <3>4. r \in Nat
      BY <1>2, <3>2 DEF Types, HttpTypes
    <3>5. PICK p : p = Response(r)
      OBVIOUS
    <3>6. p \in Seq(Tokens) /\ Len(p) = 6 /\ net[connection] \in Seq(Tokens)
      BY <1>0, <3>1, <3>4, <3>5, ResponseTyped
    <3>7. PICK n \in Seq(Tokens) : n = net[connection]
      BY <3>6
    <3>8. Len(n \o p) = Len(n) + Len(p)
      BY <3>6, <3>7, Joined DEF Joint
    <3>9. Len(n \o p) # 0
      BY <3>6, <3>7, <3>8
    <3>10. net'[connection] = n \o p
      BY <3>3, <3>5, <3>7
    <3> QED BY <3>9, <3>10
  <2>3. Usable(connection)' => Usable(connection)
    BY DEF Usable
  <2> QED BY <2>2, <2>3 DEF ServedInv, QueueServed
<1> QED BY <1>1, <1>2

LEMMA ServedOfHttp ==
    ASSUME Types, ServedInv, HttpClientNext
    PROVE  ServedInv'
<1>0. ClientTypes /\ HttpTypes /\ ~retry
  BY DEF Types, HttpClientNext
<1> USE DEF loopSide, callerSide
<1>1. CASE Get
  <2>1. UNCHANGED <<requests, retry, connected, connection, life, net, phase>>
    BY <1>1 DEF Get, Connect
  <2> QED BY <1>0, <2>1, ServedKept
<1>2. CASE GetPut
  <2>1. UNCHANGED <<retry, connected, connection, life, net, phase>>
    BY <1>2 DEF GetPut
  <2>2. CASE connected
    <3>1. requests' = requests
      BY <1>2, <2>2 DEF GetPut
    <3> QED BY <1>0, <2>1, <3>1, ServedKept
  <2>3. CASE ~connected
    BY <1>0, <2>1, <2>3 DEF ServedInv, QueueServed
  <2> QED BY <2>2, <2>3
<1>3. CASE RunSend
  <2>1. UNCHANGED <<requests, retry, connected, connection, life, phase>>
    BY <1>3 DEF RunSend, Run
  <2>2. net \in [Socks -> Seq(Tokens)]
    BY <1>0 DEF HttpTypes
  <2>3. ASSUME NEW x \in Socks, net[x] # << >>
        PROVE  net'[x] # << >>
    <3>1. net' = net \/ \E a \in {Head(batch).r, None} :
                             net' = [net EXCEPT ![Head(batch).s] = @ \o Response(a)]
      BY <1>3 DEF RunSend, Write
    <3>2. Head(batch) \in Functors /\ Head(batch).op = "send"
      BY <1>0, <1>3 DEF RunSend, Run, ClientTypes
    <3>3. Head(batch).r \in Nat
      BY <3>2 DEF Functors
    <3>4. net'[x] = net[x] \/ \E p \in Seq(Tokens) : net'[x] = net[x] \o p
      BY <2>2, <3>1, <3>3, ResponseTyped DEF None
    <3>5. net[x] \in Seq(Tokens)
      BY <2>2
    <3>6. \A p \in Seq(Tokens) : net[x] \o p # << >>
      BY <2>3, <3>5
    <3> QED BY <2>3, <3>4, <3>6
  <2> QED BY <1>0, <2>1, <2>3, ServedKept
<1>4. CASE OnUp \/ MessageDone
  <2>1. SendNext /\ UNCHANGED <<retry, connection, life>>
    BY <1>4 DEF OnUp, UpDone, SendFirst, MessageDone
  <2> QED BY <1>0, <2>1, ServedNext
<1>5. CASE OnUpCrossed
  <2>1. connected' = FALSE /\ retry' = retry
    BY <1>5 DEF OnUpCrossed, UpDone
  <2> QED BY <1>0, <2>1 DEF ServedInv, QueueServed
<1>6. CASE OnDown
  <2>1. UNCHANGED <<requests, retry, connection, life, net, phase>> /\ (connected' => connected)
    BY <1>6 DEF OnDown, vars
  <2> QED BY <1>0, <2>1, ServedKept
<1>7. CASE CloseDone
  <2>1. connection' = None /\ retry' = retry
    BY <1>7 DEF CloseDone, RemoveConnection
  <2> QED BY <1>0, <2>1 DEF ServedInv, QueueServed, Usable
<1>8. ASSUME NEW s \in Socks, HttpClose(s)
      PROVE  ServedInv'
  <2>1. /\ UNCHANGED <<requests, retry, connected, connection, net>> /\ phase = "poll"
        /\ life' = [life EXCEPT ![s] = "down"]
    BY <1>8 DEF HttpClose, HandleClose
  <2> QED BY <1>0, <2>1, UpKept, ServedKept
<1>9. ASSUME NEW s \in Socks, OnMessage(s)
      PROVE  ServedInv'
  <2>1. phase' = "message" /\ retry' = retry
    BY <1>9 DEF OnMessage
  <2> QED BY <1>0, <2>1 DEF ServedInv, QueueServed
<1> QED BY <1>1, <1>2, <1>3, <1>4, <1>5, <1>6, <1>7, <1>8, <1>9 DEF HttpClientNext

LEMMA ServedStep ==
    ASSUME Types, ServedInv, HttpNext
    PROVE  ServedInv'
<1>1. CASE PlainNext
  <2>1. retry' = retry /\ retry /\ UNCHANGED <<requests, lock>>
    BY <1>1 DEF PlainNext, PlainConnect, Connect, UpDone, RemoveConnection, HandleClose,
                loopSide, callerSide, httpVars
  <2> QED BY <2>1 DEF ServedInv, QueueServed
<1> QED BY <1>1, ServedOfTcp, ServedOfHttp DEF HttpNext

-----------------------------------------------------------------------------
(* The theorems *)

LEMMA InvInit ==
    ASSUME HttpInit
    PROVE  IInv
<1> USE DEF HttpInit, Init
<1>1. Types
  <2>1. ClientTypes
    <3>1. life \in [Socks -> Lives]
      BY DEF Lives
    <3>2. q \in Seq(Functors) /\ batch \in Seq(Functors) /\ registered \subseteq Socks
      OBVIOUS
    <3>3. /\ retry \in BOOLEAN /\ wanted \in BOOLEAN /\ connect \in BOOLEAN
          /\ stopped \in BOOLEAN
      OBVIOUS
    <3>4. channel \in Places /\ connection \in Places /\ current \in Places
      BY DEF Places
    <3>5. /\ state = "kDisconnected" /\ phase = "poll" /\ batch = << >> /\ attempts \in Nat
          /\ calls \in Nat /\ call = "none"
      OBVIOUS
    <3> QED BY <3>1, <3>2, <3>3, <3>4, <3>5 DEF ClientTypes
  <2>2. HttpTypes
    <3>1. /\ net \in [Socks -> Seq(Tokens)] /\ buf \in [Socks -> Seq(Tokens)]
          /\ delivered \in [Socks -> Seq(Nat)]
      OBVIOUS
    <3>2. requests \in Seq(Nat) /\ sent \in Seq(Nat) /\ made \in Nat /\ lock \in Nat
      OBVIOUS
    <3>3. /\ connected = FALSE /\ isConnecting = FALSE /\ crossed = FALSE
          /\ clearing = {} /\ queueBorn = {}
      OBVIOUS
    <3> QED BY <3>1, <3>2, <3>3 DEF HttpTypes
  <2> QED BY <2>1, <2>2 DEF Types
<1>2. Waiting = << >>
  BY DEF Waiting
<1>3. Len(Waiting) = 0
  BY <1>2
<1>4. StopInv
  BY DEF StopInv
<1>5. Live = {} /\ ~Has(Waiting, "startInLoop") /\ ~Has(q, "resetChannel")
  BY <1>3 DEF Live, Has
<1>6. ~Busy
  BY <1>5 DEF Busy
<1>7. Exclusive
  BY <1>3, <1>5 DEF Exclusive, OneStart, ResetsFirst
<1>8. AttemptInv
  BY <1>5, <1>6, <1>7 DEF AttemptInv, OneAtATime, ChannelInv, FlagsInv
<1>9. (\A r : ~InSeq(requests, r)) /\ (\A r : ~InSeq(sent, r)) /\ (\A r : ~ToSend(Waiting, r))
  BY <1>3 DEF InSeq, ToSend
<1>10. IsInjective(sent) /\ Increasing(requests) /\ SendsOnce(Waiting)
  BY <1>3 DEF IsInjective, Increasing, SendsOnce
<1>11. PlaceInv
  BY <1>9, <1>10 DEF PlaceInv
<1>12. QueueInv
  BY <1>9 DEF QueueInv, BornInOrder
<1>13. ResponseInv
  <2> SUFFICES ASSUME NEW s \in Socks
               PROVE  TextInOrder(Text(s), sent) /\ GivenInOrder(delivered[s], Text(s), sent)
    BY DEF ResponseInv
  <2>1. Len(Text(s)) = 0 /\ Len(delivered[s]) = 0
    BY DEF Text
  <2> QED BY <2>1 DEF TextInOrder, GivenInOrder
<1>14. ServedInv
  BY DEF ServedInv, QueueServed
<1> QED BY <1>1, <1>4, <1>8, <1>11, <1>12, <1>13, <1>14 DEF IInv

LEMMA InvStep ==
    ASSUME IInv, [HttpNext]_allVars
    PROVE  IInv'
<1>0. Types /\ StopInv /\ AttemptInv /\ PlacesInv /\ ResponseInv /\ ServedInv
  BY DEF IInv, PlacesInv
<1>1. CASE HttpNext
  <2>1. Types' /\ StopInv' /\ AttemptInv'
    BY <1>0, <1>1, TypesStep, StopStep, AttemptStep
  <2>2. PlacesInv' /\ ResponseInv' /\ ServedInv'
    BY <1>0, <1>1, PlacesStep, ResponseStep, ServedStep
  <2> QED BY <2>1, <2>2 DEF IInv, PlacesInv
<1>2. CASE UNCHANGED allVars
  <2> USE <1>2 DEF allVars, vars, httpVars
  <2>1. Types'
    BY <1>0 DEF Types, ClientTypes, HttpTypes
  <2>2. Waiting' = Waiting /\ Live' = Live
    BY OthersKeep, LiveSame
  <2>3. StopInv'
    BY <1>0, <2>2 DEF StopInv
  <2>4. Busy' <=> Busy
    BY <2>2 DEF Busy
  <2>5. AttemptInv'
    <3>1. Exclusive => Exclusive'
      BY <2>2 DEF Exclusive
    <3>2. ChannelInv => ChannelInv'
      BY <2>2 DEF ChannelInv
    <3>3. FlagsInv => FlagsInv'
      BY <2>2, <2>4 DEF FlagsInv
    <3> QED BY <1>0, <3>1, <3>2, <3>3 DEF AttemptInv, OneAtATime
  <2>6. PlacesInv'
    BY <1>0, <2>2, SameSends, PlacesKept
  <2>7. ResponseInv'
    BY <1>0 DEF ResponseInv, Text
  <2>8. ServedInv'
    BY <1>0 DEF ServedInv, QueueServed, Usable
  <2> QED BY <2>1, <2>3, <2>5, <2>6, <2>7, <2>8 DEF IInv, PlacesInv
<1> QED BY <1>1, <1>2

(* The inductive invariant of the client *)
THEOREM Inductive == HttpSpec => []IInv
<1>1. HttpInit => IInv
  BY InvInit
<1>2. IInv /\ [HttpNext]_allVars => IInv'
  BY InvStep
<1> QED BY <1>1, <1>2, PTL DEF HttpSpec

(* One attempt at a time: the Connector's channel is the only one that is  *)
(* registered, so that the deferred resetChannel() never destroys a        *)
(* channel that the poller points to, until a disconnect() crosses UP.     *)
THEOREM SingleAttempt == HttpSpec => []OneAttempt
<1>1. IInv => OneAttempt
  BY DEF IInv, AttemptInv, OneAtATime, ChannelInv, OneAttempt, ChannelRegistered
<1> QED BY <1>1, Inductive, PTL

(* While a request waits in requests_ of a client that is connected, a     *)
(* response is on its way that will send it.                               *)
THEOREM RequestsServed == HttpSpec => []QueueServed
<1>1. IInv => QueueServed
  BY DEF IInv, ServedInv
<1> QED BY <1>1, Inductive, PTL

(* No request is written twice, those that queued keep their order, and    *)
(* the responses are given in the order of the requests.                   *)
THEOREM WrittenOnceInOrder == HttpSpec => []OnceInOrder
<1>1. ASSUME IInv
      PROVE  OnceInOrder
  <2>0. sent \in Seq(Nat) /\ delivered \in [Socks -> Seq(Nat)]
    BY <1>1 DEF IInv, Types, HttpTypes
  <2>1. DOMAIN sent = 1 .. Len(sent) /\ \A s \in Socks : DOMAIN delivered[s] = 1 .. Len(delivered[s])
    BY <2>0
  <2>2. IsInjective(sent)
    BY <1>1 DEF IInv, PlaceInv
  <2>3. \A i, j \in DOMAIN sent :
          i < j /\ {sent[i], sent[j]} \subseteq queueBorn => sent[i] < sent[j]
    BY <1>1, <2>1 DEF IInv, QueueInv, BornInOrder
  <2>4. ASSUME NEW s \in Socks, NEW i \in DOMAIN delivered[s], NEW j \in DOMAIN delivered[s],
               i < j, None \notin {delivered[s][i], delivered[s][j]}
        PROVE  \E m, n \in DOMAIN sent :
                  m < n /\ sent[m] = delivered[s][i] /\ sent[n] = delivered[s][j]
    <3>1. GivenInOrder(delivered[s], Text(s), sent)
      BY <1>1 DEF IInv, ResponseInv
    <3>2. Precedes(sent, delivered[s][i], delivered[s][j])
      BY <2>1, <2>4, <3>1 DEF GivenInOrder
    <3> QED BY <2>1, <3>2 DEF Precedes
  <2> QED BY <2>2, <2>3, <2>4 DEF OnceInOrder
<1> QED BY <1>1, Inductive, PTL

LEMMA QueuedWaiting ==
    ASSUME Types, NEW op, ~Queued(op)
    PROVE  ~Has(Waiting, op)
<1>1. q \in Seq(Functors) /\ batch \in Seq(Functors)
  BY DEF Types, ClientTypes
<1>2. PICK w : w = batch \o q
  OBVIOUS
<1>3. /\ Len(w) = Len(batch) + Len(q) /\ Len(batch) \in Nat /\ Len(q) \in Nat
      /\ \A i \in 1 .. Len(w) : w[i] = IF i <= Len(batch) THEN batch[i] ELSE q[i - Len(batch)]
  BY <1>1, <1>2
<1>4. DOMAIN q = 1 .. Len(q) /\ DOMAIN batch = 1 .. Len(batch)
  BY <1>1
<1>5. ASSUME NEW i \in 1 .. Len(w), w[i].op = op
      PROVE  FALSE
  <2>1. CASE i <= Len(batch)
    BY <1>3, <1>4, <1>5, <2>1 DEF Queued
  <2>2. CASE ~(i <= Len(batch))
    <3>1. i - Len(batch) \in 1 .. Len(q) /\ w[i] = q[i - Len(batch)]
      BY <1>3, <2>2
    <3> QED BY <1>4, <1>5, <3>1 DEF Queued
  <2> QED BY <2>1, <2>2
<1> QED BY <1>2, <1>5 DEF Has, Waiting

(* After the stopInLoop() of a stop() has run no socket is made and no     *)
(* connection reported, whatever restart(), disconnect() and the peer do,  *)
(* until the next connect().                                               *)
THEOREM StopHolds == HttpSpec => StopIsFinal
<1>1. ASSUME IInv, [HttpNext]_allVars, stopped, stopped', ~Queued("stopInLoop")
      PROVE  attempts' = attempts /\ connection' \in {None, connection}
  <2>0. Types /\ ClientTypes
    BY <1>1 DEF IInv, Types
  <2>1. ~Has(Waiting, "stopInLoop")
    BY <1>1, <2>0, QueuedWaiting
  <2>2. state # "kConnecting" /\ phase # "restart" /\ StopsBehind(Waiting)
    BY <1>1, <2>1 DEF IInv, StopInv
  <2>3. ~Attempt /\ ~Restart
    BY <2>2 DEF Attempt, ConnectFails, HandleWrite, Restart
  <2>4. ~RunStart
    <3>1. SUFFICES ASSUME RunStart
                   PROVE  FALSE
      OBVIOUS
    <3>2. Popped(Waiting, Head(batch), Waiting') /\ Head(batch).op = "startInLoop"
      BY <2>0, <3>1, RunPops DEF RunStart
    <3>3. Has(Waiting', "stopInLoop")
      BY <2>2, <3>2 DEF Popped
    <3> QED BY <2>1, <3>2, <3>3 DEF Popped
  <2>5. CASE TcpClientNext
    <3>1. CASE BeginFunctors \/ EndFunctors \/ StopInLoop \/ ResetChannel \/ ConnectDestroyed
      BY <3>1 DEF BeginFunctors, EndFunctors, StopInLoop, ResetChannel, ConnectDestroyed, Run
    <3>2. CASE CallerNext
      BY <3>2 DEF CallerNext, Disconnect, Stop, ConnectorStop, QueueStop, loopSide
    <3> QED BY <2>3, <2>4, <2>5, <3>1, <3>2 DEF TcpClientNext, LoopNext
  <2>6. CASE PlainNext
    BY <2>6 DEF PlainNext, PlainConnect, Connect, UpDone, RemoveConnection, HandleClose, loopSide
  <2>7. CASE HttpClientNext
    <3>1. CASE Get \/ GetPut
      BY <3>1 DEF Get, Connect, GetPut, loopSide
    <3>2. CASE RunSend \/ OnUp \/ OnUpCrossed \/ OnDown \/ CloseDone \/ MessageDone
      BY <3>2 DEF RunSend, Run, OnUp, OnUpCrossed, UpDone, OnDown, vars, CloseDone,
                  RemoveConnection, MessageDone
    <3>3. CASE \E s \in Socks : HttpClose(s) \/ OnMessage(s)
      BY <3>3 DEF HttpClose, HandleClose, OnMessage
    <3> QED BY <2>7, <3>1, <3>2, <3>3 DEF HttpClientNext
  <2>8. CASE UNCHANGED allVars
    BY <2>8 DEF allVars, vars
  <2> QED BY <1>1, <2>5, <2>6, <2>7, <2>8 DEF HttpNext
<1>2. IInv /\ [HttpNext]_allVars =>
        [stopped /\ stopped' /\ ~Queued("stopInLoop") =>
            attempts' = attempts /\ connection' \in {None, connection}]_vars
  BY <1>1
<1> QED BY <1>2, Inductive, PTL DEF HttpSpec, StopIsFinal
=============================================================================
