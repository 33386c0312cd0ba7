-------------------------- MODULE TimerQueue_proofs --------------------------
(***************************************************************************)
(* Proofs about TimerQueue.tla, for any addresses, expirations, intervals, *)
(* minimal delay and ratio of the two clocks: every Timer has one owner, a *)
(* cancelled timer stays away, and the timerfd is armed.                   *)
(***************************************************************************)
EXTENDS TimerQueue, SequenceTheorems, FiniteSetTheorems, TLAPS

(* The types *)
Records == [seq : Nat, exp : Nat, interval : Nat]
Entries == [exp : Nat, p : Pointers]
Ids == [p : Pointers, seq : Nat]
Calling == [op : {"add", "cancel"}, id : Ids]

Types ==
    /\ time \in Nat /\ now \in Nat /\ created \in Nat
    /\ fd \in [at : Int, readable : BOOLEAN]
    /\ heap \in [Pointers -> Records]
    /\ timers \subseteq Entries /\ expired \subseteq Entries
    /\ active \subseteq Ids /\ canceling \subseteq Ids /\ ids \subseteq Ids
    /\ phase \in {"poll", "ready", "calling", "gone"}
    /\ q \in Seq(Calling)
    /\ adding \in Pointers \cup {0}
    /\ cancelled \subseteq Nat

-----------------------------------------------------------------------------
(* The inductive invariant about the owners *)

(* Sequences are never used again, 0 is that of no timer. *)
SequencesOK ==
    /\ \A p \in Pointers : heap[p].seq <= created /\ (heap[p].seq = 0 => heap[p] = Free)
    /\ \A p, r \in Pointers : heap[p].seq = heap[r].seq /\ heap[p].seq # 0 => p = r
    /\ \A n \in cancelled : n <= created

(* The three owners of the timer at p: the sets, the expiry, a functor of  *)
(* the queue s.                                                            *)
In(set, p) == \E e \in set : e.p = p
ToAdd(s, p) == \E i \in 1 .. Len(s) : s[i].op = "add" /\ s[i].id.p = p

(* What the owners hold is what is there. *)
Match ==
    /\ \A e \in timers : e = Entry(e.p, heap[e.p])
    /\ \A e \in expired : e = Entry(e.p, heap[e.p])
    /\ \A a \in active : a = ActiveTimer(a.p, heap[a.p])
    /\ \A p \in Pointers : In(active, p) <=> In(timers, p)

AddsOnce(s) ==
    \A i, j \in 1 .. Len(s) :
        s[i].op = "add" /\ s[j].op = "add" /\ s[i].id.p = s[j].id.p => i = j

AddsMatch(s, h) ==
    \A i \in 1 .. Len(s) :
        s[i].op = "add" => s[i].id = ActiveTimer(s[i].id.p, h[s[i].id.p])

(* Exactly one owner for each timer *)
Shared(p) ==
    \/ In(timers, p) /\ In(expired, p)
    \/ In(timers, p) /\ ToAdd(q, p)
    \/ In(expired, p) /\ ToAdd(q, p)

Partition ==
    \A p \in Pointers :
        /\ heap[p] # Free <=> In(timers, p) \/ In(expired, p) \/ ToAdd(q, p)
        /\ ~Shared(p)

(* A cancelled timer that is there still is one of the expiry, marked so   *)
(* that reset() will delete it.                                            *)
CancelOK ==
    \A p \in Pointers :
        heap[p] # Free /\ heap[p].seq \in cancelled =>
            In(expired, p) /\ ActiveTimer(p, heap[p]) \in canceling

OwnInv ==
    /\ Types /\ SequencesOK /\ Match
    /\ AddsOnce(q) /\ AddsMatch(q, heap)
    /\ Partition /\ CancelOK
    /\ phase # "calling" => expired = {}

(* The inductive invariant about the timerfd.  In an expiry only a timer   *)
(* that was added with an invalid expiration keeps reset() from arming it. *)
Soon == fd.readable \/ (fd.at > time /\ fd.at <= time + MinDelay)

ArmInv ==
    /\ Armed
    /\ phase = "calling" => \A e \in timers : e.exp = 0 => Soon

IInv == OwnInv /\ ArmInv

-----------------------------------------------------------------------------
(* The functors *)

(* The queue t is s with f behind it, or s without the functor f that was  *)
(* its first.                                                              *)
Pushed(s, f, t) ==
    /\ t \in Seq(Calling)
    /\ \A r : ToAdd(t, r) <=> ToAdd(s, r) \/ (f.op = "add" /\ r = f.id.p)
    /\ AddsOnce(s) /\ (f.op = "add" => ~ToAdd(s, f.id.p)) => AddsOnce(t)
    /\ \A h : AddsMatch(s, h) /\ (f.op = "add" => f.id = ActiveTimer(f.id.p, h[f.id.p]))
                 => AddsMatch(t, h)

Popped(s, f, t) ==
    /\ t \in Seq(Calling) /\ f \in Calling
    /\ \A r : ToAdd(t, r) => ToAdd(s, r)
    /\ \A r : ToAdd(s, r) => ToAdd(t, r) \/ (f.op = "add" /\ r = f.id.p)
    /\ f.op = "add" => ToAdd(s, f.id.p)
    /\ AddsOnce(s) => AddsOnce(t) /\ (f.op = "add" => ~ToAdd(t, f.id.p))
    /\ \A h : AddsMatch(s, h) =>
            AddsMatch(t, h) /\ (f.op = "add" => f.id = ActiveTimer(f.id.p, h[f.id.p]))

LEMMA PushCall ==
    ASSUME NEW s \in Seq(Calling), NEW f \in Calling, NEW t, t = Append(s, f)
    PROVE  Pushed(s, f, t)
<1>1. /\ t \in Seq(Calling) /\ Len(s) \in Nat /\ Len(t) = Len(s) + 1 /\ t[Len(t)] = f
      /\ \A i \in 1 .. Len(s) : t[i] = s[i]
  OBVIOUS
<1>2. \A i \in 1 .. Len(t) : i \in 1 .. Len(s) \/ i = Len(t)
  BY <1>1
<1>3. Len(t) \in 1 .. Len(t) /\ \A i \in 1 .. Len(s) : i \in 1 .. Len(t)
  BY <1>1
<1>4. \A r : ToAdd(t, r) <=> ToAdd(s, r) \/ (f.op = "add" /\ r = f.id.p)
  BY <1>1, <1>2, <1>3 DEF ToAdd
<1>5. AddsOnce(s) /\ (f.op = "add" => ~ToAdd(s, f.id.p)) => AddsOnce(t)
  BY <1>1, <1>2 DEF AddsOnce, ToAdd
<1>6. \A h : AddsMatch(s, h) /\ (f.op = "add" => f.id = ActiveTimer(f.id.p, h[f.id.p]))
                => AddsMatch(t, h)
  BY <1>1, <1>2 DEF AddsMatch
<1> QED BY <1>1, <1>4, <1>5, <1>6 DEF Pushed

LEMMA PopCall ==
    ASSUME NEW s \in Seq(Calling), s # << >>, NEW t, t = Tail(s), NEW f, f = Head(s)
    PROVE  Popped(s, f, t)
<1>1. /\ t \in Seq(Calling) /\ f \in Calling /\ f = s[1]
      /\ Len(t) \in Nat /\ Len(s) = Len(t) + 1
      /\ \A i \in 1 .. Len(t) : t[i] = s[i + 1]
  OBVIOUS
<1>2. \A i \in 1 .. Len(t) : i + 1 \in 1 .. Len(s) /\ i + 1 # 1
  BY <1>1
<1>3. \A i \in 1 .. Len(s) : i = 1 \/ (i - 1 \in 1 .. Len(t) /\ t[i - 1] = s[i])
  BY <1>1
<1>4. 1 \in 1 .. Len(s)
  BY <1>1
<1>5. \A r : ToAdd(t, r) => ToAdd(s, r)
  BY <1>1, <1>2 DEF ToAdd
<1>6. \A r : ToAdd(s, r) => ToAdd(t, r) \/ (f.op = "add" /\ r = f.id.p)
  BY <1>1, <1>3 DEF ToAdd
<1>7. f.op = "add" => ToAdd(s, f.id.p)
  BY <1>1, <1>4 DEF ToAdd
<1>8. AddsOnce(s) => AddsOnce(t)
  <2> SUFFICES ASSUME AddsOnce(s), NEW i \in 1 .. Len(t), NEW j \in 1 .. Len(t),
                      t[i].op = "add", t[j].op = "add", t[i].id.p = t[j].id.p
               PROVE  i = j
    BY DEF AddsOnce
  <2>1. i + 1 = j + 1
    BY <1>1, <1>2 DEF AddsOnce
  <2> QED BY <2>1
<1>9. AddsOnce(s) /\ f.op = "add" => ~ToAdd(t, f.id.p)
  BY <1>1, <1>2, <1>4 DEF AddsOnce, ToAdd
<1>10. \A h : AddsMatch(s, h) =>
           AddsMatch(t, h) /\ (f.op = "add" => f.id = ActiveTimer(f.id.p, h[f.id.p]))
  BY <1>1, <1>2, <1>4 DEF AddsMatch
<1> QED BY <1>1, <1>5, <1>6, <1>7, <1>8, <1>9, <1>10 DEF Popped

(* The functors agree with the heap when nothing changes at their pointers. *)
LEMMA AddsKept ==
    ASSUME NEW s \in Seq(Calling), NEW h, NEW g, AddsMatch(s, h),
           \A p \in Pointers : ToAdd(s, p) => g[p] = h[p]
    PROVE  AddsMatch(s, g)
<1> SUFFICES ASSUME NEW i \in 1 .. Len(s), s[i].op = "add"
             PROVE  s[i].id = ActiveTimer(s[i].id.p, g[s[i].id.p])
  BY DEF AddsMatch
<1>1. s[i] \in Calling
  OBVIOUS
<1>2. s[i].id.p \in Pointers /\ ToAdd(s, s[i].id.p)
  BY <1>1 DEF Calling, Ids, ToAdd
<1> QED BY <1>2 DEF AddsMatch

-----------------------------------------------------------------------------
(* The timerfd *)

LEMMA MaxOfTwo ==
    ASSUME NEW a \in Int, NEW b \in Int
    PROVE  Max({a, b}) = IF a >= b THEN a ELSE b
<1>1. Max({a, b}) = CHOOSE x \in {a, b} : \A y \in {a, b} : x >= y
  BY DEF Max
<1>2. \E x \in {a, b} : \A y \in {a, b} : x >= y
  OBVIOUS
<1>3. Max({a, b}) \in {a, b} /\ \A y \in {a, b} : Max({a, b}) >= y
  BY <1>1, <1>2
<1> QED BY <1>3

(* The clock of Timestamp::now() is slower than that of the timerfd: a     *)
(* delay counted from it never ends behind the expiration, in the units of *)
(* the timerfd, unless it is the minimal one.                              *)
LEMMA DelayFits ==
    ASSUME NEW t \in Nat, NEW m \in Nat, NEW k \in Nat, NEW r \in Nat,
           t = k * Scale + r, r < Scale, m > k
    PROVE  t + (m - k) <= m * Scale
<1>1. Scale \in Nat /\ Scale >= 1
  BY TimerAssumption
<1>2. PICK d \in Nat : m = k + d /\ d >= 1
  BY SMT
<1>3. PICK z \in Nat : Scale = z + 1
  BY <1>1
<1>4. r <= z
  BY <1>3
<1>5. PICK e \in Nat : d = e + 1
  BY <1>2
<1>6. d * z = e * z + z /\ e * z \in Nat
  BY <1>3, <1>5
<1>7. m * Scale = k * Scale + d * Scale /\ d * Scale = d * z + d /\ k * Scale \in Nat
  <2>1. (k + d) * Scale = k * Scale + d * Scale /\ k * Scale \in Nat
    BY <1>1, <1>2
  <2>2. d * (z + 1) = d * z + d
    BY <1>2, <1>3
  <2> QED BY <1>2, <1>3, <2>1, <2>2
<1>8. PICK ks \in Nat, ez \in Nat : ks = k * Scale /\ ez = e * z
  BY <1>6, <1>7
<1>9. m * Scale = ks + ez + z + d /\ t = ks + r /\ m - k = d
  <2>1. d * z = ez + z
    BY <1>6, <1>8
  <2>2. d * Scale = ez + z + d
    BY <1>2, <1>3, <1>7, <1>8, <2>1
  <2>3. m * Scale = ks + (ez + z + d)
    BY <1>7, <1>8, <2>2
  <2>4. m - k = d
    BY <1>2
  <2>5. t = ks + r
    BY <1>8
  <2> QED BY <1>2, <1>3, <1>8, <2>3, <2>4, <2>5
<1> QED BY <1>2, <1>4, <1>8, <1>9

LEMMA ClockSplits ==
    ASSUME NEW t \in Nat
    PROVE  /\ t \div Scale \in Nat
           /\ \E r \in Nat : r < Scale /\ t = (t \div Scale) * Scale + r
<1>1. Scale \in Nat /\ Scale > 0
  BY TimerAssumption
<1>2. t \div Scale \in Nat /\ t % Scale \in Nat /\ t % Scale < Scale
      /\ t = (t \div Scale) * Scale + (t % Scale)
  BY <1>1
<1> QED BY <1>2

(* resetTimerfd() arms the timerfd: it fires after now, and in time for    *)
(* the expiration and for every later one.                                 *)
LEMMA ResetArms ==
    ASSUME time \in Nat, NEW m \in Nat, NEW f, f = ResetTimerfd(m)
    PROVE  /\ f \in [at : Int, readable : BOOLEAN]
           /\ f.at > time
           /\ \A x \in Nat : x >= m => f.at <= Max({time + MinDelay, x * Scale})
           /\ m = 0 => f.at <= time + MinDelay
<1>1. Scale \in Nat /\ Scale >= 1 /\ MinDelay \in Nat /\ MinDelay >= 1
  BY TimerAssumption
<1>2. PICK k \in Nat, r \in Nat : k = time \div Scale /\ r < Scale /\ time = k * Scale + r
  BY ClockSplits
<1>3. PICK d \in Int : d = HowMuchTimeFromNow(m) /\ d = IF m - k >= MinDelay THEN m - k ELSE MinDelay
  BY <1>1, <1>2, MaxOfTwo DEF HowMuchTimeFromNow, TimestampNow
<1>4. d > 0
  BY <1>1, <1>3
<1>5. f = [at |-> time + d, readable |-> FALSE]
  BY <1>3, <1>4 DEF ResetTimerfd, Settime
<1>6. f \in [at : Int, readable : BOOLEAN] /\ f.at = time + d
  BY <1>5
<1>7. ASSUME NEW x \in Nat, x >= m
      PROVE  f.at <= Max({time + MinDelay, x * Scale})
  <2>1. x * Scale \in Int /\ time + MinDelay \in Int
    BY <1>1
  <2>2. Max({time + MinDelay, x * Scale}) >= time + MinDelay
        /\ Max({time + MinDelay, x * Scale}) >= x * Scale
        /\ Max({time + MinDelay, x * Scale}) \in Int
    BY <2>1, MaxOfTwo
  <2>3. CASE m - k >= MinDelay
    <3>1. time + (m - k) <= m * Scale
      BY <1>1, <1>2, <2>3, DelayFits
    <3>2. m * Scale <= x * Scale
      BY <1>1, <1>7
    <3>3. m * Scale \in Int
      BY <1>1
    <3> QED BY <1>3, <1>6, <2>1, <2>2, <2>3, <3>1, <3>2, <3>3
  <2>4. CASE ~(m - k >= MinDelay)
    BY <1>1, <1>3, <1>6, <2>2, <2>4
  <2> QED BY <2>3, <2>4
<1>8. m = 0 => f.at <= time + MinDelay
  BY <1>1, <1>3, <1>6
<1> QED BY <1>4, <1>6, <1>7, <1>8

-----------------------------------------------------------------------------
(* addTimer() *)

(* Nobody points to a free address. *)
LEMMA Unowned ==
    ASSUME OwnInv, NEW p \in Pointers, heap[p] = Free
    PROVE  ~In(timers, p) /\ ~In(active, p) /\ ~In(expired, p) /\ ~ToAdd(q, p)
BY DEF OwnInv, Match, Partition

LEMMA SequenceOfFree ==
    ASSUME OwnInv, NEW p \in Pointers
    PROVE  heap[p] = Free <=> heap[p].seq = 0
BY DEF OwnInv, SequencesOK, Free

LEMMA TimersTyped ==
    ASSUME OwnInv
    PROVE  /\ \A p \in Pointers : heap[p] \in Records /\ heap[p].seq \in Nat
                                  /\ heap[p].exp \in Nat /\ heap[p].interval \in Nat
           /\ DOMAIN heap = Pointers
<1>1. heap \in [Pointers -> Records]
  BY DEF OwnInv, Types
<1> QED BY <1>1 DEF Records

LEMMA NewTimerFresh ==
    ASSUME OwnInv, NEW p \in Pointers, NEW when \in Whens, NEW interval \in Intervals,
           NewTimer(p, when, interval), UNCHANGED cancelled
    PROVE  \E t \in Records :
              /\ t # Free /\ t.exp = when
              /\ heap' = [heap EXCEPT ![p] = t] /\ heap'[p] = t
              /\ \A r \in Pointers : r # p => heap'[r] = heap[r]
              /\ heap' \in [Pointers -> Records] /\ created' \in Nat
              /\ t.seq \notin cancelled
              /\ SequencesOK'
<1>1. when \in Nat /\ interval \in Nat
  BY TimerAssumption
<1>2. created \in Nat /\ created' = created + 1 /\ created' # 0
      /\ heap \in [Pointers -> Records]
  BY DEF OwnInv, Types, NewTimer
<1>3. PICK t : t = Timer(created', when, interval)
  OBVIOUS
<1>4. t \in Records /\ t.seq = created + 1 /\ t.exp = when /\ t # Free /\ t.seq # 0
  BY <1>1, <1>2, <1>3 DEF Timer, Records, Free
<1>5. heap' = [heap EXCEPT ![p] = t]
  BY <1>3 DEF NewTimer
<1>6. heap'[p] = t /\ (\A r \in Pointers : r # p => heap'[r] = heap[r])
      /\ heap' \in [Pointers -> Records]
  BY <1>2, <1>4, <1>5
<1>7. (\A r \in Pointers : heap[r].seq \in Nat /\ heap[r].seq <= created)
      /\ (\A n \in cancelled : n \in Nat /\ n <= created)
  BY TimersTyped DEF OwnInv, Types, SequencesOK
<1>8. t.seq \notin cancelled
  BY <1>2, <1>4, <1>7
<1>9. \A r \in Pointers : heap'[r].seq <= created' /\ (heap'[r].seq = 0 => heap'[r] = Free)
  <2> SUFFICES ASSUME NEW r \in Pointers
               PROVE  heap'[r].seq <= created' /\ (heap'[r].seq = 0 => heap'[r] = Free)
    OBVIOUS
  <2>1. CASE r = p
    BY <1>2, <1>4, <1>6, <2>1
  <2>2. CASE r # p
    <3>1. heap'[r] = heap[r]
      BY <1>6, <2>2
    <3>2. heap[r].seq <= created /\ (heap[r].seq = 0 => heap[r] = Free)
      BY DEF OwnInv, SequencesOK
    <3> QED BY <1>2, <1>7, <3>1, <3>2
  <2> QED BY <2>1, <2>2
<1>10. ASSUME NEW x \in Pointers, NEW y \in Pointers,
              heap'[x].seq = heap'[y].seq, heap'[x].seq # 0
       PROVE  x = y
  <2>1. \A r \in Pointers : r # p => heap'[r].seq # t.seq
    BY <1>2, <1>4, <1>6, <1>7
  <2>2. x = p <=> y = p
    BY <1>6, <1>10, <2>1
  <2>3. CASE x # p
    <3>1. heap'[x] = heap[x] /\ heap'[y] = heap[y]
      BY <1>6, <2>2, <2>3
    <3> QED BY <1>10, <3>1 DEF OwnInv, SequencesOK
  <2> QED BY <2>2, <2>3
<1>11. \A n \in cancelled' : n <= created'
  BY <1>2, <1>7
<1>12. SequencesOK'
  BY <1>9, <1>10, <1>11 DEF SequencesOK
<1>13. created' \in Nat /\ t \in Records
  BY <1>2, <1>4
<1> WITNESS t \in Records
<1> QED BY <1>4, <1>5, <1>6, <1>8, <1>12, <1>13, Zenon

LEMMA InsertOne ==
    ASSUME NEW p, NEW t, Insert([r \in {p} |-> t])
    PROVE  /\ timers' = timers \cup {Entry(p, t)}
           /\ active' = active \cup {ActiveTimer(p, t)}
<1>1. PICK new : new = [r \in {p} |-> t]
  OBVIOUS
<1>2. DOMAIN new = {p} /\ new[p] = t
  BY <1>1
<1>3. /\ timers' = timers \cup {Entry(r, new[r]) : r \in DOMAIN new}
      /\ active' = active \cup {ActiveTimer(r, new[r]) : r \in DOMAIN new}
  BY <1>1 DEF Insert
<1>4. {Entry(r, new[r]) : r \in {p}} = {Entry(p, t)}
  BY <1>2
<1>5. {ActiveTimer(r, new[r]) : r \in {p}} = {ActiveTimer(p, t)}
  BY <1>2
<1> QED BY <1>2, <1>3, <1>4, <1>5

(* What becomes of the two sets when the timer t, which is at p from then  *)
(* on, is put into them.                                                   *)
LEMMA SetsWithOne ==
    ASSUME OwnInv, NEW p \in Pointers, NEW t \in Records,
           timers' = timers \cup {Entry(p, t)},
           active' = active \cup {ActiveTimer(p, t)}
    PROVE  /\ timers' \subseteq Entries /\ active' \subseteq Ids
           /\ \A r : In(timers', r) <=> In(timers, r) \/ r = p
           /\ \A r : In(active', r) <=> In(active, r) \/ r = p
<1>1. Entry(p, t) \in Entries /\ Entry(p, t).p = p
  BY DEF Entry, Entries, Records
<1>2. ActiveTimer(p, t) \in Ids /\ ActiveTimer(p, t).p = p
  BY DEF ActiveTimer, Ids, Records
<1>3. timers \subseteq Entries /\ active \subseteq Ids
  BY DEF OwnInv, Types
<1>4. timers' \subseteq Entries /\ active' \subseteq Ids
  BY <1>1, <1>2, <1>3
<1>5. \A r : In(timers', r) <=> In(timers, r) \/ r = p
  BY <1>1 DEF In
<1>6. \A r : In(active', r) <=> In(active, r) \/ r = p
  BY <1>2 DEF In
<1> QED BY <1>4, <1>5, <1>6

(* The timer t is at p, which had no other owner, and goes into the sets.  *)
LEMMA OneAdded ==
    ASSUME OwnInv, NEW p \in Pointers, NEW t \in Records, t # Free,
           heap'[p] = t, \A r \in Pointers : r # p => heap'[r] = heap[r],
           ~In(timers, p), ~In(expired, p), ~ToAdd(q', p), t.seq \notin cancelled,
           \A r : ToAdd(q', r) => ToAdd(q, r),
           \A r : ToAdd(q, r) => ToAdd(q', r) \/ r = p,
           timers' = timers \cup {Entry(p, t)},
           active' = active \cup {ActiveTimer(p, t)},
           UNCHANGED <<expired, canceling, cancelled>>
    PROVE  Match' /\ Partition' /\ CancelOK'
<1> USE DEF OwnInv
<1>1. /\ \A r : In(timers', r) <=> In(timers, r) \/ r = p
      /\ \A r : In(active', r) <=> In(active, r) \/ r = p
  BY SetsWithOne
<1>2. expired' = expired /\ canceling' = canceling /\ cancelled' = cancelled
  OBVIOUS
<1>3. timers \subseteq Entries /\ expired \subseteq Entries /\ active \subseteq Ids
  BY DEF Types
<1>4. ASSUME NEW e \in timers
      PROVE  e.p \in Pointers /\ e.p # p /\ e = Entry(e.p, heap'[e.p])
  BY <1>3 DEF Match, In, Entries
<1>5. ASSUME NEW e \in expired
      PROVE  e.p \in Pointers /\ e.p # p /\ e = Entry(e.p, heap'[e.p])
  BY <1>3 DEF Match, In, Entries
<1>6. ASSUME NEW a \in active
      PROVE  a.p \in Pointers /\ a.p # p /\ a = ActiveTimer(a.p, heap'[a.p])
  <2>1. a.p \in Pointers
    BY <1>3 DEF Ids
  <2>2. In(active, a.p)
    BY DEF In
  <2>3. a.p # p
    BY <2>1, <2>2 DEF Match
  <2> QED BY <2>1, <2>3 DEF Match
<1>7. Entry(p, t) = Entry(Entry(p, t).p, heap'[Entry(p, t).p])
  BY DEF Entry
<1>8. ActiveTimer(p, t) = ActiveTimer(ActiveTimer(p, t).p, heap'[ActiveTimer(p, t).p])
  BY DEF ActiveTimer
<1>9. \A e \in timers' : e = Entry(e.p, heap'[e.p])
  BY <1>4, <1>7
<1>10. \A a \in active' : a = ActiveTimer(a.p, heap'[a.p])
  BY <1>6, <1>8
<1>11. \A r \in Pointers : In(active', r) <=> In(timers', r)
  BY <1>1 DEF Match
<1>12. Match'
  BY <1>2, <1>5, <1>9, <1>10, <1>11 DEF Match
<1>13. ASSUME NEW r \in Pointers
       PROVE  /\ heap'[r] # Free <=> In(timers', r) \/ In(expired', r) \/ ToAdd(q', r)
              /\ ~Shared(r)'
  <2>1. heap[r] # Free <=> In(timers, r) \/ In(expired, r) \/ ToAdd(q, r)
    BY DEF Partition
  <2>2. ~Shared(r)
    BY DEF Partition
  <2>3. CASE r = p
    BY <1>1, <1>2, <2>3 DEF Shared
  <2>4. CASE r # p
    BY <1>1, <1>2, <2>1, <2>2, <2>4 DEF Shared
  <2> QED BY <2>3, <2>4
<1>14. Partition'
  BY <1>13 DEF Partition
<1>15. CancelOK'
  BY <1>2 DEF CancelOK
<1> QED BY <1>12, <1>14, <1>15

LEMMA LoopAddOwns ==
    ASSUME OwnInv, NEW p \in Pointers, NEW when \in Whens, NEW interval \in Intervals,
           LoopAdd(p, when, interval)
    PROVE  OwnInv'
<1>1. /\ time' = time /\ canceling' = canceling /\ expired' = expired /\ now' = now
      /\ phase' = phase /\ q' = q /\ adding' = adding /\ cancelled' = cancelled
  BY DEF LoopAdd
<1>2. NewTimer(p, when, interval) /\ AddTimerInLoop(p, heap'[p])
      /\ ids' = ids \cup {TimerId(p, heap'[p])}
  BY DEF LoopAdd
<1>3. PICK t \in Records :
          /\ t # Free /\ t.exp = when
          /\ heap' = [heap EXCEPT ![p] = t] /\ heap'[p] = t
          /\ \A r \in Pointers : r # p => heap'[r] = heap[r]
          /\ heap' \in [Pointers -> Records] /\ created' \in Nat
          /\ t.seq \notin cancelled
          /\ SequencesOK'
  BY <1>1, <1>2, NewTimerFresh
<1>4. heap[p] = Free
  BY <1>2 DEF NewTimer
<1>5. ~In(timers, p) /\ ~In(active, p) /\ ~In(expired, p) /\ ~ToAdd(q, p)
  BY <1>4, Unowned
<1>6. /\ timers' = timers \cup {Entry(p, t)}
      /\ active' = active \cup {ActiveTimer(p, t)}
  BY <1>2, <1>3, InsertOne DEF AddTimerInLoop
<1>7. timers' \subseteq Entries /\ active' \subseteq Ids
  BY <1>6, SetsWithOne
<1>8. Match' /\ Partition' /\ CancelOK'
  BY <1>1, <1>3, <1>5, <1>6, OneAdded
<1>9. ids' \subseteq Ids
  BY <1>2, <1>3 DEF OwnInv, Types, TimerId, Ids, Records
<1>10. fd' \in [at : Int, readable : BOOLEAN]
  <2>1. time \in Nat /\ when \in Nat /\ fd \in [at : Int, readable : BOOLEAN]
    BY TimerAssumption DEF OwnInv, Types
  <2>2. ResetTimerfd(when) \in [at : Int, readable : BOOLEAN]
    BY <2>1, ResetArms
  <2> QED BY <1>2, <1>3, <2>1, <2>2 DEF AddTimerInLoop
<1>11. Types'
  BY <1>1, <1>3, <1>7, <1>9, <1>10 DEF OwnInv, Types
<1>12. AddsOnce(q)' /\ AddsMatch(q, heap)'
  <2>1. q \in Seq(Calling) /\ AddsOnce(q) /\ AddsMatch(q, heap)
    BY DEF OwnInv, Types
  <2>2. \A r \in Pointers : ToAdd(q, r) => heap'[r] = heap[r]
    BY <1>3, <1>5
  <2>3. AddsMatch(q, heap')
    BY <2>1, <2>2, AddsKept
  <2> QED BY <1>1, <2>1, <2>3
<1>13. phase' # "calling" => expired' = {}
  BY <1>1 DEF OwnInv
<1> QED BY <1>3, <1>8, <1>11, <1>12, <1>13 DEF OwnInv

LEMMA RunAddOwns ==
    ASSUME OwnInv, RunAdd
    PROVE  OwnInv'
<1>1. /\ time' = time /\ heap' = heap /\ created' = created /\ canceling' = canceling
      /\ expired' = expired /\ now' = now /\ phase' = phase /\ adding' = adding
      /\ ids' = ids /\ cancelled' = cancelled
  BY DEF RunAdd
<1>2. PICK f : f = Head(q)
  OBVIOUS
<1>3. q # << >> /\ f.op = "add" /\ q' = Tail(q) /\ AddTimerInLoop(f.id.p, heap[f.id.p])
      /\ phase = "poll"
  BY <1>2 DEF RunAdd
<1>4. q \in Seq(Calling) /\ AddsOnce(q) /\ AddsMatch(q, heap)
  BY DEF OwnInv, Types
<1>5. Popped(q, f, q')
  BY <1>2, <1>3, <1>4, PopCall
<1>6. PICK p \in Pointers, t \in Records : p = f.id.p /\ t = heap[p]
  BY <1>5, TimersTyped DEF Calling, Ids, Popped
<1>7. ToAdd(q, p) /\ t # Free /\ ~In(timers, p) /\ ~In(expired, p)
  BY <1>3, <1>5, <1>6 DEF OwnInv, Partition, Shared, Popped
<1>8. t.seq \notin cancelled
  BY <1>6, <1>7 DEF OwnInv, CancelOK
<1>9. /\ timers' = timers \cup {Entry(p, t)}
      /\ active' = active \cup {ActiveTimer(p, t)}
  BY <1>3, <1>6, InsertOne DEF AddTimerInLoop
<1>10. timers' \subseteq Entries /\ active' \subseteq Ids
  BY <1>9, SetsWithOne
<1>11. /\ ~ToAdd(q', p)
       /\ \A r : ToAdd(q, r) => ToAdd(q', r) \/ r = p
       /\ \A r : ToAdd(q', r) => ToAdd(q, r)
  BY <1>3, <1>4, <1>5, <1>6 DEF Popped
<1>12. Match' /\ Partition' /\ CancelOK'
  BY <1>1, <1>6, <1>7, <1>8, <1>9, <1>11, OneAdded
<1>13. fd' \in [at : Int, readable : BOOLEAN]
  <2>1. time \in Nat /\ t.exp \in Nat /\ fd \in [at : Int, readable : BOOLEAN]
    BY DEF OwnInv, Types, Records
  <2>2. ResetTimerfd(t.exp) \in [at : Int, readable : BOOLEAN]
    BY <2>1, ResetArms
  <2> QED BY <1>3, <1>6, <2>1, <2>2 DEF AddTimerInLoop
<1>14. Types'
  BY <1>1, <1>5, <1>10, <1>13 DEF OwnInv, Types, Popped
<1>15. SequencesOK'
  <2>1. SequencesOK
    BY DEF OwnInv
  <2> QED BY <1>1, <2>1 DEF SequencesOK
<1>16. AddsOnce(q)' /\ AddsMatch(q, heap)'
  <2>1. AddsOnce(q') /\ AddsMatch(q', heap)
    BY <1>4, <1>5 DEF Popped
  <2> QED BY <1>1, <2>1
<1>17. phase' # "calling" => expired' = {}
  BY <1>1 DEF OwnInv
<1> QED BY <1>12, <1>14, <1>15, <1>16, <1>17 DEF OwnInv

LEMMA OtherAddOwns ==
    ASSUME OwnInv, NEW p \in Pointers, NEW when \in Whens, NEW interval \in Intervals,
           OtherAdd(p, when, interval)
    PROVE  OwnInv'
<1>1. /\ time' = time /\ fd' = fd /\ timers' = timers /\ active' = active
      /\ canceling' = canceling /\ expired' = expired /\ now' = now /\ phase' = phase
      /\ ids' = ids /\ cancelled' = cancelled /\ adding' = p
  BY DEF OtherAdd
<1>2. PICK f : f = [op |-> "add", id |-> ActiveTimer(p, heap'[p])]
  OBVIOUS
<1>3. NewTimer(p, when, interval) /\ q' = Append(q, f)
  BY <1>2 DEF OtherAdd
<1>4. PICK t \in Records :
          /\ t # Free /\ t.exp = when
          /\ heap' = [heap EXCEPT ![p] = t] /\ heap'[p] = t
          /\ \A r \in Pointers : r # p => heap'[r] = heap[r]
          /\ heap' \in [Pointers -> Records] /\ created' \in Nat
          /\ t.seq \notin cancelled
          /\ SequencesOK'
  BY <1>1, <1>3, NewTimerFresh
<1>5. ~In(timers, p) /\ ~In(active, p) /\ ~In(expired, p) /\ ~ToAdd(q, p)
  BY <1>3, Unowned DEF NewTimer
<1>6. q \in Seq(Calling) /\ AddsOnce(q) /\ AddsMatch(q, heap)
  BY DEF OwnInv, Types
<1>7. f \in Calling /\ f.op = "add" /\ f.id.p = p /\ f.id = ActiveTimer(p, heap'[p])
  BY <1>2, <1>4 DEF Calling, Ids, ActiveTimer, Records
<1>8. Pushed(q, f, q')
  BY <1>3, <1>6, <1>7, PushCall
<1>9. AddsMatch(q, heap')
  <2>1. \A r \in Pointers : ToAdd(q, r) => heap'[r] = heap[r]
    BY <1>4, <1>5
  <2> QED BY <1>6, <2>1, AddsKept
<1>10. /\ q' \in Seq(Calling) /\ AddsOnce(q') /\ AddsMatch(q', heap')
       /\ \A r : ToAdd(q', r) <=> ToAdd(q, r) \/ r = p
  BY <1>5, <1>6, <1>7, <1>8, <1>9 DEF Pushed
<1>11. Types'
  BY <1>1, <1>4, <1>10 DEF OwnInv, Types
<1>12. Match'
  <2>1. timers \subseteq Entries /\ expired \subseteq Entries /\ active \subseteq Ids
    BY DEF OwnInv, Types
  <2>2. \A e \in timers : e.p \in Pointers /\ e.p # p
    BY <1>5, <2>1 DEF In, Entries
  <2>3. \A e \in expired : e.p \in Pointers /\ e.p # p
    BY <1>5, <2>1 DEF In, Entries
  <2>4. \A a \in active : a.p \in Pointers /\ a.p # p
    BY <1>5, <2>1 DEF In, Ids
  <2> QED BY <1>1, <1>4, <2>2, <2>3, <2>4 DEF OwnInv, Match
<1>13. ASSUME NEW r \in Pointers
       PROVE  /\ heap'[r] # Free <=> In(timers', r) \/ In(expired', r) \/ ToAdd(q', r)
              /\ ~Shared(r)'
  <2>1. heap[r] # Free <=> In(timers, r) \/ In(expired, r) \/ ToAdd(q, r)
    BY DEF OwnInv, Partition
  <2>2. ~Shared(r)
    BY DEF OwnInv, Partition
  <2>3. CASE r = p
    BY <1>1, <1>4, <1>5, <1>10, <2>3 DEF Shared
  <2>4. CASE r # p
    BY <1>1, <1>4, <1>10, <2>1, <2>2, <2>4 DEF Shared
  <2> QED BY <2>3, <2>4
<1>14. Partition'
  BY <1>13 DEF Partition
<1>15. CancelOK'
  BY <1>1, <1>4 DEF OwnInv, CancelOK
<1> QED BY <1>1, <1>4, <1>10, <1>11, <1>12, <1>14, <1>15 DEF OwnInv

-----------------------------------------------------------------------------
(* cancel() *)

(* The functor behind the queue does not add a timer. *)
LEMMA OtherCancelOwns ==
    ASSUME OwnInv, NEW id \in ids, OtherCancel(id)
    PROVE  OwnInv'
<1>1. /\ time' = time /\ fd' = fd /\ heap' = heap /\ created' = created /\ timers' = timers
      /\ active' = active /\ canceling' = canceling /\ expired' = expired /\ now' = now
      /\ phase' = phase /\ adding' = adding /\ ids' = ids /\ cancelled' = cancelled
  BY DEF OtherCancel
<1>2. PICK f : f = [op |-> "cancel", id |-> id] /\ q' = Append(q, f)
  BY DEF OtherCancel
<1>3. q \in Seq(Calling) /\ AddsOnce(q) /\ AddsMatch(q, heap) /\ id \in Ids
  BY DEF OwnInv, Types
<1>4. f \in Calling /\ f.op # "add"
  BY <1>2, <1>3 DEF Calling
<1>5. Pushed(q, f, q')
  BY <1>2, <1>3, <1>4, PushCall
<1>6. /\ q' \in Seq(Calling) /\ AddsOnce(q') /\ AddsMatch(q', heap)
      /\ \A r : ToAdd(q', r) <=> ToAdd(q, r)
  BY <1>3, <1>4, <1>5 DEF Pushed
<1>7. Types'
  BY <1>1, <1>6 DEF OwnInv, Types
<1>8. SequencesOK' /\ Match' /\ CancelOK'
  BY <1>1 DEF OwnInv, SequencesOK, Match, CancelOK
<1>9. Partition'
  BY <1>1, <1>6 DEF OwnInv, Partition, Shared
<1>10. AddsMatch(q, heap)'
  BY <1>1, <1>6
<1> QED BY <1>1, <1>6, <1>7, <1>8, <1>9, <1>10 DEF OwnInv

(* cancelInLoop(): a timer that waits is deleted; one of the expiry that   *)
(* is being run is marked.                                                 *)
LEMMA CancelOwns ==
    ASSUME OwnInv, NEW id \in Ids, CancelInLoop(id),
           UNCHANGED <<time, fd, created, expired, now, phase, adding, ids>>,
           q' \in Seq(Calling), AddsOnce(q'), AddsMatch(q', heap),
           \A r : ToAdd(q', r) <=> ToAdd(q, r)
    PROVE  OwnInv'
<1>1. /\ time' = time /\ fd' = fd /\ created' = created /\ expired' = expired
      /\ now' = now /\ phase' = phase /\ adding' = adding /\ ids' = ids
  OBVIOUS
<1>2. id.p \in Pointers /\ id.seq \in Nat /\ id = [p |-> id.p, seq |-> id.seq]
  BY DEF Ids
<1>3. cancelled' = IF Owned(id) THEN cancelled \cup {id.seq} ELSE cancelled
  BY DEF CancelInLoop
<1>4. /\ timers \subseteq Entries /\ expired \subseteq Entries /\ active \subseteq Ids
      /\ canceling \subseteq Ids /\ cancelled \subseteq Nat /\ created \in Nat
      /\ heap \in [Pointers -> Records]
  BY DEF OwnInv, Types
<1>5. Owned(id) => heap[id.p].seq = id.seq
  BY DEF Owned
<1>6. cancelled' \subseteq Nat /\ \A n \in cancelled' : n <= created
  BY <1>2, <1>3, <1>4, <1>5 DEF OwnInv, SequencesOK
<1>7. ASSUME NEW p \in Pointers, heap[p] # Free, heap[p].seq \in cancelled'
      PROVE  heap[p].seq \in cancelled \/ (p = id.p /\ Owned(id))
  <2>1. heap[p].seq # 0
    BY <1>7, SequenceOfFree
  <2>2. CASE heap[p].seq \notin cancelled
    <3>1. Owned(id) /\ heap[p].seq = id.seq
      BY <1>3, <1>7, <2>2
    <3>2. p = id.p
      BY <1>2, <1>5, <2>1, <3>1 DEF OwnInv, SequencesOK
    <3> QED BY <3>1, <3>2
  <2> QED BY <2>2
<1>8. CASE id \in active
  <2>1. /\ timers' = timers \ {Entry(id.p, heap[id.p])}
        /\ active' = active \ {id}
        /\ heap' = [heap EXCEPT ![id.p] = Free]
        /\ canceling' = canceling
    BY <1>8 DEF CancelInLoop
  <2>2. id = ActiveTimer(id.p, heap[id.p])
    BY <1>8 DEF OwnInv, Match
  <2>3. In(active, id.p) /\ In(timers, id.p)
    BY <1>2, <1>8 DEF OwnInv, Match, In
  <2>4. heap[id.p] # Free /\ ~In(expired, id.p) /\ ~ToAdd(q, id.p)
    BY <1>2, <2>3 DEF OwnInv, Partition, Shared
  <2>5. heap'[id.p] = Free /\ (\A r \in Pointers : r # id.p => heap'[r] = heap[r])
        /\ heap' \in [Pointers -> Records]
    BY <1>2, <1>4, <2>1 DEF Free, Records
  <2>6. \A e \in timers : e \in timers' <=> e.p # id.p
    <3>1. Entry(id.p, heap[id.p]).p = id.p
      BY DEF Entry
    <3> QED BY <2>1, <3>1 DEF OwnInv, Match
  <2>7. \A a \in active : a \in active' <=> a.p # id.p
    BY <2>1, <2>2 DEF OwnInv, Match
  <2>8. timers' \subseteq timers /\ active' \subseteq active
    BY <2>1
  <2>9. \A r : In(timers', r) <=> In(timers, r) /\ r # id.p
    BY <2>6, <2>8 DEF In
  <2>10. \A r : In(active', r) <=> In(active, r) /\ r # id.p
    BY <2>7, <2>8 DEF In
  <2>11. Types'
    BY <1>1, <1>4, <1>6, <2>1, <2>5, <2>8 DEF OwnInv, Types
  <2>12. SequencesOK'
    <3>1. Free.seq = 0
      BY DEF Free
    <3>2. \A p \in Pointers : heap'[p].seq <= created /\ (heap'[p].seq = 0 => heap'[p] = Free)
      BY <1>4, <2>5, <3>1 DEF OwnInv, SequencesOK
    <3>3. \A p, r \in Pointers : heap'[p].seq = heap'[r].seq /\ heap'[p].seq # 0 => p = r
      BY <2>5, <3>1 DEF OwnInv, SequencesOK
    <3> QED BY <1>1, <1>6, <3>2, <3>3 DEF SequencesOK
  <2>13. Match'
    <3>1. \A e \in timers' : e.p \in Pointers /\ e.p # id.p /\ e = Entry(e.p, heap[e.p])
      BY <1>4, <2>6, <2>8 DEF OwnInv, Match, Entries
    <3>2. \A a \in active' : a.p \in Pointers /\ a.p # id.p /\ a = ActiveTimer(a.p, heap[a.p])
      BY <1>4, <2>7, <2>8 DEF OwnInv, Match, Ids
    <3>3. \A e \in expired : e.p \in Pointers /\ e.p # id.p /\ e = Entry(e.p, heap[e.p])
      BY <1>4, <2>4 DEF OwnInv, Match, Entries, In
    <3>4. \A r \in Pointers : In(active', r) <=> In(timers', r)
      BY <2>9, <2>10 DEF OwnInv, Match
    <3> QED BY <1>1, <2>5, <3>1, <3>2, <3>3, <3>4 DEF Match
  <2>14. ASSUME NEW r \in Pointers
         PROVE  /\ heap'[r] # Free <=> In(timers', r) \/ In(expired', r) \/ ToAdd(q', r)
                /\ ~Shared(r)'
    <3>1. heap[r] # Free <=> In(timers, r) \/ In(expired, r) \/ ToAdd(q, r)
      BY DEF OwnInv, Partition
    <3>2. ~Shared(r)
      BY DEF OwnInv, Partition
    <3>3. CASE r = id.p
      BY <1>1, <2>4, <2>5, <2>9, <3>3 DEF Shared
    <3>4. CASE r # id.p
      BY <1>1, <2>5, <2>9, <3>1, <3>2, <3>4 DEF Shared
    <3> QED BY <3>3, <3>4
  <2>15. Partition'
    BY <2>14 DEF Partition
  <2>16. CancelOK'
    <3> SUFFICES ASSUME NEW r \in Pointers, heap'[r] # Free, heap'[r].seq \in cancelled'
                 PROVE  In(expired', r) /\ ActiveTimer(r, heap'[r]) \in canceling'
      BY DEF CancelOK
    <3>1. r # id.p /\ heap'[r] = heap[r]
      BY <2>5
    <3>2. heap[r].seq \in cancelled
      BY <1>7, <3>1
    <3> QED BY <1>1, <2>1, <3>1, <3>2 DEF OwnInv, CancelOK
  <2>17. AddsMatch(q', heap')
    <3>1. \A r \in Pointers : ToAdd(q', r) => heap'[r] = heap[r]
      BY <2>4, <2>5
    <3> QED BY <3>1, AddsKept
  <2> QED BY <1>1, <2>11, <2>12, <2>13, <2>15, <2>16, <2>17 DEF OwnInv
<1>9. CASE id \notin active
  <2>1. timers' = timers /\ active' = active /\ heap' = heap /\ CancelExpired(id)
    BY <1>9 DEF CancelInLoop
  <2>2. canceling' = IF phase = "calling" THEN canceling \cup {id} ELSE canceling
    BY <2>1 DEF CancelExpired
  <2>3. canceling \subseteq canceling' /\ canceling' \subseteq Ids
    BY <1>4, <2>2
  <2>4. Types'
    BY <1>1, <1>6, <2>1, <2>3 DEF OwnInv, Types
  <2>5. SequencesOK'
    BY <1>1, <1>6, <2>1 DEF OwnInv, SequencesOK
  <2>6. Match'
    BY <1>1, <2>1 DEF OwnInv, Match
  <2>7. Partition'
    BY <1>1, <2>1 DEF OwnInv, Partition, Shared
  <2>8. ASSUME heap[id.p] # Free, Owned(id)
        PROVE  In(expired, id.p) /\ ActiveTimer(id.p, heap[id.p]) \in canceling'
    <3>1. id = ActiveTimer(id.p, heap[id.p])
      BY <1>2, <1>5, <2>8 DEF ActiveTimer
    <3>2. ~In(timers, id.p)
      <4>1. ~In(active, id.p)
        BY <1>9, <3>1 DEF OwnInv, Match, In
      <4> QED BY <1>2, <4>1 DEF OwnInv, Match
    <3>3. ~ToAdd(q, id.p)
      <4> SUFFICES ASSUME NEW i \in 1 .. Len(q), q[i].op = "add", q[i].id.p = id.p
                   PROVE  FALSE
        BY DEF ToAdd
      <4>1. q \in Seq(Calling) /\ q[i].id = ActiveTimer(q[i].id.p, heap[q[i].id.p])
        BY DEF OwnInv, Types, AddsMatch
      <4>2. q[i] \in Calling /\ i \in DOMAIN q
        BY <4>1
      <4>3. q[i].id = id
        BY <3>1, <4>1
      <4>4. q[i] = [op |-> "add", id |-> id]
        BY <4>2, <4>3 DEF Calling
      <4> QED BY <2>8, <4>2, <4>4 DEF Owned
    <3>4. In(expired, id.p)
      BY <1>2, <2>8, <3>2, <3>3 DEF OwnInv, Partition
    <3>5. phase = "calling"
      BY <3>4 DEF OwnInv, In
    <3> QED BY <2>2, <3>1, <3>4, <3>5
  <2>9. CancelOK'
    <3> SUFFICES ASSUME NEW r \in Pointers, heap[r] # Free, heap[r].seq \in cancelled'
                 PROVE  In(expired, r) /\ ActiveTimer(r, heap[r]) \in canceling'
      BY <1>1, <2>1 DEF CancelOK
    <3>1. heap[r].seq \in cancelled \/ (r = id.p /\ Owned(id))
      BY <1>7
    <3>2. CASE heap[r].seq \in cancelled
      BY <2>3, <3>2 DEF OwnInv, CancelOK
    <3>3. CASE r = id.p /\ Owned(id)
      BY <2>8, <3>3
    <3> QED BY <3>1, <3>2, <3>3
  <2>10. AddsMatch(q, heap)'
    BY <2>1
  <2> QED BY <1>1, <2>4, <2>5, <2>6, <2>7, <2>9, <2>10 DEF OwnInv
<1> QED BY <1>8, <1>9

-----------------------------------------------------------------------------
(* The expiry *)

(* handleRead() takes its timers out of both sets; none of them, and no    *)
(* other one, was cancelled.                                               *)
LEMMA HandleReadOwns ==
    ASSUME OwnInv, HandleRead
    PROVE  OwnInv'
<1>1. /\ time' = time /\ heap' = heap /\ created' = created /\ q' = q
      /\ adding' = adding /\ ids' = ids /\ cancelled' = cancelled
      /\ phase' = "calling" /\ canceling' = {} /\ now' = TimestampNow
      /\ fd' = ReadTimerfd /\ phase = "ready"
  BY DEF HandleRead
<1>2. PICK g : g = GetExpired
  OBVIOUS
<1>3. /\ expired' = g /\ timers' = timers \ g
      /\ active' = active \ {ActiveTimer(e.p, heap[e.p]) : e \in g}
  BY <1>2 DEF HandleRead
<1>4. g \subseteq timers
  BY <1>2 DEF GetExpired
<1>5. expired = {}
  BY <1>1 DEF OwnInv
<1>6. /\ timers \subseteq Entries /\ active \subseteq Ids
      /\ time \in Nat /\ fd \in [at : Int, readable : BOOLEAN]
  BY DEF OwnInv, Types
<1>7. TimestampNow \in Nat
  BY <1>6, ClockSplits DEF TimestampNow
<1>8. ReadTimerfd \in [at : Int, readable : BOOLEAN]
  BY <1>6 DEF ReadTimerfd
<1>9. g \subseteq Entries /\ timers' \subseteq Entries /\ active' \subseteq Ids
  BY <1>3, <1>4, <1>6
<1>10. Types'
  BY <1>1, <1>3, <1>7, <1>8, <1>9 DEF OwnInv, Types
<1>11. SequencesOK'
  BY <1>1 DEF OwnInv, SequencesOK
<1>12. \A e \in timers : e = Entry(e.p, heap[e.p])
  BY DEF OwnInv, Match
<1>13. \A a \in active : a = ActiveTimer(a.p, heap[a.p])
  BY DEF OwnInv, Match
<1>14. \A r : In(timers, r) <=> In(timers', r) \/ In(g, r)
  BY <1>3, <1>4 DEF In
<1>15. \A r : ~(In(timers', r) /\ In(g, r))
  BY <1>3, <1>4, <1>12 DEF In
<1>16. \A a \in active : a \in active' <=> ~In(g, a.p)
  <2> SUFFICES ASSUME NEW a \in active
               PROVE  a \in active' <=> ~In(g, a.p)
    OBVIOUS
  <2>1. ASSUME In(g, a.p) PROVE a \notin active'
    <3>1. PICK e \in g : e.p = a.p
      BY <2>1 DEF In
    <3>2. a = ActiveTimer(e.p, heap[e.p])
      BY <1>13, <3>1
    <3> QED BY <1>3, <3>2
  <2>2. ASSUME a \notin active' PROVE In(g, a.p)
    <3>1. PICK e \in g : a = ActiveTimer(e.p, heap[e.p])
      BY <1>3, <2>2
    <3>2. a.p = e.p
      BY <3>1 DEF ActiveTimer
    <3> QED BY <3>2 DEF In
  <2> QED BY <2>1, <2>2
<1>17. \A r : In(active', r) <=> In(active, r) /\ ~In(g, r)
  BY <1>3, <1>16 DEF In
<1>18. \A r \in Pointers : In(active', r) <=> In(timers', r)
  BY <1>14, <1>15, <1>17 DEF OwnInv, Match
<1>19. Match'
  BY <1>1, <1>3, <1>4, <1>12, <1>13, <1>18 DEF Match
<1>20. ~\E r : In(expired, r)
  BY <1>5 DEF In
<1>21. Partition'
  <2>1. expired' = g /\ q' = q /\ heap' = heap
    BY <1>1, <1>3
  <2>2. ASSUME NEW r \in Pointers
        PROVE  /\ heap'[r] # Free <=> In(timers', r) \/ In(expired', r) \/ ToAdd(q', r)
               /\ ~Shared(r)'
    <3>1. heap[r] # Free <=> In(timers, r) \/ In(expired, r) \/ ToAdd(q, r)
      BY DEF OwnInv, Partition
    <3>2. ~Shared(r)
      BY DEF OwnInv, Partition
    <3> QED BY <1>14, <1>15, <1>20, <2>1, <3>1, <3>2 DEF Shared
  <2> QED BY <2>2 DEF Partition
<1>22. CancelOK'
  BY <1>1, <1>20 DEF OwnInv, CancelOK
<1>23. AddsOnce(q)' /\ AddsMatch(q, heap)'
  BY <1>1 DEF OwnInv
<1> QED BY <1>1, <1>10, <1>11, <1>19, <1>21, <1>22, <1>23 DEF OwnInv

(* What reset() does to the timers at the addresses of the expiry: D are   *)
(* deleted, R restarted.                                                   *)
LEMMA ResetSplits ==
    ASSUME OwnInv, Reset
    PROVE  \E R, D \in SUBSET Pointers :
              /\ R \cap D = {}
              /\ \A p \in Pointers : In(expired, p) <=> p \in R \cup D
              /\ \A p \in R : /\ ActiveTimer(p, heap[p]) \notin canceling
                              /\ heap'[p] \in Records /\ heap'[p].seq = heap[p].seq
                              /\ heap'[p].exp > 0
              /\ \A p \in D : heap'[p] = Free
              /\ \A p \in Pointers \ (R \cup D) : heap'[p] = heap[p]
              /\ timers' = timers \cup {Entry(p, heap'[p]) : p \in R}
              /\ active' = active \cup {ActiveTimer(p, heap'[p]) : p \in R}
              /\ heap' \in [Pointers -> Records]
<1>1. PICK batch : batch = {e.p : e \in expired}
  OBVIOUS
<1>2. PICK R : R = {r \in batch : Repeats(r)}
  OBVIOUS
<1>3. PICK D : D = Deleted(batch)
  OBVIOUS
<1>4. PICK new : new = [p \in R |-> Restart(heap[p])]
  OBVIOUS
<1>5. /\ heap' = [p \in Pointers |-> IF p \in D THEN Free
                                     ELSE IF p \in DOMAIN new THEN new[p] ELSE heap[p]]
      /\ Insert(new)
  BY <1>1, <1>2, <1>3, <1>4 DEF Reset
<1>6. expired \subseteq Entries /\ now \in Nat /\ heap \in [Pointers -> Records]
  BY DEF OwnInv, Types
<1>7. batch \subseteq Pointers /\ \A p : In(expired, p) <=> p \in batch
  BY <1>1, <1>6 DEF Entries, In
<1>8. R \cap D = {} /\ R \cup D = batch /\ R \subseteq Pointers /\ D \subseteq Pointers
  BY <1>2, <1>3, <1>7 DEF Deleted
<1>9. DOMAIN new = R /\ \A p \in R : new[p] = Restart(heap[p])
  BY <1>4
<1>10. ASSUME NEW p \in R
       PROVE  /\ heap'[p] = new[p]
              /\ ActiveTimer(p, heap[p]) \notin canceling
              /\ new[p] \in Records /\ new[p].seq = heap[p].seq /\ new[p].exp > 0
  <2>1. heap[p] \in Records /\ heap[p].interval \in Nat /\ heap[p].interval > 0
        /\ ActiveTimer(p, heap[p]) \notin canceling
    BY <1>2, <1>6, <1>8 DEF Repeats, Records
  <2>2. new[p] = [heap[p] EXCEPT !.exp = now + heap[p].interval]
    BY <1>9 DEF Restart, AddTime
  <2>3. now + heap[p].interval \in Nat /\ now + heap[p].interval > 0
    BY <1>6, <2>1
  <2>4. new[p] \in Records /\ new[p].seq = heap[p].seq /\ new[p].exp = now + heap[p].interval
    BY <2>1, <2>2, <2>3 DEF Records
  <2>5. heap'[p] = new[p]
    BY <1>5, <1>8, <1>9
  <2> QED BY <2>1, <2>3, <2>4, <2>5
<1>11. \A p \in D : heap'[p] = Free
  BY <1>5, <1>8
<1>12. \A p \in Pointers \ (R \cup D) : heap'[p] = heap[p]
  BY <1>5, <1>9
<1>13. Free \in Records
  BY DEF Free, Records
<1>14. \A p \in Pointers : heap'[p] \in Records
  BY <1>6, <1>10, <1>11, <1>12, <1>13
<1>15. heap' \in [Pointers -> Records]
  BY <1>5, <1>14
<1>16. timers' = timers \cup {Entry(p, heap'[p]) : p \in R}
  BY <1>5, <1>9, <1>10 DEF Insert
<1>17. active' = active \cup {ActiveTimer(p, heap'[p]) : p \in R}
  BY <1>5, <1>9, <1>10 DEF Insert
<1> R \in SUBSET Pointers /\ D \in SUBSET Pointers
  BY <1>8
<1>18. \A p \in Pointers : In(expired, p) <=> p \in R \cup D
  BY <1>7, <1>8
<1>19. \A p \in R : /\ ActiveTimer(p, heap[p]) \notin canceling
                    /\ heap'[p] \in Records /\ heap'[p].seq = heap[p].seq
                    /\ heap'[p].exp > 0
  BY <1>10
<1> WITNESS R \in SUBSET Pointers, D \in SUBSET Pointers
<1> QED BY <1>8, <1>11, <1>12, <1>15, <1>16, <1>17, <1>18, <1>19, Zenon

LEMMA ResetOwns ==
    ASSUME OwnInv, Reset
    PROVE  OwnInv'
<1>1. /\ time' = time /\ created' = created /\ canceling' = canceling /\ now' = now
      /\ q' = q /\ adding' = adding /\ ids' = ids /\ cancelled' = cancelled
      /\ phase = "calling" /\ phase' = "poll" /\ expired' = {}
  BY DEF Reset
<1>2. PICK R, D \in SUBSET Pointers :
          /\ R \cap D = {}
          /\ \A p \in Pointers : In(expired, p) <=> p \in R \cup D
          /\ \A p \in R : /\ ActiveTimer(p, heap[p]) \notin canceling
                          /\ heap'[p] \in Records /\ heap'[p].seq = heap[p].seq
                          /\ heap'[p].exp > 0
          /\ \A p \in D : heap'[p] = Free
          /\ \A p \in Pointers \ (R \cup D) : heap'[p] = heap[p]
          /\ timers' = timers \cup {Entry(p, heap'[p]) : p \in R}
          /\ active' = active \cup {ActiveTimer(p, heap'[p]) : p \in R}
          /\ heap' \in [Pointers -> Records]
  BY ResetSplits
<1>3. /\ timers \subseteq Entries /\ active \subseteq Ids /\ time \in Nat
      /\ fd \in [at : Int, readable : BOOLEAN]
  BY DEF OwnInv, Types
<1>4. \A p \in R : heap[p] # Free /\ heap[p].seq # 0 /\ heap'[p] # Free
  <2> SUFFICES ASSUME NEW p \in R
               PROVE  heap[p] # Free /\ heap[p].seq # 0 /\ heap'[p] # Free
    OBVIOUS
  <2>1. p \in Pointers /\ In(expired, p)
    BY <1>2
  <2>2. heap[p] # Free
    BY <2>1 DEF OwnInv, Partition
  <2>3. heap[p].seq # 0 /\ heap'[p].seq = heap[p].seq
    BY <1>2, <2>1, <2>2, SequenceOfFree
  <2>4. Free.seq = 0
    BY DEF Free
  <2> QED BY <2>2, <2>3, <2>4
<1>5. \A p \in R \cup D : ~In(timers, p) /\ ~In(active, p) /\ ~ToAdd(q, p)
  BY <1>2 DEF OwnInv, Partition, Shared, Match
<1>6. \A p : Entry(p, heap'[p]).p = p /\ ActiveTimer(p, heap'[p]).p = p
  BY DEF Entry, ActiveTimer
<1>7. \A p : In(timers', p) <=> In(timers, p) \/ p \in R
  BY <1>2, <1>6 DEF In
<1>8. \A p : In(active', p) <=> In(active, p) \/ p \in R
  BY <1>2, <1>6 DEF In
<1>9. timers' \subseteq Entries
  <2>1. \A p \in R : Entry(p, heap'[p]) \in Entries
    BY <1>2 DEF Entry, Entries, Records
  <2> QED BY <1>2, <1>3, <2>1
<1>10. active' \subseteq Ids
  <2>1. \A p \in R : ActiveTimer(p, heap'[p]) \in Ids
    BY <1>2 DEF ActiveTimer, Ids, Records
  <2> QED BY <1>2, <1>3, <2>1
<1>11. fd' \in [at : Int, readable : BOOLEAN]
  <2>1. ArmForFirst
    BY DEF Reset
  <2>2. CASE timers' = {}
    BY <1>3, <2>1, <2>2 DEF ArmForFirst
  <2>3. CASE timers' # {}
    <3>1. PICK e \in timers' : fd' = IF Valid(e.exp) THEN ResetTimerfd(e.exp) ELSE fd
      BY <2>1, <2>3 DEF ArmForFirst
    <3>2. e.exp \in Nat
      BY <1>9 DEF Entries
    <3>3. ResetTimerfd(e.exp) \in [at : Int, readable : BOOLEAN]
      BY <1>3, <3>2, ResetArms
    <3> QED BY <1>3, <3>1, <3>3
  <2> QED BY <2>2, <2>3
<1>12. Types'
  BY <1>1, <1>2, <1>9, <1>10, <1>11 DEF OwnInv, Types
<1>13. \A p \in Pointers : heap'[p] = heap[p] \/ heap'[p] = Free \/ (p \in R /\ heap'[p].seq = heap[p].seq)
  BY <1>2
<1>14. SequencesOK'
  <2>1. Free.seq = 0
    BY DEF Free
  <2>2. \A p \in Pointers : heap'[p].seq = heap[p].seq \/ heap'[p].seq = 0
    BY <1>13, <2>1
  <2>3. \A p \in Pointers : heap'[p].seq = 0 => heap'[p] = Free
    BY <1>4, <1>13, SequenceOfFree
  <2>4. created \in Nat /\ \A p \in Pointers : heap[p].seq <= created
    BY DEF OwnInv, Types, SequencesOK
  <2>5. \A p \in Pointers : heap'[p].seq <= created
    BY <2>2, <2>4
  <2>6. \A p, r \in Pointers : heap'[p].seq = heap'[r].seq /\ heap'[p].seq # 0 => p = r
    BY <2>2 DEF OwnInv, SequencesOK
  <2>7. \A n \in cancelled : n <= created
    BY DEF OwnInv, SequencesOK
  <2> QED BY <1>1, <2>3, <2>5, <2>6, <2>7 DEF SequencesOK
<1>15. Match'
  <2>1. \A e \in timers : e.p \in Pointers /\ e = Entry(e.p, heap[e.p]) /\ e.p \notin R \cup D
    BY <1>3, <1>5 DEF OwnInv, Match, Entries, In
  <2>2. \A a \in active : a.p \in Pointers /\ a = ActiveTimer(a.p, heap[a.p]) /\ a.p \notin R \cup D
    BY <1>3, <1>5 DEF OwnInv, Match, Ids, In
  <2>3. \A e \in timers' : e = Entry(e.p, heap'[e.p])
    BY <1>2, <1>6, <2>1
  <2>4. \A a \in active' : a = ActiveTimer(a.p, heap'[a.p])
    BY <1>2, <1>6, <2>2
  <2>5. \A p \in Pointers : In(active', p) <=> In(timers', p)
    BY <1>7, <1>8 DEF OwnInv, Match
  <2> QED BY <1>1, <2>3, <2>4, <2>5 DEF Match
<1>16. \A p : ~In(expired', p)
  BY <1>1 DEF In
<1>17. ASSUME NEW r \in Pointers
       PROVE  /\ heap'[r] # Free <=> In(timers', r) \/ In(expired', r) \/ ToAdd(q', r)
              /\ ~Shared(r)'
  <2>1. heap[r] # Free <=> In(timers, r) \/ In(expired, r) \/ ToAdd(q, r)
    BY DEF OwnInv, Partition
  <2>2. ~Shared(r)
    BY DEF OwnInv, Partition
  <2>3. CASE r \in R
    BY <1>1, <1>4, <1>5, <1>7, <1>16, <2>3 DEF Shared
  <2>4. CASE r \in D
    <3>1. r \notin R /\ heap'[r] = Free /\ ~In(timers, r) /\ ~ToAdd(q, r)
      BY <1>2, <1>5, <2>4
    <3> QED BY <1>1, <1>7, <1>16, <3>1 DEF Shared
  <2>5. CASE r \notin R \cup D
    <3>1. heap'[r] = heap[r] /\ ~In(expired, r) /\ r \notin R
      BY <1>2, <2>5
    <3> QED BY <1>1, <1>7, <1>16, <2>1, <2>2, <3>1 DEF Shared
  <2> QED BY <2>3, <2>4, <2>5
<1>18. Partition'
  BY <1>17 DEF Partition
<1>19. CancelOK'
  <2> SUFFICES ASSUME NEW p \in Pointers, heap'[p] # Free, heap'[p].seq \in cancelled
               PROVE  FALSE
    BY <1>1 DEF CancelOK
  <2>1. p \notin D
    BY <1>2
  <2>2. heap[p] # Free /\ heap[p].seq \in cancelled
    BY <1>2, <1>4, <2>1
  <2>3. In(expired, p) /\ ActiveTimer(p, heap[p]) \in canceling
    BY <2>2 DEF OwnInv, CancelOK
  <2> QED BY <1>2, <2>1, <2>3
<1>20. AddsOnce(q)' /\ AddsMatch(q, heap)'
  <2>1. q \in Seq(Calling) /\ AddsOnce(q) /\ AddsMatch(q, heap)
    BY DEF OwnInv, Types
  <2>2. \A p \in Pointers : ToAdd(q, p) => heap'[p] = heap[p]
    BY <1>2, <1>5
  <2>3. AddsMatch(q, heap')
    BY <2>1, <2>2, AddsKept
  <2> QED BY <1>1, <2>1, <2>3
<1> QED BY <1>1, <1>12, <1>14, <1>15, <1>18, <1>19, <1>20 DEF OwnInv

LEMMA DestroyOwns ==
    ASSUME OwnInv, Destroy
    PROVE  OwnInv'
<1>1. /\ time' = time /\ fd' = fd /\ created' = created /\ canceling' = canceling
      /\ expired' = expired /\ now' = now /\ q' = q /\ adding' = adding /\ ids' = ids
      /\ cancelled' = cancelled /\ phase = "poll" /\ phase' = "gone"
      /\ timers' = {} /\ active' = {}
  BY DEF Destroy
<1>2. expired = {}
  BY <1>1 DEF OwnInv
<1>3. heap \in [Pointers -> Records] /\ Free \in Records
  BY DEF OwnInv, Types, Free, Records
<1>4. heap' = [p \in Pointers |-> IF In(timers, p) THEN Free ELSE heap[p]]
  BY DEF Destroy, In
<1>5. heap' \in [Pointers -> Records]
      /\ \A p \in Pointers : heap'[p] = IF In(timers, p) THEN Free ELSE heap[p]
  BY <1>3, <1>4
<1>6. Types'
  BY <1>1, <1>5 DEF OwnInv, Types
<1>7. \A p : ~In(expired, p) /\ ~In(timers', p) /\ ~In(active', p)
  BY <1>1, <1>2 DEF In
<1>8. SequencesOK'
  <2>1. Free.seq = 0
    BY DEF Free
  <2>2. created \in Nat /\ SequencesOK
    BY DEF OwnInv, Types
  <2>3. \A p \in Pointers : heap'[p].seq <= created /\ (heap'[p].seq = 0 => heap'[p] = Free)
    BY <1>5, <2>1, <2>2 DEF SequencesOK
  <2>4. \A p, r \in Pointers : heap'[p].seq = heap'[r].seq /\ heap'[p].seq # 0 => p = r
    BY <1>5, <2>1, <2>2 DEF SequencesOK
  <2> QED BY <1>1, <2>2, <2>3, <2>4 DEF SequencesOK
<1>9. Match'
  BY <1>1, <1>2, <1>7 DEF Match
<1>10. Partition'
  BY <1>1, <1>5, <1>7 DEF OwnInv, Partition, Shared
<1>11. CancelOK'
  BY <1>1, <1>5, <1>7 DEF OwnInv, CancelOK
<1>12. AddsOnce(q)' /\ AddsMatch(q, heap)'
  <2>1. q \in Seq(Calling) /\ AddsOnce(q) /\ AddsMatch(q, heap)
    BY DEF OwnInv, Types
  <2>2. \A p \in Pointers : ToAdd(q, p) => heap'[p] = heap[p]
    BY <1>5 DEF OwnInv, Partition, Shared
  <2>3. AddsMatch(q, heap')
    BY <2>1, <2>2, AddsKept
  <2> QED BY <1>1, <2>1, <2>3
<1> QED BY <1>1, <1>2, <1>6, <1>8, <1>9, <1>10, <1>11, <1>12 DEF OwnInv

-----------------------------------------------------------------------------
(* The owners stay as they are when none of them, nor the heap, changes. *)
LEMMA OwnersKept ==
    ASSUME OwnInv, Types',
           UNCHANGED <<heap, created, timers, active, canceling, expired, q, cancelled>>,
           phase' # "calling" => expired' = {}
    PROVE  OwnInv'
<1>1. /\ heap' = heap /\ created' = created /\ timers' = timers /\ active' = active
      /\ canceling' = canceling /\ expired' = expired /\ q' = q /\ cancelled' = cancelled
  OBVIOUS
<1>2. SequencesOK' /\ Match'
  BY <1>1 DEF OwnInv, SequencesOK, Match
<1>3. Partition' /\ CancelOK'
  BY <1>1 DEF OwnInv, Partition, Shared, CancelOK
<1>4. AddsOnce(q)' /\ AddsMatch(q, heap)'
  BY <1>1 DEF OwnInv
<1> QED BY <1>2, <1>3, <1>4 DEF OwnInv

LEMMA OwnInductive ==
    ASSUME OwnInv, [Next]_vars
    PROVE  OwnInv'
<1>1. CASE Tick
  <2>1. /\ time' = time + 1 /\ UNCHANGED <<heap, created, timers, active, canceling,
                    expired, now, phase, q, adding, ids, cancelled>>
        /\ fd' = IF fd.at = time' THEN [at |-> Never, readable |-> TRUE] ELSE fd
    BY <1>1 DEF Tick
  <2>2. fd \in [at : Int, readable : BOOLEAN] /\ time \in Nat
    BY DEF OwnInv, Types
  <2>3. [at |-> Never, readable |-> TRUE] \in [at : Int, readable : BOOLEAN]
    BY DEF Never
  <2>4. fd' \in [at : Int, readable : BOOLEAN] /\ time' \in Nat
    BY <2>1, <2>2, <2>3
  <2>5. Types'
    BY <2>1, <2>4 DEF OwnInv, Types
  <2> QED BY <2>1, <2>5, OwnersKept DEF OwnInv
<1>2. CASE \E p \in Pointers, when \in Whens, interval \in Intervals :
              LoopAdd(p, when, interval) \/ OtherAdd(p, when, interval)
  BY <1>2, LoopAddOwns, OtherAddOwns
<1>3. CASE \E id \in ids : LoopCancel(id) \/ OtherCancel(id)
  <2>1. PICK id \in ids : LoopCancel(id) \/ OtherCancel(id)
    BY <1>3
  <2>2. CASE OtherCancel(id)
    BY <2>2, OtherCancelOwns
  <2>3. CASE LoopCancel(id)
    <3>1. id \in Ids /\ q \in Seq(Calling) /\ AddsOnce(q) /\ AddsMatch(q, heap)
      BY DEF OwnInv, Types
    <3>2. CancelInLoop(id) /\ q' = q
          /\ UNCHANGED <<time, fd, created, expired, now, phase, adding, ids>>
      BY <2>3 DEF LoopCancel
    <3> QED BY <3>1, <3>2, CancelOwns
  <2> QED BY <2>1, <2>2, <2>3
<1>4. CASE ReadSequence
  <2>1. /\ UNCHANGED <<time, fd, heap, created, timers, active, canceling, expired, now,
                       phase, q, cancelled>>
        /\ ids' = ids \cup {TimerId(adding, heap[adding])} /\ adding # 0 /\ adding' = 0
    BY <1>4 DEF ReadSequence
  <2>2. adding \in Pointers
    BY <2>1 DEF OwnInv, Types
  <2>3. TimerId(adding, heap[adding]) \in Ids
    BY <2>2, TimersTyped DEF TimerId, Ids
  <2>4. ids' \subseteq Ids
    BY <2>1, <2>3 DEF OwnInv, Types
  <2>5. Types'
    BY <2>1, <2>4 DEF OwnInv, Types
  <2> QED BY <2>1, <2>5, OwnersKept DEF OwnInv
<1>5. CASE RunAdd
  BY <1>5, RunAddOwns
<1>6. CASE RunCancel
  <2>1. PICK f : f = Head(q)
    OBVIOUS
  <2>2. /\ q # << >> /\ f.op = "cancel" /\ q' = Tail(q) /\ CancelInLoop(f.id)
        /\ UNCHANGED <<time, fd, created, expired, now, phase, adding, ids>>
    BY <1>6, <2>1 DEF RunCancel
  <2>3. q \in Seq(Calling) /\ AddsOnce(q) /\ AddsMatch(q, heap)
    BY DEF OwnInv, Types
  <2>4. Popped(q, f, q')
    BY <2>1, <2>2, <2>3, PopCall
  <2>5. f.op # "add"
    BY <2>2
  <2>6. /\ q' \in Seq(Calling) /\ AddsOnce(q') /\ AddsMatch(q', heap) /\ f \in Calling
        /\ \A r : ToAdd(q', r) <=> ToAdd(q, r)
    BY <2>3, <2>4, <2>5 DEF Popped
  <2>7. f.id \in Ids
    BY <2>6 DEF Calling
  <2> QED BY <2>2, <2>6, <2>7, CancelOwns
<1>7. CASE Poll
  <2>1. /\ UNCHANGED <<time, fd, heap, created, timers, active, canceling, expired, now, q,
                       adding, ids, cancelled>>
        /\ phase = "poll" /\ phase' = "ready"
    BY <1>7 DEF Poll
  <2>2. Types'
    BY <2>1 DEF OwnInv, Types
  <2> QED BY <2>1, <2>2, OwnersKept DEF OwnInv
<1>8. CASE HandleRead
  BY <1>8, HandleReadOwns
<1>9. CASE RunTimer
  <2>1. UNCHANGED <<time, fd, heap, created, timers, active, canceling, expired, now, phase,
                    q, adding, ids, cancelled>>
    BY <1>9 DEF RunTimer
  <2>2. Types'
    BY <2>1 DEF OwnInv, Types
  <2> QED BY <2>1, <2>2, OwnersKept DEF OwnInv
<1>10. CASE Reset
  BY <1>10, ResetOwns
<1>11. CASE Destroy
  BY <1>11, DestroyOwns
<1>12. CASE UNCHANGED vars
  <2>1. UNCHANGED <<time, fd, heap, created, timers, active, canceling, expired, now, phase,
                    q, adding, ids, cancelled>>
    BY <1>12 DEF vars
  <2>2. Types'
    BY <2>1 DEF OwnInv, Types
  <2> QED BY <2>1, <2>2, OwnersKept DEF OwnInv
<1> QED BY <1>1, <1>2, <1>3, <1>4, <1>5, <1>6, <1>7, <1>8, <1>9, <1>10, <1>11, <1>12
        DEF Next, Calls

-----------------------------------------------------------------------------
(* The timerfd is armed *)

(* Whether the timerfd f, at time t, fires in time for the expiration x *)
InTime(f, t, x) == f.readable \/ (f.at > t /\ f.at <= Max({t + MinDelay, x * Scale}))

LEMMA DelayTyped ==
    /\ MinDelay \in Nat /\ MinDelay >= 1 /\ Scale \in Nat /\ Scale >= 1
    /\ \A x \in Nat : x * Scale \in Nat
    /\ \A x, y \in Nat : x <= y => x * Scale <= y * Scale
<1>1. MinDelay \in Nat /\ MinDelay >= 1 /\ Scale \in Nat /\ Scale >= 1
  BY TimerAssumption
<1>2. \A x \in Nat : x * Scale \in Nat
  BY <1>1
<1>3. ASSUME NEW x \in Nat, NEW y \in Nat, x <= y
      PROVE  x * Scale <= y * Scale
  BY <1>1, <1>3
<1> QED BY <1>1, <1>2, <1>3

(* In time for an expiration is in time for a later one, and soon is in    *)
(* time for all.                                                           *)
LEMMA InTimeForLater ==
    ASSUME NEW f \in [at : Int, readable : BOOLEAN], NEW t \in Nat, NEW x \in Nat, NEW y \in Nat
    PROVE  /\ InTime(f, t, x) /\ x <= y => InTime(f, t, y)
           /\ f.at > t /\ f.at <= t + MinDelay => InTime(f, t, y)
<1>1. PICK a \in Int, b \in Int, c \in Int : a = t + MinDelay /\ b = x * Scale /\ c = y * Scale
  BY DelayTyped
<1>2. x <= y => b <= c
  BY <1>1, DelayTyped
<1>3. /\ Max({a, b}) = IF a >= b THEN a ELSE b
      /\ Max({a, c}) = IF a >= c THEN a ELSE c
  BY MaxOfTwo
<1>4. f.at \in Int
  OBVIOUS
<1>5. x <= y /\ f.at <= Max({a, b}) => f.at <= Max({a, c})
  BY <1>2, <1>3, <1>4
<1>6. f.at <= a => f.at <= Max({a, c})
  BY <1>3, <1>4
<1> QED BY <1>1, <1>5, <1>6 DEF InTime

(* A tick makes it readable, or leaves it in time. *)
LEMMA InTimeAfterTick ==
    ASSUME NEW f \in [at : Int, readable : BOOLEAN], NEW t \in Nat, NEW g,
           g = IF f.at = t + 1 THEN [at |-> Never, readable |-> TRUE] ELSE f
    PROVE  /\ \A x \in Nat : InTime(f, t, x) => InTime(g, t + 1, x)
           /\ f.readable \/ (f.at > t /\ f.at <= t + MinDelay) =>
                 g.readable \/ (g.at > t + 1 /\ g.at <= (t + 1) + MinDelay)
<1>1. CASE f.at = t + 1
  <2>1. g.readable
    BY <1>1
  <2> QED BY <2>1 DEF InTime
<1>2. CASE f.at # t + 1
  <2>1. g = f /\ f.at \in Int
    BY <1>2
  <2>2. f.at > t => f.at > t + 1
    BY <1>2, <2>1
  <2>3. f.at <= t + MinDelay => f.at <= (t + 1) + MinDelay
    BY <2>1, DelayTyped
  <2>4. ASSUME NEW x \in Nat, f.at <= Max({t + MinDelay, x * Scale})
        PROVE  f.at <= Max({(t + 1) + MinDelay, x * Scale})
    <3>1. PICK a \in Int, b \in Int, c \in Int :
              a = t + MinDelay /\ b = (t + 1) + MinDelay /\ c = x * Scale
      BY DelayTyped
    <3>2. a <= b
      BY <3>1, DelayTyped
    <3>3. /\ Max({a, c}) = IF a >= c THEN a ELSE c
          /\ Max({b, c}) = IF b >= c THEN b ELSE c
      BY MaxOfTwo
    <3>4. f.at <= Max({a, c})
      BY <2>4, <3>1
    <3>5. f.at <= Max({b, c})
      BY <2>1, <3>2, <3>3, <3>4
    <3> QED BY <3>1, <3>5
  <2> QED BY <2>1, <2>2, <2>3, <2>4 DEF InTime
<1> QED BY <1>1, <1>2

LEMMA ArmedInTime ==
    Armed <=> (phase = "poll" => \A e \in timers : InTime(fd, time, e.exp))
BY DEF Armed, InTime

LEMMA ArmedInTimeNext ==
    Armed' <=> (phase' = "poll" => \A e \in timers' : InTime(fd', time', e.exp))
BY DEF Armed, InTime

(* addTimerInLoop(): either the new timer is the earliest one, and the     *)
(* timerfd is armed for it, or it was armed for one that is no later.      *)
LEMMA AddArms ==
    ASSUME IInv, Types', NEW p \in Pointers, NEW t \in Records, AddTimerInLoop(p, t),
           UNCHANGED <<time, phase>>
    PROVE  ArmInv'
<1>1. timers' = timers \cup {Entry(p, t)}
  BY InsertOne DEF AddTimerInLoop
<1>2. t.exp \in Nat /\ Entry(p, t).exp = t.exp
  BY DEF Records, Entry
<1>3. time \in Nat /\ fd \in [at : Int, readable : BOOLEAN]
      /\ \A e \in timers : e.exp \in Nat
  BY DEF IInv, OwnInv, Types, Entries
<1>4. CASE EarliestChanged(t.exp)
  <2>1. fd' = ResetTimerfd(t.exp)
    BY <1>4 DEF AddTimerInLoop
  <2>2. /\ fd'.at > time
        /\ \A x \in Nat : x >= t.exp => fd'.at <= Max({time + MinDelay, x * Scale})
        /\ t.exp = 0 => fd'.at <= time + MinDelay
    BY <1>2, <1>3, <2>1, ResetArms
  <2>3. \A e \in timers : t.exp < e.exp
    BY <1>4 DEF EarliestChanged
  <2>4. \A e \in timers' : e.exp \in Nat /\ e.exp >= t.exp
    BY <1>1, <1>2, <1>3, <2>3
  <2>5. \A e \in timers' : InTime(fd', time', e.exp)
    BY <2>2, <2>4 DEF InTime
  <2>6. Armed'
    BY <2>5, ArmedInTimeNext
  <2>7. \A e \in timers' : e.exp = 0 => t.exp = 0
    BY <1>2, <2>4
  <2>8. \A e \in timers' : e.exp = 0 => Soon'
    BY <2>2, <2>7 DEF Soon
  <2> QED BY <2>6, <2>8 DEF ArmInv
<1>5. CASE ~EarliestChanged(t.exp)
  <2>1. fd' = fd /\ time' = time /\ phase' = phase
    BY <1>5 DEF AddTimerInLoop
  <2>2. PICK e \in timers : ~(t.exp < e.exp)
    BY <1>5 DEF EarliestChanged
  <2>3. e.exp \in Nat /\ e.exp <= t.exp
    BY <1>2, <1>3, <2>2
  <2>4. ASSUME phase = "poll"
        PROVE  \A d \in timers' : InTime(fd', time', d.exp)
    <3>1. \A d \in timers : InTime(fd, time, d.exp)
      BY <2>4, ArmedInTime DEF IInv, ArmInv
    <3>2. InTime(fd, time, t.exp)
      BY <1>2, <1>3, <2>3, <3>1, InTimeForLater
    <3> QED BY <1>1, <1>2, <2>1, <3>1, <3>2
  <2>5. Armed'
    BY <2>1, <2>4, ArmedInTimeNext
  <2>6. ASSUME phase = "calling", NEW d \in timers', d.exp = 0
        PROVE  Soon'
    <3>1. \A c \in timers : c.exp = 0 => Soon
      BY <2>6 DEF IInv, ArmInv
    <3>2. \E c \in timers : c.exp = 0
      BY <1>1, <1>2, <2>3, <2>6
    <3>3. Soon
      BY <3>1, <3>2
    <3> QED BY <2>1, <3>3 DEF Soon
  <2> QED BY <2>1, <2>5, <2>6 DEF ArmInv
<1> QED BY <1>4, <1>5

(* Fewer timers need no earlier timerfd. *)
LEMMA FewerArmed ==
    ASSUME IInv, UNCHANGED <<time, fd, phase>>, timers' \subseteq timers
    PROVE  ArmInv'
<1>1. time' = time /\ fd' = fd /\ phase' = phase
  OBVIOUS
<1>2. Armed'
  BY <1>1, ArmedInTime, ArmedInTimeNext DEF IInv, ArmInv
<1>3. Soon' <=> Soon
  BY <1>1 DEF Soon
<1> QED BY <1>1, <1>2, <1>3 DEF IInv, ArmInv

(* reset() arms the timerfd for the first timer, unless that one was added *)
(* with an invalid expiration, and then it is armed.                       *)
LEMMA ResetArmed ==
    ASSUME IInv, Types', Reset
    PROVE  ArmInv'
<1>1. phase = "calling" /\ phase' = "poll" /\ time' = time /\ ArmForFirst
  BY DEF Reset
<1>2. time \in Nat /\ fd \in [at : Int, readable : BOOLEAN]
  BY DEF IInv, OwnInv, Types
<1>3. \A e \in timers' : e.exp \in Nat
  BY DEF Types, Entries
<1>4. PICK R, D \in SUBSET Pointers :
          /\ \A p \in R : heap'[p].exp > 0
          /\ timers' = timers \cup {Entry(p, heap'[p]) : p \in R}
  <2>1. OwnInv
    BY DEF IInv
  <2> QED BY <2>1, ResetSplits
<1>5. ASSUME NEW d \in timers'
      PROVE  InTime(fd', time', d.exp)
  <2>1. PICK e \in timers' :
            /\ \A f \in timers' : e.exp <= f.exp
            /\ fd' = IF Valid(e.exp) THEN ResetTimerfd(e.exp) ELSE fd
    BY <1>1 DEF ArmForFirst
  <2>2. e.exp \in Nat /\ d.exp \in Nat /\ d.exp >= e.exp
    BY <1>3, <2>1
  <2>3. CASE e.exp > 0
    <3>1. fd' = ResetTimerfd(e.exp)
      BY <2>1, <2>3 DEF Valid
    <3>2. /\ fd'.at > time
          /\ \A x \in Nat : x >= e.exp => fd'.at <= Max({time + MinDelay, x * Scale})
      BY <1>2, <2>2, <3>1, ResetArms
    <3> QED BY <1>1, <2>2, <3>2 DEF InTime
  <2>4. CASE ~(e.exp > 0)
    <3>1. fd' = fd
      BY <2>1, <2>4 DEF Valid
    <3>2. \A p : Entry(p, heap'[p]).exp = heap'[p].exp
      BY DEF Entry
    <3>3. e \in timers /\ e.exp = 0
      BY <1>4, <2>2, <2>4, <3>2
    <3>4. Soon
      BY <1>1, <3>3 DEF IInv, ArmInv
    <3>5. InTime(fd, time, d.exp)
      <4>1. CASE fd.readable
        BY <4>1 DEF InTime
      <4>2. CASE ~fd.readable
        <5>1. fd.at > time /\ fd.at <= time + MinDelay
          BY <3>4, <4>2 DEF Soon
        <5> QED BY <1>2, <2>2, <5>1, InTimeForLater
      <4> QED BY <4>1, <4>2
    <3> QED BY <1>1, <3>1, <3>5
  <2> QED BY <2>3, <2>4
<1>6. Armed'
  BY <1>5, ArmedInTimeNext
<1> QED BY <1>1, <1>6 DEF ArmInv

LEMMA TickArmed ==
    ASSUME IInv, Tick
    PROVE  ArmInv'
<1>1. /\ time' = time + 1 /\ timers' = timers /\ phase' = phase
      /\ fd' = IF fd.at = time + 1 THEN [at |-> Never, readable |-> TRUE] ELSE fd
  BY DEF Tick
<1>2. time \in Nat /\ fd \in [at : Int, readable : BOOLEAN]
      /\ \A e \in timers : e.exp \in Nat
  BY DEF IInv, OwnInv, Types, Entries
<1>3. /\ \A x \in Nat : InTime(fd, time, x) => InTime(fd', time + 1, x)
      /\ fd.readable \/ (fd.at > time /\ fd.at <= time + MinDelay) =>
            fd'.readable \/ (fd'.at > time + 1 /\ fd'.at <= (time + 1) + MinDelay)
  BY <1>1, <1>2, InTimeAfterTick
<1>4. Armed'
  BY <1>1, <1>2, <1>3, ArmedInTime, ArmedInTimeNext DEF IInv, ArmInv
<1>5. Soon => Soon'
  BY <1>1, <1>3 DEF Soon
<1> QED BY <1>1, <1>4, <1>5 DEF IInv, ArmInv

LEMMA ArmInductive ==
    ASSUME IInv, OwnInv', [Next]_vars
    PROVE  ArmInv'
<1>1. OwnInv /\ Types'
  BY DEF IInv, OwnInv
<1>2. CASE Tick
  BY <1>2, TickArmed
<1>3. CASE \E p \in Pointers, when \in Whens, interval \in Intervals :
              LoopAdd(p, when, interval) \/ OtherAdd(p, when, interval)
  <2>1. PICK p \in Pointers, when \in Whens, interval \in Intervals :
            LoopAdd(p, when, interval) \/ OtherAdd(p, when, interval)
    BY <1>3
  <2>2. CASE LoopAdd(p, when, interval)
    <3>1. AddTimerInLoop(p, heap'[p]) /\ UNCHANGED <<time, phase>>
      BY <2>2 DEF LoopAdd
    <3>2. heap'[p] \in Records
      BY <1>1 DEF Types
    <3> QED BY <1>1, <3>1, <3>2, AddArms
  <2>3. CASE OtherAdd(p, when, interval)
    <3>1. UNCHANGED <<time, fd, phase>> /\ timers' \subseteq timers
      BY <2>3 DEF OtherAdd
    <3> QED BY <3>1, FewerArmed
  <2> QED BY <2>1, <2>2, <2>3
<1>4. CASE RunAdd
  <2>1. PICK f : f = Head(q)
    OBVIOUS
  <2>2. q # << >> /\ AddTimerInLoop(f.id.p, heap[f.id.p]) /\ UNCHANGED <<time, phase>>
    BY <1>4, <2>1 DEF RunAdd
  <2>3. q \in Seq(Calling)
    BY <1>1 DEF OwnInv, Types
  <2>4. f \in Calling
    BY <2>1, <2>2, <2>3
  <2>5. f.id.p \in Pointers /\ heap[f.id.p] \in Records
    BY <1>1, <2>4, TimersTyped DEF Calling, Ids
  <2> QED BY <1>1, <2>2, <2>5, AddArms
<1>5. CASE \E id : CancelInLoop(id) /\ UNCHANGED <<time, fd, phase>>
  <2>1. PICK id : CancelInLoop(id) /\ UNCHANGED <<time, fd, phase>>
    BY <1>5
  <2>2. timers' \subseteq timers
    BY <2>1 DEF CancelInLoop
  <2> QED BY <2>1, <2>2, FewerArmed
<1>6. CASE UNCHANGED <<time, fd, phase, timers>>
  BY <1>6, FewerArmed
<1>7. CASE Poll \/ Destroy
  <2>1. phase' \in {"ready", "gone"}
    BY <1>7 DEF Poll, Destroy
  <2> QED BY <2>1 DEF ArmInv, Armed
<1>8. CASE HandleRead
  <2>1. phase' = "calling" /\ timers' = timers \ GetExpired
    BY <1>8 DEF HandleRead
  <2>2. TimestampNow \in Nat
    BY <1>1, ClockSplits DEF OwnInv, Types, TimestampNow
  <2>3. \A e \in timers' : e.exp # 0
    BY <2>1, <2>2 DEF GetExpired
  <2> QED BY <2>1, <2>3 DEF ArmInv, Armed
<1>9. CASE Reset
  BY <1>1, <1>9, ResetArmed
<1>10. ASSUME NEW id \in ids, LoopCancel(id)
       PROVE  ArmInv'
  BY <1>5, <1>10 DEF LoopCancel
<1>11. ASSUME NEW id \in ids, OtherCancel(id)
       PROVE  ArmInv'
  BY <1>6, <1>11 DEF OtherCancel
<1>12. CASE ReadSequence
  BY <1>6, <1>12 DEF ReadSequence
<1>13. CASE RunCancel
  BY <1>5, <1>13 DEF RunCancel
<1>14. CASE RunTimer
  BY <1>6, <1>14 DEF RunTimer
<1>15. CASE UNCHANGED vars
  BY <1>6, <1>15 DEF vars
<1> QED BY <1>2, <1>3, <1>4, <1>7, <1>8, <1>9, <1>10, <1>11, <1>12, <1>13, <1>14, <1>15
        DEF Next, Calls

-----------------------------------------------------------------------------
(* The theorems *)

LEMMA InitOwns == Init => IInv
<1> SUFFICES ASSUME Init PROVE IInv
  OBVIOUS
<1>1. /\ time = 0 /\ now = 0 /\ created = 0 /\ timers = {} /\ active = {} /\ expired = {}
      /\ canceling = {} /\ ids = {} /\ cancelled = {} /\ phase = "poll" /\ q = << >>
      /\ adding = 0 /\ fd = [at |-> Never, readable |-> FALSE]
      /\ heap = [p \in Pointers |-> Free]
  BY DEF Init
<1>2. Free \in Records /\ Free.seq = 0
  BY DEF Free, Records
<1>3. fd \in [at : Int, readable : BOOLEAN]
  BY <1>1 DEF Never
<1>4. q \in Seq(Calling) /\ Len(q) = 0 /\ 1 .. Len(q) = {}
  BY <1>1
<1>5. heap \in [Pointers -> Records] /\ \A p \in Pointers : heap[p] = Free
  BY <1>1, <1>2
<1>6. Types
  BY <1>1, <1>3, <1>4, <1>5 DEF Types
<1>7. SequencesOK
  BY <1>1, <1>2, <1>5 DEF SequencesOK
<1>8. \A p : ~In(timers, p) /\ ~In(active, p) /\ ~In(expired, p) /\ ~ToAdd(q, p)
  BY <1>1, <1>4 DEF In, ToAdd
<1>9. Match
  BY <1>1, <1>8 DEF Match
<1>10. AddsOnce(q) /\ AddsMatch(q, heap)
  BY <1>4 DEF AddsOnce, AddsMatch
<1>11. Partition /\ CancelOK
  BY <1>5, <1>8 DEF Partition, Shared, CancelOK
<1>12. ArmInv
  BY <1>1 DEF ArmInv, Armed
<1> QED BY <1>1, <1>6, <1>7, <1>9, <1>10, <1>11, <1>12 DEF IInv, OwnInv

(* The inductive invariant holds in every reachable state of the timer     *)
(* queue, whatever is added, cancelled, expires and restarts, and when.    *)
THEOREM Inductive == Spec => []IInv
<1>1. Init => IInv
  BY InitOwns
<1>2. IInv /\ [Next]_vars => IInv'
  <2> SUFFICES ASSUME IInv, [Next]_vars PROVE IInv'
    OBVIOUS
  <2>1. OwnInv'
    BY OwnInductive DEF IInv
  <2>2. ArmInv'
    BY <2>1, ArmInductive
  <2> QED BY <2>1, <2>2 DEF IInv
<1> QED BY <1>1, <1>2, PTL DEF Spec

(* The timerfd is readable or armed no later than the earliest expiration  *)
(* whenever the loop may sleep, for every ratio of the two clocks that     *)
(* howMuchTimeFromNow() mixes and every minimal delay above zero.          *)
THEOREM TimerfdArmed == Spec => []Armed
<1>1. IInv => Armed
  BY DEF IInv, ArmInv
<1> QED BY <1>1, Inductive, PTL

(* A timer whose cancel() reached it, waiting or in the expiry that is     *)
(* being run, does not wait again, even if its address is used again.      *)
THEOREM CancelledStaysAway == Spec => []CancelIsFinal
<1>1. IInv => CancelIsFinal
  <2> SUFFICES ASSUME IInv, NEW a \in active, a.seq \in cancelled
               PROVE  FALSE
    BY DEF CancelIsFinal
  <2>1. a.p \in Pointers /\ a = ActiveTimer(a.p, heap[a.p])
    BY DEF IInv, OwnInv, Types, Match, Ids
  <2>2. heap[a.p].seq = a.seq
    BY <2>1 DEF ActiveTimer
  <2>3. In(timers, a.p)
    BY <2>1 DEF IInv, OwnInv, Match, In
  <2>4. heap[a.p] # Free /\ ~In(expired, a.p)
    BY <2>1, <2>3 DEF IInv, OwnInv, Partition, Shared
  <2> QED BY <2>1, <2>2, <2>4 DEF IInv, OwnInv, CancelOK
<1> QED BY <1>1, Inductive, PTL

LEMMA CountOne ==
    ASSUME NEW S, NEW x \in S, \A y \in S : y = x
    PROVE  Cardinality(S) = 1
<1>1. S = {x}
  OBVIOUS
<1> QED BY <1>1, FS_Singleton

LEMMA CountNone ==
    ASSUME NEW S, \A y \in S : FALSE
    PROVE  Cardinality(S) = 0
<1>1. S = {}
  OBVIOUS
<1> QED BY <1>1, FS_EmptySet

LEMMA CountIn ==
    ASSUME NEW set, NEW p, \A d, e \in set : d.p = p /\ e.p = p => d = e
    PROVE  Cardinality({e \in set : e.p = p}) = IF In(set, p) THEN 1 ELSE 0
<1>1. CASE In(set, p)
  <2>1. PICK e \in set : e.p = p
    BY <1>1 DEF In
  <2>2. Cardinality({d \in set : d.p = p}) = 1
    BY <2>1, CountOne
  <2> QED BY <1>1, <2>2
<1>2. CASE ~In(set, p)
  <2>1. Cardinality({d \in set : d.p = p}) = 0
    BY <1>2, CountNone DEF In
  <2> QED BY <1>2, <2>1
<1> QED BY <1>1, <1>2

(* Every Timer that was not deleted has exactly one owner, the two sets    *)
(* agree on it, and no owner points to one that was deleted: no Timer of   *)
(* the queue leaks, none is deleted twice.                                 *)
THEOREM SingleOwner == Spec => []OneOwner
<1>1. IInv => OneOwner
  <2> SUFFICES ASSUME IInv PROVE OneOwner
    OBVIOUS
  <2>1. /\ timers \subseteq Entries /\ expired \subseteq Entries /\ active \subseteq Ids
        /\ q \in Seq(Calling) /\ Match /\ Partition /\ AddsOnce(q)
    BY DEF IInv, OwnInv, Types
  <2>2. PICK adds : adds = {i \in DOMAIN q : q[i].op = "add"}
    OBVIOUS
  <2>3. ASSUME NEW p \in Pointers
        PROVE  Cardinality({i \in adds : q[i].id.p = p})
                 + Cardinality({e \in timers : e.p = p})
                 + Cardinality({e \in expired : e.p = p}) = IF heap[p] = Free THEN 0 ELSE 1
    <3>1. Cardinality({e \in timers : e.p = p}) = IF In(timers, p) THEN 1 ELSE 0
      BY <2>1, CountIn DEF Match
    <3>2. Cardinality({e \in expired : e.p = p}) = IF In(expired, p) THEN 1 ELSE 0
      BY <2>1, CountIn DEF Match
    <3>3. adds = {i \in 1 .. Len(q) : q[i].op = "add"}
      BY <2>1, <2>2
    <3>4. Cardinality({i \in adds : q[i].id.p = p}) = IF ToAdd(q, p) THEN 1 ELSE 0
      <4>1. CASE ToAdd(q, p)
        <5>1. PICK i \in 1 .. Len(q) : q[i].op = "add" /\ q[i].id.p = p
          BY <4>1 DEF ToAdd
        <5>2. i \in {j \in adds : q[j].id.p = p}
          BY <3>3, <5>1
        <5>3. \A k \in {j \in adds : q[j].id.p = p} : k = i
          BY <2>1, <3>3, <5>1 DEF AddsOnce
        <5>4. Cardinality({j \in adds : q[j].id.p = p}) = 1
          BY <5>2, <5>3, CountOne
        <5> QED BY <4>1, <5>4
      <4>2. CASE ~ToAdd(q, p)
        <5>1. \A k \in {j \in adds : q[j].id.p = p} : FALSE
          BY <3>3, <4>2 DEF ToAdd
        <5>2. Cardinality({j \in adds : q[j].id.p = p}) = 0
          BY <5>1, CountNone
        <5> QED BY <4>2, <5>2
      <4> QED BY <4>1, <4>2
    <3>5. /\ heap[p] # Free <=> In(timers, p) \/ In(expired, p) \/ ToAdd(q, p)
          /\ ~Shared(p)
      BY <2>1 DEF Partition
    <3> QED BY <3>1, <3>2, <3>4, <3>5 DEF Shared
  <2>4. timers = {Entry(a.p, heap[a.p]) : a \in active}
    <3>1. ASSUME NEW e \in timers
          PROVE  \E a \in active : e = Entry(a.p, heap[a.p])
      <4>1. e.p \in Pointers /\ e = Entry(e.p, heap[e.p]) /\ In(timers, e.p)
        BY <2>1 DEF Match, Entries, In
      <4>2. PICK a \in active : a.p = e.p
        BY <2>1, <4>1 DEF Match, In
      <4> QED BY <4>1, <4>2
    <3>2. ASSUME NEW a \in active
          PROVE  Entry(a.p, heap[a.p]) \in timers
      <4>1. a.p \in Pointers /\ In(active, a.p)
        BY <2>1 DEF Ids, In
      <4>2. PICK e \in timers : e.p = a.p
        BY <2>1, <4>1 DEF Match, In
      <4> QED BY <2>1, <4>2 DEF Match
    <3> QED BY <3>1, <3>2
  <2>5. \A a \in active : a = ActiveTimer(a.p, heap[a.p])
    BY <2>1 DEF Match
  <2> QED BY <2>2, <2>3, <2>4, <2>5 DEF OneOwner
<1> QED BY <1>1, Inductive, PTL
=============================================================================
