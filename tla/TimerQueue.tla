----------------------------- MODULE TimerQueue -----------------------------
(***************************************************************************)
(* TimerQueue (TimerQueue.cc, Timer.h, TimerId.h, Timestamp.h) on the loop *)
(* it was made for: addTimer() and cancel() from another thread and from   *)
(* handlers and callbacks of the loop thread, the timerfd, and the expiry  *)
(* of timers.  No EventLoop of this library constructs one.                *)
(*                                                                         *)
(* Timestamp::now() stores seconds as if they were microseconds.  Time is  *)
(* counted here in the microseconds that timerfd waits for, and the clock  *)
(* of the code advances once in Scale of them; an expiration is a value of *)
(* that clock.  The monotonic clock and the clock of the day agree.        *)
(* TimerId keeps the low 32 bits of a sequence: numbers stay below that.   *)
(***************************************************************************)
EXTENDS Integers, Sequences, FiniteSetsExt

CONSTANTS
    Scale,      \* kMicroSecondsPerSecond
    MinDelay,   \* the 100 of howMuchTimeFromNow()
    Pointers,   \* what the allocator may return, ordered as pointers are
    Whens,      \* expirations that callers ask for; 0 is Timestamp::invalid()
    Intervals,  \* intervals they ask for; 0 is none
    MaxTimers, MaxCancels, MaxTime

ASSUME TimerAssumption ==
    /\ Scale \in Nat \ {0} /\ MinDelay \in Nat \ {0}
    /\ Pointers \subseteq Nat \ {0} /\ Whens \subseteq Nat /\ Intervals \subseteq Nat
    /\ MaxTimers \in Nat /\ MaxCancels \in Nat /\ MaxTime \in Nat

VARIABLES
    time,       \* microseconds since the start
    fd,         \* the timerfd: when it fires (or Never), and whether it is readable
    heap,       \* of each pointer: the Timer there, or Free
    created,    \* s_numCreated_
    timers,     \* timers_: entries, expiration and pointer
    active,     \* activeTimers_: pointer and sequence
    canceling,  \* cancelingTimers_
    expired,    \* the local of handleRead(): it is in the order of the entries
    todo,       \* the part of it that has not been run
    now,        \* the local of handleRead()
    phase,      \* of the loop: "poll", "ready" (the channel of the timerfd is
                \* among the active ones), "calling" (callingExpiredTimers_), "gone"
    q,          \* pendingFunctors_
    adding,     \* the pointer with which another thread is in addTimer(), or 0
    ids,        \* the TimerIds that were handed out
    cancels,    \* calls of cancel() so far
    cancelled   \* sequences of timers that were cancelled while the queue had them

vars == <<time, fd, heap, created, timers, active, canceling, expired, todo, now, phase,
          q, adding, ids, cancels, cancelled>>

Never == -1
Free == [seq |-> 0, exp |-> 0, interval |-> 0]
Timer(seq, when, interval) == [seq |-> seq, exp |-> when, interval |-> interval]
Entry(p, timer) == [exp |-> timer.exp, p |-> p]
ActiveTimer(p, timer) == [p |-> p, seq |-> timer.seq]
TimerId(p, timer) == [p |-> p, seq |-> timer.seq]

Init ==
    /\ time = 0
    /\ fd = [at |-> Never, readable |-> FALSE]
    /\ heap = [p \in Pointers |-> Free]
    /\ created = 0
    /\ timers = {}
    /\ active = {}
    /\ canceling = {}
    /\ expired = {}
    /\ todo = {}
    /\ now = 0
    /\ phase = "poll"
    /\ q = << >>
    /\ adding = 0
    /\ ids = {}
    /\ cancels = 0
    /\ cancelled = {}

-----------------------------------------------------------------------------
(* The clocks and the timerfd *)

TimestampNow == time \div Scale
(* In units of the smallest interval: one below a microsecond, which the   *)
(* conversion from seconds cuts to 0, is not represented.                  *)
AddTime(stamp, interval) == stamp + interval
Valid(stamp) == stamp > 0

(* Mutant: no lower bound, and a delay of zero disarms a timerfd. *)
HowMuchTimeFromNow_NoMin(when) == when - TimestampNow

HowMuchTimeFromNow(when) == Max({when - TimestampNow, MinDelay})

(* timerfd_settime(): forgets an expiry that was not read. *)
Settime(delay) ==
    CASE delay > 0 -> [at |-> time + delay, readable |-> FALSE]
      [] delay = 0 -> [at |-> Never, readable |-> FALSE]
      [] OTHER -> fd

ResetTimerfd(expiration) == Settime(HowMuchTimeFromNow(expiration))

(* An earlier handler of the same turn may have re-armed the timerfd, and  *)
(* the read then finds nothing.                                            *)
ReadTimerfd == [fd EXCEPT !.readable = FALSE]

Tick ==
    /\ phase # "gone"
    /\ time < MaxTime
    /\ time' = time + 1
    /\ fd' = IF fd.at = time' THEN [at |-> Never, readable |-> TRUE] ELSE fd
    /\ UNCHANGED <<heap, created, timers, active, canceling, expired, todo, now, phase, q,
                   adding, ids, cancels, cancelled>>

-----------------------------------------------------------------------------
(* addTimer() and cancel() *)

EarliestChanged(when) == \A e \in timers : when < e.exp

(* The pointers and timers of "new" go into both sets. *)
Insert(new) ==
    /\ timers' = timers \cup {Entry(p, new[p]) : p \in DOMAIN new}
    /\ active' = active \cup {ActiveTimer(p, new[p]) : p \in DOMAIN new}

AddTimerInLoop(p, timer) ==
    /\ fd' = IF EarliestChanged(timer.exp) THEN ResetTimerfd(timer.exp) ELSE fd
    /\ Insert([r \in {p} |-> timer])

(* Whether the queue has the timer of an id, and its cancellation counts. *)
Owned(id) == heap[id.p].seq = id.seq /\ \A i \in DOMAIN q : q[i] # [op |-> "add", id |-> id]

(* Mutant: only timers that are waiting can be cancelled. *)
CancelExpired_Never(id) == UNCHANGED canceling

CancelExpired(id) ==
    canceling' = IF phase = "calling" THEN canceling \cup {id} ELSE canceling

CancelInLoop(id) ==
    /\ IF id \in active
         THEN /\ timers' = timers \ {Entry(id.p, heap[id.p])}
              /\ active' = active \ {id}
              /\ heap' = [heap EXCEPT ![id.p] = Free]
              /\ UNCHANGED canceling
         ELSE CancelExpired(id) /\ UNCHANGED <<timers, active, heap>>
    /\ cancelled' = IF Owned(id) THEN cancelled \cup {id.seq} ELSE cancelled

(* "new Timer": any free address, the next sequence. *)
NewTimer(p, when, interval) ==
    /\ created < MaxTimers
    /\ heap[p] = Free
    /\ created' = created + 1
    /\ heap' = [heap EXCEPT ![p] = Timer(created', when, interval)]

(* By the loop thread, in the handler of some channel or in a callback *)
LoopAdd(p, when, interval) ==
    /\ phase # "gone"
    /\ NewTimer(p, when, interval)
    /\ AddTimerInLoop(p, heap'[p])
    /\ ids' = ids \cup {TimerId(p, heap'[p])}
    /\ UNCHANGED <<time, canceling, expired, todo, now, phase, q, adding, cancels, cancelled>>

LoopCancel(id) ==
    /\ phase # "gone"
    /\ cancels < MaxCancels
    /\ cancels' = cancels + 1
    /\ CancelInLoop(id)
    /\ UNCHANGED <<time, fd, created, expired, todo, now, phase, q, adding, ids>>

(* By another thread, which reads the sequence for the TimerId only after  *)
(* it has queued the functor: the loop may have deleted the timer by then, *)
(* and the address may hold another one.                                   *)
OtherAdd(p, when, interval) ==
    /\ phase # "gone" /\ adding = 0
    /\ NewTimer(p, when, interval)
    /\ q' = Append(q, [op |-> "add", id |-> ActiveTimer(p, heap'[p])])
    /\ adding' = p
    /\ UNCHANGED <<time, fd, timers, active, canceling, expired, todo, now, phase, ids,
                   cancels, cancelled>>

ReadSequence ==
    /\ phase # "gone" /\ adding # 0
    /\ ids' = ids \cup {TimerId(adding, heap[adding])}
    /\ adding' = 0
    /\ UNCHANGED <<time, fd, heap, created, timers, active, canceling, expired, todo, now,
                   phase, q, cancels, cancelled>>

OtherCancel(id) ==
    /\ phase # "gone" /\ adding = 0
    /\ cancels < MaxCancels
    /\ cancels' = cancels + 1
    /\ q' = Append(q, [op |-> "cancel", id |-> id])
    /\ UNCHANGED <<time, fd, heap, created, timers, active, canceling, expired, todo, now,
                   phase, adding, ids, cancelled>>

RunAdd ==
    /\ phase = "poll" /\ q # << >> /\ Head(q).op = "add"
    /\ q' = Tail(q)
    /\ AddTimerInLoop(Head(q).id.p, heap[Head(q).id.p])
    /\ UNCHANGED <<time, heap, created, canceling, expired, todo, now, phase, adding, ids,
                   cancels, cancelled>>

RunCancel ==
    /\ phase = "poll" /\ q # << >> /\ Head(q).op = "cancel"
    /\ q' = Tail(q)
    /\ CancelInLoop(Head(q).id)
    /\ UNCHANGED <<time, fd, created, expired, todo, now, phase, adding, ids, cancels>>

-----------------------------------------------------------------------------
(* The expiry of timers *)

Poll ==
    /\ phase = "poll" /\ fd.readable
    /\ phase' = "ready"
    /\ UNCHANGED <<time, fd, heap, created, timers, active, canceling, expired, todo, now, q,
                   adding, ids, cancels, cancelled>>

Before(a, b) == a.exp < b.exp \/ (a.exp = b.exp /\ a.p < b.p)

(* getExpired(), with the sentry behind every entry that expires now *)
GetExpired == {e \in timers : e.exp <= TimestampNow}

(* handleRead() up to the first callback *)
HandleRead ==
    /\ phase = "ready"
    /\ now' = TimestampNow
    /\ fd' = ReadTimerfd
    /\ expired' = GetExpired
    /\ todo' = GetExpired
    /\ timers' = timers \ GetExpired
    /\ active' = active \ {ActiveTimer(e.p, heap[e.p]) : e \in GetExpired}
    /\ canceling' = {}
    /\ phase' = "calling"
    /\ UNCHANGED <<time, heap, created, q, adding, ids, cancels, cancelled>>

(* Timer::run(); what the callback calls are LoopAdd and LoopCancel. *)
RunTimer ==
    /\ phase = "calling"
    /\ \E e \in todo : (\A f \in todo \ {e} : Before(e, f)) /\ todo' = todo \ {e}
    /\ UNCHANGED <<time, fd, heap, created, timers, active, canceling, expired, now, phase, q,
                   adding, ids, cancels, cancelled>>

Repeats(p) == heap[p].interval > 0 /\ ActiveTimer(p, heap[p]) \notin canceling

Restart(timer) == [timer EXCEPT !.exp = AddTime(now, timer.interval)]

(* Mutant: a timer that is not restarted is not deleted either. *)
Deleted_None(batch) == {}

Deleted(batch) == {p \in batch : ~Repeats(p)}

(* The timerfd is armed for the first entry that is left, if it is valid() *)
ArmForFirst ==
    IF timers' = {}
      THEN UNCHANGED fd
      ELSE \E e \in timers' :
              /\ \A f \in timers' : e.exp <= f.exp
              /\ fd' = IF Valid(e.exp) THEN ResetTimerfd(e.exp) ELSE fd

Reset ==
    LET batch     == {e.p : e \in expired}
        restarted == [p \in {r \in batch : Repeats(r)} |-> Restart(heap[p])]
    IN  /\ phase = "calling" /\ todo = {}
        /\ phase' = "poll"
        /\ heap' = [p \in Pointers |->
                       IF p \in Deleted(batch) THEN Free
                       ELSE IF p \in DOMAIN restarted THEN restarted[p] ELSE heap[p]]
        /\ Insert(restarted)
        /\ ArmForFirst
        /\ expired' = {}
        /\ UNCHANGED <<time, created, canceling, todo, now, q, adding, ids, cancels, cancelled>>

(* ~TimerQueue(), once the loop has ended *)
Destroy ==
    /\ phase = "poll"
    /\ phase' = "gone"
    /\ heap' = [p \in Pointers |-> IF \E e \in timers : e.p = p THEN Free ELSE heap[p]]
    /\ timers' = {}
    /\ active' = {}
    /\ UNCHANGED <<time, fd, created, canceling, expired, todo, now, q, adding, ids, cancels,
                   cancelled>>

Calls ==
    \/ \E p \in Pointers, when \in Whens, interval \in Intervals :
          LoopAdd(p, when, interval) \/ OtherAdd(p, when, interval)
    \/ \E id \in ids : LoopCancel(id) \/ OtherCancel(id)
    \/ ReadSequence

Next ==
    \/ Tick \/ Calls \/ RunAdd \/ RunCancel
    \/ Poll \/ HandleRead \/ RunTimer \/ Reset \/ Destroy

Spec == Init /\ [][Next]_vars

-----------------------------------------------------------------------------
(* Properties *)

(* Whatever is added, cancelled or restarted, and although the two sides   *)
(* of howMuchTimeFromNow() count in different units, the timerfd fires     *)
(* before the loop sleeps past the earliest expiration: outside of         *)
(* handleRead() it is readable or armed for that time or an earlier one.   *)
Armed ==
    \A e \in timers :
        \/ phase # "poll"
        \/ fd.readable
        \/ fd.at > time /\ fd.at <= Max({time + MinDelay, e.exp * Scale})

(* Raw pointers: every Timer that was not deleted has one owner, the       *)
(* functor that will add it, the two sets that agree on it, or the batch   *)
(* that is being run; and no owner points to one that was deleted.         *)
OneOwner ==
    LET adds    == {i \in DOMAIN q : q[i].op = "add"}
        Owners(p) ==
            Cardinality({i \in adds : q[i].id.p = p})
          + Cardinality({e \in timers : e.p = p})
          + Cardinality({e \in expired : e.p = p})
    IN  /\ \A p \in Pointers : Owners(p) = IF heap[p] = Free THEN 0 ELSE 1
        /\ timers = {Entry(a.p, heap[a.p]) : a \in active}
        /\ \A a \in active : a = ActiveTimer(a.p, heap[a.p])

(* A timer that was cancelled while the queue had it, also by its own      *)
(* callback or by another one of the same expiry, never waits again and so *)
(* is not run in a later expiry, even when its address is in use again.    *)
CancelIsFinal == \A a \in active : a.seq \notin cancelled
=============================================================================
