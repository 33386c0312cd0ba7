---------------------------- MODULE Threads_proofs ----------------------------
(***************************************************************************)
(* Proofs about the two components that have threads of their own besides  *)
(* the event loops'.  ThreadPool, for any number of workers, tasks and     *)
(* limits: the counters count what they are meant to, no worker sleeps on  *)
(* a task, and a worker that joins with mutex_ held joins threads that     *)
(* need none.  AsyncLogger, for any number and size of entries, buffers    *)
(* and batches: what is logged is written once and in order.               *)
(***************************************************************************)
EXTENDS ThreadPool, AsyncLogger, FiniteSetTheorems, SequenceTheorems, TLAPS

Places == Counted \cup {"none", "joining", "returning", "ended", "joined"}

(* The parts of the inductive invariant that TypeOK and the two safety     *)
(* invariants do not state: the worker that joins is the one that holds    *)
(* mutex_, quit_ is set by the destructor, and a queued task was submitted. *)
OneJoins == \A w \in Workers : pc[w] = "joining" => holder = w

QuitByDestructor == quit <=> destructor # "no"

QueuedSubmitted == tasks \in Seq(1 .. submitted)

IInv ==
    /\ TypeOK
    /\ NoIdleWhileQueued
    /\ FinishedJoinable
    /\ OneJoins
    /\ QuitByDestructor
    /\ QueuedSubmitted

-----------------------------------------------------------------------------
(* Counting workers *)

Idling == {"waiting", "woken", "timedout"}  \* what idleThreads_ counts
Coming == {"entry", "woken", "timedout"}    \* on their way to the queue

One(b) == IF b THEN 1 ELSE 0

(* A set of workers is finite, and empty only when it counts none. *)
LEMMA SubsetCount ==
    ASSUME NEW S, S \subseteq Workers
    PROVE  /\ IsFiniteSet(S) /\ Cardinality(S) \in Nat
           /\ Cardinality(S) = 0 <=> S = {}
<1>1. S \in SUBSET Workers
  OBVIOUS
<1> QED BY <1>1, PoolAssumption, FS_Subset, FS_CardinalityType, FS_EmptySet

LEMMA CountType ==
    ASSUME NEW P
    PROVE  /\ IsFiniteSet(At(P)) /\ Cardinality(At(P)) \in Nat
           /\ Cardinality(At(P)) = 0 <=> At(P) = {}
           /\ Cardinality(At(P))' \in Nat
<1>1. At(P) \subseteq Workers /\ At(P)' \subseteq Workers
  BY DEF At
<1>2. /\ IsFiniteSet(At(P)) /\ Cardinality(At(P)) \in Nat
      /\ Cardinality(At(P)) = 0 <=> At(P) = {}
  BY <1>1, SubsetCount
<1>3. Cardinality(At(P)') \in Nat
  BY <1>1, SubsetCount
<1> QED BY <1>2, <1>3

(* A worker that goes from one place to another changes the count of a set *)
(* of places by at most one.                                               *)
LEMMA CountMove ==
    ASSUME NEW w \in Workers, NEW x, NEW P,
           DOMAIN pc = Workers, pc' = [pc EXCEPT ![w] = x]
    PROVE  Cardinality(At(P))' = Cardinality(At(P)) - One(pc[w] \in P) + One(x \in P)
<1> DEFINE S == At(P)
           T == {v \in Workers : pc'[v] \in P}
<1>1. IsFiniteSet(S) /\ Cardinality(S) \in Nat
  BY CountType
<1>2. /\ w \in S <=> pc[w] \in P
      /\ T = IF x \in P THEN S \cup {w} ELSE S \ {w}
  BY DEF At
<1>3. Cardinality(At(P))' = Cardinality(T)
  BY DEF At
<1> HIDE DEF S, T
<1>4. /\ Cardinality(S \cup {w}) = IF w \in S THEN Cardinality(S) ELSE Cardinality(S) + 1
      /\ Cardinality(S \ {w}) = IF w \in S THEN Cardinality(S) - 1 ELSE Cardinality(S)
  BY <1>1, FS_AddElement, FS_RemoveElement
<1>5. Cardinality(T) = Cardinality(S) - One(w \in S) + One(x \in P)
  BY <1>1, <1>2, <1>4 DEF One
<1> QED BY <1>2, <1>3, <1>5 DEF S, One

(* The move of a worker that exists, seen by everything that TypeOK says   *)
(* of the workers.                                                         *)
LEMMA Move ==
    ASSUME TypeOK, NEW w \in Workers, NEW x \in Places, x # "none", Go(w, x)
    PROVE  /\ pc' \in [Workers -> Places]
           /\ pc'[w] = x /\ \A v \in Workers \ {w} : pc'[v] = pc[v]
           /\ At({"none"})' = At({"none"}) \ {w}
           /\ x # "waiting" => At({"waiting"})' \subseteq At({"waiting"})
           /\ Cardinality(At(Counted))' = current - One(pc[w] \in Counted) + One(x \in Counted)
           /\ Cardinality(At(Idling))' = idle - One(pc[w] \in Idling) + One(x \in Idling)
           /\ Cardinality(At(Coming))' = Cardinality(At(Coming)) - One(pc[w] \in Coming)
                                           + One(x \in Coming)
           /\ current \in Nat /\ idle \in Nat /\ Cardinality(At(Coming)) \in Nat
<1>1. pc \in [Workers -> Places] /\ pc' = [pc EXCEPT ![w] = x]
  BY DEF TypeOK, Go, Places
<1>2. /\ pc' \in [Workers -> Places]
      /\ pc'[w] = x /\ \A v \in Workers \ {w} : pc'[v] = pc[v]
  BY <1>1
<1>3. /\ At({"none"})' = At({"none"}) \ {w}
      /\ x # "waiting" => At({"waiting"})' \subseteq At({"waiting"})
  BY <1>1 DEF At
<1>4. current = Cardinality(At(Counted)) /\ idle = Cardinality(At(Idling))
  BY DEF TypeOK, Idling
<1>5. /\ Cardinality(At(Counted))' = current - One(pc[w] \in Counted) + One(x \in Counted)
      /\ Cardinality(At(Idling))' = idle - One(pc[w] \in Idling) + One(x \in Idling)
      /\ Cardinality(At(Coming))' = Cardinality(At(Coming)) - One(pc[w] \in Coming)
                                      + One(x \in Coming)
  BY <1>1, <1>4, CountMove
<1>6. current \in Nat /\ idle \in Nat /\ Cardinality(At(Coming)) \in Nat
  BY <1>4, CountType
<1> QED BY <1>2, <1>3, <1>5, <1>6

(* A sequence over S is one over every set that contains S. *)
LEMMA SeqMonotone ==
    ASSUME NEW S, NEW T, S \subseteq T, NEW s \in Seq(S)
    PROVE  s \in Seq(T)
<1>1. Len(s) \in Nat /\ s \in [1 .. Len(s) -> S]
  BY LenProperties
<1>2. s \in [1 .. Len(s) -> T]
  BY <1>1
<1> QED BY <1>1, <1>2

-----------------------------------------------------------------------------
(* The steps *)

LEMMA InitInv == Init => IInv
<1> SUFFICES ASSUME Init PROVE IInv
  OBVIOUS
<1> USE PoolAssumption DEF Init
<1>1. At(Counted) = {} /\ At({"waiting", "woken", "timedout"}) = {}
      /\ At({"waiting"}) = {} /\ At({"none"}) = Workers
  BY DEF At, Counted
<1>2. Cardinality({}) = 0
  BY FS_EmptySet
<1>3. << >> \in Seq(1 .. MaxSubmits) /\ << >> \in Seq(1 .. submitted)
      /\ << >> \in Seq(Workers)
  BY EmptySeq
<1>4. pc \in [Workers -> Places]
  BY DEF Places
<1>5. TypeOK
  <2>1. /\ maxThreads \in 0 .. Cardinality(Workers) /\ maxTasks \in Limits
        /\ submitted \in 0 .. MaxSubmits
        /\ ran \subseteq 1 .. submitted /\ unserved \subseteq 1 .. submitted
        /\ threads = Workers \ At({"none"})
    BY <1>1
  <2>2. /\ current = Cardinality(At(Counted))
        /\ idle = Cardinality(At({"waiting", "woken", "timedout"}))
    BY <1>1, <1>2
  <2> QED BY <1>3, <1>4, <2>1, <2>2 DEF TypeOK, Places
<1>6. NoIdleWhileQueued /\ FinishedJoinable
  BY <1>1 DEF NoIdleWhileQueued, FinishedJoinable
<1>7. OneJoins /\ QuitByDestructor /\ QueuedSubmitted
  BY <1>3 DEF OneJoins, QuitByDestructor, QueuedSubmitted
<1> QED BY <1>5, <1>6, <1>7 DEF IInv

(* The ids in finishedThreadIDs_ stay joinable while no thread that is     *)
(* about to end does anything else.                                        *)
LEMMA FinishedKept ==
    ASSUME TypeOK, FinishedJoinable, finished' = finished, threads \subseteq threads',
           destructor' = "no" => /\ destructor = "no"
                                 /\ \A v \in Workers : pc[v] \in {"returning", "ended"}
                                       => pc'[v] \in {"returning", "ended"},
           destructor' # "no" => holder' = "none"
    PROVE  FinishedJoinable'
<1> SUFFICES ASSUME destructor' = "no", NEW i \in DOMAIN finished
             PROVE  /\ finished[i] \in threads'
                    /\ pc'[finished[i]] \in {"returning", "ended"}
                    /\ \A j \in DOMAIN finished : finished[i] = finished[j] => i = j
  BY DEF FinishedJoinable
<1>1. finished[i] \in Workers
  BY ElementOfSeq, LenProperties DEF TypeOK
<1> QED BY <1>1 DEF FinishedJoinable

(* A step of one worker w from its place to x.  Either the queue is empty  *)
(* afterwards, or w does not go to sleep and the queue is as before and w  *)
(* still comes to it if it did, or w has taken a task.                     *)
LEMMA WorkerMove ==
    ASSUME IInv, NEW w \in Workers, NEW x \in Places, x # "none", Go(w, x),
           pc[w] \notin {"none", "joining"},
           pc[w] \in {"returning", "ended"}
             => x \in {"returning", "ended"} \/ destructor # "no",
           UNCHANGED <<quit, maxThreads, maxTasks, finished, threads, destructor,
                       submitted, unserved>>,
           idle' = idle - One(pc[w] \in Idling) + One(x \in Idling),
           current' = current - One(pc[w] \in Counted) + One(x \in Counted),
           tasks' \in Seq(1 .. submitted), ran' \subseteq 1 .. submitted,
           x = "joining" => holder = "none" /\ holder' = w /\ ~quit,
           x # "joining" => holder' = holder,
           \/ tasks' = << >>
           \/ /\ x # "waiting" /\ tasks' = tasks
              /\ pc[w] \in Coming => x \in Coming
           \/ x # "waiting" /\ Len(tasks') = Len(tasks) - 1
    PROVE  IInv'
<1> USE DEF IInv
<1>1. /\ pc' \in [Workers -> Places]
      /\ pc'[w] = x /\ \A v \in Workers \ {w} : pc'[v] = pc[v]
      /\ At({"none"})' = At({"none"}) \ {w}
      /\ x # "waiting" => At({"waiting"})' \subseteq At({"waiting"})
      /\ Cardinality(At(Counted))' = current'
      /\ Cardinality(At(Idling))' = idle'
      /\ Cardinality(At(Coming))' = Cardinality(At(Coming)) - One(pc[w] \in Coming)
                                      + One(x \in Coming)
      /\ Cardinality(At(Coming)) \in Nat
  BY Move
<1>2. At({"none"})' = At({"none"})
  BY <1>1 DEF At
<1>3. holder' \in At({"joining"})' \cup {"none"}
  BY <1>1 DEF TypeOK, At
<1>4. TypeOK'
  <2>1. tasks' \in Seq(1 .. MaxSubmits)
    <3>1. 1 .. submitted \subseteq 1 .. MaxSubmits
      BY PoolAssumption DEF TypeOK
    <3> QED BY <3>1, SeqMonotone
  <2>2. /\ current' = Cardinality(At(Counted))'
        /\ idle' = Cardinality(At({"waiting", "woken", "timedout"}))'
    BY <1>1 DEF Idling
  <2> QED BY <1>1, <1>2, <1>3, <2>1, <2>2 DEF TypeOK, Places
<1>5. NoIdleWhileQueued'
  <2>1. Cardinality(At(Coming))' \in Nat /\ Len(<< >>) = 0
    BY CountType
  <2>2. At({"waiting"}) # {} => Len(tasks) <= Cardinality(At(Coming))
    BY DEF NoIdleWhileQueued, Coming
  <2>3. Len(tasks) \in Nat /\ Len(tasks') \in Nat
    BY LenProperties DEF TypeOK
  <2>4. At({"waiting"})' # {} => Len(tasks') <= Cardinality(At(Coming))'
    <3>1. CASE tasks' = << >> BY <2>1, <3>1
    <3>2. CASE /\ x # "waiting" /\ tasks' = tasks
               /\ pc[w] \in Coming => x \in Coming
      BY <1>1, <2>1, <2>2, <2>3, <3>2 DEF One
    <3>3. CASE x # "waiting" /\ Len(tasks') = Len(tasks) - 1
      BY <1>1, <2>1, <2>2, <2>3, <3>3 DEF One
    <3> QED BY <3>1, <3>2, <3>3
  <2> QED BY <2>4 DEF NoIdleWhileQueued, Coming
<1>6. FinishedJoinable'
  <2>1. destructor' # "no" => holder' = "none"
    BY DEF FinishedJoinable, QuitByDestructor
  <2> QED BY <1>1, <2>1, FinishedKept
<1>7. OneJoins' /\ QuitByDestructor' /\ QueuedSubmitted'
  <2>1. OneJoins'
    BY <1>1, PoolAssumption DEF OneJoins
  <2> QED BY <2>1 DEF QuitByDestructor, QueuedSubmitted
<1> QED BY <1>4, <1>5, <1>6, <1>7

(* What follows the wait in worker(): a task is taken, or the worker       *)
(* leaves.  w comes to the queue; n counts it as idle.                     *)
LEMMA ProceedStep ==
    ASSUME IInv, NEW w \in Workers, NEW n, NEW hasTimedout, Unlocked,
           pc[w] \in Coming, n = idle + One(pc[w] = "entry"),
           Proceed(w, n, hasTimedout), UNCHANGED workerFrame
    PROVE  IInv'
<1> USE DEF workerFrame, limits, Unlocked
<1>0. /\ tasks \in Seq(1 .. submitted) /\ ran \subseteq 1 .. submitted
      /\ current \in Nat /\ idle \in Nat
  BY CountType DEF IInv, TypeOK, QueuedSubmitted
<1>1. /\ pc[w] \notin {"none", "joining", "returning", "ended"}
      /\ n - 1 = idle - One(pc[w] \in Idling)
      /\ pc[w] \in Counted
  BY <1>0 DEF Coming, Idling, One, Counted
<1>2. /\ {"running", "returning", "joining"} \subseteq Places
      /\ \A x \in {"running", "returning", "joining"} : x \notin Idling
      /\ "running" \in Counted /\ "returning" \notin Counted /\ "joining" \notin Counted
  BY DEF Places, Idling, Counted
<1>3. CASE tasks # << >>
  <2>1. /\ Go(w, "running") /\ ran' = ran \cup {Head(tasks)} /\ tasks' = Tail(tasks)
        /\ UNCHANGED <<current, holder, finished>> /\ idle' = n - 1
    BY <1>3 DEF Proceed
  <2>2. /\ tasks' \in Seq(1 .. submitted) /\ Len(tasks') = Len(tasks) - 1
        /\ ran' \subseteq 1 .. submitted
    BY <1>0, <1>3, <2>1, HeadTailProperties
  <2>3. /\ idle' = idle - One(pc[w] \in Idling) + One("running" \in Idling)
        /\ current' = current - One(pc[w] \in Counted) + One("running" \in Counted)
    BY <1>0, <1>1, <1>2, <2>1 DEF One
  <2> QED BY <1>1, <1>2, <2>1, <2>2, <2>3, WorkerMove
<1>4. CASE tasks = << >>
  <2>1. /\ idle' = n - 1 /\ current' = current - 1 /\ tasks' = << >> /\ ran' = ran
        /\ IF quit THEN Go(w, "returning") /\ UNCHANGED <<holder, finished>>
                   ELSE Go(w, "joining") /\ holder' = w /\ UNCHANGED finished
    BY <1>4 DEF Proceed, BeginLeave
  <2>2. \A x \in {"returning", "joining"} :
          /\ idle' = idle - One(pc[w] \in Idling) + One(x \in Idling)
          /\ current' = current - One(pc[w] \in Counted) + One(x \in Counted)
    BY <1>0, <1>1, <1>2, <2>1 DEF One
  <2>3. tasks' \in Seq(1 .. submitted) /\ ran' \subseteq 1 .. submitted
    BY <1>0, <1>4, <2>1
  <2>4. CASE quit
    BY <1>1, <1>2, <2>1, <2>2, <2>3, <2>4, WorkerMove
  <2>5. CASE ~quit
    BY <1>1, <1>2, <2>1, <2>2, <2>3, <2>5, WorkerMove
  <2> QED BY <2>4, <2>5
<1> QED BY <1>3, <1>4

(* The steps of a worker around the wait, the task and the end. *)
LEMMA LookStep ==
    ASSUME IInv, NEW w \in Workers, Enter(w) \/ Woken(w) \/ TimedOut(w)
    PROVE  IInv'
<1>0. /\ tasks \in Seq(1 .. submitted) /\ ran \subseteq 1 .. submitted
      /\ current \in Nat /\ idle \in Nat
  BY CountType DEF IInv, TypeOK, QueuedSubmitted
<1>1. CASE Enter(w)
  <2>1. /\ Unlocked /\ pc[w] \in Coming /\ pc[w] = "entry" /\ UNCHANGED workerFrame
        /\ idle + 1 = idle + One(pc[w] = "entry")
    BY <1>1 DEF Enter, Coming, One
  <2>2. CASE Predicate
    <3>1. Proceed(w, idle + 1, FALSE)
      BY <1>1, <2>2 DEF Enter
    <3> QED BY <2>1, <3>1, ProceedStep
  <2>3. CASE ~Predicate
    <3>1. /\ Go(w, "waiting") /\ idle' = idle + 1 /\ tasks = << >>
          /\ UNCHANGED <<current, tasks, finished, holder, ran>>
      BY <1>1, <2>3 DEF Enter, Predicate
    <3>2. /\ "waiting" \in Places
          /\ idle' = idle - One(pc[w] \in Idling) + One("waiting" \in Idling)
          /\ current' = current - One(pc[w] \in Counted) + One("waiting" \in Counted)
      BY <1>0, <2>1, <3>1 DEF One, Idling, Counted, Places
    <3> QED BY <1>0, <2>1, <3>1, <3>2, WorkerMove DEF workerFrame, limits
  <2> QED BY <2>2, <2>3
<1>2. CASE Woken(w)
  <2>1. /\ Unlocked /\ pc[w] \in Coming /\ pc[w] = "woken" /\ UNCHANGED workerFrame
        /\ idle = idle + One(pc[w] = "entry")
    BY <1>0, <1>2 DEF Woken, Coming, One
  <2>2. CASE Predicate
    <3>1. Proceed(w, idle, FALSE)
      BY <1>2, <2>2 DEF Woken
    <3> QED BY <2>1, <3>1, ProceedStep
  <2>3. CASE ~Predicate
    <3>1. /\ Go(w, "waiting") /\ tasks = << >>
          /\ UNCHANGED <<idle, current, tasks, finished, holder, ran>>
      BY <1>2, <2>3 DEF Woken, Predicate
    <3>2. /\ "waiting" \in Places
          /\ idle' = idle - One(pc[w] \in Idling) + One("waiting" \in Idling)
          /\ current' = current - One(pc[w] \in Counted) + One("waiting" \in Counted)
      BY <1>0, <2>1, <3>1 DEF One, Idling, Counted, Places
    <3> QED BY <1>0, <2>1, <3>1, <3>2, WorkerMove DEF workerFrame, limits
  <2> QED BY <2>2, <2>3
<1>3. CASE TimedOut(w)
  <2>1. /\ Unlocked /\ pc[w] \in Coming /\ UNCHANGED workerFrame
        /\ idle = idle + One(pc[w] = "entry") /\ Proceed(w, idle, ~Predicate)
    BY <1>0, <1>3 DEF TimedOut, Coming, One
  <2> QED BY <2>1, ProceedStep
<1> QED BY <1>1, <1>2, <1>3

LEMMA OwnStep ==
    ASSUME IInv, NEW w \in Workers,
           \/ Timeout(w) \/ Spurious(w) \/ EndTask(w) \/ EndThread(w)
           \/ DestructorJoin(w)
    PROVE  IInv'
<1> USE DEF workerFrame, limits, dFrame, queueVars
<1>0. /\ tasks \in Seq(1 .. submitted) /\ ran \subseteq 1 .. submitted
      /\ current \in Nat /\ idle \in Nat
  BY CountType DEF IInv, TypeOK, QueuedSubmitted
<1>1. ASSUME NEW x \in Places,
             <<pc[w], x>> \in {<<"waiting", "timedout">>, <<"waiting", "woken">>,
                              <<"running", "entry">>, <<"returning", "ended">>,
                              <<"ended", "joined">>},
             x = "joined" => destructor # "no", Go(w, x),
             UNCHANGED <<quit, maxThreads, maxTasks, finished, threads, destructor,
                         submitted, unserved, idle, current, tasks, holder, ran>>
      PROVE  IInv'
  <2>1. /\ idle' = idle - One(pc[w] \in Idling) + One(x \in Idling)
        /\ current' = current - One(pc[w] \in Counted) + One(x \in Counted)
        /\ pc[w] \in Coming => x \in Coming
    BY <1>0, <1>1 DEF One, Idling, Counted, Coming
  <2> QED BY <1>0, <1>1, <2>1, WorkerMove
<1>2. {"timedout", "woken", "entry", "ended", "joined"} \subseteq Places
  BY DEF Places, Counted
<1>3. CASE Timeout(w) BY <1>1, <1>2, <1>3 DEF Timeout
<1>4. CASE Spurious(w) BY <1>1, <1>2, <1>4 DEF Spurious
<1>5. CASE EndTask(w) BY <1>1, <1>2, <1>5 DEF EndTask
<1>6. CASE EndThread(w) BY <1>1, <1>2, <1>6 DEF EndThread
<1>7. CASE DestructorJoin(w) BY <1>1, <1>2, <1>7 DEF DestructorJoin
<1> QED BY <1>3, <1>4, <1>5, <1>6, <1>7

(* joinFinishedThreads(): the first finished thread is joined; no other id *)
(* is its own, so the rest stay joinable.                                  *)
LEMMA JoinStep ==
    ASSUME IInv, NEW w \in Workers, JoinFinished(w)
    PROVE  IInv'
<1> USE DEF IInv
<1> DEFINE h == Head(finished)
<1>1. /\ finished \in Seq(Workers) /\ finished # << >> /\ pc[h] = "ended"
      /\ pc' = [pc EXCEPT ![h] = "none"] /\ threads' = threads \ {h}
      /\ finished' = Tail(finished)
      /\ UNCHANGED <<quit, current, idle, maxThreads, maxTasks, tasks, submitted,
                     unserved, holder, destructor, ran>>
  BY DEF JoinFinished, TypeOK, limits, queueVars
<1>2. /\ h \in Workers /\ finished' \in Seq(Workers)
      /\ h = finished[1] /\ 1 \in DOMAIN finished
      /\ \A i \in DOMAIN finished' : /\ i + 1 \in DOMAIN finished /\ i + 1 # 1
                                     /\ finished'[i] = finished[i + 1] /\ i \in Nat
  <2>1. Len(finished) \in Nat /\ DOMAIN finished = 1 .. Len(finished) /\ Len(finished) # 0
    BY <1>1, LenProperties, EmptySeq
  <2>2. /\ h \in Workers /\ h = finished[1] /\ finished' \in Seq(Workers)
        /\ Len(finished') = Len(finished) - 1
        /\ \A i \in 1 .. Len(finished') : finished'[i] = finished[i + 1]
    BY <1>1, HeadTailProperties
  <2>3. DOMAIN finished' = 1 .. Len(finished')
    BY <2>2, LenProperties
  <2> QED BY <2>1, <2>2, <2>3
<1>3. holder = w /\ pc[w] = "joining" /\ destructor = "no"
  BY PoolAssumption DEF JoinFinished, OneJoins, FinishedJoinable
<1> HIDE DEF h
<1>4. pc \in [Workers -> Places] /\ pc' \in [Workers -> Places]
  BY <1>1 DEF TypeOK, Places
<1>5. \A P : P \subseteq Counted => At(P)' = At(P)
  <2> SUFFICES ASSUME NEW P, P \subseteq Counted PROVE At(P)' = At(P)
    OBVIOUS
  <2>1. "ended" \notin P /\ "none" \notin P
    BY DEF Counted
  <2> QED BY <1>1, <1>2, <1>4, <2>1 DEF At
<1>6. /\ At(Counted)' = At(Counted) /\ At({"waiting"})' = At({"waiting"})
      /\ At({"waiting", "woken", "timedout"})' = At({"waiting", "woken", "timedout"})
      /\ At({"entry", "woken", "timedout"})' = At({"entry", "woken", "timedout"})
  BY <1>5 DEF Counted
<1>7. /\ threads' = Workers \ At({"none"})'
      /\ holder' \in At({"joining"})' \cup {"none"}
  BY <1>1, <1>2, <1>3, <1>4 DEF TypeOK, At
<1>8. TypeOK'
  <2>1. /\ current' = Cardinality(At(Counted))'
        /\ idle' = Cardinality(At({"waiting", "woken", "timedout"}))'
    BY <1>1, <1>6 DEF TypeOK
  <2> QED BY <1>1, <1>2, <1>4, <1>7, <2>1 DEF TypeOK, Places
<1>9. NoIdleWhileQueued'
  BY <1>1, <1>6 DEF NoIdleWhileQueued
<1>10. FinishedJoinable'
  <2>1. ASSUME NEW i \in DOMAIN finished'
        PROVE  /\ finished'[i] \in threads'
               /\ pc'[finished'[i]] \in {"returning", "ended"}
               /\ \A j \in DOMAIN finished' : finished'[i] = finished'[j] => i = j
    <3>1. /\ finished'[i] \in threads /\ finished'[i] # h
          /\ pc[finished'[i]] \in {"returning", "ended"}
      BY <1>2, <1>3 DEF FinishedJoinable
    <3>2. finished'[i] \in Workers
      BY <3>1 DEF TypeOK
    <3>3. ASSUME NEW j \in DOMAIN finished', finished'[i] = finished'[j] PROVE i = j
      <4>1. i + 1 = j + 1
        BY <1>2, <1>3, <3>3 DEF FinishedJoinable
      <4> QED BY <1>2, <4>1
    <3> QED BY <1>1, <1>4, <3>1, <3>2, <3>3
  <2> QED BY <1>1, <1>3, <2>1 DEF FinishedJoinable
<1>11. OneJoins' /\ QuitByDestructor' /\ QueuedSubmitted'
  BY <1>1, <1>2, <1>4 DEF OneJoins, QuitByDestructor, QueuedSubmitted
<1> QED BY <1>8, <1>9, <1>10, <1>11

(* A worker enters its own id once the list is empty, and lets go of       *)
(* mutex_.                                                                 *)
LEMMA EndLeaveStep ==
    ASSUME IInv, NEW w \in Workers, EndLeave(w)
    PROVE  IInv'
<1> USE DEF IInv
<1>1. /\ pc[w] = "joining" /\ Go(w, "returning") /\ finished' = <<w>> /\ holder' = "none"
      /\ UNCHANGED <<idle, current, tasks, ran, quit, maxThreads, maxTasks, threads,
                     destructor, submitted, unserved>>
  BY DEF EndLeave, workerFrame, limits
<1>2. "returning" \in Places /\ "returning" \notin Counted
      /\ pc[w] \notin Counted /\ Idling \subseteq Counted /\ Coming \subseteq Counted
  BY <1>1 DEF Places, Counted, Idling, Coming
<1>3. /\ pc' \in [Workers -> Places]
      /\ pc'[w] = "returning" /\ \A v \in Workers \ {w} : pc'[v] = pc[v]
      /\ At({"none"})' = At({"none"}) \ {w}
      /\ At({"waiting"})' \subseteq At({"waiting"})
      /\ Cardinality(At(Counted))' = current
      /\ Cardinality(At(Idling))' = idle
      /\ Cardinality(At(Coming))' = Cardinality(At(Coming))
  BY <1>1, <1>2, Move DEF One
<1>4. At({"none"})' = At({"none"})
  BY <1>1, <1>3 DEF At
<1>5. finished' \in Seq(Workers) /\ DOMAIN finished' = {1} /\ finished'[1] = w
  BY <1>1
<1>6. TypeOK'
  <2>1. /\ current' = Cardinality(At(Counted))'
        /\ idle' = Cardinality(At({"waiting", "woken", "timedout"}))'
    BY <1>1, <1>3 DEF Idling
  <2> QED BY <1>1, <1>3, <1>4, <1>5, <2>1 DEF TypeOK, Places
<1>7. NoIdleWhileQueued'
  BY <1>1, <1>3 DEF NoIdleWhileQueued, Coming
<1>8. FinishedJoinable'
  <2>1. w \in threads'
    BY <1>1 DEF TypeOK, At
  <2> QED BY <1>1, <1>3, <1>5, <2>1 DEF FinishedJoinable
<1>9. OneJoins' /\ QuitByDestructor' /\ QueuedSubmitted'
  <2>1. OneJoins'
    BY <1>1, <1>3 DEF OneJoins
  <2> QED BY <1>1, <2>1 DEF QuitByDestructor, QueuedSubmitted
<1> QED BY <1>6, <1>7, <1>8, <1>9

(* The destructor and the setters: no worker moves. *)
LEMMA QuietStep ==
    ASSUME IInv, maxThreads' \in 0 .. Cardinality(Workers), maxTasks' \in Limits,
           destructor' \in {"no", "quit", "join", "done"}, quit' \in BOOLEAN,
           quit' <=> destructor' # "no",
           destructor' = "no" => destructor = "no",
           destructor' # "no" => holder = "none",
           UNCHANGED <<current, idle, tasks, submitted, unserved, finished, threads,
                       pc, holder, ran>>
    PROVE  IInv'
<1> USE DEF IInv
<1>1. \A P : At(P)' = At(P)
  BY DEF At
<1>2. TypeOK'
  BY <1>1 DEF TypeOK
<1>3. NoIdleWhileQueued'
  BY <1>1 DEF NoIdleWhileQueued
<1>4. FinishedJoinable'
  BY FinishedKept
<1>5. OneJoins' /\ QuitByDestructor' /\ QueuedSubmitted'
  BY DEF OneJoins, QuitByDestructor, QueuedSubmitted
<1> QED BY <1>2, <1>3, <1>4, <1>5

(* notify_all(): nobody sleeps any more, and who was idle still is. *)
LEMMA NotifyAllStep == IInv /\ NotifyAll => IInv'
<1> SUFFICES ASSUME IInv, NotifyAll PROVE IInv'
  OBVIOUS
<1> USE DEF IInv
<1>1. /\ destructor = "quit" /\ destructor' = "join"
      /\ pc' = [v \in Workers |-> IF pc[v] = "waiting" THEN "woken" ELSE pc[v]]
      /\ UNCHANGED <<quit, threads, current, idle, maxThreads, maxTasks, tasks,
                     submitted, unserved, finished, holder, ran>>
  BY DEF NotifyAll, dFrame, limits, queueVars
<1>2. pc \in [Workers -> Places] /\ pc' \in [Workers -> Places]
  BY <1>1 DEF TypeOK, Places, Counted
<1>3. /\ At({"waiting"})' = {} /\ At({"none"})' = At({"none"})
      /\ At({"joining"})' = At({"joining"})
      /\ At({"waiting", "woken", "timedout"})' = At({"waiting", "woken", "timedout"})
      /\ At(Counted)' = At(Counted)
  BY <1>1 DEF At, Counted
<1>4. TypeOK'
  BY <1>1, <1>2, <1>3 DEF TypeOK, Places
<1>5. NoIdleWhileQueued'
  BY <1>3 DEF NoIdleWhileQueued
<1>6. FinishedJoinable'
  <2>1. destructor' # "no" /\ holder' = "none" /\ threads \subseteq threads'
    BY <1>1 DEF FinishedJoinable
  <2> QED BY <1>1, <2>1, FinishedKept
<1>7. OneJoins' /\ QuitByDestructor' /\ QueuedSubmitted'
  BY <1>1 DEF OneJoins, QuitByDestructor, QueuedSubmitted
<1> QED BY <1>4, <1>5, <1>6, <1>7

(* submit(): a task is queued together with a notification, a new thread,  *)
(* or while nobody sleeps.                                                 *)
LEMMA SubmitStep == IInv /\ Submit => IInv'
<1> SUFFICES ASSUME IInv, Submit PROVE IInv'
  OBVIOUS
<1> USE DEF IInv
<1>1. /\ Unlocked /\ ~quit /\ submitted' = submitted + 1
      /\ UNCHANGED <<quit, idle, maxThreads, maxTasks, finished, holder, destructor, ran>>
  BY DEF Submit, limits
<1>2. /\ submitted \in Nat /\ submitted' \in 0 .. MaxSubmits
      /\ 1 .. submitted \subseteq 1 .. submitted' /\ submitted' \in 1 .. submitted'
      /\ 1 .. submitted' \subseteq 1 .. MaxSubmits
      /\ ran' \subseteq 1 .. submitted'
  BY <1>1, PoolAssumption DEF TypeOK, Submit
<1>3. tasks \in Seq(1 .. submitted) /\ destructor = "no" /\ idle \in Nat
      /\ pc \in [Workers -> Places]
  BY <1>1, CountType DEF QueuedSubmitted, QuitByDestructor, TypeOK, Places
<1>4. /\ tasks' \in Seq(1 .. submitted') /\ unserved' \subseteq 1 .. submitted'
      /\ Len(tasks) \in Nat
      /\ \/ tasks' = tasks /\ UNCHANGED <<pc, current, threads>>
         \/ Len(tasks') = Len(tasks) + 1 /\ Provide
  <2>1. tasks \in Seq(1 .. submitted')
    BY <1>2, <1>3, SeqMonotone
  <2>2. CASE Full
    BY <1>2, <2>1, <2>2, LenProperties DEF Submit, TypeOK
  <2>3. CASE ~Full
    <3>1. tasks' = Append(tasks, submitted') /\ Provide
          /\ unserved' = IF maxThreads = 0 THEN unserved \cup {submitted'} ELSE unserved
      BY <2>3 DEF Submit
    <3>2. /\ Len(tasks) \in Nat /\ tasks' \in Seq(1 .. submitted')
          /\ Len(tasks') = Len(tasks) + 1
      BY <1>2, <2>1, <3>1, LenProperties, AppendProperties
    <3> QED BY <1>2, <3>1, <3>2 DEF TypeOK
  <2> QED BY <2>2, <2>3
<1>5. tasks' \in Seq(1 .. MaxSubmits)
  BY <1>2, <1>4, SeqMonotone
<1>6. ASSUME pc' \in [Workers -> Places],
             \A v \in Workers : pc'[v] # pc[v]
               => /\ pc[v] \in {"none", "waiting"} /\ pc'[v] \in {"entry", "woken"},
             threads' = Workers \ At({"none"})',
             current' = Cardinality(At(Counted))', idle = Cardinality(At(Idling))',
             At({"waiting"})' # {} => Len(tasks') <= Cardinality(At(Coming))'
      PROVE  IInv'
  <2>1. threads \subseteq threads' /\ holder' \in At({"joining"})' \cup {"none"}
    BY <1>1, <1>6 DEF TypeOK, At, Unlocked
  <2>2. TypeOK'
    BY <1>1, <1>2, <1>4, <1>5, <1>6, <2>1 DEF TypeOK, Places, Idling
  <2>3. NoIdleWhileQueued'
    BY <1>6 DEF NoIdleWhileQueued, Coming
  <2>4. FinishedJoinable'
    <3>1. \A v \in Workers : pc[v] \in {"returning", "ended"}
             => pc'[v] \in {"returning", "ended"}
      BY <1>6
    <3> QED BY <1>1, <1>3, <2>1, <3>1, FinishedKept
  <2>5. OneJoins' /\ QuitByDestructor' /\ QueuedSubmitted'
    BY <1>1, <1>4, <1>6 DEF OneJoins, QuitByDestructor, QueuedSubmitted
  <2> QED BY <2>2, <2>3, <2>4, <2>5
<1>7. /\ threads = Workers \ At({"none"}) /\ current = Cardinality(At(Counted))
      /\ idle = Cardinality(At(Idling)) /\ current \in Nat
      /\ At({"waiting"}) # {} => Len(tasks) <= Cardinality(At(Coming))
      /\ Cardinality(At(Coming)) \in Nat
  BY CountType DEF TypeOK, Idling, Coming, NoIdleWhileQueued
<1>8. ASSUME UNCHANGED <<pc, current, threads>>,
             At({"waiting"}) # {} => tasks' = tasks
      PROVE  IInv'
  <2>1. \A P : At(P)' = At(P)
    BY <1>8 DEF At
  <2> QED BY <1>3, <1>6, <1>7, <1>8, <2>1
<1>9. ASSUME NEW w \in At({"waiting"}), Len(tasks') = Len(tasks) + 1,
             pc' = [pc EXCEPT ![w] = "woken"], UNCHANGED <<current, threads>>
      PROVE  IInv'
  <2>1. w \in Workers /\ pc[w] = "waiting" /\ "woken" \in Places /\ Go(w, "woken")
    BY <1>9 DEF At, Places, Counted, Go
  <2>2. /\ pc' \in [Workers -> Places]
        /\ pc'[w] = "woken" /\ \A v \in Workers \ {w} : pc'[v] = pc[v]
        /\ At({"none"})' = At({"none"}) \ {w}
        /\ Cardinality(At(Counted))' = current
        /\ Cardinality(At(Idling))' = idle
        /\ Cardinality(At(Coming))' = Cardinality(At(Coming)) + 1
    BY <1>7, <2>1, Move DEF One, Counted, Idling, Coming
  <2>3. At({"none"})' = At({"none"})
    BY <2>1, <2>2 DEF At
  <2> QED BY <1>4, <1>6, <1>7, <1>9, <2>1, <2>2, <2>3
<1>10. ASSUME NEW w \in At({"none"}), idle = 0, pc' = [pc EXCEPT ![w] = "entry"],
              threads' = threads \cup {w}, current' = current + 1
       PROVE  IInv'
  <2>1. w \in Workers /\ pc[w] = "none" /\ "entry" \in Places /\ Go(w, "entry")
    BY <1>10 DEF At, Places, Counted, Go
  <2>2. /\ pc' \in [Workers -> Places]
        /\ pc'[w] = "entry" /\ \A v \in Workers \ {w} : pc'[v] = pc[v]
        /\ At({"none"})' = At({"none"}) \ {w}
        /\ At({"waiting"})' \subseteq At({"waiting"})
        /\ Cardinality(At(Counted))' = current + 1
        /\ Cardinality(At(Idling))' = idle
    BY <1>7, <2>1, Move DEF One, Counted, Idling
  <2>3. At({"waiting"}) = {}
    <3>1. At(Idling) = {}
      BY <1>7, <1>10, CountType
    <3> QED BY <3>1 DEF At, Idling
  <2> QED BY <1>6, <1>7, <1>10, <2>1, <2>2, <2>3
<1>11. CASE tasks' = tasks /\ UNCHANGED <<pc, current, threads>>
  BY <1>8, <1>11
<1>12. CASE Len(tasks') = Len(tasks) + 1 /\ Provide
  <2>1. idle = 0 => At({"waiting"}) = {}
    <3>1. idle = 0 => At(Idling) = {}
      BY <1>7, CountType
    <3> QED BY <3>1 DEF At, Idling
  <2>2. CASE idle > 0 BY <1>8, <1>9, <1>12, <2>2 DEF Provide, NotifyOne
  <2>3. CASE idle = 0 /\ current < maxThreads
    BY <1>10, <1>12, <2>3 DEF Provide, Spawn
  <2>4. CASE idle = 0 /\ ~(current < maxThreads)
    BY <1>8, <1>12, <2>1, <2>4 DEF Provide
  <2> QED BY <1>3, <2>2, <2>3, <2>4
<1> QED BY <1>4, <1>11, <1>12

-----------------------------------------------------------------------------
(* Every step preserves the invariant. *)
LEMMA InvStep == IInv /\ [Next]_vars => IInv'
<1> SUFFICES ASSUME IInv, [Next]_vars PROVE IInv'
  OBVIOUS
<1>0. /\ maxThreads \in 0 .. Cardinality(Workers) /\ maxTasks \in Limits
      /\ destructor \in {"no", "quit", "join", "done"} /\ quit \in BOOLEAN
      /\ (quit <=> destructor # "no") /\ (destructor # "no" => holder = "none")
  BY DEF IInv, TypeOK, QuitByDestructor, FinishedJoinable
<1> USE DEF limits, queueVars, dFrame, Unlocked
<1>1. CASE Submit BY <1>1, SubmitStep
<1>2. CASE Destroy BY <1>0, <1>2, QuietStep DEF Destroy
<1>3. CASE NotifyAll BY <1>3, NotifyAllStep
<1>4. CASE Destroyed BY <1>0, <1>4, QuietStep DEF Destroyed
<1>5. ASSUME NEW n \in 0 .. Cardinality(Workers), SetMaxThreads(n) PROVE IInv'
  BY <1>0, <1>5, QuietStep DEF SetMaxThreads
<1>6. ASSUME NEW n \in Limits, SetMaxTasks(n) PROVE IInv'
  BY <1>0, <1>6, QuietStep DEF SetMaxTasks
<1>7. ASSUME NEW w \in Workers, WorkerStep(w) PROVE IInv'
  BY <1>7, LookStep, JoinStep, EndLeaveStep, OwnStep DEF WorkerStep
<1>8. ASSUME NEW w \in Workers, Timeout(w) \/ Spurious(w) \/ DestructorJoin(w)
      PROVE  IInv'
  BY <1>8, OwnStep
<1>9. CASE UNCHANGED vars
  BY <1>0, <1>9, QuietStep DEF vars
<1> QED BY <1>1, <1>2, <1>3, <1>4, <1>5, <1>6, <1>7, <1>8, <1>9 DEF Next

(* The parts of the invariant together hold in every reachable state. *)
THEOREM Inductive == Spec => []IInv
<1> QED BY InitInv, InvStep, PTL DEF Spec

(* currentThreads_ and idleThreads_, by which submit() decides whether to  *)
(* notify, to start a thread or neither, are the numbers of workers that   *)
(* have not left and of those that look at the queue before they run.      *)
THEOREM CountersExact == Spec => []TypeOK
<1>1. IInv => TypeOK
  BY DEF IInv
<1> QED BY <1>1, Inductive, PTL

(* No worker sleeps on a task: submit() and worker() lose no notification, *)
(* through timeouts and spurious wakeups.                                  *)
THEOREM NoTaskSleptOn == Spec => []NoIdleWhileQueued
<1>1. IInv => NoIdleWhileQueued
  BY DEF IInv
<1> QED BY <1>1, Inductive, PTL

(* The assertions of joinFinishedThreads() hold, and it joins only threads *)
(* that will not ask for the mutex_ it holds.                              *)
THEOREM JoinsEndingThreads == Spec => []FinishedJoinable
<1>1. IInv => FinishedJoinable
  BY DEF IInv
<1> QED BY <1>1, Inductive, PTL

-----------------------------------------------------------------------------
(* AsyncLogger: the inductive invariant *)

(* Within a buffer no entry is left out. *)
Consecutive(bs) ==
    \A b \in DOMAIN bs : \A k \in DOMAIN bs[b] : bs[b][k] = bs[b][1] + (k - 1)

Ordered(f, bs, n) == InOrder(f, bs, n) /\ Consecutive(bs)

(* While stop() drains the queue bs into f: the entries up to q are in f   *)
(* or in bs, and in order among themselves.                                *)
Saved(f, bs, q) ==
    /\ \A m \in 1 .. q : \/ \E i \in DOMAIN f : f[i] = m
                         \/ \E b \in DOMAIN bs : \E k \in DOMAIN bs[b] : bs[b][k] = m
    /\ \A i, j \in DOMAIN f : i < j /\ f[i] <= q /\ f[j] <= q => f[i] < f[j]
    /\ \A i \in DOMAIN f : \A b \in DOMAIN bs : \A k \in DOMAIN bs[b] :
          f[i] <= q /\ bs[b][k] <= q => f[i] < bs[b][k]
    /\ \A b, c \in DOMAIN bs : \A k \in DOMAIN bs[b] : \A l \in DOMAIN bs[c] :
          b < c \/ (b = c /\ k < l) => bs[b][k] < bs[c][l]

Entries == Seq(Nat)

LogTypes ==
    /\ current_buffer \in Entries /\ file \in Entries
    /\ buffers \in Seq(Entries) /\ local \in Seq(Entries)
    /\ logged \in Nat /\ mark \in 0 .. logged
    /\ writer \in {"running", "buffers", "current", "lock", "wait", "write", "ended"}
    /\ stop \in {"no", "join", "drain", "done"}

(* What stop() has done and the thread seen *)
Stopping ==
    /\ running <=> stop = "no"
    /\ writer \in {"buffers", "current", "ended"} => stop # "no"
    /\ stop \in {"drain", "done"} => writer = "ended"
    /\ writer # "write" => local = << >>

(* Once the thread has seen an empty current buffer, what log() puts there *)
(* came after the call of stop().                                          *)
Later == writer = "ended" => \A k \in DOMAIN current_buffer : current_buffer[k] > mark

LogIInv ==
    /\ LogTypes
    /\ Stopping
    /\ stop = "join" => Later
    /\ stop \in {"no", "join"} => Ordered(file, Held, logged)
    /\ stop = "drain" => Saved(file, buffers, mark)
    /\ stop = "done" => Saved(file, << >>, mark)

-----------------------------------------------------------------------------
(* The buffers in order *)

LEMMA EmptyBehind ==
    ASSUME NEW f, NEW n, NEW bs \in Seq(Entries), Ordered(f, bs, n),
           NEW t, t = Append(bs, << >>)
    PROVE  Ordered(f, t, n)
<1>1. << >> \in Entries
  BY DEF Entries
<1>2. /\ t \in Seq(Entries) /\ Len(t) = Len(bs) + 1 /\ Len(bs) \in Nat
      /\ t[Len(bs) + 1] = << >> /\ \A b \in 1 .. Len(bs) : t[b] = bs[b]
  BY <1>1, AppendProperties
<1>3. DOMAIN t = 1 .. Len(bs) + 1 /\ DOMAIN bs = 1 .. Len(bs)
  BY <1>2
<1>4. \A b \in DOMAIN t : \A k \in DOMAIN t[b] : b \in DOMAIN bs /\ t[b] = bs[b]
  <2> SUFFICES ASSUME NEW b \in DOMAIN t, NEW k \in DOMAIN t[b]
               PROVE  b \in DOMAIN bs /\ t[b] = bs[b]
    OBVIOUS
  <2>1. b # Len(bs) + 1
    BY <1>2
  <2>2. b \in 1 .. Len(bs)
    BY <1>2, <1>3, <2>1
  <2> QED BY <1>2, <1>3, <2>2
<1>5. \A b \in DOMAIN bs : b \in DOMAIN t /\ t[b] = bs[b]
  BY <1>2, <1>3
<1>6. InOrder(f, t, n)
  <2>1. \A b \in DOMAIN t : \A k \in DOMAIN t[b] : t[b][k] \in Len(f) + 1 .. n
    BY <1>4 DEF Ordered, InOrder
  <2>2. \A m \in Len(f) + 1 .. n : \E b \in DOMAIN t : \E k \in DOMAIN t[b] : t[b][k] = m
    BY <1>5 DEF Ordered, InOrder
  <2>3. \A b, c \in DOMAIN t : \A k \in DOMAIN t[b] : \A l \in DOMAIN t[c] :
            b < c \/ (b = c /\ k < l) => t[b][k] < t[c][l]
    BY <1>4 DEF Ordered, InOrder
  <2> QED BY <2>1, <2>2, <2>3 DEF Ordered, InOrder
<1>7. Consecutive(t)
  BY <1>4 DEF Ordered, Consecutive
<1> QED BY <1>6, <1>7 DEF Ordered

(* log() adds an entry to the last buffer. *)
LEMMA EntryBehind ==
    ASSUME NEW f \in Entries, NEW n \in Nat,
           NEW p \in Seq(Entries), NEW c \in Entries,
           NEW s, s = Append(p, c), Ordered(f, s, n),
           NEW d, d = Append(c, n + 1), NEW t, t = Append(p, d)
    PROVE  Ordered(f, t, n + 1)
<1>1. Len(p) \in Nat /\ Len(c) \in Nat /\ Len(f) \in Nat /\ Len(f) <= n
  BY DEF Entries, Ordered, InOrder
<1>2. PICK e \in Nat : e = Len(p) + 1
  BY <1>1
<1>3. PICK z \in Nat : z = Len(c) + 1
  BY <1>1
<1>4. /\ d \in Entries /\ DOMAIN d = 1 .. z /\ DOMAIN c = 1 .. z - 1
      /\ d[z] = n + 1 /\ \A k \in 1 .. z - 1 : d[k] = c[k] /\ c[k] \in Nat
  BY <1>1, <1>3, AppendProperties DEF Entries
<1>5. /\ s \in Seq(Entries) /\ DOMAIN s = 1 .. e /\ s[e] = c
      /\ \A b \in 1 .. e - 1 : s[b] = p[b]
  BY <1>1, <1>2, AppendProperties
<1>6. /\ t \in Seq(Entries) /\ DOMAIN t = 1 .. e /\ t[e] = d
      /\ \A b \in 1 .. e - 1 : t[b] = p[b]
  BY <1>1, <1>2, <1>4, AppendProperties
<1>7. e \in Nat \ {0} /\ z \in Nat \ {0} /\ e \in DOMAIN s /\ e \in DOMAIN t
  BY <1>1, <1>2, <1>3, <1>5, <1>6
<1>8. \A b \in DOMAIN s : b # e => t[b] = s[b]
  BY <1>5, <1>6, <1>7
<1>9. DOMAIN t = DOMAIN s
  BY <1>5, <1>6
\* an old place, or the new one
<1>10. ASSUME NEW b \in DOMAIN t, NEW k \in DOMAIN t[b]
       PROVE  \/ b = e /\ k = z /\ t[b][k] = n + 1
              \/ b \in DOMAIN s /\ k \in DOMAIN s[b] /\ t[b][k] = s[b][k]
  <2>1. CASE b = e
    <3>1. k \in 1 .. z
      BY <1>4, <1>6, <2>1
    <3>2. k = z \/ k \in 1 .. z - 1
      BY <1>7, <3>1
    <3> QED BY <1>4, <1>5, <1>6, <1>7, <2>1, <3>2
  <2>2. CASE b # e
    BY <1>8, <1>9, <2>2
  <2> QED BY <2>1, <2>2
<1>11. ASSUME NEW b \in DOMAIN s, NEW k \in DOMAIN s[b]
       PROVE  /\ b \in DOMAIN t /\ k \in DOMAIN t[b] /\ t[b][k] = s[b][k]
              /\ s[b][k] \in Len(f) + 1 .. n
              /\ b < e \/ (b = e /\ k < z)
  <2>1. CASE b = e
    <3>1. k \in 1 .. z - 1
      BY <1>4, <1>5, <2>1
    <3>2. k \in 1 .. z /\ k < z
      BY <1>7, <3>1
    <3>3. s[b][k] \in Len(f) + 1 .. n
      BY DEF Ordered, InOrder
    <3> QED BY <1>4, <1>5, <1>6, <1>7, <2>1, <3>1, <3>2, <3>3
  <2>2. CASE b # e
    <3>1. b < e
      BY <1>5, <1>7, <2>2
    <3>2. s[b][k] \in Len(f) + 1 .. n
      BY DEF Ordered, InOrder
    <3> QED BY <1>8, <1>9, <2>2, <3>1, <3>2
  <2> QED BY <2>1, <2>2
<1>12. \A b \in DOMAIN t : \A k \in DOMAIN t[b] : t[b][k] \in Len(f) + 1 .. n + 1
  <2> SUFFICES ASSUME NEW b \in DOMAIN t, NEW k \in DOMAIN t[b]
               PROVE  t[b][k] \in Len(f) + 1 .. n + 1
    OBVIOUS
  <2>1. CASE t[b][k] = n + 1
    BY <1>1, <2>1
  <2>2. CASE b \in DOMAIN s /\ k \in DOMAIN s[b] /\ t[b][k] = s[b][k]
    <3>1. s[b][k] \in Len(f) + 1 .. n
      BY <1>11, <2>2
    <3> QED BY <1>1, <2>2, <3>1
  <2> QED BY <1>10, <2>1, <2>2
<1>13. \A m \in Len(f) + 1 .. n + 1 : \E b \in DOMAIN t : \E k \in DOMAIN t[b] : t[b][k] = m
  <2> SUFFICES ASSUME NEW m \in Len(f) + 1 .. n + 1
               PROVE  \E b \in DOMAIN t : \E k \in DOMAIN t[b] : t[b][k] = m
    OBVIOUS
  <2>1. CASE m = n + 1
    <3>1. e \in DOMAIN t /\ z \in DOMAIN t[e] /\ t[e][z] = m
      BY <1>4, <1>6, <1>7, <2>1
    <3> QED BY <3>1
  <2>2. CASE m # n + 1
    <3>1. m \in Len(f) + 1 .. n
      BY <1>1, <2>2
    <3>2. PICK b \in DOMAIN s : \E k \in DOMAIN s[b] : s[b][k] = m
      BY <3>1 DEF Ordered, InOrder
    <3>3. PICK k \in DOMAIN s[b] : s[b][k] = m
      BY <3>2
    <3> QED BY <1>11, <3>3
  <2> QED BY <2>1, <2>2
<1>14. \A b, x \in DOMAIN t : \A k \in DOMAIN t[b] : \A l \in DOMAIN t[x] :
          b < x \/ (b = x /\ k < l) => t[b][k] < t[x][l]
  <2> SUFFICES ASSUME NEW b \in DOMAIN t, NEW x \in DOMAIN t,
                      NEW k \in DOMAIN t[b], NEW l \in DOMAIN t[x],
                      b < x \/ (b = x /\ k < l)
               PROVE  t[b][k] < t[x][l]
    OBVIOUS
  <2>1. b \in 1 .. e /\ x \in 1 .. e
    BY <1>6
  <2>2. CASE b = e /\ k = z
    <3>1. x = e /\ z < l
      BY <1>7, <2>1, <2>2
    <3>2. l \in 1 .. z
      BY <1>4, <1>6, <3>1
    <3> QED BY <1>7, <3>1, <3>2
  <2>3. CASE b \in DOMAIN s /\ k \in DOMAIN s[b] /\ t[b][k] = s[b][k]
    <3>1. s[b][k] \in Len(f) + 1 .. n
      BY <1>11, <2>3
    <3>2. CASE t[x][l] = n + 1
      BY <1>1, <2>3, <3>1, <3>2
    <3>3. CASE x \in DOMAIN s /\ l \in DOMAIN s[x] /\ t[x][l] = s[x][l]
      <4>1. s[b][k] < s[x][l]
        BY <2>3, <3>3 DEF Ordered, InOrder
      <4> QED BY <2>3, <3>3, <4>1
    <3> QED BY <1>10, <3>2, <3>3
  <2> QED BY <1>10, <2>2, <2>3
<1>15. Consecutive(t)
  <2> SUFFICES ASSUME NEW b \in DOMAIN t, NEW k \in DOMAIN t[b]
               PROVE  t[b][k] = t[b][1] + (k - 1)
    BY DEF Consecutive
  <2>1. CASE b # e
    <3>1. t[b] = s[b] /\ b \in DOMAIN s /\ k \in DOMAIN s[b]
      BY <1>8, <1>9, <2>1
    <3> QED BY <3>1 DEF Ordered, Consecutive
  <2>2. CASE b = e /\ k # z
    <3>1. k \in 1 .. z
      BY <1>4, <1>6, <2>2
    <3>2. k \in 1 .. z - 1 /\ 1 \in 1 .. z - 1
      BY <1>7, <2>2, <3>1
    <3>3. t[b][k] = c[k] /\ t[b][1] = c[1]
      BY <1>4, <1>6, <2>2, <3>2
    <3>4. s[e][k] = s[e][1] + (k - 1)
      BY <1>4, <1>5, <1>7, <3>2 DEF Ordered, Consecutive
    <3> QED BY <1>5, <3>3, <3>4
  <2>3. CASE b = e /\ k = z
    <3>1. t[b][k] = n + 1
      BY <1>4, <1>6, <2>3
    <3>2. CASE z = 1
      BY <1>4, <1>6, <2>3, <3>1, <3>2
    <3>3. CASE z # 1
      <4>1. PICK y : y = z - 1
        OBVIOUS
      <4>2. y \in 1 .. z - 1 /\ 1 \in 1 .. z - 1 /\ y \in Nat
        BY <1>7, <3>3, <4>1
      <4>3. y \in DOMAIN s[e] /\ s[e][y] = c[y]
        BY <1>4, <1>5, <4>2
      <4>4. c[y] \in Len(f) + 1 .. n
        BY <1>7, <1>11, <4>3
      \* the last entry so far is the last of this buffer
      <4>5. PICK b2 \in DOMAIN s : \E k2 \in DOMAIN s[b2] : s[b2][k2] = n
        <5>1. n \in Len(f) + 1 .. n
          BY <1>1, <4>4
        <5> QED BY <5>1 DEF Ordered, InOrder
      <4>6. PICK k2 \in DOMAIN s[b2] : s[b2][k2] = n
        BY <4>5
      <4>7. b2 = e /\ k2 = y
        <5>1. ~(b2 < e \/ (b2 = e /\ k2 < y))
          <6>1. b2 < e \/ (b2 = e /\ k2 < y) => s[b2][k2] < s[e][y]
            BY <1>7, <4>3, <4>6 DEF Ordered, InOrder
          <6>2. ~(n < c[y])
            BY <1>1, <4>4
          <6> QED BY <4>3, <4>6, <6>1, <6>2
        <5>2. b2 = e
          BY <1>5, <1>7, <5>1
        <5>3. k2 \in 1 .. z - 1
          BY <1>4, <1>5, <5>2
        <5>4. ~(k2 < y)
          BY <5>1, <5>2
        <5>5. k2 \in Nat /\ k2 <= y /\ y \in Nat
          BY <4>1, <4>2, <5>3
        <5> QED BY <5>2, <5>4, <5>5
      <4>8. c[y] = n
        BY <4>3, <4>6, <4>7
      <4>9. s[e][y] = s[e][1] + (y - 1)
        BY <1>7, <4>3 DEF Ordered, Consecutive
      <4>10. t[b][1] = c[1] /\ s[e][1] = c[1] /\ c[1] \in Nat
        BY <1>4, <1>5, <1>6, <2>3, <4>2
      <4>11. n = c[1] + (y - 1)
        BY <4>3, <4>8, <4>9, <4>10
      <4>12. n + 1 = c[1] + (z - 1)
        BY <4>1, <4>2, <4>10, <4>11
      <4> QED BY <2>3, <3>1, <4>10, <4>12
    <3> QED BY <3>2, <3>3
  <2> QED BY <2>1, <2>2, <2>3
<1>16. Len(f) <= n + 1 /\ \A i \in DOMAIN f : f[i] = i
  <2>1. Len(f) <= n
    BY DEF Ordered, InOrder
  <2>2. Len(f) <= n + 1
    BY <1>1, <2>1
  <2> QED BY <2>2 DEF Ordered, InOrder
<1>17. InOrder(f, t, n + 1)
  BY <1>12, <1>13, <1>14, <1>16 DEF InOrder
<1> QED BY <1>15, <1>17 DEF Ordered

(* bs is h and then rest. *)
Leads(h, rest, bs) ==
    /\ h \in Entries /\ rest \in Seq(Entries) /\ bs \in Seq(Entries)
    /\ Len(bs) = Len(rest) + 1 /\ bs[1] = h
    /\ \A b \in 1 .. Len(rest) : bs[b + 1] = rest[b]

LEMMA LeadsPlaces ==
    ASSUME NEW h, NEW rest, NEW bs, Leads(h, rest, bs)
    PROVE  /\ 1 \in DOMAIN bs /\ bs[1] = h
           /\ \A b \in DOMAIN rest : b \in Nat /\ b + 1 \in DOMAIN bs /\ bs[b + 1] = rest[b]
           /\ \A b \in DOMAIN bs : b = 1 \/ (b \in Nat /\ b > 1 /\ b - 1 \in DOMAIN rest
                                                /\ bs[b] = rest[b - 1])
<1>1. /\ Len(rest) \in Nat /\ Len(bs) = Len(rest) + 1 /\ bs[1] = h
      /\ DOMAIN rest = 1 .. Len(rest) /\ DOMAIN bs = 1 .. Len(rest) + 1
      /\ \A b \in 1 .. Len(rest) : bs[b + 1] = rest[b]
  BY DEF Leads
<1>2. ASSUME NEW b \in DOMAIN rest
      PROVE  b \in Nat /\ b + 1 \in DOMAIN bs /\ bs[b + 1] = rest[b]
  BY <1>1
<1>3. ASSUME NEW b \in DOMAIN bs, b # 1
      PROVE  b \in Nat /\ b > 1 /\ b - 1 \in DOMAIN rest /\ bs[b] = rest[b - 1]
  <2>1. b \in Nat /\ b > 1 /\ b - 1 \in 1 .. Len(rest) /\ (b - 1) + 1 = b
    BY <1>1, <1>3
  <2>2. bs[(b - 1) + 1] = rest[b - 1]
    BY <1>1, <2>1
  <2> QED BY <1>1, <2>1, <2>2
<1>4. 1 \in DOMAIN bs
  BY <1>1
<1> QED BY <1>1, <1>2, <1>3, <1>4

(* g is f and then h. *)
Extends(f, h, g) ==
    /\ f \in Entries /\ h \in Entries /\ g \in Entries
    /\ Len(g) = Len(f) + Len(h)
    /\ \A i \in 1 .. Len(f) : g[i] = f[i]
    /\ \A k \in 1 .. Len(h) : g[Len(f) + k] = h[k]

LEMMA ExtendsPlaces ==
    ASSUME NEW f, NEW h, NEW g, Extends(f, h, g)
    PROVE  /\ Len(f) \in Nat /\ Len(h) \in Nat /\ Len(g) = Len(f) + Len(h)
           /\ DOMAIN f = 1 .. Len(f) /\ DOMAIN h = 1 .. Len(h) /\ DOMAIN g = 1 .. Len(g)
           /\ \A i \in DOMAIN f : i \in DOMAIN g /\ g[i] = f[i]
           /\ \A k \in DOMAIN h : Len(f) + k \in DOMAIN g /\ g[Len(f) + k] = h[k]
           /\ \A i \in DOMAIN g : \/ i \in DOMAIN f /\ g[i] = f[i]
                                  \/ /\ i > Len(f) /\ i - Len(f) \in DOMAIN h
                                     /\ g[i] = h[i - Len(f)]
<1>1. /\ Len(f) \in Nat /\ Len(h) \in Nat /\ Len(g) = Len(f) + Len(h)
      /\ DOMAIN f = 1 .. Len(f) /\ DOMAIN h = 1 .. Len(h) /\ DOMAIN g = 1 .. Len(g)
  BY DEF Extends, Entries
<1>2. ASSUME NEW i \in DOMAIN f PROVE i \in DOMAIN g /\ g[i] = f[i]
  BY <1>1, <1>2 DEF Extends
<1>3. ASSUME NEW k \in DOMAIN h PROVE Len(f) + k \in DOMAIN g /\ g[Len(f) + k] = h[k]
  BY <1>1, <1>3 DEF Extends
<1>4. ASSUME NEW i \in DOMAIN g
      PROVE  \/ i \in DOMAIN f /\ g[i] = f[i]
             \/ i > Len(f) /\ i - Len(f) \in DOMAIN h /\ g[i] = h[i - Len(f)]
  <2>1. CASE i <= Len(f)
    <3>1. i \in DOMAIN f
      BY <1>1, <2>1
    <3> QED BY <1>2, <3>1
  <2>2. CASE ~(i <= Len(f))
    <3>1. PICK k : k = i - Len(f)
      OBVIOUS
    <3>2. i > Len(f) /\ k \in DOMAIN h /\ i = Len(f) + k
      BY <1>1, <2>2, <3>1
    <3> QED BY <1>3, <3>1, <3>2
  <2> QED BY <2>1, <2>2
<1> QED BY <1>1, <1>2, <1>3, <1>4

LEMMA Written ==
    ASSUME NEW f \in Entries, NEW h \in Entries, NEW g, g = f \o h
    PROVE  Extends(f, h, g)
<1>1. Len(f) \in Nat /\ Len(h) \in Nat
  BY DEF Entries
<1>2. /\ g \in Seq(Nat) /\ Len(g) = Len(f) + Len(h)
      /\ \A i \in 1 .. Len(f) + Len(h) : g[i] = IF i <= Len(f) THEN f[i] ELSE h[i - Len(f)]
  BY ConcatProperties DEF Entries
<1>3. ASSUME NEW i \in 1 .. Len(f) PROVE g[i] = f[i]
  BY <1>1, <1>2
<1>4. ASSUME NEW k \in 1 .. Len(h) PROVE g[Len(f) + k] = h[k]
  <2>1. Len(f) + k \in 1 .. Len(f) + Len(h) /\ ~(Len(f) + k <= Len(f)) /\ (Len(f) + k) - Len(f) = k
    BY <1>1
  <2> QED BY <1>2, <2>1
<1> QED BY <1>2, <1>3, <1>4 DEF Extends, Entries

(* The thread writes the first buffer. *)
LEMMA FirstWritten ==
    ASSUME NEW n \in Nat, NEW f, NEW h, NEW g, Extends(f, h, g),
           NEW rest, NEW bs, Leads(h, rest, bs), Ordered(f, bs, n)
    PROVE  Ordered(g, rest, n)
<1>1. /\ Len(f) \in Nat /\ Len(h) \in Nat /\ Len(g) = Len(f) + Len(h)
      /\ DOMAIN h = 1 .. Len(h)
  BY ExtendsPlaces
<1>2. 1 \in DOMAIN bs /\ bs[1] = h
  BY LeadsPlaces
<1>3. /\ Len(f) <= n /\ \A i \in DOMAIN f : f[i] = i
      /\ \A b \in DOMAIN bs : \A k \in DOMAIN bs[b] : bs[b][k] \in Len(f) + 1 .. n
      /\ \A m \in Len(f) + 1 .. n : \E b \in DOMAIN bs : \E k \in DOMAIN bs[b] : bs[b][k] = m
      /\ \A b, c \in DOMAIN bs : \A k \in DOMAIN bs[b] : \A l \in DOMAIN bs[c] :
            b < c \/ (b = c /\ k < l) => bs[b][k] < bs[c][l]
      /\ \A b \in DOMAIN bs : \A k \in DOMAIN bs[b] : bs[b][k] = bs[b][1] + (k - 1)
  BY DEF Ordered, InOrder, Consecutive
<1>4. \A k \in DOMAIN h : h[k] = Len(f) + k /\ h[k] <= n
  <2> SUFFICES ASSUME NEW k \in DOMAIN h PROVE h[k] = Len(f) + k /\ h[k] <= n
    OBVIOUS
  <2>1. 1 \in DOMAIN h /\ k \in Nat
    BY <1>1
  <2>2. h[1] \in Len(f) + 1 .. n /\ h[k] \in Len(f) + 1 .. n /\ h[k] = h[1] + (k - 1)
    BY <1>2, <1>3, <2>1
  <2>3. Len(f) + 1 \in Len(f) + 1 .. n
    BY <1>1, <2>2
  <2>4. PICK b \in DOMAIN bs : \E j \in DOMAIN bs[b] : bs[b][j] = Len(f) + 1
    BY <1>3, <2>3
  <2>5. PICK j \in DOMAIN bs[b] : bs[b][j] = Len(f) + 1
    BY <2>4
  <2>6. ~(1 < b \/ (1 = b /\ 1 < j))
    <3>1. 1 < b \/ (1 = b /\ 1 < j) => h[1] < bs[b][j]
      BY <1>2, <1>3, <2>1, <2>5
    <3>2. ~(h[1] < Len(f) + 1)
      BY <1>1, <2>2
    <3> QED BY <2>5, <3>1, <3>2
  <2>7. b = 1
    <3>1. b = 1 \/ (b \in Nat /\ b > 1)
      BY LeadsPlaces
    <3> QED BY <2>6, <3>1
  <2>8. j = 1
    <3>1. j \in 1 .. Len(h)
      BY <1>1, <1>2, <2>7
    <3> QED BY <1>1, <2>6, <2>7, <3>1
  <2>9. h[1] = Len(f) + 1
    BY <1>2, <2>5, <2>7, <2>8
  <2> QED BY <1>1, <2>1, <2>2, <2>9
<1>5. Len(g) <= n
  <2>1. CASE Len(h) = 0
    BY <1>1, <1>3, <2>1
  <2>2. CASE Len(h) # 0
    <3>1. PICK k : k = Len(h)
      OBVIOUS
    <3>2. k \in DOMAIN h
      BY <1>1, <2>2, <3>1
    <3> QED BY <1>1, <1>4, <3>1, <3>2
  <2> QED BY <2>1, <2>2
<1>6. \A i \in DOMAIN g : g[i] = i
  <2> SUFFICES ASSUME NEW i \in DOMAIN g PROVE g[i] = i
    OBVIOUS
  <2>1. CASE i \in DOMAIN f /\ g[i] = f[i]
    BY <1>3, <2>1
  <2>2. CASE i > Len(f) /\ i - Len(f) \in DOMAIN h /\ g[i] = h[i - Len(f)]
    <3>1. h[i - Len(f)] = Len(f) + (i - Len(f))
      BY <1>4, <2>2
    <3>2. i \in Nat
      <4>1. i \in 1 .. Len(g)
        BY ExtendsPlaces
      <4> QED BY <1>1, <4>1
    <3> QED BY <1>1, <2>2, <3>1, <3>2
  <2> QED BY <2>1, <2>2, ExtendsPlaces
<1>7. \A b \in DOMAIN rest : \A k \in DOMAIN rest[b] : rest[b][k] \in Len(g) + 1 .. n
  <2> SUFFICES ASSUME NEW b \in DOMAIN rest, NEW k \in DOMAIN rest[b]
               PROVE  rest[b][k] \in Len(g) + 1 .. n
    OBVIOUS
  <2>1. b \in Nat /\ b + 1 \in DOMAIN bs /\ bs[b + 1] = rest[b]
    BY LeadsPlaces
  <2>2. rest[b][k] \in Len(f) + 1 .. n
    BY <1>3, <2>1
  <2>3. CASE Len(h) = 0
    BY <1>1, <2>2, <2>3
  <2>4. CASE Len(h) # 0
    <3>1. PICK e : e = Len(h)
      OBVIOUS
    <3>2. e \in DOMAIN h
      BY <1>1, <2>4, <3>1
    <3>3. 1 < b + 1
      <4>1. DOMAIN rest = 1 .. Len(rest) /\ Len(rest) \in Nat
        BY DEF Leads
      <4> QED BY <4>1
    <3>4. h[e] < rest[b][k]
      BY <1>2, <1>3, <2>1, <3>2, <3>3
    <3>5. h[e] = Len(g)
      BY <1>1, <1>4, <3>1, <3>2
    <3> QED BY <1>1, <2>2, <3>4, <3>5
  <2> QED BY <2>3, <2>4
<1>8. \A m \in Len(g) + 1 .. n : \E b \in DOMAIN rest : \E k \in DOMAIN rest[b] : rest[b][k] = m
  <2> SUFFICES ASSUME NEW m \in Len(g) + 1 .. n
               PROVE  \E b \in DOMAIN rest : \E k \in DOMAIN rest[b] : rest[b][k] = m
    OBVIOUS
  <2>1. m \in Len(f) + 1 .. n /\ m > Len(g)
    BY <1>1
  <2>2. PICK b \in DOMAIN bs : \E k \in DOMAIN bs[b] : bs[b][k] = m
    BY <1>3, <2>1
  <2>3. PICK k \in DOMAIN bs[b] : bs[b][k] = m
    BY <2>2
  <2>4. b # 1
    <3> SUFFICES ASSUME b = 1 PROVE FALSE
      OBVIOUS
    <3>1. k \in DOMAIN h /\ h[k] = m
      BY <1>2, <2>3
    <3>2. h[k] = Len(f) + k /\ k \in 1 .. Len(h)
      BY <1>1, <1>4, <3>1
    <3> QED BY <1>1, <2>1, <3>1, <3>2
  <2>5. b - 1 \in DOMAIN rest /\ bs[b] = rest[b - 1]
    BY <2>4, LeadsPlaces
  <2> QED BY <2>3, <2>5
<1>9. \A b, c \in DOMAIN rest : \A k \in DOMAIN rest[b] : \A l \in DOMAIN rest[c] :
          b < c \/ (b = c /\ k < l) => rest[b][k] < rest[c][l]
  <2> SUFFICES ASSUME NEW b \in DOMAIN rest, NEW c \in DOMAIN rest,
                      NEW k \in DOMAIN rest[b], NEW l \in DOMAIN rest[c],
                      b < c \/ (b = c /\ k < l)
               PROVE  rest[b][k] < rest[c][l]
    OBVIOUS
  <2>1. /\ b \in Nat /\ b + 1 \in DOMAIN bs /\ bs[b + 1] = rest[b]
        /\ c \in Nat /\ c + 1 \in DOMAIN bs /\ bs[c + 1] = rest[c]
    BY LeadsPlaces
  <2>2. b + 1 < c + 1 \/ (b + 1 = c + 1 /\ k < l)
    BY <2>1
  <2> QED BY <1>3, <2>1, <2>2
<1>10. \A b \in DOMAIN rest : \A k \in DOMAIN rest[b] : rest[b][k] = rest[b][1] + (k - 1)
  <2> SUFFICES ASSUME NEW b \in DOMAIN rest, NEW k \in DOMAIN rest[b]
               PROVE  rest[b][k] = rest[b][1] + (k - 1)
    OBVIOUS
  <2>1. b + 1 \in DOMAIN bs /\ bs[b + 1] = rest[b]
    BY LeadsPlaces
  <2> QED BY <1>3, <2>1
<1>11. InOrder(g, rest, n)
  BY <1>5, <1>6, <1>7, <1>8, <1>9 DEF InOrder
<1>12. Consecutive(rest)
  BY <1>10 DEF Consecutive
<1> QED BY <1>11, <1>12 DEF Ordered

(* stop() writes the current buffer, whose entries came after its call. *)
LEMMA CurrentSaved ==
    ASSUME NEW n \in Nat, NEW q \in 0 .. n, NEW f, NEW c, NEW g, Extends(f, c, g),
           NEW bs \in Seq(Entries), NEW s, s = Append(bs, c), Ordered(f, s, n),
           \A k \in DOMAIN c : c[k] > q
    PROVE  Saved(g, bs, q)
<1>1. /\ Len(f) \in Nat /\ Len(c) \in Nat /\ f \in Entries /\ c \in Entries
      /\ DOMAIN f = 1 .. Len(f) /\ DOMAIN c = 1 .. Len(c) /\ q \in Nat /\ q <= n
  BY ExtendsPlaces DEF Extends
<1>2. /\ Len(bs) \in Nat /\ DOMAIN bs = 1 .. Len(bs) /\ DOMAIN s = 1 .. Len(bs) + 1
      /\ s[Len(bs) + 1] = c /\ \A b \in 1 .. Len(bs) : s[b] = bs[b]
  BY <1>1, AppendProperties
<1>3. \A b \in DOMAIN bs : b \in DOMAIN s /\ s[b] = bs[b]
  BY <1>2
<1>4. \A b \in DOMAIN s : b \in DOMAIN bs \/ s[b] = c
  BY <1>2
<1>5. /\ \A i \in DOMAIN f : f[i] = i
      /\ \A b \in DOMAIN s : \A k \in DOMAIN s[b] : s[b][k] \in Len(f) + 1 .. n
      /\ \A m \in Len(f) + 1 .. n : \E b \in DOMAIN s : \E k \in DOMAIN s[b] : s[b][k] = m
      /\ \A b, x \in DOMAIN s : \A k \in DOMAIN s[b] : \A l \in DOMAIN s[x] :
            b < x \/ (b = x /\ k < l) => s[b][k] < s[x][l]
  BY DEF Ordered, InOrder
<1>6. ASSUME NEW i \in DOMAIN g, g[i] <= q PROVE i \in DOMAIN f /\ g[i] = i
  <2>1. CASE i \in DOMAIN f /\ g[i] = f[i]
    BY <1>5, <2>1
  <2>2. CASE i - Len(f) \in DOMAIN c /\ g[i] = c[i - Len(f)]
    <3>1. PICK k : k = i - Len(f)
      OBVIOUS
    <3>2. k \in DOMAIN c /\ c[k] <= q
      BY <1>6, <2>2, <3>1
    <3>3. c[k] \in Nat /\ c[k] > q
      BY <1>1, <3>2 DEF Entries
    <3> QED BY <1>1, <3>2, <3>3
  <2> QED BY <2>1, <2>2, ExtendsPlaces
<1>7. ASSUME NEW m \in 1 .. q
      PROVE  \/ \E i \in DOMAIN g : g[i] = m
             \/ \E b \in DOMAIN bs : \E k \in DOMAIN bs[b] : bs[b][k] = m
  <2>1. CASE m <= Len(f)
    <3>1. m \in DOMAIN f
      BY <1>1, <2>1
    <3>2. m \in DOMAIN g /\ g[m] = m
      BY <1>5, <3>1, ExtendsPlaces
    <3> QED BY <3>2
  <2>2. CASE ~(m <= Len(f))
    <3>1. m \in Len(f) + 1 .. n
      BY <1>1, <2>2
    <3>2. PICK b \in DOMAIN s : \E k \in DOMAIN s[b] : s[b][k] = m
      BY <1>5, <3>1
    <3>3. PICK k \in DOMAIN s[b] : s[b][k] = m
      BY <3>2
    <3>4. s[b] # c
      <4> SUFFICES ASSUME s[b] = c PROVE FALSE
        OBVIOUS
      <4>1. k \in DOMAIN c /\ c[k] = m
        BY <3>3
      <4>2. m > q
        BY <4>1
      <4> QED BY <1>1, <4>2
    <3>5. b \in DOMAIN bs /\ s[b] = bs[b]
      BY <1>3, <1>4, <3>4
    <3> QED BY <3>3, <3>5
  <2> QED BY <2>1, <2>2
<1>8. ASSUME NEW i \in DOMAIN g, NEW j \in DOMAIN g, i < j, g[i] <= q, g[j] <= q
      PROVE  g[i] < g[j]
  BY <1>6, <1>8
<1>9. ASSUME NEW i \in DOMAIN g, NEW b \in DOMAIN bs, NEW k \in DOMAIN bs[b], g[i] <= q
      PROVE  g[i] < bs[b][k]
  <2>1. i \in 1 .. Len(f) /\ g[i] = i
    BY <1>1, <1>6, <1>9
  <2>2. bs[b][k] \in Len(f) + 1 .. n
    BY <1>3, <1>5
  <2> QED BY <1>1, <2>1, <2>2
<1>10. ASSUME NEW b \in DOMAIN bs, NEW x \in DOMAIN bs,
              NEW k \in DOMAIN bs[b], NEW l \in DOMAIN bs[x],
              b < x \/ (b = x /\ k < l)
       PROVE  bs[b][k] < bs[x][l]
  BY <1>3, <1>5, <1>10
<1> QED BY <1>7, <1>8, <1>9, <1>10 DEF Saved

(* stop() writes the next buffer of the queue. *)
LEMMA FirstSaved ==
    ASSUME NEW q \in Nat, NEW f, NEW h, NEW g, Extends(f, h, g),
           NEW rest, NEW bs, Leads(h, rest, bs), Saved(f, bs, q)
    PROVE  Saved(g, rest, q)
<1>1. 1 \in DOMAIN bs /\ bs[1] = h /\ Len(f) \in Nat /\ Len(h) \in Nat
      /\ DOMAIN f = 1 .. Len(f) /\ DOMAIN h = 1 .. Len(h)
  BY LeadsPlaces, ExtendsPlaces
<1>2. /\ \A m \in 1 .. q : \/ \E i \in DOMAIN f : f[i] = m
                           \/ \E b \in DOMAIN bs : \E k \in DOMAIN bs[b] : bs[b][k] = m
      /\ \A i, j \in DOMAIN f : i < j /\ f[i] <= q /\ f[j] <= q => f[i] < f[j]
      /\ \A i \in DOMAIN f : \A b \in DOMAIN bs : \A k \in DOMAIN bs[b] :
            f[i] <= q /\ bs[b][k] <= q => f[i] < bs[b][k]
      /\ \A b, c \in DOMAIN bs : \A k \in DOMAIN bs[b] : \A l \in DOMAIN bs[c] :
            b < c \/ (b = c /\ k < l) => bs[b][k] < bs[c][l]
  BY DEF Saved
<1>3. ASSUME NEW m \in 1 .. q
      PROVE  \/ \E i \in DOMAIN g : g[i] = m
             \/ \E b \in DOMAIN rest : \E k \in DOMAIN rest[b] : rest[b][k] = m
  <2>1. CASE \E i \in DOMAIN f : f[i] = m
    BY <2>1, ExtendsPlaces
  <2>2. CASE \E b \in DOMAIN bs : \E k \in DOMAIN bs[b] : bs[b][k] = m
    <3>1. PICK b \in DOMAIN bs : \E k \in DOMAIN bs[b] : bs[b][k] = m
      BY <2>2
    <3>2. PICK k \in DOMAIN bs[b] : bs[b][k] = m
      BY <3>1
    <3>3. CASE b = 1
      <4>1. k \in DOMAIN h /\ h[k] = m
        BY <1>1, <3>2, <3>3
      <4>2. Len(f) + k \in DOMAIN g /\ g[Len(f) + k] = m
        BY <4>1, ExtendsPlaces
      <4> QED BY <4>2
    <3>4. CASE b # 1
      <4>1. b - 1 \in DOMAIN rest /\ bs[b] = rest[b - 1]
        BY <3>4, LeadsPlaces
      <4> QED BY <3>2, <4>1
    <3> QED BY <3>3, <3>4
  <2> QED BY <1>2, <2>1, <2>2
<1>4. ASSUME NEW i \in DOMAIN g, NEW j \in DOMAIN g, i < j, g[i] <= q, g[j] <= q
      PROVE  g[i] < g[j]
  <2>1. i \in Nat /\ j \in Nat
    <3>1. DOMAIN g = 1 .. Len(g) /\ Len(g) \in Nat
      BY <1>1, ExtendsPlaces
    <3> QED BY <3>1
  <2>2. CASE j \in DOMAIN f /\ g[j] = f[j]
    <3>1. i \in DOMAIN f /\ g[i] = f[i]
      <4>1. i \in DOMAIN f
        <5>1. i \in DOMAIN f \/ i > Len(f)
          BY ExtendsPlaces
        <5> QED BY <1>1, <1>4, <2>1, <2>2, <5>1
      <4> QED BY <4>1, ExtendsPlaces
    <3> QED BY <1>2, <1>4, <2>2, <3>1
  <2>3. CASE j > Len(f) /\ j - Len(f) \in DOMAIN h /\ g[j] = h[j - Len(f)]
    <3>1. PICK l : l = j - Len(f)
      OBVIOUS
    <3>2. l \in DOMAIN bs[1] /\ g[j] = bs[1][l]
      BY <1>1, <2>3, <3>1
    <3>3. CASE i \in DOMAIN f /\ g[i] = f[i]
      BY <1>1, <1>2, <1>4, <3>2, <3>3
    <3>4. CASE i > Len(f) /\ i - Len(f) \in DOMAIN h /\ g[i] = h[i - Len(f)]
      <4>1. PICK k : k = i - Len(f)
        OBVIOUS
      <4>2. k \in DOMAIN bs[1] /\ g[i] = bs[1][k]
        BY <1>1, <3>4, <4>1
      <4>3. k < l
        BY <1>1, <1>4, <2>1, <3>1, <4>1
      <4> QED BY <1>1, <1>2, <3>2, <4>2, <4>3
    <3> QED BY <3>3, <3>4, ExtendsPlaces
  <2> QED BY <2>2, <2>3, ExtendsPlaces
<1>5. ASSUME NEW i \in DOMAIN g, NEW b \in DOMAIN rest, NEW k \in DOMAIN rest[b],
             g[i] <= q, rest[b][k] <= q
      PROVE  g[i] < rest[b][k]
  <2>1. b \in Nat /\ b + 1 \in DOMAIN bs /\ bs[b + 1] = rest[b]
    BY LeadsPlaces
  <2>2. CASE i \in DOMAIN f /\ g[i] = f[i]
    BY <1>2, <1>5, <2>1, <2>2
  <2>3. CASE i - Len(f) \in DOMAIN h /\ g[i] = h[i - Len(f)]
    <3>1. PICK l : l = i - Len(f)
      OBVIOUS
    <3>2. l \in DOMAIN bs[1] /\ g[i] = bs[1][l]
      BY <1>1, <2>3, <3>1
    <3>3. 1 < b + 1
      <4>1. DOMAIN rest = 1 .. Len(rest)
        BY DEF Leads
      <4> QED BY <2>1, <4>1
    <3> QED BY <1>1, <1>2, <2>1, <3>2, <3>3
  <2> QED BY <2>2, <2>3, ExtendsPlaces
<1>6. ASSUME NEW b \in DOMAIN rest, NEW c \in DOMAIN rest,
             NEW k \in DOMAIN rest[b], NEW l \in DOMAIN rest[c],
             b < c \/ (b = c /\ k < l)
      PROVE  rest[b][k] < rest[c][l]
  <2>1. /\ b \in Nat /\ b + 1 \in DOMAIN bs /\ bs[b + 1] = rest[b]
        /\ c \in Nat /\ c + 1 \in DOMAIN bs /\ bs[c + 1] = rest[c]
    BY LeadsPlaces
  <2>2. b + 1 < c + 1 \/ (b + 1 = c + 1 /\ k < l)
    BY <1>6, <2>1
  <2> QED BY <1>2, <2>1, <2>2
<1> QED BY <1>3, <1>4, <1>5, <1>6 DEF Saved

-----------------------------------------------------------------------------
(* The steps.  What they keep of the invariant *)

LEMMA HeldIs ==
    ASSUME LogTypes
    PROVE  /\ local \o buffers \in Seq(Entries) /\ Held \in Seq(Entries)
           /\ Held = Append(local \o buffers, current_buffer)
<1>1. local \o buffers \in Seq(Entries) /\ current_buffer \in Entries
  BY ConcatProperties DEF LogTypes
<1>2. PICK p : p = local \o buffers
  OBVIOUS
<1>3. Append(p, current_buffer) = p \o <<current_buffer>> /\ Append(p, current_buffer) \in Seq(Entries)
  BY <1>1, <1>2, AppendIsConcat, AppendProperties
<1> QED BY <1>1, <1>2, <1>3 DEF Held

(* A step that touches neither the file nor the buffers *)
LEMMA LoggerQuiet ==
    ASSUME LogIInv, UNCHANGED <<current_buffer, buffers, local, file, logged, mark, stop>>,
           LogTypes', Stopping', (stop = "join" => Later)'
    PROVE  LogIInv'
<1>1. Held' = Held
  BY DEF Held
<1> QED BY <1>1 DEF LogIInv

LEMMA ReadStep ==
    ASSUME LogIInv, ReadRunning \/ ReadBuffers \/ ReadCurrent \/ EndWait
    PROVE  LogIInv'
<1>1. /\ LogTypes /\ Stopping
      /\ UNCHANGED <<running, current_buffer, buffers, local, file, logged, mark, stop>>
  BY DEF LogIInv, ReadRunning, ReadBuffers, ReadCurrent, EndWait, loopFrame
<1>2. writer \in {"running", "buffers", "current", "wait"} /\ stop \in {"no", "join"}
  BY <1>1 DEF ReadRunning, ReadBuffers, ReadCurrent, EndWait, LogTypes, Stopping
<1>3. /\ writer' \in {"running", "lock", "buffers", "current", "ended"}
      /\ writer' \in {"buffers", "current", "ended"} => stop # "no"
      /\ writer' = "ended" => current_buffer = << >>
  BY <1>1 DEF ReadRunning, ReadBuffers, ReadCurrent, EndWait, Goto, Stopping
<1>4. LogTypes'
  BY <1>1, <1>3 DEF LogTypes
<1>5. Stopping'
  BY <1>1, <1>2, <1>3 DEF Stopping
<1>6. Later'
  <2>1. DOMAIN << >> = {}
    OBVIOUS
  <2> QED BY <1>1, <1>3, <2>1 DEF Later
<1> QED BY <1>1, <1>4, <1>5, <1>6, LoggerQuiet

LEMMA StopStep ==
    ASSUME LogIInv, Stop
    PROVE  LogIInv'
<1>1. /\ LogTypes /\ Stopping /\ stop = "no" /\ running' = FALSE /\ mark' = logged
      /\ stop' = "join"
      /\ UNCHANGED <<current_buffer, buffers, local, file, logged, writer>>
      /\ Ordered(file, Held, logged)
  BY DEF LogIInv, Stop
<1>2. LogTypes'
  BY <1>1 DEF LogTypes
<1>3. Stopping' /\ writer # "ended"
  BY <1>1 DEF Stopping
<1>4. Later'
  BY <1>1, <1>3 DEF Later
<1>5. Held' = Held
  BY <1>1 DEF Held
<1> QED BY <1>1, <1>2, <1>3, <1>4, <1>5 DEF LogIInv

-----------------------------------------------------------------------------
(* log() *)

LEMMA LogBeginStep ==
    ASSUME LogIInv, NEW n, LogBegin(n)
    PROVE  LogIInv'
<1>1. /\ LogTypes /\ Stopping /\ stop # "drain"
      /\ UNCHANGED <<running, local, file, logged, writer, stop, mark>>
  BY DEF LogIInv, LogBegin, MutexFree
<1>2. CASE UNCHANGED <<buffers, current_buffer>>
  <2>1. LogTypes'
    BY <1>1, <1>2 DEF LogTypes
  <2>2. Stopping'
    BY <1>1 DEF Stopping
  <2>3. (stop = "join" => Later)'
    BY <1>1, <1>2 DEF LogIInv, Later
  <2> QED BY <1>1, <1>2, <2>1, <2>2, <2>3, LoggerQuiet
<1>3. CASE buffers' = Append(buffers, current_buffer) /\ current_buffer' = << >>
  <2>1. << >> \in Entries /\ current_buffer \in Entries /\ buffers \in Seq(Entries)
    BY <1>1 DEF LogTypes, Entries
  <2>2. buffers' \in Seq(Entries)
    BY <1>3, <2>1, AppendProperties
  <2>3. LogTypes'
    BY <1>1, <1>3, <2>1, <2>2 DEF LogTypes
  <2>4. Stopping'
    BY <1>1 DEF Stopping
  <2>5. Later'
    <3>1. DOMAIN << >> = {}
      OBVIOUS
    <3> QED BY <1>3, <3>1 DEF Later
  <2>6. Held' = Append(Held, << >>) /\ Held \in Seq(Entries)
    <3>1. local \o Append(buffers, current_buffer) = Append(local \o buffers, current_buffer)
      <4>1. <<current_buffer>> \in Seq(Entries) /\ local \in Seq(Entries)
        BY <1>1, <2>1 DEF LogTypes
      <4>2. /\ Append(buffers, current_buffer) = buffers \o <<current_buffer>>
            /\ Append(local \o buffers, current_buffer) = (local \o buffers) \o <<current_buffer>>
        BY <1>1, <2>1, HeldIs, AppendIsConcat
      <4>3. (local \o buffers) \o <<current_buffer>> = local \o (buffers \o <<current_buffer>>)
        BY <2>1, <4>1, ConcatAssociative
      <4> QED BY <4>2, <4>3
    <3>2. Held' = Append(local' \o buffers', current_buffer')
      <4>1. local' \o buffers' \in Seq(Entries)
        BY <2>3, ConcatProperties DEF LogTypes
      <4>2. Append(local' \o buffers', << >>) = (local' \o buffers') \o << << >> >>
        BY <2>1, <4>1, AppendIsConcat
      <4> QED BY <1>3, <4>2 DEF Held
    <3>3. local' \o buffers' = Held
      BY <1>1, <1>3, <3>1, HeldIs
    <3> QED BY <1>1, <1>3, <3>2, <3>3, HeldIs
  <2>7. stop \in {"no", "join"} => Ordered(file, Held, logged)'
    BY <1>1, <2>6, EmptyBehind DEF LogIInv
  <2> QED BY <1>1, <2>3, <2>4, <2>5, <2>7 DEF LogIInv
<1> QED BY <1>2, <1>3 DEF LogBegin

LEMMA LogEndStep ==
    ASSUME LogIInv, LogEnd
    PROVE  LogIInv'
<1>1. /\ LogTypes /\ Stopping /\ logged' = logged + 1
      /\ current_buffer' = Append(current_buffer, logged + 1)
      /\ UNCHANGED <<running, buffers, local, file, writer, stop, mark>>
  BY DEF LogIInv, LogEnd
<1>2. /\ logged \in Nat /\ mark \in 0 .. logged /\ current_buffer \in Entries /\ file \in Entries
      /\ Len(current_buffer) \in Nat
  BY <1>1 DEF LogTypes, Entries
<1>3. /\ current_buffer' \in Entries /\ Len(current_buffer') = Len(current_buffer) + 1
      /\ current_buffer'[Len(current_buffer) + 1] = logged + 1
      /\ \A k \in 1 .. Len(current_buffer) : current_buffer'[k] = current_buffer[k]
  <2>1. logged + 1 \in Nat
    BY <1>2
  <2> QED BY <1>1, <1>2, <2>1, AppendProperties DEF Entries
<1>4. LogTypes'
  <2>1. mark \in 0 .. logged + 1
    BY <1>2
  <2> QED BY <1>1, <1>2, <1>3, <2>1 DEF LogTypes
<1>5. Stopping'
  BY <1>1 DEF Stopping
<1>6. (stop = "join" => Later)'
  <2> SUFFICES ASSUME stop = "join", writer = "ended", NEW k \in DOMAIN current_buffer'
               PROVE  current_buffer'[k] > mark
    BY <1>1 DEF Later
  <2>1. DOMAIN current_buffer' = 1 .. Len(current_buffer) + 1
    BY <1>3 DEF Entries
  <2>2. DOMAIN current_buffer = 1 .. Len(current_buffer)
    BY <1>2 DEF Entries
  <2>3. CASE k = Len(current_buffer) + 1
    BY <1>2, <1>3, <2>3
  <2>4. CASE k # Len(current_buffer) + 1
    <3>1. k \in 1 .. Len(current_buffer)
      BY <1>2, <2>1, <2>4
    <3>2. current_buffer[k] > mark
      BY <2>2, <3>1 DEF LogIInv, Later
    <3> QED BY <1>3, <3>1, <3>2
  <2> QED BY <2>3, <2>4
<1>7. stop \in {"no", "join"} => Ordered(file, Held, logged)'
  <2> SUFFICES ASSUME stop \in {"no", "join"} PROVE Ordered(file, Held, logged)'
    OBVIOUS
  <2>1. PICK p : p = local \o buffers
    OBVIOUS
  <2>2. p \in Seq(Entries) /\ Held = Append(p, current_buffer)
    BY <1>1, <2>1, HeldIs
  <2>3. Held' = Append(p, current_buffer')
    <3>1. Append(p, current_buffer') = p \o <<current_buffer'>>
      BY <1>3, <2>2, AppendIsConcat
    <3> QED BY <1>1, <2>1, <3>1 DEF Held
  <2>4. Ordered(file, Append(p, current_buffer), logged)
    BY <2>2 DEF LogIInv
  <2>5. Ordered(file, Append(p, current_buffer'), logged + 1)
    BY <1>1, <1>2, <2>2, <2>4, EntryBehind
  <2> QED BY <1>1, <2>3, <2>5
<1> QED BY <1>1, <1>4, <1>5, <1>6, <1>7 DEF LogIInv

-----------------------------------------------------------------------------
(* writeLoop() *)

LEMMA Split ==
    ASSUME NEW s \in Seq(Entries), NEW n \in 0 .. Len(s)
    PROVE  /\ SubSeq(s, 1, n) \in Seq(Entries) /\ SubSeq(s, n + 1, Len(s)) \in Seq(Entries)
           /\ SubSeq(s, 1, n) \o SubSeq(s, n + 1, Len(s)) = s
<1>1. Len(s) \in Nat /\ n \in Nat /\ n <= Len(s)
  OBVIOUS
<1>2. PICK p : p = SubSeq(s, 1, n)
  OBVIOUS
<1>3. PICK r : r = SubSeq(s, n + 1, Len(s))
  OBVIOUS
<1>4. PICK t : t = p \o r
  OBVIOUS
<1>5. \A i \in 1 .. Len(s) : s[i] \in Entries
  BY ElementOfSeq
<1>6. p \in Seq(Entries) /\ Len(p) = n /\ \A i \in 1 .. n : p[i] = s[i]
  <2>1. \A i \in 1 .. n : s[i] \in Entries
    BY <1>1, <1>5
  <2>2. /\ p \in Seq(Entries) /\ Len(p) = IF 1 <= n THEN n - 1 + 1 ELSE 0
        /\ \A i \in 1 .. n - 1 + 1 : p[i] = s[1 + i - 1]
    BY <1>1, <1>2, <2>1, SubSeqProperties
  <2>3. \A i \in 1 .. n : i \in 1 .. n - 1 + 1 /\ 1 + i - 1 = i
    BY <1>1
  <2> QED BY <1>1, <2>2, <2>3
<1>7. r \in Seq(Entries) /\ Len(r) = Len(s) - n /\ \A i \in 1 .. Len(s) - n : r[i] = s[n + i]
  <2>1. \A i \in n + 1 .. Len(s) : s[i] \in Entries
    BY <1>1, <1>5
  <2>2. /\ r \in Seq(Entries)
        /\ Len(r) = IF n + 1 <= Len(s) THEN Len(s) - (n + 1) + 1 ELSE 0
        /\ \A i \in 1 .. Len(s) - (n + 1) + 1 : r[i] = s[n + 1 + i - 1]
    BY <1>1, <1>3, <2>1, SubSeqProperties
  <2>3. \A i \in 1 .. Len(s) - n : i \in 1 .. Len(s) - (n + 1) + 1 /\ n + 1 + i - 1 = n + i
    BY <1>1
  <2> QED BY <1>1, <2>2, <2>3
<1>8. /\ t \in Seq(Entries) /\ Len(t) = Len(p) + Len(r)
      /\ \A i \in 1 .. Len(p) + Len(r) : t[i] = IF i <= Len(p) THEN p[i] ELSE r[i - Len(p)]
  BY <1>4, <1>6, <1>7, ConcatProperties
<1>9. Len(t) = Len(s)
  BY <1>1, <1>6, <1>7, <1>8
<1>10. ASSUME NEW i \in 1 .. Len(t) PROVE t[i] = s[i]
  <2>1. i \in 1 .. Len(p) + Len(r)
    BY <1>8
  <2>2. CASE i <= n
    BY <1>1, <1>6, <1>8, <1>9, <2>1, <2>2
  <2>3. CASE ~(i <= n)
    <3>1. i - n \in 1 .. Len(s) - n /\ n + (i - n) = i
      BY <1>1, <1>9, <2>3
    <3>2. t[i] = r[i - n]
      BY <1>6, <1>8, <2>1, <2>3
    <3> QED BY <1>7, <3>1, <3>2
  <2> QED BY <2>2, <2>3
<1>11. t = s
  BY <1>8, <1>9, <1>10, SeqEqual
<1> QED BY <1>2, <1>3, <1>4, <1>6, <1>7, <1>11

LEMMA TakeStep ==
    ASSUME LogIInv, Take
    PROVE  LogIInv'
<1>1. /\ LogTypes /\ Stopping /\ writer = "lock"
      /\ UNCHANGED <<running, file, logged, stop, mark>>
  BY DEF LogIInv, Take
<1>2. stop \in {"no", "join"} /\ local = << >>
  BY <1>1 DEF LogTypes, Stopping
<1>3. Ordered(file, Held, logged)
  BY <1>2 DEF LogIInv
<1>4. buffers \in Seq(Entries) /\ current_buffer \in Entries /\ << >> \in Entries
  BY <1>1 DEF LogTypes, Entries
<1>5. CASE /\ writer' = "wait" /\ UNCHANGED <<current_buffer, buffers, local>>
  <2>1. LogTypes'
    BY <1>1, <1>5 DEF LogTypes
  <2>2. Stopping'
    BY <1>1, <1>2, <1>5 DEF Stopping
  <2>3. Later'
    BY <1>5 DEF Later
  <2> QED BY <1>1, <1>5, <2>1, <2>2, <2>3, LoggerQuiet
<1>6. ASSUME NEW n, n = Least(Len(Queued), Batch),
             local' = SubSeq(Queued, 1, n), buffers' = SubSeq(Queued, n + 1, Len(Queued)),
             current_buffer' = << >>, writer' = "write"
      PROVE  LogIInv'
  <2>1. PICK q : q = Queued
    OBVIOUS
  <2>2. q \in Seq(Entries)
    BY <1>4, <2>1, AppendProperties DEF Queued
  <2>3. n \in 0 .. Len(q)
    <3>1. Len(q) \in Nat /\ Batch \in Nat
      BY <2>2, LoggerAssumption
    <3> QED BY <1>6, <2>1, <3>1 DEF Least
  <2>4. /\ local' \in Seq(Entries) /\ buffers' \in Seq(Entries)
        /\ local' \o buffers' = q
    BY <1>6, <2>1, <2>2, <2>3, Split
  <2>5. Held' = Append(q, << >>)
    <3>1. Append(q, << >>) = q \o << << >> >>
      BY <1>4, <2>2, AppendIsConcat
    <3> QED BY <1>6, <2>4, <3>1 DEF Held
  <2>6. << >> \o buffers = buffers
    BY <1>4, ConcatEmptySeq
  <2>7. Held = Append(buffers, current_buffer)
    BY <1>1, <1>2, <2>6, HeldIs
  <2>8. Ordered(file, Append(q, << >>), logged)
    <3>1. CASE current_buffer = << >>
      BY <1>3, <2>1, <2>7, <3>1 DEF Queued
    <3>2. CASE current_buffer # << >>
      <4>1. q = Held
        BY <2>1, <2>7, <3>2 DEF Queued
      <4> QED BY <1>3, <2>2, <4>1, EmptyBehind
    <3> QED BY <3>1, <3>2
  <2>9. LogTypes'
    BY <1>1, <1>4, <1>6, <2>4 DEF LogTypes
  <2>10. Stopping'
    BY <1>1, <1>2, <1>6 DEF Stopping
  <2>11. Later'
    BY <1>6 DEF Later
  <2> QED BY <1>1, <1>2, <2>5, <2>8, <2>9, <2>10, <2>11 DEF LogIInv
<1> QED BY <1>5, <1>6 DEF Take, Goto

LEMMA HeadLeads ==
    ASSUME NEW s \in Seq(Entries), s # << >>
    PROVE  Leads(Head(s), Tail(s), s)
<1>1. /\ Head(s) \in Entries /\ Tail(s) \in Seq(Entries) /\ Len(Tail(s)) = Len(s) - 1
      /\ \A i \in 1 .. Len(Tail(s)) : Tail(s)[i] = s[i + 1]
  BY HeadTailProperties
<1>2. Len(s) \in Nat /\ Head(s) = s[1]
  OBVIOUS
<1>3. Len(s) = Len(Tail(s)) + 1
  BY <1>1, <1>2
<1> QED BY <1>1, <1>2, <1>3 DEF Leads

LEMMA LeadsConcat ==
    ASSUME NEW h, NEW rest, NEW bs, Leads(h, rest, bs), NEW u \in Seq(Entries)
    PROVE  Leads(h, rest \o u, bs \o u)
<1>1. /\ h \in Entries /\ rest \in Seq(Entries) /\ bs \in Seq(Entries)
      /\ Len(bs) = Len(rest) + 1 /\ bs[1] = h /\ Len(rest) \in Nat /\ Len(u) \in Nat
      /\ \A b \in 1 .. Len(rest) : bs[b + 1] = rest[b]
  BY DEF Leads
<1>2. PICK r : r = rest \o u
  OBVIOUS
<1>3. PICK s : s = bs \o u
  OBVIOUS
<1>4. /\ r \in Seq(Entries) /\ Len(r) = Len(rest) + Len(u)
      /\ \A i \in 1 .. Len(rest) + Len(u) :
            r[i] = IF i <= Len(rest) THEN rest[i] ELSE u[i - Len(rest)]
  BY <1>1, <1>2, ConcatProperties
<1>5. /\ s \in Seq(Entries) /\ Len(s) = Len(bs) + Len(u)
      /\ \A i \in 1 .. Len(bs) + Len(u) :
            s[i] = IF i <= Len(bs) THEN bs[i] ELSE u[i - Len(bs)]
  BY <1>1, <1>3, ConcatProperties
<1>6. Len(s) = Len(r) + 1
  BY <1>1, <1>4, <1>5
<1>7. s[1] = h
  <2>1. 1 \in 1 .. Len(bs) + Len(u) /\ 1 <= Len(bs)
    BY <1>1
  <2> QED BY <1>1, <1>5, <2>1
<1>8. ASSUME NEW b \in 1 .. Len(r) PROVE s[b + 1] = r[b]
  <2>1. b \in 1 .. Len(rest) + Len(u) /\ b + 1 \in 1 .. Len(bs) + Len(u)
    BY <1>1, <1>4
  <2>2. CASE b <= Len(rest)
    <3>1. b \in 1 .. Len(rest) /\ b + 1 <= Len(bs)
      BY <1>1, <2>1, <2>2
    <3> QED BY <1>1, <1>4, <1>5, <2>1, <2>2, <3>1
  <2>3. CASE ~(b <= Len(rest))
    <3>1. ~(b + 1 <= Len(bs)) /\ (b + 1) - Len(bs) = b - Len(rest)
      BY <1>1, <2>1, <2>3
    <3> QED BY <1>4, <1>5, <2>1, <2>3, <3>1
  <2> QED BY <2>2, <2>3
<1>9. Leads(h, r, s)
  BY <1>1, <1>4, <1>5, <1>6, <1>7, <1>8 DEF Leads
<1> QED BY <1>2, <1>3, <1>9

LEMMA WriteToFileStep ==
    ASSUME LogIInv, WriteToFile
    PROVE  LogIInv'
<1>1. /\ LogTypes /\ Stopping /\ writer = "write"
      /\ UNCHANGED <<running, current_buffer, buffers, logged, stop, mark>>
  BY DEF LogIInv, WriteToFile
<1>2. stop \in {"no", "join"}
  BY <1>1 DEF LogTypes, Stopping
<1>3. /\ Ordered(file, Held, logged) /\ logged \in Nat /\ file \in Entries
      /\ local \in Seq(Entries) /\ buffers \in Seq(Entries) /\ current_buffer \in Entries
  BY <1>1, <1>2 DEF LogIInv, LogTypes
<1>4. CASE local = << >> /\ writer' = "running" /\ UNCHANGED <<local, file>>
  <2>1. LogTypes'
    BY <1>1, <1>4 DEF LogTypes
  <2>2. Stopping'
    BY <1>1, <1>2, <1>4 DEF Stopping
  <2>3. Later'
    BY <1>4 DEF Later
  <2> QED BY <1>1, <1>4, <2>1, <2>2, <2>3, LoggerQuiet
<1>5. CASE /\ local # << >> /\ file' = file \o Head(local) /\ local' = Tail(local)
           /\ UNCHANGED writer
  <2>1. PICK h : h = Head(local)
    OBVIOUS
  <2>2. Leads(h, local', local)
    BY <1>3, <1>5, <2>1, HeadLeads
  <2>3. Leads(h, local' \o buffers, local \o buffers)
    BY <1>3, <2>2, LeadsConcat
  <2>4. Leads(h, (local' \o buffers) \o <<current_buffer>>, (local \o buffers) \o <<current_buffer>>)
    <3>1. <<current_buffer>> \in Seq(Entries)
      BY <1>3
    <3> QED BY <2>3, <3>1, LeadsConcat
  <2>5. Leads(h, Held', Held)
    BY <1>1, <2>4 DEF Held
  <2>6. h \in Entries /\ local' \in Seq(Entries)
    BY <2>2 DEF Leads
  <2>7. Extends(file, h, file')
    BY <1>3, <1>5, <2>1, <2>6, Written
  <2>8. Ordered(file', Held', logged)
    BY <1>3, <2>5, <2>7, FirstWritten
  <2>9. LogTypes'
    BY <1>1, <1>5, <2>6, <2>7 DEF LogTypes, Extends
  <2>10. Stopping'
    BY <1>1, <1>2, <1>5 DEF Stopping
  <2>11. Later'
    BY <1>1, <1>5 DEF Later
  <2> QED BY <1>1, <1>2, <2>8, <2>9, <2>10, <2>11 DEF LogIInv
<1> QED BY <1>4, <1>5 DEF WriteToFile, Goto

-----------------------------------------------------------------------------
(* stop() *)

LEMMA StopCurrentStep ==
    ASSUME LogIInv, StopCurrent
    PROVE  LogIInv'
<1>1. /\ LogTypes /\ Stopping /\ stop = "join" /\ writer = "ended"
      /\ file' = file \o current_buffer /\ stop' = "drain"
      /\ UNCHANGED <<running, current_buffer, buffers, local, logged, writer, mark>>
      /\ Ordered(file, Held, logged) /\ \A k \in DOMAIN current_buffer : current_buffer[k] > mark
  BY DEF LogIInv, StopCurrent, Later
<1>2. /\ file \in Entries /\ current_buffer \in Entries /\ buffers \in Seq(Entries)
      /\ logged \in Nat /\ mark \in 0 .. logged /\ local = << >>
  BY <1>1 DEF LogTypes, Stopping
<1>3. Extends(file, current_buffer, file')
  BY <1>1, <1>2, Written
<1>4. Ordered(file, Append(buffers, current_buffer), logged)
  <2>1. << >> \o buffers = buffers
    BY <1>2, ConcatEmptySeq
  <2> QED BY <1>1, <1>2, <2>1, HeldIs
<1>5. Saved(file', buffers, mark)
  BY <1>1, <1>2, <1>3, <1>4, CurrentSaved
<1>6. LogTypes'
  BY <1>1, <1>3 DEF LogTypes, Extends
<1>7. Stopping'
  BY <1>1 DEF Stopping
<1> QED BY <1>1, <1>5, <1>6, <1>7 DEF LogIInv

LEMMA StopDrainStep ==
    ASSUME LogIInv, StopDrain
    PROVE  LogIInv'
<1>1. /\ LogTypes /\ Stopping /\ stop = "drain"
      /\ UNCHANGED <<running, current_buffer, local, logged, writer, mark>>
      /\ Saved(file, buffers, mark)
  BY DEF LogIInv, StopDrain
<1>2. file \in Entries /\ buffers \in Seq(Entries) /\ mark \in Nat
  <2>1. logged \in Nat /\ mark \in 0 .. logged
    BY <1>1 DEF LogTypes
  <2> QED BY <1>1, <2>1 DEF LogTypes
<1>3. CASE buffers = << >> /\ stop' = "done" /\ UNCHANGED <<file, buffers>>
  <2>1. LogTypes'
    BY <1>1, <1>3 DEF LogTypes
  <2>2. Stopping'
    BY <1>1, <1>3 DEF Stopping
  <2>3. Saved(file, << >>, mark)
    BY <1>1, <1>3
  <2> QED BY <1>1, <1>3, <2>1, <2>2, <2>3 DEF LogIInv
<1>4. CASE /\ buffers # << >> /\ file' = file \o Head(buffers) /\ buffers' = Tail(buffers)
           /\ UNCHANGED stop
  <2>1. PICK h : h = Head(buffers)
    OBVIOUS
  <2>2. Leads(h, buffers', buffers)
    BY <1>2, <1>4, <2>1, HeadLeads
  <2>3. h \in Entries /\ buffers' \in Seq(Entries)
    BY <2>2 DEF Leads
  <2>4. Extends(file, h, file')
    BY <1>2, <1>4, <2>1, <2>3, Written
  <2>5. Saved(file', buffers', mark)
    BY <1>1, <1>2, <2>2, <2>4, FirstSaved
  <2>6. LogTypes'
    BY <1>1, <1>4, <2>3, <2>4 DEF LogTypes, Extends
  <2>7. Stopping'
    BY <1>1, <1>4 DEF Stopping
  <2> QED BY <1>1, <1>4, <2>5, <2>6, <2>7 DEF LogIInv
<1> QED BY <1>3, <1>4 DEF StopDrain

-----------------------------------------------------------------------------
LEMMA LogInitInv == LogInit => LogIInv
<1> SUFFICES ASSUME LogInit PROVE LogIInv
  OBVIOUS
<1>1. /\ running = TRUE /\ current_buffer = << >> /\ buffers = << >> /\ local = << >>
      /\ file = << >> /\ logged = 0 /\ mark = 0 /\ writer = "running" /\ stop = "no"
  BY DEF LogInit
<1>2. << >> \in Entries /\ << >> \in Seq(Entries)
  BY DEF Entries
<1>3. LogTypes
  BY <1>1, <1>2 DEF LogTypes
<1>4. Stopping
  BY <1>1 DEF Stopping
<1>5. Ordered(<< >>, << << >> >>, 0)
  <2>1. Len(<< >>) = 0 /\ DOMAIN << >> = {} /\ 0 + 1 .. 0 = {}
    OBVIOUS
  <2>2. DOMAIN << << >> >> = {1}
    OBVIOUS
  <2>3. << << >> >>[1] = << >>
    OBVIOUS
  <2>4. \A b \in DOMAIN << << >> >> : DOMAIN << << >> >>[b] = {}
    BY <2>1, <2>2, <2>3
  <2>5. InOrder(<< >>, << << >> >>, 0)
    BY <2>1, <2>4 DEF InOrder
  <2>6. Consecutive(<< << >> >>)
    BY <2>4 DEF Consecutive
  <2> QED BY <2>5, <2>6 DEF Ordered
<1>6. Held = << << >> >>
  <2>1. (<< >> \o << >>) \o << << >> >> = << << >> >>
    BY <1>2, ConcatEmptySeq
  <2> QED BY <1>1, <2>1 DEF Held
<1> QED BY <1>1, <1>3, <1>4, <1>5, <1>6 DEF LogIInv

LEMMA LogNextInv == LogIInv /\ [LogNext]_logVars => LogIInv'
<1> SUFFICES ASSUME LogIInv, [LogNext]_logVars PROVE LogIInv'
  OBVIOUS
<1>1. ASSUME NEW n \in Sizes, LogBegin(n) PROVE LogIInv'
  BY <1>1, LogBeginStep
<1>2. CASE LogEnd
  BY <1>2, LogEndStep
<1>3. CASE ReadRunning \/ ReadBuffers \/ ReadCurrent \/ EndWait
  BY <1>3, ReadStep
<1>4. CASE Take
  BY <1>4, TakeStep
<1>5. CASE WriteToFile
  BY <1>5, WriteToFileStep
<1>6. CASE Stop
  BY <1>6, StopStep
<1>7. CASE StopCurrent
  BY <1>7, StopCurrentStep
<1>8. CASE StopDrain
  BY <1>8, StopDrainStep
<1>9. CASE UNCHANGED logVars
  <2>1. UNCHANGED <<running, current_buffer, buffers, local, file, logged, writer, stop, mark>>
    BY <1>9 DEF logVars
  <2>2. LogTypes'
    BY <2>1 DEF LogIInv, LogTypes
  <2>3. Stopping'
    BY <2>1 DEF LogIInv, Stopping
  <2>4. (stop = "join" => Later)'
    BY <2>1 DEF LogIInv, Later
  <2> QED BY <2>1, <2>2, <2>3, <2>4, LoggerQuiet
<1> QED BY <1>1, <1>2, <1>3, <1>4, <1>5, <1>6, <1>7, <1>8, <1>9 DEF LogNext, WriteLoop

(* Whatever log(), stop() and the writing thread of AsyncLogger do in turn, *)
(* however many entries there are and however many the buffers and batches *)
(* hold, no entry is lost, written twice or overtaken until stop() writes  *)
(* the rest, and when it returns the entries accepted before it are in the *)
(* file, in order.                                                         *)
THEOREM EntriesInOrder == LogSpec => []WrittenInOrder
<1>1. LogIInv => WrittenInOrder
  <2> SUFFICES ASSUME LogIInv PROVE WrittenInOrder
    OBVIOUS
  <2>1. ASSUME stop \in {"no", "join"} PROVE InOrder(file, Held, logged)
    BY <2>1 DEF LogIInv, Ordered
  <2>2. ASSUME stop = "done"
        PROVE  /\ \A m \in 1 .. mark : \E i \in DOMAIN file : file[i] = m
               /\ \A i, j \in DOMAIN file :
                     i < j /\ file[i] <= mark /\ file[j] <= mark => file[i] < file[j]
    <3>1. Saved(file, << >>, mark)
      BY <2>2 DEF LogIInv
    <3>2. DOMAIN << >> = {}
      OBVIOUS
    <3> QED BY <3>1, <3>2 DEF Saved
  <2> QED BY <2>1, <2>2 DEF WrittenInOrder
<1> QED BY <1>1, LogInitInv, LogNextInv, PTL DEF LogSpec
=============================================================================
