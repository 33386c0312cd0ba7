----------------------------- MODULE ThreadPool -----------------------------
(***************************************************************************)
(* The ThreadPool of http/ThreadPool.h: a queue of tasks, workers started  *)
(* on demand up to a maximum, and workers that leave after WAIT_SECONDS    *)
(* without a task.  A worker cannot join itself: it leaves its id in       *)
(* finishedThreadIDs_ for the next one that times out.                     *)
(*                                                                         *)
(* A critical section is one step, except the one of a worker that joins   *)
(* the finished threads: it holds mutex_ while it blocks.  What            *)
(* cv_.wait_for() with a predicate does is spelt out: notified, timed out  *)
(* or woken for no reason, a worker takes mutex_ again and evaluates the   *)
(* predicate.                                                              *)
(***************************************************************************)
EXTENDS Integers, Sequences, FiniteSets

CONSTANTS
    Workers,     \* the thread ids, used again once joined
    MaxSubmits,  \* bound on the tasks submitted
    Limits       \* the values of maxTasks_, -1 for no limit

ASSUME PoolAssumption ==
    /\ IsFiniteSet(Workers) /\ "none" \notin Workers
    /\ MaxSubmits \in Nat /\ Limits \subseteq Int

VARIABLES
    quit,        \* quit_
    current,     \* currentThreads_
    idle,        \* idleThreads_
    maxThreads,  \* maxThreads_
    maxTasks,    \* maxTasks_
    tasks,       \* tasks_
    finished,    \* finishedThreadIDs_
    threads,     \* the keys of threads_
    pc,          \* where each worker is
    holder,      \* the worker that joins with mutex_ held, or "none"
    destructor,  \* "no", "quit", "join", "done"
    submitted,   \* calls of submit()
    ran,         \* the tasks that were run
    unserved     \* the tasks submitted while maxThreads_ was 0

vars == <<quit, current, idle, maxThreads, maxTasks, tasks, finished, threads,
          pc, holder, destructor, submitted, ran, unserved>>

limits == <<maxThreads, maxTasks>>
queueVars == <<tasks, submitted, unserved>>

(* "none": no such thread; "entry": about to wait; "waiting": in the       *)
(* condition variable's queue; "woken", "timedout": out of it, without the *)
(* lock; "running": a task; "joining": in joinFinishedThreads();           *)
(* "returning": has left the last critical section; "ended"; "joined" by   *)
(* the destructor, which leaves it in threads_.                            *)
Counted == {"entry", "waiting", "woken", "timedout", "running"}
At(places) == {w \in Workers : pc[w] \in places}

Init ==
    /\ quit = FALSE
    /\ current = 0
    /\ idle = 0
    /\ maxThreads \in 0 .. Cardinality(Workers)
    /\ maxTasks \in Limits
    /\ tasks = << >>
    /\ finished = << >>
    /\ threads = {}
    /\ pc = [w \in Workers |-> "none"]
    /\ holder = "none"
    /\ destructor = "no"
    /\ submitted = 0
    /\ ran = {}
    /\ unserved = {}

Unlocked == holder = "none"

SetMaxThreads(n) ==
    /\ Unlocked
    /\ destructor = "no"
    /\ maxThreads' = n
    /\ UNCHANGED <<quit, current, idle, maxTasks, queueVars, finished, threads,
                   pc, holder, destructor, ran>>

SetMaxTasks(n) ==
    /\ Unlocked
    /\ destructor = "no"
    /\ maxTasks' = n
    /\ UNCHANGED <<quit, current, idle, maxThreads, queueVars, finished, threads,
                   pc, holder, destructor, ran>>

-----------------------------------------------------------------------------
Full == maxTasks # -1 /\ Len(tasks) >= maxTasks

(* notify_one(): one waiter, if there is one. *)
NotifyOne ==
    /\ IF At({"waiting"}) = {}
         THEN UNCHANGED pc
         ELSE \E w \in At({"waiting"}) : pc' = [pc EXCEPT ![w] = "woken"]
    /\ UNCHANGED <<current, threads>>

(* A new thread has the id of none that is still to be joined. *)
Spawn ==
    /\ \E w \in At({"none"}) :
          /\ pc' = [pc EXCEPT ![w] = "entry"]
          /\ threads' = threads \cup {w}
    /\ current' = current + 1

(* Mutant: a notification is thought needless once a thread is busy. *)
Provide_NotifyIfAllIdle ==
    IF idle > 0
      THEN IF idle = current THEN NotifyOne ELSE UNCHANGED <<pc, current, threads>>
      ELSE IF current < maxThreads THEN Spawn ELSE UNCHANGED <<pc, current, threads>>

Provide ==
    IF idle > 0
      THEN NotifyOne
      ELSE IF current < maxThreads THEN Spawn ELSE UNCHANGED <<pc, current, threads>>

(* submit(), which asserts that quit_ is not set.  A task that finds the   *)
(* queue full is dropped.                                                  *)
Submit ==
    /\ Unlocked
    /\ ~quit
    /\ submitted < MaxSubmits
    /\ submitted' = submitted + 1
    /\ IF Full
         THEN UNCHANGED <<tasks, unserved, pc, current, threads>>
         ELSE /\ tasks' = Append(tasks, submitted')
              /\ unserved' = IF maxThreads = 0 THEN unserved \cup {submitted'}
                                               ELSE unserved
              /\ Provide
    /\ UNCHANGED <<quit, idle, limits, finished, holder, destructor, ran>>

-----------------------------------------------------------------------------
Go(w, place) == pc' = [pc EXCEPT ![w] = place]

Predicate == quit \/ tasks # << >>

(* Mutant: every thread that leaves enters its id, before it joins others. *)
BeginLeave_EnterFirst(w) ==
    /\ Go(w, "joining")
    /\ holder' = w
    /\ finished' = Append(finished, w)

(* A worker that timed out joins the finished threads ... *)
BeginLeave(w) ==
    /\ Go(w, "joining")
    /\ holder' = w
    /\ UNCHANGED finished

(* What follows the wait: n is idleThreads_ before its decrement. *)
Proceed(w, n, hasTimedout) ==
    /\ idle' = n - 1
    /\ IF tasks # << >>
         THEN /\ Go(w, "running")
              /\ ran' = ran \cup {Head(tasks)}
              /\ tasks' = Tail(tasks)
              /\ UNCHANGED <<current, holder, finished>>
         ELSE /\ quit \/ hasTimedout
              /\ current' = current - 1
              /\ IF quit THEN Go(w, "returning") /\ UNCHANGED <<holder, finished>>
                         ELSE BeginLeave(w)
              /\ UNCHANGED <<tasks, ran>>

workerFrame == <<quit, limits, threads, destructor, submitted, unserved>>

(* Mutant: a worker counts as idle only while it waits. *)
Enter_CountLater(w) ==
    /\ Unlocked
    /\ pc[w] = "entry"
    /\ IF Predicate THEN Proceed(w, idle, FALSE)
                    ELSE /\ Go(w, "waiting")
                         /\ idle' = idle + 1
                         /\ UNCHANGED <<current, tasks, finished, holder, ran>>
    /\ UNCHANGED workerFrame

(* Into the critical section of worker(), through it if there is a task. *)
Enter(w) ==
    /\ Unlocked
    /\ pc[w] = "entry"
    /\ IF Predicate THEN Proceed(w, idle + 1, FALSE)
                    ELSE /\ Go(w, "waiting")
                         /\ idle' = idle + 1
                         /\ UNCHANGED <<current, tasks, finished, holder, ran>>
    /\ UNCHANGED workerFrame

(* A notified worker, or one woken for no reason, has the lock again. *)
Woken(w) ==
    /\ Unlocked
    /\ pc[w] = "woken"
    /\ IF Predicate THEN Proceed(w, idle, FALSE)
                    ELSE /\ Go(w, "waiting")
                         /\ UNCHANGED <<idle, current, tasks, finished, holder, ran>>
    /\ UNCHANGED workerFrame

Timeout(w) ==
    /\ pc[w] = "waiting"
    /\ Go(w, "timedout")
    /\ UNCHANGED <<idle, current, tasks, finished, holder, ran, workerFrame>>

Spurious(w) ==
    /\ pc[w] = "waiting"
    /\ Go(w, "woken")
    /\ UNCHANGED <<idle, current, tasks, finished, holder, ran, workerFrame>>

(* Mutant: a worker whose time is up leaves without another look. *)
TimedOut_NoLook(w) ==
    /\ Unlocked
    /\ pc[w] = "timedout"
    /\ idle' = idle - 1
    /\ current' = current - 1
    /\ BeginLeave(w)
    /\ UNCHANGED <<tasks, ran, workerFrame>>

TimedOut(w) ==
    /\ Unlocked
    /\ pc[w] = "timedout"
    /\ Proceed(w, idle, ~Predicate)
    /\ UNCHANGED workerFrame

(* The rest of joinFinishedThreads(), one thread at a time: join() waits   *)
(* for the thread to end, with mutex_ held.                                *)
JoinFinished(w) ==
    /\ pc[w] = "joining"
    /\ finished # << >>
    /\ pc[Head(finished)] = "ended"
    /\ pc' = [pc EXCEPT ![Head(finished)] = "none"]
    /\ threads' = threads \ {Head(finished)}
    /\ finished' = Tail(finished)
    /\ UNCHANGED <<quit, current, idle, limits, queueVars, holder, destructor, ran>>

(* ... enters its own id, and returns. *)
EndLeave(w) ==
    /\ pc[w] = "joining"
    /\ finished = << >>
    /\ finished' = <<w>>
    /\ Go(w, "returning")
    /\ holder' = "none"
    /\ UNCHANGED <<idle, current, tasks, ran, workerFrame>>

EndTask(w) ==
    /\ pc[w] = "running"
    /\ Go(w, "entry")
    /\ UNCHANGED <<idle, current, tasks, finished, holder, ran, workerFrame>>

EndThread(w) ==
    /\ pc[w] = "returning"
    /\ Go(w, "ended")
    /\ UNCHANGED <<idle, current, tasks, finished, holder, ran, workerFrame>>

-----------------------------------------------------------------------------
dFrame == <<current, idle, limits, queueVars, finished, holder, ran>>

(* ~ThreadPool(), which sets quit_ under the lock ... *)
Destroy ==
    /\ destructor = "no"
    /\ Unlocked
    /\ quit' = TRUE
    /\ destructor' = "quit"
    /\ UNCHANGED <<pc, threads, dFrame>>

(* Mutant: one worker is woken. *)
NotifyAll_One ==
    /\ destructor = "quit"
    /\ NotifyOne
    /\ destructor' = "join"
    /\ UNCHANGED <<quit, dFrame>>

(* ... wakes every worker ... *)
NotifyAll ==
    /\ destructor = "quit"
    /\ pc' = [w \in Workers |-> IF pc[w] = "waiting" THEN "woken" ELSE pc[w]]
    /\ destructor' = "join"
    /\ UNCHANGED <<quit, threads, dFrame>>

(* ... and joins them one after the other, without the lock. *)
DestructorJoin(w) ==
    /\ destructor = "join"
    /\ pc[w] = "ended"
    /\ Go(w, "joined")
    /\ UNCHANGED <<quit, threads, destructor, dFrame>>

Destroyed ==
    /\ destructor = "join"
    /\ threads = At({"joined"})
    /\ destructor' = "done"
    /\ UNCHANGED <<quit, pc, threads, dFrame>>

WorkerStep(w) ==
    Enter(w) \/ Woken(w) \/ TimedOut(w) \/ JoinFinished(w) \/ EndLeave(w)
    \/ EndTask(w) \/ EndThread(w)

Next ==
    \/ Submit \/ Destroy \/ NotifyAll \/ Destroyed
    \/ \E n \in 0 .. Cardinality(Workers) : SetMaxThreads(n)
    \/ \E n \in Limits : SetMaxTasks(n)
    \/ \E w \in Workers :
          WorkerStep(w) \/ Timeout(w) \/ Spurious(w) \/ DestructorJoin(w)

Spec == Init /\ [][Next]_vars

(* Threads that can run do, tasks come to an end, and a destructor that    *)
(* was called goes on.  Nothing is assumed of the timeout.                 *)
FairSpec ==
    /\ Spec
    /\ \A w \in Workers : WF_vars(WorkerStep(w)) /\ WF_vars(DestructorJoin(w))
    /\ WF_vars(NotifyAll \/ Destroyed)

-----------------------------------------------------------------------------
(* Types; and the counters submit() decides by are what they are meant to  *)
(* count: the workers that have not left, and those among them that will   *)
(* look at the queue again before they run a task.                         *)
TypeOK ==
    /\ quit \in BOOLEAN
    /\ maxThreads \in 0 .. Cardinality(Workers)
    /\ maxTasks \in Limits
    /\ tasks \in Seq(1 .. MaxSubmits)
    /\ finished \in Seq(Workers)
    /\ threads = Workers \ At({"none"})
    /\ pc \in [Workers -> Counted \cup {"none", "joining", "returning", "ended", "joined"}]
    /\ holder \in At({"joining"}) \cup {"none"}
    /\ destructor \in {"no", "quit", "join", "done"}
    /\ submitted \in 0 .. MaxSubmits
    /\ ran \subseteq 1 .. submitted
    /\ unserved \subseteq 1 .. submitted
    /\ current = Cardinality(At(Counted))
    /\ idle = Cardinality(At({"waiting", "woken", "timedout"}))

(* A worker sleeps only while there are no more tasks in the queue than    *)
(* workers on their way to it: a notification is never lost, to a worker   *)
(* that was timing out for instance, nor given to one that is awake while  *)
(* another sleeps.                                                         *)
NoIdleWhileQueued ==
    At({"waiting"}) # {}
      => Len(tasks) <= Cardinality(At({"entry", "woken", "timedout"}))

(* The assertions of joinFinishedThreads(), and why the join() in it does  *)
(* not block for ever although mutex_ is held: an id in finishedThreadIDs_ *)
(* is there once, is a key of threads_ and belongs to a thread that will   *)
(* not ask for mutex_ again.  The destructor walks threads_ without the    *)
(* lock, and nobody erases from it then.                                   *)
FinishedJoinable ==
    /\ destructor = "no" =>
          \A i \in DOMAIN finished :
             /\ finished[i] \in threads
             /\ pc[finished[i]] \in {"returning", "ended"}
             /\ \A j \in DOMAIN finished : finished[i] = finished[j] => i = j
    /\ destructor # "no" => holder = "none"

(* A task that was put in the queue while maxThreads_ allowed a thread is  *)
(* run, through timeouts, spurious wakeups and the destructor.             *)
TasksRun ==
    \A t \in 1 .. MaxSubmits :
        (t \in {tasks[i] : i \in DOMAIN tasks} /\ t \notin unserved) ~> t \in ran

(* ~ThreadPool() returns: no worker sleeps through quit_ and none waits    *)
(* for another.                                                            *)
DestructorReturns == (destructor = "quit") ~> (destructor = "done")
=============================================================================
