------------------------------ MODULE EventLoop ------------------------------
(***************************************************************************)
(* One EventLoop (EventLoop.h, EventLoop.cpp): the thread that owns it     *)
(* runs loop(), every thread may call queueInLoop() and quit().            *)
(*                                                                         *)
(* A call by a thread that is not the owner is two steps, because the      *)
(* push under mutex_ (or the store to quit_) and the write to wakeupFd_    *)
(* are not atomic together.  The owner calls only where it runs user code: *)
(* outside loop(), in a channel's handler, in a functor.                   *)
(***************************************************************************)
EXTENDS Naturals, Sequences

CONSTANTS
    Threads,       \* all threads that know the loop
    LoopThread,    \* the owner, threadId_
    MaxFunctors,   \* bound on the calls of queueInLoop()
    MaxQuits       \* bound on the calls of quit()

ASSUME LoopThreadAssumption == LoopThread \in Threads
ASSUME BoundsAssumption == MaxFunctors \in Nat /\ MaxQuits \in Nat

VARIABLES
    looping,                 \* looping_
    quit,                    \* quit_
    callingPendingFunctors,  \* callingPendingFunctors_
    pendingFunctors,         \* pendingFunctors_, guarded by mutex_
    functors,                \* what is left of the batch of doPendingFunctors()
    wakeupFd,                \* the counter of the eventfd
    activateChannels,        \* activateChannels_ not yet handled
    pc,                      \* where the owner is
    inCallback,              \* the owner runs a handler or a functor
    call,                    \* the call in progress of each thread
    submitted,               \* functors are numbered in the order of the pushes
    ran,                     \* the functor run last
    early,                   \* functors the owner queued outside loop()
    quits                    \* calls of quit() so far

vars == <<looping, quit, callingPendingFunctors, pendingFunctors, functors,
          wakeupFd, activateChannels, pc, inCallback, call, submitted, ran,
          early, quits>>

Channels == {"wakeup", "io"}  \* wakeupChannel_, and any other channel

Init ==
    /\ looping = FALSE
    /\ quit = FALSE
    /\ callingPendingFunctors = FALSE
    /\ pendingFunctors = << >>
    /\ functors = << >>
    /\ wakeupFd = 0
    /\ activateChannels = {}
    /\ pc = "outside"
    /\ inCallback = FALSE
    /\ call = [t \in Threads |-> "none"]
    /\ submitted = 0
    /\ ran = 0
    /\ early = {}
    /\ quits = 0

OwnerIdle == call[LoopThread] = "none"

-----------------------------------------------------------------------------
(* loop() *)

Loop ==  \* looping_ = true
    /\ pc = "outside"
    /\ OwnerIdle
    /\ looping' = TRUE
    /\ pc' = "starting"
    /\ UNCHANGED <<quit, callingPendingFunctors, pendingFunctors, functors,
                   wakeupFd, activateChannels, inCallback, call, submitted,
                   ran, early, quits>>

ResetQuit ==  \* quit_ = false: a quit() that came before is forgotten
    /\ pc = "starting"
    /\ quit' = FALSE
    /\ pc' = "check"
    /\ UNCHANGED <<looping, callingPendingFunctors, pendingFunctors, functors,
                   wakeupFd, activateChannels, inCallback, call, submitted,
                   ran, early, quits>>

CheckQuit ==  \* while (!quit_), and looping_ = false after the loop
    /\ pc = "check"
    /\ IF quit
         THEN looping' = FALSE /\ pc' = "outside"
         ELSE looping' = looping /\ pc' = "poll"
    /\ UNCHANGED <<quit, callingPendingFunctors, pendingFunctors, functors,
                   wakeupFd, activateChannels, inCallback, call, submitted,
                   ran, early, quits>>

(* epoll_wait() returns the channels that are ready.  The wakeup channel is *)
(* ready exactly when its counter is not 0.                                 *)
Poll ==
    /\ pc = "poll"
    /\ \E ready \in SUBSET Channels :
          /\ ready # {}
          /\ "wakeup" \in ready <=> wakeupFd > 0
          /\ activateChannels' = ready
    /\ pc' = "events"
    /\ UNCHANGED <<looping, quit, callingPendingFunctors, pendingFunctors,
                   functors, wakeupFd, inCallback, call, submitted, ran,
                   early, quits>>

(* epoll_wait() gives up after kPollTimeMs, or is interrupted. *)
PollTimeout ==
    /\ pc = "poll"
    /\ activateChannels' = {}
    /\ pc' = "events"
    /\ UNCHANGED <<looping, quit, callingPendingFunctors, pendingFunctors,
                   functors, wakeupFd, inCallback, call, submitted, ran,
                   early, quits>>

(* EventLoop::handleRead(): the read sets the counter of the eventfd to 0. *)
HandleRead ==
    /\ pc = "events"
    /\ ~inCallback
    /\ "wakeup" \in activateChannels
    /\ activateChannels' = activateChannels \ {"wakeup"}
    /\ wakeupFd' = 0
    /\ UNCHANGED <<looping, quit, callingPendingFunctors, pendingFunctors,
                   functors, pc, inCallback, call, submitted, ran, early,
                   quits>>

HandleEvent ==  \* channel->handleEvent() enters user code
    /\ pc = "events"
    /\ ~inCallback
    /\ "io" \in activateChannels
    /\ activateChannels' = activateChannels \ {"io"}
    /\ inCallback' = TRUE
    /\ UNCHANGED <<looping, quit, callingPendingFunctors, pendingFunctors,
                   functors, wakeupFd, pc, call, submitted, ran, early, quits>>

Return ==  \* the handler or the functor returns
    /\ inCallback
    /\ OwnerIdle
    /\ inCallback' = FALSE
    /\ UNCHANGED <<looping, quit, callingPendingFunctors, pendingFunctors,
                   functors, wakeupFd, activateChannels, pc, call, submitted,
                   ran, early, quits>>

DoPendingFunctors ==  \* callingPendingFunctors_ = true
    /\ pc = "events"
    /\ ~inCallback
    /\ activateChannels = {}
    /\ callingPendingFunctors' = TRUE
    /\ pc' = "swap"
    /\ UNCHANGED <<looping, quit, pendingFunctors, functors, wakeupFd,
                   activateChannels, inCallback, call, submitted, ran, early,
                   quits>>

(* Mutant: a copy in place of the swap. *)
SwapFunctors_Copy ==
    /\ pc = "swap"
    /\ functors' = pendingFunctors
    /\ pc' = "run"
    /\ UNCHANGED <<looping, quit, callingPendingFunctors, pendingFunctors,
                   wakeupFd, activateChannels, inCallback, call, submitted,
                   ran, early, quits>>

SwapFunctors ==  \* functors.swap(pendingFunctors_) under mutex_
    /\ pc = "swap"
    /\ functors' = pendingFunctors
    /\ pendingFunctors' = << >>
    /\ pc' = "run"
    /\ UNCHANGED <<looping, quit, callingPendingFunctors, wakeupFd,
                   activateChannels, inCallback, call, submitted, ran, early,
                   quits>>

RunFunctor ==
    /\ pc = "run"
    /\ ~inCallback
    /\ functors # << >>
    /\ ran' = Head(functors)
    /\ functors' = Tail(functors)
    /\ inCallback' = TRUE
    /\ UNCHANGED <<looping, quit, callingPendingFunctors, pendingFunctors,
                   wakeupFd, activateChannels, pc, call, submitted, early,
                   quits>>

(* Mutant: the flag is not cleared. *)
EndFunctors_KeepFlag ==
    /\ pc = "run"
    /\ ~inCallback
    /\ functors = << >>
    /\ pc' = "check"
    /\ UNCHANGED <<looping, quit, callingPendingFunctors, pendingFunctors,
                   functors, wakeupFd, activateChannels, inCallback, call,
                   submitted, ran, early, quits>>

EndFunctors ==  \* callingPendingFunctors_ = false
    /\ pc = "run"
    /\ ~inCallback
    /\ functors = << >>
    /\ callingPendingFunctors' = FALSE
    /\ pc' = "check"
    /\ UNCHANGED <<looping, quit, pendingFunctors, functors, wakeupFd,
                   activateChannels, inCallback, call, submitted, ran, early,
                   quits>>

-----------------------------------------------------------------------------
(* The calls of the threads *)

MayCall(t) ==
    /\ call[t] = "none"
    /\ t = LoopThread => pc = "outside" \/ inCallback

(* queueInLoop(), and runInLoop() called by another thread: the push.  A   *)
(* runInLoop() of the owner runs its argument at once and queues nothing.  *)
QueueInLoop(t) ==
    /\ MayCall(t)
    /\ submitted < MaxFunctors
    /\ submitted' = submitted + 1
    /\ pendingFunctors' = Append(pendingFunctors, submitted + 1)
    /\ call' = [call EXCEPT ![t] = "queued"]
    /\ early' = IF t = LoopThread /\ pc = "outside"
                  THEN early \cup {submitted + 1} ELSE early
    /\ UNCHANGED <<looping, quit, callingPendingFunctors, functors, wakeupFd,
                   activateChannels, pc, inCallback, ran, quits>>

(* Mutants: the second disjunct forgotten; no wakeup while the loop is     *)
(* running functors.                                                       *)
NeedsWakeup_NotOwner(t) == t # LoopThread
NeedsWakeup_NotBusy(t) == t # LoopThread /\ ~callingPendingFunctors

(* The owner needs no wakeup in a handler, where doPendingFunctors() is    *)
(* still to come; it does in a functor, whose batch is already swapped.    *)
NeedsWakeup(t) == t # LoopThread \/ callingPendingFunctors

(* The second half of queueInLoop(), with wakeup(). *)
FinishQueue(t) ==
    /\ call[t] = "queued"
    /\ call' = [call EXCEPT ![t] = "none"]
    /\ wakeupFd' = IF NeedsWakeup(t) THEN wakeupFd + 1 ELSE wakeupFd
    /\ UNCHANGED <<looping, quit, callingPendingFunctors, pendingFunctors,
                   functors, activateChannels, pc, inCallback, submitted, ran,
                   early, quits>>

Quit(t) ==  \* quit_ = true
    /\ MayCall(t)
    /\ quits < MaxQuits
    /\ quits' = quits + 1
    /\ quit' = TRUE
    /\ call' = [call EXCEPT ![t] = "quitting"]
    /\ UNCHANGED <<looping, callingPendingFunctors, pendingFunctors, functors,
                   wakeupFd, activateChannels, pc, inCallback, submitted, ran,
                   early>>

(* Mutant: the test of isInLoopThread() inverted. *)
QuitNeedsWakeup_Owner(t) == t = LoopThread
QuitNeedsWakeup(t) == t # LoopThread

FinishQuit(t) ==  \* the second half of quit(), with wakeup()
    /\ call[t] = "quitting"
    /\ call' = [call EXCEPT ![t] = "none"]
    /\ wakeupFd' = IF QuitNeedsWakeup(t) THEN wakeupFd + 1 ELSE wakeupFd
    /\ UNCHANGED <<looping, quit, callingPendingFunctors, pendingFunctors,
                   functors, activateChannels, pc, inCallback, submitted, ran,
                   early, quits>>

-----------------------------------------------------------------------------
OwnerStep ==
    \/ ResetQuit \/ CheckQuit \/ Poll \/ HandleRead \/ HandleEvent \/ Return
    \/ DoPendingFunctors \/ SwapFunctors \/ RunFunctor \/ EndFunctors

Finish(t) == FinishQueue(t) \/ FinishQuit(t)

Next ==
    \/ Loop
    \/ PollTimeout
    \/ OwnerStep
    \/ \E t \in Threads : QueueInLoop(t) \/ Quit(t) \/ Finish(t)

Spec == Init /\ [][Next]_vars

(* The owner keeps running, handlers and functors return, a call once begun *)
(* is finished, and epoll_wait() returns when the eventfd is readable.      *)
(* Nothing is assumed of other channels or of the timeout of epoll_wait().  *)
PollWakeup == wakeupFd > 0 /\ Poll

Fairness ==
    /\ WF_vars(\/ ResetQuit \/ CheckQuit \/ PollWakeup \/ HandleRead
               \/ HandleEvent \/ Return \/ DoPendingFunctors \/ SwapFunctors
               \/ RunFunctor \/ EndFunctors)
    /\ \A t \in Threads : WF_vars(Finish(t))

FairSpec == Spec /\ Fairness

-----------------------------------------------------------------------------
(* The flags that queueInLoop() and loop() decide by tell where the owner  *)
(* is: callingPendingFunctors_ is set in doPendingFunctors() and nowhere   *)
(* else, a batch exists only while it is being run, a handler runs in the  *)
(* event phase and a functor in the functor phase, and the owner has no    *)
(* call in progress where it runs no user code.                            *)
FlagsAgree ==
    /\ callingPendingFunctors <=> pc \in {"swap", "run"}
    /\ looping <=> pc # "outside"
    /\ functors # << >> => pc = "run"
    /\ inCallback => pc \in {"events", "run"}
    /\ call[LoopThread] # "none" => pc = "outside" \/ inCallback

(* Types, and flags that agree with the owner's position. *)
TypeOK ==
    /\ looping \in BOOLEAN
    /\ quit \in BOOLEAN
    /\ callingPendingFunctors \in BOOLEAN
    /\ pendingFunctors \in Seq(Nat)
    /\ functors \in Seq(Nat)
    /\ wakeupFd \in Nat
    /\ activateChannels \subseteq Channels
    /\ pc \in {"outside", "starting", "check", "poll", "events", "swap", "run"}
    /\ inCallback \in BOOLEAN
    /\ call \in [Threads -> {"none", "queued", "quitting"}]
    /\ submitted \in Nat
    /\ ran \in Nat
    /\ early \subseteq Nat
    /\ quits \in Nat
    /\ FlagsAgree

PendingLate == \E i \in DOMAIN pendingFunctors : pendingFunctors[i] \notin early

(* A functor queued while loop() runs never waits for the poll timeout:    *)
(* while the owner is in epoll_wait() and such a functor is pending, the   *)
(* eventfd is readable or the caller is about to write to it.  Functors    *)
(* the owner queued outside loop() are exempt: nothing wakes the loop for  *)
(* them.                                                                   *)
WakeupForFunctors ==
    pc = "poll" /\ PendingLate =>
        wakeupFd > 0 \/ \E t \in Threads : call[t] = "queued"

(* The loop never sleeps through a quit(): while the owner is in           *)
(* epoll_wait() and quit_ is set, a wakeup is there or on its way.         *)
WakeupForQuit ==
    pc = "poll" /\ quit =>
        wakeupFd > 0 \/ \E t \in Threads : call[t] = "quitting"

(* The inductive strengthening of the two: what must hold at every point   *)
(* of the loop from which epoll_wait() can be reached without a swap of    *)
(* the queue, and which call in progress is sure to write to the eventfd.  *)
WillWake(t) == t = LoopThread => pc = "run"

IInv ==
    /\ TypeOK
    /\ pc \notin {"events", "swap"} /\ PendingLate =>
          wakeupFd > 0 \/ \E t \in Threads : call[t] = "queued" /\ WillWake(t)
    /\ pc = "poll" /\ quit =>
          wakeupFd > 0 \/ \E t \in Threads : call[t] = "quitting" /\ t # LoopThread

(* EventLoop implements FunctorQueue: what queueInLoop() pushed is run     *)
(* once each and in the order of the pushes, across all swaps.             *)
Abs == INSTANCE FunctorQueue WITH queue <- functors \o pendingFunctors

Implements == Abs!Spec

(* Every functor queued while loop() runs is run, or the loop is told to   *)
(* quit, without help from the poll timeout or from other channels.        *)
FunctorsRun ==
    \A i \in 1 .. MaxFunctors :
        (looping /\ i <= submitted /\ i \notin early)
            ~> (ran >= i \/ quit \/ ~looping)

(* A quit() seen after loop() has cleared quit_ stops the loop.            *)
QuitStops == (quit /\ looping /\ pc # "starting") ~> ~looping
=============================================================================
