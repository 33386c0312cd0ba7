--------------------------- MODULE EventLoopThread ---------------------------
(***************************************************************************)
(* An EventLoopThread (EventLoopThread.cpp, Thread.cpp): MainThread starts *)
(* it with startLoop(), hands functors to the loop it returned and then    *)
(* destroys it; LoopThread runs threadFunc(), which owns the EventLoop on  *)
(* its stack.  The EventLoop itself is EventLoop.tla.                      *)
(*                                                                         *)
(* Only the destructor calls quit(), as in EventLoopThreadPool.            *)
(***************************************************************************)
EXTENDS EventLoop

CONSTANT MainThread

ASSUME MainThreadAssumption == MainThread \in Threads \ {LoopThread}

VARIABLES
    loopPtr,   \* loop_ # nullptr, written under mutex_
    mainPc,    \* where MainThread is
    threadPc   \* where threadFunc() is

threadVars == <<loopPtr, mainPc, threadPc>>
allVars == <<vars, threadVars>>

TInit ==
    /\ Init
    /\ loopPtr = FALSE
    /\ mainPc = "new"
    /\ threadPc = "none"

-----------------------------------------------------------------------------
(* MainThread: startLoop() and the destructor *)

Start ==  \* thread_.start(): returns once the thread has posted the semaphore
    /\ mainPc = "new"
    /\ mainPc' = "waiting"
    /\ threadPc' = "init"
    /\ UNCHANGED <<vars, loopPtr>>

(* Mutant: the condition is not tested again after the wait. *)
StartLoop_IfWait ==
    /\ mainPc = "waiting"
    /\ mainPc' = "running"
    /\ UNCHANGED <<vars, loopPtr, threadPc>>

(* while (loop_ == nullptr) cond_.wait(lock): asleep until the notify *)
StartLoop ==
    /\ mainPc = "waiting"
    /\ mainPc' = IF loopPtr THEN "running" ELSE "asleep"
    /\ UNCHANGED <<vars, loopPtr, threadPc>>

UseLoop ==  \* queueInLoop() on the loop that startLoop() returned
    /\ mainPc = "running"
    /\ QueueInLoop(MainThread) \/ FinishQueue(MainThread)
    /\ UNCHANGED threadVars

Destroy ==  \* ~EventLoopThread(): loop_ is read without mutex_
    /\ mainPc = "running"
    /\ call[MainThread] = "none"
    /\ mainPc' = IF loopPtr THEN "quitting" ELSE "done"
    /\ UNCHANGED <<vars, loopPtr, threadPc>>

DestroyQuit ==  \* loop_->quit()
    /\ mainPc = "quitting"
    /\ \/ Quit(MainThread) /\ UNCHANGED mainPc
       \/ FinishQuit(MainThread) /\ mainPc' = "joining"
    /\ UNCHANGED <<loopPtr, threadPc>>

Join ==  \* thread_.join()
    /\ mainPc = "joining"
    /\ threadPc = "ended"
    /\ mainPc' = "done"
    /\ UNCHANGED <<vars, loopPtr, threadPc>>

-----------------------------------------------------------------------------
(* LoopThread: threadFunc() *)

InitCallback ==  \* callback_(&loop) may queue functors
    /\ threadPc = "init"
    /\ QueueInLoop(LoopThread) \/ FinishQueue(LoopThread)
    /\ UNCHANGED threadVars

(* Mutant: no cond_.notify_one(). *)
Publish_Silent ==
    /\ threadPc = "init"
    /\ OwnerIdle
    /\ loopPtr' = TRUE
    /\ threadPc' = "published"
    /\ UNCHANGED <<vars, mainPc>>

Publish ==  \* loop_ = &loop and notify_one(), under mutex_
    /\ threadPc = "init"
    /\ OwnerIdle
    /\ loopPtr' = TRUE
    /\ mainPc' = IF mainPc = "asleep" THEN "waiting" ELSE mainPc
    /\ threadPc' = "published"
    /\ UNCHANGED vars

EnterLoop ==  \* loop.loop()
    /\ threadPc = "published"
    /\ Loop
    /\ threadPc' = "looping"
    /\ UNCHANGED <<loopPtr, mainPc>>

RunLoop ==
    /\ threadPc = "looping"
    /\ pc # "outside"
    /\ \/ OwnerStep
       \/ PollTimeout
       \/ QueueInLoop(LoopThread)
       \/ FinishQueue(LoopThread)
    /\ UNCHANGED threadVars

LeaveLoop ==  \* loop_ = nullptr under mutex_; the loop is destroyed
    /\ threadPc = "looping"
    /\ pc = "outside"
    /\ loopPtr' = FALSE
    /\ threadPc' = "ended"
    /\ UNCHANGED <<vars, mainPc>>

Finished ==  \* both threads are done
    /\ mainPc = "done"
    /\ threadPc = "ended"
    /\ UNCHANGED allVars

-----------------------------------------------------------------------------
MainStep == Start \/ StartLoop \/ UseLoop \/ Destroy \/ DestroyQuit \/ Join

ThreadStep == InitCallback \/ Publish \/ EnterLoop \/ RunLoop \/ LeaveLoop

TNext == MainStep \/ ThreadStep \/ Finished

(* The thread keeps running, as in EventLoop!Fairness without help from    *)
(* the poll timeout; MainThread finishes what it began.                    *)
ThreadProgress ==
    /\ InitCallback \/ Publish \/ EnterLoop \/ RunLoop \/ LeaveLoop
    /\ pc = "poll" => wakeupFd > 0

TSpec == TInit /\ [][TNext]_allVars

TFairSpec ==
    /\ TSpec
    /\ WF_allVars(ThreadProgress)
    /\ WF_allVars(StartLoop \/ DestroyQuit \/ Join)
    /\ WF_allVars(mainPc = "running" /\ FinishQueue(MainThread)
                  /\ UNCHANGED threadVars)

-----------------------------------------------------------------------------
(* The pointer that startLoop() returned points to a loop that is          *)
(* constructed and not yet destroyed, up to the moment at which the        *)
(* destructor stores true to quit_, although it reads loop_ without the    *)
(* mutex.  (From then on threadFunc() may return and destroy the loop      *)
(* before quit() has called wakeup() on it.)                               *)
LoopAlive ==
    (mainPc = "running" \/ (mainPc = "quitting" /\ call[MainThread] = "none"))
        => threadPc \in {"published", "looping"}

(* startLoop() returns: the notification is not lost, whichever of the two *)
(* threads takes mutex_ first.                                             *)
StartReturns == (mainPc = "waiting") ~> (mainPc = "running")

(* EventLoop.h:30 says of quit() that it leaves the event loop, so the     *)
(* join() of ~EventLoopThread() returns.                                   *)
JoinReturns == (mainPc = "joining") ~> (mainPc = "done")
=============================================================================
