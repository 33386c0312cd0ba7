--------------------------- MODULE EventLoop_proofs ---------------------------
(***************************************************************************)
(* Proofs about EventLoop, for any number of threads, functors and quits:  *)
(* the types, the absence of lost wakeups, and that EventLoop implements   *)
(* FunctorQueue.  Then EventLoopThread: it uses its loop only in ways that *)
(* EventLoop allows, and the loop outlives what MainThread does with it.   *)
(***************************************************************************)
EXTENDS EventLoopThread, SequenceTheorems, TLAPS

(* The types and the agreement of the flags with the owner's position are  *)
(* preserved by every step of the owner and of the calling threads.        *)
LEMMA TypeStep == TypeOK /\ [Next]_vars => TypeOK'
<1> SUFFICES ASSUME TypeOK, [Next]_vars PROVE TypeOK'
  OBVIOUS
<1> USE LoopThreadAssumption, BoundsAssumption DEF TypeOK, FlagsAgree, Channels
<1>1. CASE Loop BY <1>1 DEF Loop, OwnerIdle
<1>2. CASE PollTimeout BY <1>2 DEF PollTimeout
<1>3. CASE ResetQuit BY <1>3 DEF ResetQuit
<1>4. CASE CheckQuit BY <1>4 DEF CheckQuit
<1>5. CASE Poll BY <1>5 DEF Poll
<1>6. CASE HandleRead BY <1>6 DEF HandleRead
<1>7. CASE HandleEvent BY <1>7 DEF HandleEvent
<1>8. CASE Return BY <1>8 DEF Return, OwnerIdle
<1>9. CASE DoPendingFunctors BY <1>9 DEF DoPendingFunctors
<1>10. CASE SwapFunctors BY <1>10 DEF SwapFunctors
<1>11. CASE RunFunctor
  <2>1. ran' \in Nat /\ functors' \in Seq(Nat)
    BY <1>11, HeadTailProperties DEF RunFunctor
  <2> QED BY <1>11, <2>1 DEF RunFunctor
<1>12. CASE EndFunctors BY <1>12 DEF EndFunctors
<1>13. ASSUME NEW t \in Threads, QueueInLoop(t) PROVE TypeOK'
  <2>1. pendingFunctors' \in Seq(Nat)
    BY <1>13, AppendProperties DEF QueueInLoop
  <2>2. early' \subseteq Nat
    BY <1>13 DEF QueueInLoop
  <2> QED BY <1>13, <2>1, <2>2 DEF QueueInLoop, MayCall
<1>14. ASSUME NEW t \in Threads, Quit(t) PROVE TypeOK'
  BY <1>14 DEF Quit, MayCall
<1>15. ASSUME NEW t \in Threads, FinishQueue(t) PROVE TypeOK'
  BY <1>15 DEF FinishQueue
<1>16. ASSUME NEW t \in Threads, FinishQuit(t) PROVE TypeOK'
  BY <1>16 DEF FinishQuit
<1>17. CASE UNCHANGED vars BY <1>17 DEF vars
<1> QED
  BY <1>1, <1>2, <1>3, <1>4, <1>5, <1>6, <1>7, <1>8, <1>9, <1>10, <1>11,
     <1>12, <1>13, <1>14, <1>15, <1>16, <1>17 DEF Next, OwnerStep, Finish

LEMMA TypeInit == Init => TypeOK
<1> SUFFICES ASSUME Init PROVE TypeOK
  OBVIOUS
<1> QED BY LoopThreadAssumption, EmptySeq DEF Init, TypeOK, FlagsAgree, Channels

(* The values of the state are of their types in every reachable state,    *)
(* and the flags by which queueInLoop() decides tell where the owner is.   *)
THEOREM TypeCorrect == Spec => []TypeOK
<1> QED BY TypeInit, TypeStep, PTL DEF Spec

-----------------------------------------------------------------------------
(* The names of the two halves of the inductive invariant. *)
FunctorWake ==
    pc \notin {"events", "swap"} /\ PendingLate =>
        wakeupFd > 0 \/ \E t \in Threads : call[t] = "queued" /\ WillWake(t)

QuitWake ==
    pc = "poll" /\ quit =>
        wakeupFd > 0 \/ \E t \in Threads : call[t] = "quitting" /\ t # LoopThread

(* Every step keeps a wakeup on its way for what is pending. *)
LEMMA FunctorWakeStep ==
    TypeOK /\ TypeOK' /\ FunctorWake /\ [Next]_vars => FunctorWake'
<1> SUFFICES ASSUME TypeOK, TypeOK', FunctorWake, [Next]_vars,
                    pc' \notin {"events", "swap"}, PendingLate'
             PROVE  wakeupFd' > 0 \/
                    \E t \in Threads : call'[t] = "queued" /\ WillWake(t)'
  BY DEF FunctorWake
<1> DEFINE Goal == wakeupFd' > 0 \/
                   \E t \in Threads : call'[t] = "queued" /\ WillWake(t)'
<1> USE LoopThreadAssumption
<1> SUFFICES Goal OBVIOUS
<1> HIDE DEF Goal
<1>1. ASSUME UNCHANGED <<pendingFunctors, early, wakeupFd, call>>,
             pc \notin {"events", "swap"},
             pc = pc' \/ call[LoopThread] = "none"
      PROVE  Goal
  BY <1>1 DEF FunctorWake, PendingLate, WillWake, Goal
<1>2. CASE Loop BY <1>1, <1>2 DEF Loop, OwnerIdle
<1>3. CASE PollTimeout BY <1>3 DEF PollTimeout
<1>4. CASE ResetQuit
  BY <1>1, <1>4 DEF ResetQuit, TypeOK, FlagsAgree
<1>5. CASE CheckQuit
  BY <1>1, <1>5 DEF CheckQuit, TypeOK, FlagsAgree
<1>6. CASE Poll BY <1>6 DEF Poll
<1>7. CASE HandleRead BY <1>7 DEF HandleRead
<1>8. CASE HandleEvent BY <1>8 DEF HandleEvent
<1>9. CASE Return BY <1>1, <1>9 DEF Return, OwnerIdle
<1>10. CASE DoPendingFunctors BY <1>10 DEF DoPendingFunctors
<1>11. CASE SwapFunctors
  BY <1>11 DEF SwapFunctors, PendingLate
<1>12. CASE RunFunctor BY <1>1, <1>12 DEF RunFunctor
<1>13. CASE EndFunctors
  BY <1>1, <1>13 DEF EndFunctors, TypeOK, FlagsAgree
<1>14. ASSUME NEW t \in Threads, QueueInLoop(t) PROVE Goal
  <2>1. CASE t = LoopThread /\ pc = "outside"
    <3>1. PendingLate
      <4>1. PICK i \in DOMAIN pendingFunctors' : pendingFunctors'[i] \notin early'
        BY DEF PendingLate
      <4>2. /\ pendingFunctors \in Seq(Nat)
            /\ pendingFunctors' = Append(pendingFunctors, submitted + 1)
            /\ submitted + 1 \in early'
            /\ early \subseteq early'
        BY <1>14, <2>1 DEF QueueInLoop, TypeOK
      <4>3. i \in DOMAIN pendingFunctors /\ pendingFunctors[i] = pendingFunctors'[i]
        BY <4>1, <4>2, AppendProperties
      <4> QED BY <4>1, <4>2, <4>3 DEF PendingLate
    <3>2. /\ pc' = pc /\ wakeupFd' = wakeupFd
          /\ \A u \in Threads : u # LoopThread => call'[u] = call[u]
      BY <1>14, <2>1 DEF QueueInLoop, TypeOK
    <3> QED BY <2>1, <3>1, <3>2 DEF FunctorWake, WillWake, Goal
  <2>2. CASE ~(t = LoopThread /\ pc = "outside")
    <3>1. pc' = pc /\ call'[t] = "queued"
      BY <1>14 DEF QueueInLoop, TypeOK
    <3>2. t = LoopThread => pc' = "run"
      BY <1>14, <2>2, <3>1 DEF QueueInLoop, MayCall, TypeOK, FlagsAgree
    <3> QED BY <3>1, <3>2 DEF WillWake, Goal
  <2> QED BY <2>1, <2>2
<1>15. ASSUME NEW t \in Threads, Quit(t) PROVE Goal
  <2>1. /\ pc' = pc /\ wakeupFd' = wakeupFd /\ PendingLate
        /\ \A u \in Threads : call[u] = "queued" => call'[u] = call[u]
    BY <1>15 DEF Quit, MayCall, PendingLate, TypeOK
  <2> QED BY <2>1 DEF FunctorWake, WillWake, Goal
<1>16. ASSUME NEW t \in Threads, FinishQueue(t) PROVE Goal
  <2>1. CASE NeedsWakeup(t)
    BY <1>16, <2>1 DEF FinishQueue, TypeOK, Goal
  <2>2. CASE ~NeedsWakeup(t)
    <3>1. t = LoopThread /\ pc # "run"
      BY <2>2 DEF NeedsWakeup, TypeOK, FlagsAgree
    <3>2. /\ pc' = pc /\ wakeupFd' = wakeupFd /\ PendingLate
          /\ \A u \in Threads : u # t => call'[u] = call[u]
      BY <1>16, <2>2 DEF FinishQueue, PendingLate, TypeOK
    <3> QED BY <3>1, <3>2 DEF FunctorWake, WillWake, Goal
  <2> QED BY <2>1, <2>2
<1>17. ASSUME NEW t \in Threads, FinishQuit(t) PROVE Goal
  <2>1. /\ pc' = pc /\ wakeupFd' >= wakeupFd /\ PendingLate
        /\ \A u \in Threads : call[u] = "queued" => call'[u] = call[u]
    BY <1>17 DEF FinishQuit, PendingLate, TypeOK
  <2> QED BY <2>1 DEF FunctorWake, WillWake, Goal, TypeOK
<1>18. CASE UNCHANGED vars BY <1>1, <1>18 DEF vars
<1> QED
  BY <1>2, <1>3, <1>4, <1>5, <1>6, <1>7, <1>8, <1>9, <1>10, <1>11, <1>12,
     <1>13, <1>14, <1>15, <1>16, <1>17, <1>18 DEF Next, OwnerStep, Finish

(* Every step keeps a wakeup on its way for a quit() the owner has not     *)
(* seen.                                                                   *)
LEMMA QuitWakeStep ==
    TypeOK /\ TypeOK' /\ QuitWake /\ [Next]_vars => QuitWake'
<1> SUFFICES ASSUME TypeOK, TypeOK', QuitWake, [Next]_vars, pc' = "poll", quit'
             PROVE  wakeupFd' > 0 \/
                    \E t \in Threads : call'[t] = "quitting" /\ t # LoopThread
  BY DEF QuitWake
<1> USE LoopThreadAssumption DEF QuitWake
<1>1. CASE Loop BY <1>1 DEF Loop
<1>2. CASE PollTimeout BY <1>2 DEF PollTimeout
<1>3. CASE ResetQuit BY <1>3 DEF ResetQuit
<1>4. CASE CheckQuit BY <1>4 DEF CheckQuit
<1>5. CASE Poll BY <1>5 DEF Poll
<1>6. CASE HandleRead BY <1>6 DEF HandleRead
<1>7. CASE HandleEvent BY <1>7 DEF HandleEvent
<1>8. CASE Return BY <1>8 DEF Return
<1>9. CASE DoPendingFunctors BY <1>9 DEF DoPendingFunctors
<1>10. CASE SwapFunctors BY <1>10 DEF SwapFunctors
<1>11. CASE RunFunctor BY <1>11 DEF RunFunctor
<1>12. CASE EndFunctors BY <1>12 DEF EndFunctors
<1>13. ASSUME NEW t \in Threads, QueueInLoop(t) PROVE QuitWake'
  BY <1>13 DEF QueueInLoop, MayCall, TypeOK
<1>14. ASSUME NEW t \in Threads, Quit(t) PROVE QuitWake'
  <2>1. call'[t] = "quitting" /\ pc' = pc
    BY <1>14 DEF Quit, TypeOK
  <2>2. t # LoopThread
    BY <1>14, <2>1 DEF Quit, MayCall, TypeOK, FlagsAgree
  <2> QED BY <2>1, <2>2
<1>15. ASSUME NEW t \in Threads, FinishQueue(t) PROVE QuitWake'
  <2>1. pc' = pc /\ quit' = quit
    BY <1>15 DEF FinishQueue
  <2>2. /\ wakeupFd' >= wakeupFd
        /\ \A u \in Threads : call[u] = "quitting" => call'[u] = call[u]
    BY <1>15 DEF FinishQueue, TypeOK
  <2> QED BY <2>1, <2>2 DEF TypeOK
<1>16. ASSUME NEW t \in Threads, FinishQuit(t) PROVE QuitWake'
  <2>1. pc' = pc /\ quit' = quit
    BY <1>16 DEF FinishQuit
  <2>2. CASE t = LoopThread
    BY <1>16, <2>1, <2>2 DEF FinishQuit, TypeOK, FlagsAgree
  <2>3. CASE t # LoopThread
    BY <1>16, <2>3 DEF FinishQuit, QuitNeedsWakeup, TypeOK
  <2> QED BY <2>2, <2>3
<1>17. CASE UNCHANGED vars BY <1>17 DEF vars
<1> QED
  BY <1>1, <1>2, <1>3, <1>4, <1>5, <1>6, <1>7, <1>8, <1>9, <1>10, <1>11,
     <1>12, <1>13, <1>14, <1>15, <1>16, <1>17 DEF Next, OwnerStep, Finish

(* IInv is an inductive invariant of EventLoop. *)
THEOREM Inductive == Spec => []IInv
<1>1. Init => FunctorWake /\ QuitWake
  BY DEF Init, FunctorWake, QuitWake, PendingLate
<1>2. IInv <=> TypeOK /\ FunctorWake /\ QuitWake
  BY DEF IInv, FunctorWake, QuitWake
<1>3. Init => IInv
  BY <1>1, <1>2, TypeInit
<1>4. IInv /\ [Next]_vars => IInv'
  <2>1. IInv' <=> TypeOK' /\ FunctorWake' /\ QuitWake'
    BY DEF IInv, FunctorWake, QuitWake
  <2> QED BY <1>2, <2>1, TypeStep, FunctorWakeStep, QuitWakeStep
<1> QED BY <1>3, <1>4, PTL DEF Spec

(* No lost wakeup: the owner never sleeps in epoll_wait() on a functor     *)
(* that was queued while loop() ran, unless the eventfd is about to wake   *)
(* it, however many threads call queueInLoop().                            *)
THEOREM NoLostFunctor == Spec => []WakeupForFunctors
<1>1. IInv => WakeupForFunctors
  BY DEF IInv, WakeupForFunctors
<1> QED BY <1>1, Inductive, PTL

(* No lost quit: the owner never sleeps in epoll_wait() with quit_ set     *)
(* unless the eventfd is about to wake it.                                 *)
THEOREM NoLostQuit == Spec => []WakeupForQuit
<1>1. IInv => WakeupForQuit
  BY DEF IInv, WakeupForQuit
<1> QED BY <1>1, Inductive, PTL

-----------------------------------------------------------------------------
(* EventLoop implements FunctorQueue: each step of the loop is a step of   *)
(* the queue functors \o pendingFunctors, or leaves it alone.              *)
THEOREM Refinement == Spec => Implements
<1> USE DEF Abs!Init, Abs!Next, Abs!vars, Abs!Submit, Abs!Run
<1>1. Init => Abs!Init
  BY EmptySeq, ConcatEmptySeq DEF Init
<1>2. TypeOK /\ [Next]_vars => [Abs!Next]_Abs!vars
  <2> SUFFICES ASSUME TypeOK, [Next]_vars PROVE [Abs!Next]_Abs!vars
    OBVIOUS
  <2>1. CASE SwapFunctors
    <3>1. functors = << >> /\ pendingFunctors \in Seq(Nat)
      BY <2>1 DEF SwapFunctors, TypeOK, FlagsAgree
    <3>2. functors' \o pendingFunctors' = functors \o pendingFunctors
      BY <2>1, <3>1, ConcatEmptySeq DEF SwapFunctors
    <3> QED BY <2>1, <3>2 DEF SwapFunctors
  <2>2. CASE RunFunctor
    <3>1. functors \in Seq(Nat) /\ functors # << >> /\ pendingFunctors \in Seq(Nat)
      BY <2>2 DEF RunFunctor, TypeOK
    <3>2. /\ functors \o pendingFunctors # << >>
          /\ Head(functors \o pendingFunctors) = Head(functors)
          /\ Tail(functors \o pendingFunctors) = Tail(functors) \o pendingFunctors
      BY <3>1
    <3> QED BY <2>2, <3>2 DEF RunFunctor
  <2>3. ASSUME NEW t \in Threads, QueueInLoop(t) PROVE Abs!Submit
    <3>1. functors \in Seq(Nat) /\ pendingFunctors \in Seq(Nat) /\ submitted + 1 \in Nat
      BY DEF TypeOK
    <3>2. functors \o Append(pendingFunctors, submitted + 1)
             = Append(functors \o pendingFunctors, submitted + 1)
      BY <3>1
    <3> QED BY <2>3, <3>2 DEF QueueInLoop
  <2>4. ASSUME UNCHANGED <<functors, pendingFunctors, submitted, ran>>
        PROVE  UNCHANGED Abs!vars
    BY <2>4
  <2>5. CASE Loop \/ PollTimeout \/ ResetQuit \/ CheckQuit \/ Poll \/ HandleRead
             \/ HandleEvent \/ Return \/ DoPendingFunctors \/ EndFunctors
    BY <2>4, <2>5 DEF Loop, PollTimeout, ResetQuit, CheckQuit, Poll, HandleRead,
       HandleEvent, Return, DoPendingFunctors, EndFunctors
  <2>6. ASSUME NEW t \in Threads, Quit(t) \/ FinishQueue(t) \/ FinishQuit(t)
        PROVE  UNCHANGED Abs!vars
    BY <2>4, <2>6 DEF Quit, FinishQueue, FinishQuit
  <2>7. CASE UNCHANGED vars
    BY <2>4, <2>7 DEF vars
  <2> QED
    BY <2>1, <2>2, <2>3, <2>5, <2>6, <2>7 DEF Next, OwnerStep, Finish
<1> QED BY <1>1, <1>2, TypeCorrect, PTL DEF Spec, Implements, Abs!Spec

(* At every moment the batch and the queue together hold exactly the       *)
(* functors that were pushed and not yet run, in the order of the pushes:  *)
(* none is lost, none runs twice, none overtakes another.                  *)
THEOREM InOrder == Spec => []Abs!InOrder
<1> USE DEF Abs!InOrder, Abs!TypeOK
<1>1. Abs!Init => Abs!TypeOK /\ Abs!InOrder
  <2> SUFFICES ASSUME Abs!Init PROVE Abs!TypeOK /\ Abs!InOrder
    OBVIOUS
  <2> QED BY EmptySeq DEF Abs!Init
<1>2. Abs!TypeOK /\ Abs!InOrder /\ [Abs!Next]_Abs!vars => Abs!TypeOK' /\ Abs!InOrder'
  <2> DEFINE q == functors \o pendingFunctors
  <2> SUFFICES ASSUME Abs!TypeOK, Abs!InOrder, [Abs!Next]_Abs!vars
               PROVE  Abs!TypeOK' /\ Abs!InOrder'
    OBVIOUS
  <2>1. q \in Seq(Nat) /\ submitted \in Nat /\ ran \in Nat
    OBVIOUS
  <2>2. Len(q) = submitted - ran /\ \A i \in 1 .. Len(q) : q[i] = ran + i
    OBVIOUS
  <2>3. CASE Abs!Submit
    <3>1. q' = Append(q, submitted + 1) /\ submitted' = submitted + 1 /\ ran' = ran
      BY <2>3 DEF Abs!Submit
    <3> HIDE DEF q
    <3>2. /\ q' \in Seq(Nat) /\ Len(q') = Len(q) + 1
          /\ \A i \in 1 .. Len(q) : q'[i] = q[i]
          /\ q'[Len(q) + 1] = submitted + 1
      BY <2>1, <3>1, AppendProperties
    <3>3. /\ q' \in Seq(Nat) /\ Len(q') = submitted' - ran'
          /\ \A i \in 1 .. Len(q') : q'[i] = ran' + i
      <4>1. Len(q) \in Nat /\ Len(q') = submitted' - ran'
        BY <2>1, <2>2, <3>1, <3>2, LenProperties
      <4>2. ASSUME NEW i \in 1 .. Len(q') PROVE q'[i] = ran' + i
        <5>1. CASE i \in 1 .. Len(q)
          BY <2>2, <3>1, <3>2, <5>1
        <5>2. CASE i = Len(q) + 1
          BY <2>1, <2>2, <3>1, <3>2, <4>1, <5>2
        <5> QED BY <3>2, <4>1, <5>1, <5>2
      <4> QED BY <3>2, <4>1, <4>2
    <3> QED BY <2>1, <3>1, <3>3 DEF q
  <2>4. CASE Abs!Run
    <3>1. q # << >> /\ q' = Tail(q) /\ submitted' = submitted /\ ran' = Head(q)
      BY <2>4 DEF Abs!Run
    <3> HIDE DEF q
    <3>2. /\ q' \in Seq(Nat) /\ Len(q') = Len(q) - 1 /\ Len(q) > 0
          /\ ran' = q[1] /\ \A i \in 1 .. Len(q') : q'[i] = q[i + 1]
      BY <2>1, <3>1, HeadTailProperties, EmptySeq, LenProperties
    <3>3. /\ q' \in Seq(Nat) /\ Len(q') = submitted' - ran' /\ ran' \in Nat
          /\ \A i \in 1 .. Len(q') : q'[i] = ran' + i
      <4>1. Len(q) \in Nat /\ ran' = ran + 1
        BY <2>1, <2>2, <3>2, LenProperties
      <4>2. \A i \in 1 .. Len(q') : i + 1 \in 1 .. Len(q) /\ i \in Nat
        BY <4>1, <3>2
      <4>3. ASSUME NEW i \in 1 .. Len(q') PROVE q'[i] = ran' + i
        <5>1. q[i + 1] = ran + (i + 1) /\ i \in Nat
          BY <2>2, <4>2
        <5> QED BY <2>1, <3>2, <4>1, <5>1
      <4>4. Len(q') = submitted' - ran' /\ ran' \in Nat
        BY <2>1, <2>2, <3>1, <3>2, <4>1
      <4> QED BY <3>2, <4>3, <4>4
    <3> QED BY <2>1, <3>1, <3>3 DEF q
  <2>5. CASE UNCHANGED Abs!vars
    BY <2>5 DEF Abs!vars
  <2> QED BY <2>3, <2>4, <2>5 DEF Abs!Next
<1>3. Abs!Spec => []Abs!InOrder
  BY <1>1, <1>2, PTL DEF Abs!Spec
<1> QED BY <1>3, Refinement, PTL DEF Implements

-----------------------------------------------------------------------------
(* EventLoopThread *)

(* Every step of MainThread and of threadFunc() is a step of the EventLoop *)
(* or leaves the loop alone.                                               *)
LEMMA ThreadUsesLoop == [TNext]_allVars => [Next]_vars
<1> SUFFICES ASSUME [TNext]_allVars PROVE [Next]_vars
  OBVIOUS
<1> USE MainThreadAssumption, LoopThreadAssumption
<1>1. CASE Start \/ StartLoop \/ Destroy \/ Join \/ Publish \/ LeaveLoop
  BY <1>1 DEF Start, StartLoop, Destroy, Join, Publish, LeaveLoop
<1>2. CASE UseLoop BY <1>2 DEF UseLoop, Next, Finish
<1>3. CASE DestroyQuit BY <1>3 DEF DestroyQuit, Next, Finish
<1>4. CASE InitCallback BY <1>4 DEF InitCallback, Next, Finish
<1>5. CASE EnterLoop BY <1>5 DEF EnterLoop, Next
<1>6. CASE RunLoop BY <1>6 DEF RunLoop, Next, Finish
<1>7. CASE Finished \/ UNCHANGED allVars BY <1>7 DEF Finished, allVars
<1> QED
  BY <1>1, <1>2, <1>3, <1>4, <1>5, <1>6, <1>7 DEF TNext, MainStep, ThreadStep

(* An EventLoopThread is a behaviour of EventLoop: what is proved above of *)
(* wakeups and of the order of functors holds of the loop of every         *)
(* EventLoopThread.                                                        *)
THEOREM ThreadImplementsLoop == TSpec => Spec
<1>1. TInit => Init
  BY DEF TInit
<1> QED BY <1>1, ThreadUsesLoop, PTL DEF TSpec, Spec

(* Where MainThread and threadFunc() may be relative to each other.  loop_ *)
(* is set exactly while the loop is published and not destroyed; quit_ is  *)
(* set only by the destructor, so loop() does not return, and the loop is  *)
(* not destroyed, before the destructor has stored it.                     *)
ThreadInv ==
    /\ call \in [Threads -> {"none", "queued", "quitting"}]
    /\ threadPc \in {"none", "init", "published", "looping", "ended"}
    /\ loopPtr <=> threadPc \in {"published", "looping"}
    /\ mainPc = "new" => threadPc = "none"
    /\ mainPc \in {"running", "quitting"}
          => threadPc \in {"published", "looping", "ended"}
    /\ quit => \/ mainPc \in {"joining", "done"}
               \/ mainPc = "quitting" /\ call[MainThread] = "quitting"
    /\ threadPc = "looping" /\ pc = "outside" => quit
    /\ threadPc = "ended" => quit /\ pc = "outside"
    /\ threadPc \in {"none", "init", "published"} => pc = "outside"

(* ThreadInv is preserved by every step. *)
LEMMA ThreadInvStep == ThreadInv /\ [TNext]_allVars => ThreadInv'
<1> SUFFICES ASSUME ThreadInv, [TNext]_allVars PROVE ThreadInv'
  OBVIOUS
<1> USE MainThreadAssumption, LoopThreadAssumption DEF ThreadInv, threadVars
<1>1. CASE Start BY <1>1 DEF Start, vars
<1>2. CASE StartLoop BY <1>2 DEF StartLoop, vars
<1>3. CASE UseLoop BY <1>3 DEF UseLoop, QueueInLoop, FinishQueue, MayCall
<1>4. CASE Destroy BY <1>4 DEF Destroy, vars
<1>5. CASE DestroyQuit BY <1>5 DEF DestroyQuit, Quit, FinishQuit, MayCall
<1>6. CASE Join BY <1>6 DEF Join, vars
<1>7. CASE InitCallback BY <1>7 DEF InitCallback, QueueInLoop, FinishQueue, MayCall
<1>8. CASE Publish BY <1>8 DEF Publish, vars
<1>9. CASE EnterLoop BY <1>9 DEF EnterLoop, Loop
<1>10. CASE RunLoop
  <2>1. CASE OwnerStep \/ PollTimeout
    BY <1>10, <2>1 DEF RunLoop, OwnerStep, PollTimeout, ResetQuit, CheckQuit,
       Poll, HandleRead, HandleEvent, Return, DoPendingFunctors, SwapFunctors,
       RunFunctor, EndFunctors
  <2>2. CASE QueueInLoop(LoopThread) \/ FinishQueue(LoopThread)
    BY <1>10, <2>2 DEF RunLoop, QueueInLoop, FinishQueue, MayCall
  <2> QED BY <1>10, <2>1, <2>2 DEF RunLoop
<1>11. CASE LeaveLoop BY <1>11 DEF LeaveLoop, vars
<1>12. CASE Finished \/ UNCHANGED allVars BY <1>12 DEF Finished, allVars, vars
<1> QED
  BY <1>1, <1>2, <1>3, <1>4, <1>5, <1>6, <1>7, <1>8, <1>9, <1>10, <1>11, <1>12
     DEF TNext, MainStep, ThreadStep

(* The loop that startLoop() returned exists until the destructor has told *)
(* it to quit, although ~EventLoopThread() reads loop_ without the mutex.  *)
THEOREM LoopOutlivesUse == TSpec => []LoopAlive
<1>1. TInit => ThreadInv
  BY MainThreadAssumption DEF TInit, Init, ThreadInv
<1>2. ThreadInv => LoopAlive
  BY DEF ThreadInv, LoopAlive
<1> QED BY <1>1, <1>2, ThreadInvStep, PTL DEF TSpec
=============================================================================
