---------------------------- MODULE FunctorQueue ----------------------------
(***************************************************************************)
(* What EventLoop promises to the threads that hand it functors: a FIFO    *)
(* executor.  Functors are numbered in the order in which queueInLoop()    *)
(* pushes them; the loop runs them one at a time, each once, in that       *)
(* order.  EventLoop.tla is shown to implement this specification.         *)
(***************************************************************************)
EXTENDS Naturals, Sequences

VARIABLES
    queue,      \* functors handed over and not yet run
    submitted,  \* number of functors handed over so far
    ran         \* number of the functor run last, 0 before the first

vars == <<queue, submitted, ran>>

Init ==
    /\ queue = << >>
    /\ submitted = 0
    /\ ran = 0

Submit ==
    /\ submitted' = submitted + 1
    /\ queue' = Append(queue, submitted + 1)
    /\ UNCHANGED ran

Run ==
    /\ queue # << >>
    /\ ran' = Head(queue)
    /\ queue' = Tail(queue)
    /\ UNCHANGED submitted

Next == Submit \/ Run

Spec == Init /\ [][Next]_vars

-----------------------------------------------------------------------------
TypeOK ==
    /\ queue \in Seq(Nat)
    /\ submitted \in Nat
    /\ ran \in Nat

(* The queue holds exactly the functors ran+1 .. submitted, in that order: *)
(* none is lost, none runs twice, none overtakes another.                  *)
InOrder ==
    /\ Len(queue) = submitted - ran
    /\ \A i \in 1 .. Len(queue) : queue[i] = ran + i
=============================================================================
