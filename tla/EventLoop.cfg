\* The owner and two other threads.  Three functors give one in the running
\* batch, one pending and one on its way; two quits let one come too early.
CONSTANTS
    Threads = {owner, t1, t2}
    LoopThread = owner
    MaxFunctors = 3
    MaxQuits = 2
SPECIFICATION FairSpec
INVARIANTS TypeOK WakeupForFunctors WakeupForQuit
PROPERTIES Implements FunctorsRun QuitStops
