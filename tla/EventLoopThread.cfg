\* One functor may be queued by callback_, one by the loop's own functors and
\* one by MainThread; the destructor calls quit() once.
CONSTANTS
    Threads = {main, sub}
    LoopThread = sub
    MainThread = main
    MaxFunctors = 3
    MaxQuits = 1
SPECIFICATION TFairSpec
INVARIANT LoopAlive
PROPERTY StartReturns
