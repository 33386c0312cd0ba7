\* No, one or two sub-loops; two connections meet on one loop or live on two.
CONSTANTS
    MaxConns = 2
    MaxThreads = 2
SPECIFICATION FairSpec
INVARIANTS ActiveAlive RemovedBeforeFreed UpThenDown
PROPERTY Reclaimed
CHECK_DEADLOCK FALSE
