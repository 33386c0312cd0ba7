\* A connection that goes down, the attempt that replaces it and one too many;
\* a request that is answered, one that waits behind it and one made later.
CONSTANTS
    MaxAttempts = 3
    MaxCalls = 4
    MaxRequests = 3
SPECIFICATION HttpSpec
INVARIANTS
    OneAttempt
    QueueServed
    OnceInOrder
PROPERTY StopIsFinal
\* The process may end in runAfter(), and the calls are bounded.
CHECK_DEADLOCK FALSE
