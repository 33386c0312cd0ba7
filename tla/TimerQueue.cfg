\* Two addresses for three timers, so that one is used again; a timer that is
\* due at once or never valid, one that is due last, with and without repetition.
CONSTANTS
    Scale = 2
    MinDelay = 1
    Pointers = {1, 2}
    Whens = {0, 2}
    Intervals = {0, 1}
    MaxTimers = 3
    MaxCancels = 2
    MaxTime = 4
SPECIFICATION Spec
INVARIANTS
    Armed
    OneOwner
    CancelIsFinal
\* The calls and the time are bounded, and the queue may be destroyed.
CHECK_DEADLOCK FALSE
