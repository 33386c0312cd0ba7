\* Three tasks for three workers: one runs, one is queued, one is dropped or
\* finds a worker asleep, waking, timing out or just leaving.
CONSTANTS
    Workers = {w1, w2, w3}
    MaxSubmits = 3
    Limits <- MCLimits
SPECIFICATION FairSpec
INVARIANTS TypeOK NoIdleWhileQueued FinishedJoinable
PROPERTIES TasksRun DestructorReturns
CHECK_DEADLOCK FALSE
