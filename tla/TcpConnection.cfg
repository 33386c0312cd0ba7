\* Two messages of two bytes: partial writes, a buffered message behind a
\* half-sent one, and a high water mark that is passed.  One caller besides
\* the loop thread, which answers in messageCallback_.
CONSTANTS
    Callers = {t1}
    MaxSends = 2
    MsgLen = 2
    HighWaterMark = 2
SPECIFICATION FairSpec
INVARIANTS StreamIntact WriteInterest FinAfterData NoDanglingChannel OneDown RawFunctorsAlive
PROPERTIES Flushed ShutdownCompletes ClosedIsDestroyed
CHECK_DEADLOCK FALSE
