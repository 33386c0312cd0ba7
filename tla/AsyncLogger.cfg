\* An entry of the buffer's size fills it, a larger one queues an empty buffer,
\* and five entries queue more buffers than one batch takes.
CONSTANTS
    MaxLogs = 5
    BufferSize = 2
    Sizes = {1, 2, 3}
    Batch = 2
SPECIFICATION LogFairSpec
INVARIANT WrittenInOrder
PROPERTIES EventuallyWritten StopReturns
CHECK_DEADLOCK FALSE
