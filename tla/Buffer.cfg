\* Small sizes with every proportion of the free space in front, the free
\* space behind, what is appended and what overflows into extrabuf.
CONSTANTS
    Byte = {0, 1}
    Zero = 0
    kCheapPrepend = 1
    kInitialSize = 2
    ExtraSize = 2
    MaxData = 4
    Data <- MCData
    MaxSize = 8
SPECIFICATION Spec
INVARIANT TypeOK
PROPERTY ActsAsQueue
