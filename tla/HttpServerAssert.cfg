\* A request line whose version is not known, in two pieces or followed by
\* anything else.
CONSTANTS
    Kinds <- MCKinds
    MaxRequests = 2
SPECIFICATION Spec
INVARIANT MethodUnset
CHECK_DEADLOCK FALSE
