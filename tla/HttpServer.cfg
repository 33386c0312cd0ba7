\* Three requests: one with a body before one without, and one after a close.
CONSTANTS
    Kinds <- MCKinds
    MaxRequests = 3
SPECIFICATION Spec
INVARIANT RequestsAsSent
PROPERTY Answered
CHECK_DEADLOCK FALSE
