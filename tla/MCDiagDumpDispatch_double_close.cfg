\* A reply racing the deadline: the timeout cancels a worker that is
\* closing its connection.
CONSTANTS
    Daemons = {d1, d2}
    MaxCalls = 2
    UserSignals = FALSE
    LateReplies = TRUE
    SpuriousWakeups = FALSE
SPECIFICATION Spec
INVARIANT ConnectionClosedExactlyOnce
