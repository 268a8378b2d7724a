\* A reply racing the deadline: the timeout cancels a worker while it
\* holds a mutex.
CONSTANTS
    Daemons = {d1, d2}
    MaxCalls = 2
    UserSignals = FALSE
    LateReplies = TRUE
    SpuriousWakeups = FALSE
SPECIFICATION Spec
INVARIANT NoOrphanedMutex
