\* Ctrl-Z or the Ctrl-C alarm delivered while a thread holds
\* gDiagDumpwaitMutex.
CONSTANTS
    Daemons = {d1, d2}
    MaxCalls = 2
    UserSignals = TRUE
    LateReplies = FALSE
    SpuriousWakeups = FALSE
SPECIFICATION Spec
INVARIANT NoSelfDeadlock
