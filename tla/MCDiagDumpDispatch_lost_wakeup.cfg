\* A fast daemon, no user, prompt timing: its completion signal can be
\* sent before main waits (lost wakeup).
CONSTANTS
    Daemons = {d1, d2}
    MaxCalls = 2
    UserSignals = FALSE
    LateReplies = FALSE
    SpuriousWakeups = FALSE
SPECIFICATION Spec
INVARIANT AnsweredDaemonCounted
