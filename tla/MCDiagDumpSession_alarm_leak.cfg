\* A Ctrl-C after the wait of the last dispatch leaves the alarm armed.
CONSTANTS
    Daemons = {d1, d2}
    UserSignals = TRUE
    LateReplies = FALSE
    SpuriousWakeups = FALSE
SPECIFICATION Spec
INVARIANT AlarmNotLeaked
CHECK_DEADLOCK FALSE
