\* Ctrl-C during a dump to a file that goes into error; replies never
\* race the deadline and there are no spurious wakeups.  A thread may
\* deadlock in a signal handler (run handler_deadlock of
\* MCDiagDumpDispatch), so deadlock is not checked here.
CONSTANTS
    Daemons = {d1, d2}
    UserSignals = TRUE
    LateReplies = FALSE
    SpuriousWakeups = FALSE
SPECIFICATION FairSpec
PROPERTY InterruptBlockExits
CHECK_DEADLOCK FALSE
