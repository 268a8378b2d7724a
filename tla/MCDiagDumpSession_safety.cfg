\* A feature with one to three daemons, each enabled or not, to the console
\* or a file; Ctrl-C/Ctrl-Z, SIGALRM, replies racing the deadline,
\* spurious wakeups and a file going into error all possible.  A thread
\* may deadlock in a signal handler (run handler_deadlock of
\* MCDiagDumpDispatch), so deadlock is not checked here.
CONSTANTS
    Daemons = {d1, d2, d3}
    UserSignals = TRUE
    LateReplies = TRUE
    SpuriousWakeups = TRUE
SPECIFICATION Spec
SYMMETRY DaemonSymmetry
INVARIANT TypeOK
INVARIANT RespondedHaveSections
INVARIANT CapturedMeansAllDumped
PROPERTY SessionRefinesRun
CHECK_DEADLOCK FALSE
