\* Everything on: Ctrl-C/Ctrl-Z on either thread, late replies, spurious
\* wakeups.  The hangs this configuration reaches (a thread stuck in a
\* handler, a mutex left locked by a cancelled worker) are terminal states,
\* reported by the NoSelfDeadlock and NoOrphanedMutex runs; here deadlock
\* is not checked so that the invariants are checked across them.
CONSTANTS
    Daemons = {d1, d2}
    MaxCalls = 2
    UserSignals = TRUE
    LateReplies = TRUE
    SpuriousWakeups = TRUE
SPECIFICATION Spec
SYMMETRY DaemonSymmetry
INVARIANT TypeOK
INVARIANT ReturnedZeroMeansDumped
PROPERTY DispatchRefinesAbstract
CHECK_DEADLOCK FALSE
