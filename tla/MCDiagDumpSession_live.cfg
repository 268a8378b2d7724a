\* No user signals, replies never race the deadline, no spurious wakeups;
\* the file may go into error.  Every command returns.
CONSTANTS
    Daemons = {d1, d2}
    UserSignals = FALSE
    LateReplies = FALSE
    SpuriousWakeups = FALSE
SPECIFICATION FairSpec
PROPERTY SessionTerminates
