\* No user, prompt timing (a reply never races the deadline), no spurious
\* wakeups: the conditions under which every dispatch must return and its
\* connection be closed once.
CONSTANTS
    Daemons = {d1, d2}
    MaxCalls = 2
    UserSignals = FALSE
    LateReplies = FALSE
    SpuriousWakeups = FALSE
SPECIFICATION FairSpec
PROPERTY DispatchReturns
