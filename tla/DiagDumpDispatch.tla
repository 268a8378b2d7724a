-------------------------- MODULE DiagDumpDispatch --------------------------
(***************************************************************************)
(* The bounded dispatch unit of the diag-dump CLI                          *)
(* (src/src/cli/diag_dump_vty.c).  vtysh_diag_dump_create_thread runs one  *)
(* daemon's request on a worker thread (vtysh_diag_dump_thread, which      *)
(* calls vtysh_diag_dump_daemon), waits on gDiagDumpWaitCond with a        *)
(* deadline, and cancels the worker (asynchronous pthread_cancel, cleanup  *)
(* handler diagdump_thread_cleanup_handler) on timeout or user interrupt.  *)
(* The SIGINT, SIGTSTP and SIGALRM handlers run asynchronously on either   *)
(* thread: the signals are process-directed and neither thread blocks them.*)
(*                                                                         *)
(* Two threads are modelled, "main" (pc mpc) and "worker" (pc wpc); each   *)
(* action is one step of one of them, or one signal handler run.  Data is  *)
(* abstracted: the daemon's reply is ok or failed, and the output sink is  *)
(* a sequence of section records.                                          *)
(***************************************************************************)
EXTENDS Naturals, Sequences, DiagDumpHandler, SupportabilityUtils

CONSTANTS
    Daemons,          \* daemon names, model values
    MaxCalls,         \* how many dispatches the caller makes
    UserSignals,      \* TRUE: the user may press Ctrl-C or Ctrl-Z
    LateReplies,      \* TRUE: a reply may arrive while the deadline expires
    SpuriousWakeups   \* TRUE: pthread_cond_timedwait may return 0 unsignalled

ASSUME /\ MaxCalls \in Nat \ {0}
       /\ {UserSignals, LateReplies, SpuriousWakeups} \subseteq BOOLEAN

VARIABLES
    mpc, wpc,                     \* program counters of main and worker
    cur,                          \* daemon being dispatched (arg.daemon)
    toFile,                       \* VALID_FD_CHECK(fd): sink is a file
    err,                          \* return of pthread_cond_timedwait
    threadCancelled,              \* local of vtysh_diag_dump_create_thread
    rc,                           \* its return value
    gDiagDumpCommandFailed,
    gDiagDumpUserInterrupt,
    gDiagDumpUserInterruptAlarm,
    alarmPending,                 \* an alarm(USER_INT_ALARM) is armed
    waitMutex,                    \* owner of gDiagDumpwaitMutex
    cleanupMutex,                 \* owner of gDiagDumpCleanupMutex
    cancelPending,                \* pthread_cancel(tid) was called
    client,                       \* global 'client' points at the connection
    conn,                         \* state of this dispatch's connection
    closes,                       \* jsonrpc_close calls on it
    wres,                         \* what vtysh_diag_dump_daemon returns
    out,                          \* the sink: console or file contents
    calls                         \* dispatches made so far

\* Variable groups, so that each action names what it leaves alone.
mainLocals == <<err, threadCancelled, rc>>
flags      == <<gDiagDumpCommandFailed, gDiagDumpUserInterrupt,
               gDiagDumpUserInterruptAlarm, alarmPending>>
mutexes    == <<waitMutex, cleanupMutex>>
connVars   == <<client, conn, closes>>
workerVars == <<wpc, cancelPending, wres>>
vars == <<mpc, wpc, cur, toFile, err, threadCancelled, rc,
          gDiagDumpCommandFailed, gDiagDumpUserInterrupt,
          gDiagDumpUserInterruptAlarm, alarmPending, waitMutex, cleanupMutex,
          cancelPending, client, conn, closes, wres, out, calls>>

Threads   == {"main", "worker"}
NoOwner   == "none"
Other(t)  == IF t = "main" THEN "worker" ELSE "main"

\* Main-thread pcs inside vtysh_diag_dump_create_thread.
DispatchPcs == {"create", "lockw", "towait", "waiting", "reacq", "unlockw",
                "chkalarm", "chkerr", "lockc", "unlockc", "join", "ret"}
WorkerPcs   == {"start", "lockc", "connect", "assign", "transact", "wstart",
                "wbody", "wend", "close", "nullify", "ret", "lockw",
                "signal", "unlockw", "pop", "unlockc"}

Alive == wpc \notin {"done", "cancelled"}
\* pthread_cleanup_push has run and pthread_cleanup_pop has not.
CleanupPushed == wpc \notin {"start", "unlockc", "done", "cancelled"}

SectionKind == [wstart |-> "start", wbody |-> "body", wend |-> "end"]
SectionNext == [wstart |-> "wbody", wbody |-> "wend", wend |-> "close"]
Section(d) == <<[kind |-> "start", daemon |-> d],
                [kind |-> "body",  daemon |-> d],
                [kind |-> "end",   daemon |-> d]>>


-----------------------------------------------------------------------------
(* Main thread: vtysh_diag_dump_create_thread, lines 202-285.             *)

\* Lines 210-224: reset the failure flag, take the deadline, spawn.
CreateThread ==
    /\ mpc = "create"
    /\ gDiagDumpCommandFailed' = FALSE
    /\ threadCancelled' = TRUE
    /\ wres' = "none"
    /\ \/ /\ wpc' = "start"
          /\ cancelPending' = FALSE
          /\ conn' = "none"
          /\ closes' = 0
          /\ mpc' = "lockw"
          /\ UNCHANGED rc
       \/ /\ mpc' = "ret"                    \* pthread_create failed
          /\ rc' = 1
          /\ UNCHANGED <<wpc, cancelPending, conn, closes>>
    /\ UNCHANGED <<cur, err, gDiagDumpUserInterrupt,
                   gDiagDumpUserInterruptAlarm, alarmPending, mutexes, client>>

\* Line 225.
LockWaitMutex ==
    /\ mpc = "lockw"
    /\ waitMutex = NoOwner
    /\ waitMutex' = "main"
    /\ mpc' = "towait"
    /\ UNCHANGED <<cur, mainLocals, flags, cleanupMutex, connVars, workerVars>>

\* Line 226: pthread_cond_timedwait releases the mutex and blocks.  There is
\* no predicate to re-check: a signal sent before this step is lost.
TimedWait ==
    /\ mpc = "towait"
    /\ waitMutex' = NoOwner
    /\ mpc' = "waiting"
    /\ UNCHANGED <<cur, mainLocals, flags, cleanupMutex, connVars, workerVars>>

\* The waiter leaves the wait with return value e.
Wake(e) ==
    /\ mpc = "waiting"
    /\ mpc' = "reacq"
    /\ err' = e

\* From the deadline passing to the cancellation taking effect: a reply
\* landing in this window is a reply racing the deadline.
CancelWindow ==
    \/ cancelPending
    \/ /\ err = "ETIMEDOUT"
       /\ mpc \in {"reacq", "unlockw", "chkalarm", "chkerr"}

\* Without LateReplies a reply never lands in the instant the deadline
\* expires: the deadline passes while the worker is blocked in the
\* transaction, hung in a handler, or gone, and a daemon that has not
\* answered by then answers only after the worker is cancelled.
PromptTiming ==
    wpc \in {"transact", "stuck", "done", "cancelled"}

\* The absolute deadline (now + FUN_MAX_TIME) passes.
TimedOut ==
    /\ LateReplies \/ PromptTiming
    /\ Wake("ETIMEDOUT")
    /\ UNCHANGED <<cur, threadCancelled, rc, flags, mutexes, connVars,
                   workerVars>>

\* POSIX allows pthread_cond_timedwait to return 0 with no signal sent,
\* e.g. after a signal handler ran on the waiting thread.
SpuriousWakeup ==
    /\ SpuriousWakeups
    /\ Wake("0")
    /\ UNCHANGED <<cur, threadCancelled, rc, flags, mutexes, connVars,
                   workerVars>>

\* Line 226, return: the mutex is reacquired before timedwait returns.
ReacquireWaitMutex ==
    /\ mpc = "reacq"
    /\ waitMutex = NoOwner
    /\ waitMutex' = "main"
    /\ mpc' = "unlockw"
    /\ UNCHANGED <<cur, mainLocals, flags, cleanupMutex, connVars, workerVars>>

\* Line 227.
UnlockWaitMutex ==
    /\ mpc = "unlockw"
    /\ waitMutex' = NoOwner
    /\ mpc' = "chkalarm"
    /\ UNCHANGED <<cur, mainLocals, flags, cleanupMutex, connVars, workerVars>>

\* Lines 229-234: the Ctrl-C alarm has not fired yet: disarm it (alarm(0))
\* and do not cancel the worker.
CheckAlarm ==
    /\ mpc = "chkalarm"
    /\ IF gDiagDumpUserInterruptAlarm
       THEN /\ alarmPending' = FALSE
            /\ threadCancelled' = FALSE
            /\ gDiagDumpUserInterruptAlarm' = FALSE
       ELSE UNCHANGED <<alarmPending, threadCancelled,
                        gDiagDumpUserInterruptAlarm>>
    /\ mpc' = "chkerr"
    /\ UNCHANGED <<cur, err, rc, gDiagDumpCommandFailed,
                   gDiagDumpUserInterrupt, mutexes, connVars, workerVars>>

\* Bug variant: a timeout joins the worker without cancelling it.
CheckErrorNoCancel ==
    /\ mpc = "chkerr"
    /\ IF gDiagDumpUserInterrupt /\ threadCancelled
       THEN /\ cancelPending' = TRUE
            /\ mpc' = "lockc"
       ELSE /\ mpc' = "join"
            /\ UNCHANGED cancelPending
    /\ UNCHANGED <<cur, mainLocals, flags, mutexes, connVars, wpc, wres>>

\* Lines 236-273: pthread_cancel the worker on a timeout, or on a user
\* interrupt when threadCancelled; otherwise go straight to the join.
CheckError ==
    /\ mpc = "chkerr"
    /\ IF err = "ETIMEDOUT" \/ (gDiagDumpUserInterrupt /\ threadCancelled)
       THEN /\ cancelPending' = TRUE
            /\ mpc' = "lockc"
       ELSE /\ mpc' = "join"
            /\ UNCHANGED cancelPending
    /\ UNCHANGED <<cur, mainLocals, flags, mutexes, connVars, wpc, wres>>

\* Lines 246/264: "wait for the cleanup function to complete".
LockCleanupMutex ==
    /\ mpc = "lockc"
    /\ cleanupMutex = NoOwner
    /\ cleanupMutex' = "main"
    /\ mpc' = "unlockc"
    /\ UNCHANGED <<cur, mainLocals, flags, waitMutex, connVars, workerVars>>

\* Bug variant: the timeout path forgets gDiagDumpCommandFailed = TRUE.
UnlockCleanupMutexKeepFlag ==
    /\ mpc = "unlockc"
    /\ cleanupMutex' = NoOwner
    /\ mpc' = "join"
    /\ UNCHANGED <<cur, mainLocals, flags, waitMutex, connVars, workerVars>>

\* Lines 247-255 and 265-271: a timeout also marks the command failed.
UnlockCleanupMutex ==
    /\ mpc = "unlockc"
    /\ cleanupMutex' = NoOwner
    /\ gDiagDumpCommandFailed' = (gDiagDumpCommandFailed \/ err = "ETIMEDOUT")
    /\ mpc' = "join"
    /\ UNCHANGED <<cur, mainLocals, gDiagDumpUserInterrupt,
                   gDiagDumpUserInterruptAlarm, alarmPending, waitMutex,
                   connVars, workerVars>>

\* Lines 275-284: pthread_join, then the return value.
Join ==
    /\ mpc = "join"
    /\ ~Alive
    /\ rc' = IF gDiagDumpCommandFailed
                \/ (gDiagDumpUserInterrupt /\ threadCancelled)
             THEN 1 ELSE 0
    /\ mpc' = "ret"
    /\ UNCHANGED <<cur, err, threadCancelled, flags, mutexes, connVars,
                   workerVars>>

MainStep ==
    /\ \/ CreateThread \/ LockWaitMutex \/ TimedWait \/ ReacquireWaitMutex
       \/ UnlockWaitMutex \/ CheckAlarm \/ CheckError \/ LockCleanupMutex
       \/ UnlockCleanupMutex \/ Join
    /\ UNCHANGED <<toFile, out, calls>>

-----------------------------------------------------------------------------
(* Worker: vtysh_diag_dump_thread (lines 147-186) and the call it makes,  *)
(* vtysh_diag_dump_daemon (lines 850-998).                                *)

\* Lines 161-171: cancel state ENABLE, type ASYNCHRONOUS, then
\* pthread_cleanup_push(diagdump_thread_cleanup_handler).
WorkerStart ==
    /\ wpc = "start"
    /\ wpc' = "lockc"
    /\ UNCHANGED <<mpc, cur, mainLocals, flags, mutexes, connVars,
                   cancelPending, wres>>

\* Line 172.
WorkerLockCleanup ==
    /\ wpc = "lockc"
    /\ cleanupMutex = NoOwner
    /\ cleanupMutex' = "worker"
    /\ wpc' = "connect"
    /\ UNCHANGED <<mpc, cur, mainLocals, flags, waitMutex, connVars,
                   cancelPending, wres>>

\* Line 890, connect_to_daemon (supportability_utils.c 371-424): the
\* socket is opened before the global 'client' is assigned.  It fails
\* when neither control socket nor pid file is usable.
ConnectToDaemon ==
    /\ wpc = "connect"
    /\ \E env \in RunDirs :
          IF connect_to_daemon(cur, env)
          THEN /\ conn' = "open"
               /\ wpc' = "assign"
               /\ UNCHANGED wres
          ELSE /\ wres' = "fail"                     \* lines 890-894
               /\ wpc' = "ret"
               /\ UNCHANGED conn
    /\ UNCHANGED <<mpc, cur, mainLocals, flags, mutexes, client, closes,
                   cancelPending>>

\* Line 890: client = connect_to_daemon(daemon).
AssignClient ==
    /\ wpc = "assign"
    /\ client' = TRUE
    /\ wpc' = "transact"
    /\ UNCHANGED <<mpc, cur, mainLocals, flags, mutexes, conn, closes,
                   cancelPending, wres>>

\* The request of vtysh_diag_dump_daemon (lines 896-905): the command
\* DIAG_DUMP_BASIC_CMD with fun_argv = {"basic", feature} (lines 607-608),
\* which the daemon's unixctl server hands on behind the command name.  A
\* feature name that the lookup matched is a non-empty CLI token of at
\* most FEATURE_SIZE (30) characters, the length strndup keeps.
DaemonRequest(n) ==
    <<Str(DIAG_DUMP_BASIC_CMD, 13), Str(DIAG_BASIC, 5), Str("feature", n)>>
FeatureNameLens == {1, 30}

\* Lines 904-922 and 975-984: unixctl_client_transact blocks until the
\* daemon answers; it may never answer.  A non-zero rc (the connection
\* failed) goes to the close; so does a cmd_error, after nothing is
\* written.  A result is written out as a section first.  The daemon
\* answers with diag_handler_cb, whose callback may leave no buffer.
Transact ==
    /\ wpc = "transact"
    /\ LateReplies \/ ~CancelWindow
    /\ \/ /\ wres' = "fail"
          /\ wpc' = "close"
       \/ \E buf \in {Str("data", 4), HNULL}, n \in FeatureNameLens :
             LET reply == diag_handler_cb(3, DaemonRequest(n), buf) IN
             /\ Registered(3)
             /\ wres' = IF reply.kind = "result" THEN "ok" ELSE "fail"
             /\ wpc'  = IF reply.kind = "result" THEN "wstart" ELSE "close"
    /\ UNCHANGED <<mpc, cur, mainLocals, flags, mutexes, connVars,
                   cancelPending>>

\* Bug variant: a failed write() is ignored and the section goes on.
WriteSectionIgnoreError ==
    /\ wpc \in DOMAIN SectionKind
    /\ \/ /\ out' = Append(out, [kind |-> SectionKind[wpc], daemon |-> cur])
       \/ /\ toFile
          /\ UNCHANGED out
    /\ wpc' = SectionNext[wpc]
    /\ UNCHANGED <<mpc, cur, mainLocals, flags, mutexes, connVars,
                   cancelPending, wres>>

\* Lines 925-973: the "[Start] Daemon", result and "[End] Daemon" parts of
\* the section; vty_out to the console cannot fail, a write() to the file
\* can (WRITE_ERR_HANDLE_LOG_DAEMON, lines 856-869).
WriteSection ==
    /\ wpc \in DOMAIN SectionKind
    /\ \/ /\ out' = Append(out, [kind |-> SectionKind[wpc], daemon |-> cur])
          /\ wpc' = SectionNext[wpc]
          /\ UNCHANGED wres
       \/ /\ toFile
          /\ wres' = "fail"
          /\ wpc' = "close"
          /\ UNCHANGED out
    /\ UNCHANGED <<mpc, cur, mainLocals, flags, mutexes, connVars,
                   cancelPending>>

\* Lines 917/981/989 (and 864): jsonrpc_close(client).
CloseClient ==
    /\ wpc = "close"
    /\ conn' = "closed"
    /\ closes' = closes + 1
    /\ wpc' = "nullify"
    /\ UNCHANGED <<mpc, cur, mainLocals, flags, mutexes, client,
                   cancelPending, wres>>

\* Lines 918/982/990 (and 865): client = NULL.
NullifyClient ==
    /\ wpc = "nullify"
    /\ client' = FALSE
    /\ wpc' = "ret"
    /\ UNCHANGED <<mpc, cur, mainLocals, flags, mutexes, conn, closes,
                   cancelPending, wres>>

\* Lines 174-175.
WorkerReturn ==
    /\ wpc = "ret"
    /\ gDiagDumpCommandFailed' = (gDiagDumpCommandFailed \/ wres = "fail")
    /\ wpc' = "lockw"
    /\ UNCHANGED <<mpc, cur, mainLocals, gDiagDumpUserInterrupt,
                   gDiagDumpUserInterruptAlarm, alarmPending, mutexes,
                   connVars, cancelPending, wres>>

\* Line 177.
WorkerLockWait ==
    /\ wpc = "lockw"
    /\ waitMutex = NoOwner
    /\ waitMutex' = "worker"
    /\ wpc' = "signal"
    /\ UNCHANGED <<mpc, cur, mainLocals, flags, cleanupMutex, connVars,
                   cancelPending, wres>>

\* pthread_cond_signal(&gDiagDumpWaitCond): wakes main only if it waits.
SignalWaiter ==
    IF mpc = "waiting" THEN mpc' = "reacq" /\ err' = "0"
                       ELSE UNCHANGED <<mpc, err>>

\* Line 178.
WorkerSignal ==
    /\ wpc = "signal"
    /\ SignalWaiter
    /\ wpc' = "unlockw"
    /\ UNCHANGED <<cur, threadCancelled, rc, flags, mutexes, connVars,
                   cancelPending, wres>>

\* Line 182.
WorkerUnlockWait ==
    /\ wpc = "unlockw"
    /\ waitMutex' = NoOwner
    /\ wpc' = "pop"
    /\ UNCHANGED <<mpc, cur, mainLocals, flags, cleanupMutex, connVars,
                   cancelPending, wres>>

\* Line 183: pthread_cleanup_pop(0).
CleanupPop ==
    /\ wpc = "pop"
    /\ wpc' = "unlockc"
    /\ UNCHANGED <<mpc, cur, mainLocals, flags, mutexes, connVars,
                   cancelPending, wres>>

\* Lines 184-185.
WorkerUnlockCleanup ==
    /\ wpc = "unlockc"
    /\ cleanupMutex' = NoOwner
    /\ wpc' = "done"
    /\ UNCHANGED <<mpc, cur, mainLocals, flags, waitMutex, connVars,
                   cancelPending, wres>>

\* Asynchronous cancellation takes effect at an arbitrary instruction of
\* the worker.  With the handler pushed, diagdump_thread_cleanup_handler
\* (lines 134-141) closes whatever 'client' points at, clears it and
\* unlocks gDiagDumpCleanupMutex, whoever holds it.  A gDiagDumpwaitMutex
\* the worker holds stays locked.
ActOnCancel ==
    /\ cancelPending
    /\ Alive
    /\ IF CleanupPushed
       THEN /\ closes' = IF client THEN closes + 1 ELSE closes
            /\ conn' = IF client THEN "closed" ELSE conn
            /\ client' = FALSE
            /\ cleanupMutex' = NoOwner
       ELSE UNCHANGED <<connVars, cleanupMutex>>
    /\ wpc' = "cancelled"
    /\ UNCHANGED <<mpc, cur, mainLocals, flags, waitMutex, cancelPending,
                   wres>>

\* Every worker step but the transaction, which waits on the daemon.
WorkerStep ==
    \/ WriteSection
    \/ /\ \/ WorkerStart \/ WorkerLockCleanup \/ ConnectToDaemon
          \/ AssignClient \/ CloseClient \/ NullifyClient \/ WorkerReturn
          \/ WorkerLockWait \/ WorkerSignal \/ WorkerUnlockWait
          \/ CleanupPop \/ WorkerUnlockCleanup \/ ActOnCancel
       /\ UNCHANGED out
    /\ UNCHANGED <<toFile, calls>>

-----------------------------------------------------------------------------
(* Signal handlers, lines 287-339.  A handler runs on thread t, either    *)
(* live thread.  A handler that locks gDiagDumpwaitMutex while the other  *)
(* thread holds it waits for the release (it runs once the mutex is free);*)
(* if t itself holds it, t deadlocks ("stuck") inside the handler.        *)

CanRunHandler(t) ==
    IF t = "main" THEN mpc # "stuck" ELSE Alive /\ wpc # "stuck"

\* dd_mutex_lock(&gDiagDumpwaitMutex); pthread_cond_signal; unlock.
HandlerSignalsCond(t) ==
    /\ waitMutex # Other(t)
    /\ IF waitMutex = t
       THEN IF t = "main" THEN mpc' = "stuck" /\ UNCHANGED <<wpc, err>>
                          ELSE wpc' = "stuck" /\ UNCHANGED <<mpc, err>>
       ELSE SignalWaiter /\ UNCHANGED wpc

\* diagdump_signal_handler (Ctrl-C), lines 303-321: flag the interrupt
\* and arm a USER_INT_ALARM-second alarm.  A second Ctrl-C is a no-op.
SigIntHandler ==
    /\ UserSignals
    /\ ~gDiagDumpUserInterrupt
    /\ gDiagDumpUserInterrupt' = TRUE
    /\ gDiagDumpUserInterruptAlarm' = TRUE
    /\ alarmPending' = (alarmPending \/ ~gDiagDumpUserInterruptAlarm)
    /\ UNCHANGED <<mpc, cur, mainLocals, gDiagDumpCommandFailed, mutexes,
                   connVars, workerVars>>

\* diagdump_Zsignal_handler (Ctrl-Z), lines 328-339.
SigTstpHandler(t) ==
    /\ UserSignals
    /\ CanRunHandler(t)
    /\ ~gDiagDumpUserInterrupt
    /\ gDiagDumpUserInterrupt' = TRUE
    /\ HandlerSignalsCond(t)
    /\ UNCHANGED <<cur, threadCancelled, rc, gDiagDumpCommandFailed,
                   gDiagDumpUserInterruptAlarm, alarmPending, mutexes,
                   connVars, cancelPending, wres>>

\* diagdump_user_interrupt_handler (SIGALRM), lines 291-297.
SigAlrmHandler(t) ==
    /\ alarmPending
    /\ CanRunHandler(t)
    /\ alarmPending' = FALSE
    /\ HandlerSignalsCond(t)
    /\ gDiagDumpUserInterruptAlarm' =
           IF waitMutex = t THEN gDiagDumpUserInterruptAlarm ELSE FALSE
    /\ UNCHANGED <<cur, threadCancelled, rc, gDiagDumpCommandFailed,
                   gDiagDumpUserInterrupt, mutexes, connVars, cancelPending,
                   wres>>

AlarmFires ==
    /\ \E t \in Threads : SigAlrmHandler(t)
    /\ UNCHANGED <<toFile, out, calls>>

SignalStep ==
    \/ (SigIntHandler \/ \E t \in Threads : SigTstpHandler(t))
          /\ UNCHANGED <<toFile, out, calls>>
    \/ AlarmFires

-----------------------------------------------------------------------------
(* The caller: the daemon loop of vtysh_diag_dump_show (lines 711-722)    *)
(* reduced to "dispatch some daemon, MaxCalls times".                      *)

\* Bug variant: the loop does not stop at the end of the daemon list.
CallDispatchUnbounded ==
    /\ mpc = "idle"
    /\ \E d \in Daemons : cur' = d
    /\ calls' = calls + 1
    /\ mpc' = "create"
    /\ UNCHANGED <<mainLocals, flags, mutexes, connVars, workerVars, toFile,
                   out>>

CallDispatch ==
    /\ mpc = "idle"
    /\ calls < MaxCalls
    /\ \E d \in Daemons : cur' = d
    /\ calls' = calls + 1
    /\ mpc' = "create"
    /\ UNCHANGED <<mainLocals, flags, mutexes, connVars, workerVars, toFile,
                   out>>

DispatchReturned ==
    /\ mpc = "ret"
    /\ mpc' = "idle"
    /\ UNCHANGED <<cur, mainLocals, flags, mutexes, connVars, workerVars,
                   toFile, out, calls>>

Finished ==
    /\ mpc = "idle"
    /\ calls = MaxCalls
    /\ ~Alive
    /\ UNCHANGED vars

Init ==
    /\ mpc = "idle"
    /\ wpc = "done"
    /\ cur = CHOOSE d \in Daemons : TRUE
    /\ toFile \in BOOLEAN
    /\ err = "0"
    /\ threadCancelled = TRUE
    /\ rc = 0
    /\ gDiagDumpCommandFailed = FALSE
    /\ gDiagDumpUserInterrupt = FALSE
    /\ gDiagDumpUserInterruptAlarm = FALSE
    /\ alarmPending = FALSE
    /\ waitMutex = NoOwner
    /\ cleanupMutex = NoOwner
    /\ cancelPending = FALSE
    /\ client = FALSE
    /\ conn = "none"
    /\ closes = 0
    /\ wres = "none"
    /\ out = <<>>
    /\ calls = 0

DaemonAnswers == Transact /\ UNCHANGED <<toFile, out, calls>>
Deadline      == TimedOut /\ UNCHANGED <<toFile, out, calls>>
Spurious      == SpuriousWakeup /\ UNCHANGED <<toFile, out, calls>>

\* One step of the dispatch unit: main, worker, daemon, clock or a signal.
DispatchStep ==
    MainStep \/ WorkerStep \/ DaemonAnswers \/ Deadline \/ Spurious \/ SignalStep

Next ==
    \/ CallDispatch
    \/ DispatchReturned
    \/ DispatchStep
    \/ Finished

Spec == Init /\ [][Next]_vars

\* Both threads are scheduled, the deadline and an armed alarm fire, the
\* caller goes on.  The daemon (Transact) and the user are not fair.
FairSpec ==
    /\ Spec
    /\ WF_vars(CallDispatch) /\ WF_vars(DispatchReturned)
    /\ WF_vars(MainStep) /\ WF_vars(WorkerStep)
    /\ WF_vars(Deadline) /\ WF_vars(AlarmFires)

-----------------------------------------------------------------------------
(* Properties.                                                             *)

TypeOK ==
    /\ mpc \in {"idle", "stuck"} \cup DispatchPcs
    /\ wpc \in {"done", "cancelled", "stuck"} \cup WorkerPcs
    /\ cur \in Daemons
    /\ toFile \in BOOLEAN
    /\ err \in {"0", "ETIMEDOUT"}
    /\ threadCancelled \in BOOLEAN
    /\ rc \in {0, 1}
    /\ {gDiagDumpCommandFailed, gDiagDumpUserInterrupt,
        gDiagDumpUserInterruptAlarm, alarmPending} \subseteq BOOLEAN
    /\ {waitMutex, cleanupMutex} \subseteq Threads \cup {NoOwner}
    /\ cancelPending \in BOOLEAN
    /\ client \in BOOLEAN
    /\ conn \in {"none", "open", "closed"}
    /\ closes \in 0..2
    /\ wres \in {"none", "ok", "fail"}
    /\ out \in Seq([kind : {"start", "body", "end"}, daemon : Daemons])
    /\ calls \in 0..MaxCalls

\* A dispatch that returns 0 (counted in daemon_resp) has written the
\* daemon's whole section as the last thing in the sink: a worker cancelled
\* half-way through its section is never counted as responded.
ReturnedZeroMeansDumped ==
    (mpc = "ret" /\ rc = 0) =>
        /\ Len(out) >= 3
        /\ SubSeq(out, Len(out) - 2, Len(out)) = Section(cur)

\* The connection of a dispatch is closed by exactly one path: never by
\* both the worker and diagdump_thread_cleanup_handler, never by neither.
ConnectionClosedExactlyOnce ==
    /\ closes <= 1
    /\ mpc = "ret" => conn # "open"

\* A mutex is never left locked by a worker that no longer runs: a
\* cancelled worker must not take gDiagDumpwaitMutex or
\* gDiagDumpCleanupMutex with it, or the next lock of it hangs.
NoOrphanedMutex ==
    \A m \in {waitMutex, cleanupMutex} : m = "worker" => Alive

\* No thread deadlocks on gDiagDumpwaitMutex inside a signal handler.
NoSelfDeadlock ==
    mpc # "stuck" /\ wpc # "stuck"

\* Spec 4.2 step 3: a daemon that answered, whose section was written and
\* whose worker ran to completion, is counted as responded (rc = 0) when
\* the user did not interrupt.
AnsweredDaemonCounted ==
    (mpc = "ret" /\ wpc = "done" /\ wres = "ok" /\ ~gDiagDumpUserInterrupt)
        => rc = 0

\* Every dispatch returns: by the worker's answer, the deadline or the
\* interrupt, never hanging the CLI.
DispatchReturns ==
    (mpc = "create") ~> (mpc = "ret")
-----------------------------------------------------------------------------
(* Refinement: a dispatch implements DiagDumpAbstract.  The caller sees    *)
(* the dispatch busy from CallDispatch until main reaches "ret"; the sink, *)
(* the daemon, the return value and the call count are the same.           *)

DispatchPhase ==
    CASE mpc = "idle" -> "idle"
      [] mpc = "ret"  -> "ret"
      [] OTHER        -> "busy"

Abstract == INSTANCE DiagDumpAbstract WITH phase <- DispatchPhase

\* The dump a dispatch leaves is what its caller may assume: only the
\* dispatched daemon's section, its records in order and written only
\* while the dispatch runs, and a return of 0 only with that section
\* complete, whatever the signals, cancellation points and write errors.
DispatchRefinesAbstract == Abstract!ASpec
=============================================================================
