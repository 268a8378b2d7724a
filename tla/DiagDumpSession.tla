-------------------------- MODULE DiagDumpSession --------------------------
(***************************************************************************)
(* One "diag-dump FEATURE basic [FILENAME]" command: vtysh_diag_dump_show *)
(* (src/src/cli/diag_dump_vty.c 501-833) driving the bounded dispatch of  *)
(* DiagDumpDispatch once per enabled daemon of the feature.               *)
(*                                                                         *)
(* The dispatch module is instantiated with its variables; its caller     *)
(* (CallDispatch) is replaced by the daemon loop below.  The session's    *)
(* pc is spc, named after the code's blocks and labels.  The feature's    *)
(* daemon list is what get_feature_mapping yields (FeatureMapping checks  *)
(* how it is built).  File writes fail once the file is in error (ENOSPC, *)
(* EIO): ioError, once set, stays set.  A write made in three write()     *)
(* calls (e.g. "====", "[Start] Feature", "====") is one record and one   *)
(* step: each of the calls jumps to the same label on failure.            *)
(***************************************************************************)
EXTENDS Integers, Sequences, FiniteSets

CONSTANTS Daemons, UserSignals, LateReplies, SpuriousWakeups

VARIABLES
    mpc, wpc, cur, toFile, err, threadCancelled, rc,
    gDiagDumpCommandFailed, gDiagDumpUserInterrupt,
    gDiagDumpUserInterruptAlarm, alarmPending, waitMutex, cleanupMutex,
    cancelPending, client, conn, closes, wres, out

VARIABLES
    spc,            \* where vtysh_diag_dump_show is
    lookup,         \* get_feature_mapping / lookup: nohead, notfound, found
    daemons,        \* iter->p_daemon chain: <<name, diag_flag>> records
    fileArg,        \* argc >= 2
    idx,            \* iter_daemon, as a position in daemons
    daemon_count, daemon_resp, return_val,
    fd,             \* none, open or closed
    ioError,        \* the file's writes fail
    installed,      \* the diag-dump signal handlers are installed
    msgs,           \* console status lines
    intDuring       \* daemon being dispatched when the interrupt came

D == INSTANCE DiagDumpDispatch WITH calls <- 0, MaxCalls <- 1

dispatchVars == <<mpc, wpc, cur, toFile, err, threadCancelled, rc,
                  gDiagDumpCommandFailed, gDiagDumpUserInterrupt,
                  gDiagDumpUserInterruptAlarm, alarmPending, waitMutex,
                  cleanupMutex, cancelPending, client, conn, closes, wres, out>>
sessionVars == <<spc, lookup, daemons, fileArg, idx, daemon_count,
                 daemon_resp, return_val, fd, ioError, installed, msgs, intDuring>>
vars == <<dispatchVars, sessionVars>>

mainLocals == <<err, threadCancelled, rc>>
flags      == <<gDiagDumpCommandFailed, gDiagDumpUserInterrupt,
               gDiagDumpUserInterruptAlarm, alarmPending>>
mutexes    == <<waitMutex, cleanupMutex>>
connVars   == <<client, conn, closes>>
\* The dispatch state other than the main pc, the sink and the flags.
others == <<wpc, cur, mainLocals, mutexes, connVars, cancelPending,
            wres>>

NoDaemon == "-"
Frame(k) == [kind |-> k, daemon |-> NoDaemon]
Enabled(i) == i \in DOMAIN daemons /\ daemons[i][2] = "ENABLE"

\* A file write: it fails (setting return_val and going to USER_INTERRUPT)
\* once the file is in error, or now.  Console output cannot fail.
FileWrite(rec, next) ==
    \/ /\ ~toFile \/ ~ioError
       /\ out' = Append(out, rec)
       /\ spc' = next
       /\ UNCHANGED <<ioError, return_val>>
    \/ /\ toFile
       /\ ioError' = TRUE
       /\ return_val' = "CMD_WARNING"
       /\ spc' = "USER_INTERRUPT"
       /\ UNCHANGED out

-----------------------------------------------------------------------------
(* vtysh_diag_dump_show.                                                   *)

\* Lines 550-610: reset the globals, install the SIGINT, SIGALRM and
\* SIGTSTP handlers, get the feature table.
Start ==
    /\ spc = "init"
    /\ gDiagDumpUserInterrupt' = FALSE
    /\ gDiagDumpUserInterruptAlarm' = FALSE
    /\ installed' = TRUE
    /\ spc' = "lookup"
    /\ UNCHANGED <<mpc, others, toFile, out, gDiagDumpCommandFailed,
                   alarmPending, lookup, daemons, fileArg, idx, daemon_count,
                   daemon_resp, return_val, fd, ioError, msgs,
                   intDuring>>

\* Lines 611-626 and 749-755: no table or no such feature is a warning.
Lookup ==
    /\ spc = "lookup"
    /\ IF lookup = "found"
       THEN /\ spc' = IF fileArg THEN "open" ELSE "header"
            /\ UNCHANGED <<msgs, return_val>>
       ELSE /\ spc' = "EXIT_FUN"
            /\ msgs' = Append(msgs, lookup)
            /\ return_val' = "CMD_WARNING"
    /\ UNCHANGED <<dispatchVars, lookup, daemons, fileArg, idx, daemon_count,
                   daemon_resp, fd, ioError, installed, intDuring>>

\* What vtysh_diag_check_crete_dir meets at DIAG_DUMP_DIR: what stat
\* finds (a directory, a regular file, something else, nothing (ENOENT),
\* or another error), and whether unlink, mkdir and chmod succeed.
DirStates ==
    LET fs(st, u, m, c) == [stat |-> st, unlinkOk |-> u, mkdirOk |-> m,
                            chmodOk |-> c]
    IN { fs("dir", TRUE, TRUE, TRUE),
         fs("reg", TRUE, TRUE, TRUE), fs("reg", FALSE, TRUE, TRUE),
         fs("other", TRUE, TRUE, TRUE),
         fs("ENOENT", TRUE, TRUE, TRUE), fs("ENOENT", TRUE, FALSE, TRUE),
         fs("ENOENT", TRUE, TRUE, FALSE),
         fs("EACCES", TRUE, TRUE, TRUE) }

\* mkdir(dir, ACCESSPERMS), then chmod if it succeeded.
MkdirChmod(fs) == IF fs.mkdirOk /\ fs.chmodOk THEN 0 ELSE -1

\* vtysh_diag_check_crete_dir (lines 383-436); dir is never NULL.  A
\* regular file in the way is unlinked and replaced by the directory.
vtysh_diag_check_crete_dir(fs) ==
    CASE fs.stat = "dir"    -> 0
      [] fs.stat = "reg"    -> IF fs.unlinkOk THEN MkdirChmod(fs) ELSE 1
      [] fs.stat = "other"  -> 1
      [] fs.stat = "ENOENT" -> MkdirChmod(fs)
      [] OTHER              -> -1

\* Lines 628-665: validate_cli_args, vtysh_diag_check_crete_dir and
\* open(O_CREAT|O_EXCL|O_WRONLY); any of them failing is a warning (an
\* existing file is never opened).  Whether the name matches
\* DIAG_FILE_NAME_REGEX, a pattern regcomp accepts, and whether open
\* succeeds are inputs.
OpenFile ==
    /\ spc = "open"
    /\ \E matches \in BOOLEAN, fs \in DirStates, opened \in BOOLEAN :
          IF /\ D!validate_cli_args("FILENAME", "DIAG_FILE_NAME_REGEX",
                                    TRUE, matches) = 0
             /\ vtysh_diag_check_crete_dir(fs) = 0
             /\ opened
          THEN /\ fd' = "open"
               /\ toFile' = TRUE
               /\ spc' = "header"
               /\ UNCHANGED return_val
          ELSE /\ spc' = "EXIT_FUN"
               /\ return_val' = "CMD_WARNING"
               /\ UNCHANGED <<fd, toFile>>
    /\ UNCHANGED <<mpc, others, out, flags, lookup, daemons, fileArg, idx,
                   daemon_count, daemon_resp, ioError, installed, msgs,
                   intDuring>>

\* Writes of the session itself; they leave the dispatch state alone.
SessionWrite(rec, next) ==
    /\ FileWrite(rec, next)
    /\ UNCHANGED <<mpc, others, toFile, flags, lookup, daemons, fileArg,
                   idx, daemon_count, daemon_resp, fd, installed, msgs,
                   intDuring>>

\* Lines 667-694: the "[Start] Feature" header.
Header == spc = "header" /\ SessionWrite(Frame("fbegin"), "loop")

\* Mutants of the loop: the list walk running one step past its end, the
\* skip not advancing iter_daemon.
LoopPastEnd ==
    /\ spc = "loop"
    /\ idx <= Len(daemons) + 1
    /\ IF ~Enabled(idx)
       THEN /\ idx' = idx + 1
            /\ UNCHANGED <<spc, daemon_count, mpc, cur>>
       ELSE /\ daemon_count' = daemon_count + 1
            /\ IF gDiagDumpUserInterrupt
               THEN /\ spc' = "USER_INTERRUPT"
                    /\ UNCHANGED <<mpc, cur>>
               ELSE /\ spc' = "dispatch"
                    /\ mpc' = "create"
                    /\ cur' = daemons[idx][1]
            /\ UNCHANGED idx
    /\ UNCHANGED <<wpc, mainLocals, mutexes, connVars, cancelPending,
                   wres, toFile, out, flags, lookup, daemons, fileArg,
                   daemon_resp, return_val, fd, ioError, installed, msgs,
                   intDuring>>

LoopNoAdvance ==
    /\ spc = "loop"
    /\ idx <= Len(daemons)
    /\ IF ~Enabled(idx)
       THEN UNCHANGED <<idx, spc, daemon_count, mpc, cur>>
       ELSE /\ daemon_count' = daemon_count + 1
            /\ IF gDiagDumpUserInterrupt
               THEN /\ spc' = "USER_INTERRUPT"
                    /\ UNCHANGED <<mpc, cur>>
               ELSE /\ spc' = "dispatch"
                    /\ mpc' = "create"
                    /\ cur' = daemons[idx][1]
            /\ UNCHANGED idx
    /\ UNCHANGED <<wpc, mainLocals, mutexes, connVars, cancelPending,
                   wres, toFile, out, flags, lookup, daemons, fileArg,
                   daemon_resp, return_val, fd, ioError, installed, msgs,
                   intDuring>>

\* Mutant: the interrupt test before the dispatch dropped.
LoopIgnoreInterrupt ==
    /\ spc = "loop"
    /\ idx <= Len(daemons)
    /\ IF ~Enabled(idx)
       THEN /\ idx' = idx + 1
            /\ UNCHANGED <<spc, daemon_count, mpc, cur>>
       ELSE /\ daemon_count' = daemon_count + 1
            /\ spc' = "dispatch"
            /\ mpc' = "create"
            /\ cur' = daemons[idx][1]
            /\ UNCHANGED idx
    /\ UNCHANGED <<wpc, mainLocals, mutexes, connVars, cancelPending,
                   wres, toFile, out, flags, lookup, daemons, fileArg,
                   daemon_resp, return_val, fd, ioError, installed, msgs,
                   intDuring>>

\* Lines 696-709: skip a DISABLE daemon; count an enabled one, then leave
\* for USER_INTERRUPT if the user interrupted, else dispatch it.
Loop ==
    /\ spc = "loop"
    /\ idx <= Len(daemons)
    /\ IF ~Enabled(idx)
       THEN /\ idx' = idx + 1
            /\ UNCHANGED <<spc, daemon_count, mpc, cur>>
       ELSE /\ daemon_count' = daemon_count + 1
            /\ IF gDiagDumpUserInterrupt
               THEN /\ spc' = "USER_INTERRUPT"
                    /\ UNCHANGED <<mpc, cur>>
               ELSE /\ spc' = "dispatch"
                    /\ mpc' = "create"
                    /\ cur' = daemons[idx][1]
            /\ UNCHANGED idx
    /\ UNCHANGED <<wpc, mainLocals, mutexes, connVars, cancelPending,
                   wres, toFile, out, flags, lookup, daemons, fileArg,
                   daemon_resp, return_val, fd, ioError, installed, msgs,
                   intDuring>>

\* Mutant: every returned dispatch counted as responded.
DispatchedCountAlways ==
    /\ spc = "dispatch"
    /\ mpc = "ret"
    /\ mpc' = "idle"
    /\ daemon_resp' = daemon_resp + 1
    /\ IF gDiagDumpUserInterrupt
       THEN spc' = "USER_INTERRUPT"
            /\ UNCHANGED idx
       ELSE spc' = "loop" /\ idx' = idx + 1
    /\ UNCHANGED <<others, toFile, out, flags, lookup, daemons, fileArg,
                   daemon_count, return_val, fd, ioError, installed, msgs,
                   intDuring>>

\* Lines 711-727: count a 0 from vtysh_diag_dump_create_thread as
\* responded, then leave for USER_INTERRUPT if the user interrupted.
Dispatched ==
    /\ spc = "dispatch"
    /\ mpc = "ret"
    /\ mpc' = "idle"
    /\ daemon_resp' = IF rc = 0 THEN daemon_resp + 1 ELSE daemon_resp
    /\ IF gDiagDumpUserInterrupt
       THEN spc' = "USER_INTERRUPT"
            /\ UNCHANGED idx
       ELSE spc' = "loop" /\ idx' = idx + 1
    /\ UNCHANGED <<others, toFile, out, flags, lookup, daemons, fileArg,
                   daemon_count, return_val, fd, ioError, installed, msgs,
                   intDuring>>

\* Lines 732-747: the "[End] Feature" footer, once the list is done.
Footer ==
    /\ spc = "loop"
    /\ idx > Len(daemons)
    /\ SessionWrite(Frame("fend"), "summary")

\* Mutant: the success test relaxed to daemon_resp <= daemon_count.
SummaryRelaxed ==
    /\ spc = "summary"
    /\ msgs' = Append(msgs, IF daemon_resp <= daemon_count THEN "captured"
                                                          ELSE "failed")
    /\ spc' = "USER_INTERRUPT"
    /\ UNCHANGED <<dispatchVars, lookup, daemons, fileArg, idx, daemon_count,
                   daemon_resp, return_val, fd, ioError, installed, intDuring>>

\* Lines 757-768: the summary line, on the console.
Summary ==
    /\ spc = "summary"
    /\ msgs' = Append(msgs, IF daemon_count = daemon_resp THEN "captured"
                                                        ELSE "failed")
    /\ spc' = "USER_INTERRUPT"
    /\ UNCHANGED <<dispatchVars, lookup, daemons, fileArg, idx, daemon_count,
                   daemon_resp, return_val, fd, ioError, installed, intDuring>>

\* Lines 770-781: the USER_INTERRUPT label.  On an interrupted dump to a
\* file, the interrupt note is written; its WRITE_ERR_HANDLE_LOG jumps back
\* to this label.
UserInterrupt ==
    /\ spc = "USER_INTERRUPT"
    /\ IF fd = "open" /\ gDiagDumpUserInterrupt
       THEN SessionWrite(Frame("interrupted"), "close")
       ELSE /\ spc' = "close"
            /\ UNCHANGED <<dispatchVars, lookup, daemons, fileArg, idx,
                           daemon_count, daemon_resp, return_val, fd, ioError,
                           installed, msgs, intDuring>>

\* Lines 779-784: CLOSE(fd) and the console note of an interrupt.
CloseFd ==
    /\ spc = "close"
    /\ fd' = IF fd = "open" THEN "closed" ELSE fd
    /\ msgs' = IF gDiagDumpUserInterrupt THEN Append(msgs, "interrupted")
                                         ELSE msgs
    /\ spc' = "EXIT_FUN"
    /\ UNCHANGED <<dispatchVars, lookup, daemons, fileArg, idx, daemon_count,
                   daemon_resp, return_val, ioError, installed,
                   intDuring>>

\* Lines 786-826: restore the old SIGINT, SIGTSTP and SIGALRM handlers,
\* close the file and return.
ExitFun ==
    /\ spc = "EXIT_FUN"
    /\ installed' = FALSE
    /\ fd' = IF fd = "open" THEN "closed" ELSE fd
    /\ spc' = "done"
    /\ UNCHANGED <<dispatchVars, lookup, daemons, fileArg, idx, daemon_count,
                   daemon_resp, return_val, ioError, msgs,
                   intDuring>>

Done == spc = "done" /\ UNCHANGED vars
-----------------------------------------------------------------------------
(* The dispatch in progress, and the signals, while the session runs.     *)

\* A step of the worker that writes a section record / fails a write().
WorkerWrote       == wpc \in DOMAIN D!SectionKind /\ out' # out
WorkerWriteFailed ==
    wpc \in DOMAIN D!SectionKind /\ wpc' = "close" /\ out' = out

\* A step of the dispatch unit: a file in error fails the worker's writes
\* too, and a failing worker write puts the file in error.
Run(A) ==
    /\ A
    /\ ~(toFile /\ ioError /\ WorkerWrote)
    /\ ioError' = (ioError \/ WorkerWriteFailed)
    /\ UNCHANGED <<spc, lookup, daemons, fileArg, idx, daemon_count,
                   daemon_resp, return_val, fd, installed, msgs,
                   intDuring>>

\* The daemon whose dispatch is under way, if any.
Dispatching == spc = "dispatch" /\ mpc \notin {"idle", "ret"}

\* A signal handler run, while the diag-dump handlers are installed.
Signal(A) ==
    /\ installed
    /\ A
    /\ intDuring' = IF Dispatching /\ ~gDiagDumpUserInterrupt
                         /\ gDiagDumpUserInterrupt'
                    THEN cur ELSE intDuring
    /\ UNCHANGED <<spc, lookup, daemons, fileArg, idx, daemon_count,
                   daemon_resp, return_val, fd, ioError, installed, msgs>>

DaemonLists ==
    { l \in UNION {[1..n -> Daemons \X {"ENABLE", "DISABLE"}] :
                       n \in 1..Cardinality(Daemons)} :
        \A i, j \in DOMAIN l : l[i][1] = l[j][1] => i = j }

Init ==
    /\ D!Init
    /\ toFile = FALSE
    /\ spc = "init"
    /\ lookup \in {"nohead", "notfound", "found"}
    /\ daemons \in DaemonLists
    /\ fileArg \in BOOLEAN
    /\ idx = 1
    /\ daemon_count = 0
    /\ daemon_resp = 0
    /\ return_val = "CMD_SUCCESS"
    /\ fd = "none"
    /\ ioError = FALSE
    /\ installed = FALSE
    /\ msgs = <<>>
    /\ intDuring = NoDaemon

SessionStep ==
    \/ Start \/ Lookup \/ OpenFile \/ Header \/ Loop \/ Dispatched
    \/ Footer \/ Summary \/ UserInterrupt \/ CloseFd \/ ExitFun

Next ==
    \/ SessionStep
    \/ Run(D!MainStep) \/ Run(D!WorkerStep) \/ Run(D!DaemonAnswers)
    \/ Run(D!Deadline) \/ Run(D!Spurious)
    \/ Signal(D!SignalStep)
    \/ Done

Spec == Init /\ [][Next]_vars

\* The session, both threads, the clock and an armed alarm make progress;
\* the daemons and the user do not have to.
FairSpec ==
    /\ Spec
    /\ WF_vars(SessionStep)
    /\ WF_vars(Run(D!MainStep)) /\ WF_vars(Run(D!WorkerStep))
    /\ WF_vars(Run(D!Deadline)) /\ WF_vars(Signal(D!AlarmFires))

-----------------------------------------------------------------------------
(* Properties.                                                             *)

SessionPcs == {"init", "lookup", "open", "header", "loop", "dispatch",
               "summary", "USER_INTERRUPT", "close", "EXIT_FUN", "done"}
Kinds == {"start", "body", "end", "fbegin", "fend", "interrupted"}

TypeOK ==
    /\ spc \in SessionPcs
    /\ mpc \in {"idle", "stuck"} \cup D!DispatchPcs
    /\ wpc \in {"done", "cancelled", "stuck"} \cup D!WorkerPcs
    /\ daemons \in DaemonLists
    /\ idx \in 1..Len(daemons) + 1
    /\ daemon_resp <= daemon_count /\ daemon_count <= Len(daemons)
    /\ return_val \in {"CMD_SUCCESS", "CMD_WARNING"}
    /\ fd \in {"none", "open", "closed"}
    /\ {toFile, ioError, installed} \subseteq BOOLEAN
    /\ out \in Seq([kind : Kinds, daemon : Daemons \cup {NoDaemon}])
    /\ intDuring \in Daemons \cup {NoDaemon}

\* Positions in out where a daemon's complete section starts.
SectionAt(i) ==
    /\ i + 2 <= Len(out)
    /\ out[i].kind = "start" /\ out[i + 1].kind = "body"
    /\ out[i + 2].kind = "end"
    /\ out[i].daemon = out[i + 1].daemon /\ out[i].daemon = out[i + 2].daemon
Sections == {i \in DOMAIN out : SectionAt(i)}

\* Every daemon counted as responded (daemon_resp) has its complete
\* section in the dump.
RespondedHaveSections ==
    daemon_resp <= Cardinality(Sections)

\* "Diagnostic dump captured" (line 759) is printed only when every
\* enabled daemon of the feature has its whole section in the dump: the
\* summary compares daemon_count with daemon_resp, which counts the
\* dispatches that returned 0, while the sections are written by the
\* workers, which the deadline, a cancel or a failed write may cut short.
CapturedMeansAllDumped ==
    (\E j \in DOMAIN msgs : msgs[j] = "captured") =>
        \A i \in DOMAIN daemons :
            Enabled(i) => \E k \in Sections : out[k].daemon = daemons[i][1]

\* When the command returns, no alarm(USER_INT_ALARM) armed by the Ctrl-C
\* handler is still pending: the session has put back the old SIGALRM
\* handler (line 804), under which the alarm would end vtysh.
AlarmNotLeaked ==
    spc = "done" => ~alarmPending

\* Every diag-dump command returns to the CLI.
SessionTerminates == <>(spc = "done")

\* The USER_INTERRUPT block is always left for CLOSE(fd).  Its note to an
\* interrupted file is written with WRITE_ERR_HANDLE_LOG (lines 773-782),
\* whose failure branch jumps back to USER_INTERRUPT (line 520): with the
\* file in error (ENOSPC, EIO) and gDiagDumpUserInterrupt set, each retry
\* fails again.
InterruptBlockExits == (spc = "USER_INTERRUPT") ~> (spc = "close")
-----------------------------------------------------------------------------
(* Refinement: the session implements DiagDumpRun.  The abstract phase is *)
(* spc translated; the dispatch's own steps, the signals other than the    *)
(* first interrupt, and the session steps that write nothing the caller    *)
(* sees (Start, OpenFile, the loop's own bookkeeping) are stuttering.      *)

RunPhase ==
    CASE spc \in {"init", "lookup", "open", "header"} -> "begin"
      [] spc = "loop"           -> "loop"
      [] spc = "dispatch"       -> "busy"
      [] spc = "summary"        -> "summary"
      [] spc = "USER_INTERRUPT" -> "stop"
      [] spc = "close"          -> "closing"
      [] OTHER                  -> "end"

\* The summary line among the console lines.
SummaryLine ==
    LET said(m) == \E j \in DOMAIN msgs : msgs[j] = m
    IN CASE said("captured") -> "captured"
         [] said("failed")   -> "failed"
         [] OTHER            -> "none"

Orchestrator ==
    INSTANCE DiagDumpRun
        WITH phase <- RunPhase, list <- daemons, pos <- idx,
             file <- fileArg, count <- daemon_count, resp <- daemon_resp,
             summary <- SummaryLine, interrupted <- gDiagDumpUserInterrupt,
             Lists <- DaemonLists

\* vtysh_diag_dump_show, with the threads, mutexes, deadline and signal
\* handlers of its dispatches, keeps the orchestrator's promise: the
\* header, then the enabled daemons of the list in order, each with one
\* section that may stop short, no dispatch once gDiagDumpUserInterrupt is
\* seen (lines 705, 724), the footer only after the whole list, "captured"
\* only when daemon_count = daemon_resp, a daemon counted only with its
\* whole section, and the interrupt note ending an interrupted file.
SessionRefinesRun == Orchestrator!RSpec

\* Spec 4.3 (5, 6): an interrupted run ends with the "terminated by user"
\* marker instead of the footer and is never reported as a full success.
\* The code reads gDiagDumpUserInterrupt only before and after each
\* dispatch (lines 705, 724): a Ctrl-C after the last of those reads, or
\* while the loop skips trailing DISABLE daemons, still gets the footer and
\* "Diagnostic dump captured" (line 757), followed by the interrupt note.
\* No run checks this; the README says how to reproduce it.
CapturedOnlyUninterrupted ==
    [][spc = "summary" /\ gDiagDumpUserInterrupt
           => SummaryLine' # "captured"]_vars
====
