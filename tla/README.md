# TLA+ models of ops-supportability

This directory holds TLA+ specifications of the `diag-dump` and OSPF-debug
CLI support in `src/`. It also has the TLC configurations that check them.
Each module is written from the C source, and each definition names the
lines it stands for (`PROJECT.json`, key `map`).

## 1. The system

| Part | Source | State | Operations |
|---|---|---|---|
| Bounded dispatch | `src/src/cli/diag_dump_vty.c` 74-339, 850-998 | globals `gDiagDumpUserInterrupt`, `gDiagDumpUserInterruptAlarm`, `gDiagDumpCommandFailed`, `gDiagDumpThreadCancelled`; mutexes `gDiagDumpwaitMutex`, `gDiagDumpCleanupMutex`; condition `gDiagDumpWaitCond`; global `client`; the process alarm | `vtysh_diag_dump_create_thread` (main), `vtysh_diag_dump_thread` + `vtysh_diag_dump_daemon` (worker), `diagdump_thread_cleanup_handler`, the SIGINT / SIGTSTP / SIGALRM handlers |
| Orchestrator | `diag_dump_vty.c` 501-833 | output fd, daemon counters, installed signal handlers | `vtysh_diag_dump_show`: argument checks, file creation (`O_CREAT\|O_EXCL`), the daemon loop, summary, handler restore |
| Feature registry | `src/src/featuremapping/feature_mapping.c` | linked list of features and their daemons, static `feature_head` | `parse_feature_mapping_yaml` (event-driven YAML state machine), `get_feature_mapping` (lazy singleton) |
| OSPF debug CLI | `src/src/cli/quagga/ospf_debug_vty.c` | its own lazily built feature table | `vtysh_set_ospf_debug`, `show_debugging_info`, `ospf_debug` |
| Utilities | `src/src/supportability_utils.c` | none | string helpers, `read_pid_file`, `connect_to_daemon` |
| Daemon-side handler | `src/include/diag_dump.h` | none | `INIT_DIAG_DUMP_BASIC`: `diag_handler_cb` validation and reply |
| Listing / directory / time | `diag_dump_vty.c` 351-493 | none | formatting and file-system I/O |

How the parts interact: `diag-dump <feature> basic [file]` runs
`vtysh_diag_dump_show`. It looks the feature up in the registry and then
calls `vtysh_diag_dump_create_thread` once per enabled daemon.

Each dispatch runs on its own worker thread:

1. The worker connects to the daemon's unixctl socket, sends the request and
   blocks for the reply.
2. It writes the reply as a section (console or file) and closes the
   connection.
3. It signals the condition variable.

Main waits on the condition variable with a deadline (`FUN_MAX_TIME`).
If the deadline passes, or the user interrupts, main cancels the worker
with an asynchronous `pthread_cancel`. The cleanup handler then closes
`client` and unlocks the cleanup mutex.

Ctrl-C flags the interrupt and arms a 10 s alarm. Ctrl-Z flags the interrupt
and signals the waiter. SIGALRM signals the waiter. These handlers run on
whichever thread the kernel picks.

## 2. Modules

### `DiagDumpDispatch` (modelled)

This module covers one dispatch and the threads and signals involved in
it. There are two program counters: `mpc` for main and `wpc` for the worker.
Each action is one step of the C code, and its comment gives the line numbers.

Locks, unlocks, the timed wait and its reacquire, the signal, and
`pthread_cleanup_pop` are separate steps, because asynchronous cancel and
signal handlers can fall between any two of them.

- The mutexes are owner variables (`"none"`, `"main"`, `"worker"`). A lock
  is enabled only when its mutex is free.
- `pthread_cond_timedwait` has no predicate. `SignalWaiter` wakes main only
  if main is in `"waiting"`; otherwise the signal is lost.
- Asynchronous cancellation is `ActOnCancel`. It is enabled at every worker
  pc once `pthread_cancel` has been called. When the handler is pushed, it
  closes whatever `client` points at, clears it, and unlocks the cleanup
  mutex.
- The connection has `conn` (none/open/closed) and `closes` (the number of
  `jsonrpc_close` calls), so a double close and a leak are both visible.
- The daemon's reply is `Transact`, which is not fair: the daemon may never
  answer. When the connection works, the answer is what the daemon's
  `diag_handler_cb` (`DiagDumpHandler`) gives for vtysh's request
  (`DaemonRequest`). A result is written as a section. A no-data error
  goes straight to the close, as a failed transaction does.
- The deadline is `TimedOut`.
- Spurious wakeups are `SpuriousWakeup`. POSIX allows them, and a signal
  handler running on main makes them likely.
- The sink `out` is a sequence of section records
  (`start`/`body`/`end`, daemon). The text itself is abstracted away.
- A handler that locks `gDiagDumpwaitMutex` on a thread that already holds
  it moves that thread to `"stuck"`.
- The caller is `CallDispatch`: up to `MaxCalls` dispatches of any daemon.

Constants switch the environment's behaviours:

| Constant | What it enables |
|---|---|
| `UserSignals` | Ctrl-C / Ctrl-Z |
| `LateReplies` | a reply arriving in the window between the deadline and the cancel taking effect |
| `SpuriousWakeups` | spurious returns from the timed wait |

`MCDiagDumpDispatch` adds symmetry over the daemon names.

### `DiagDumpHandler` (modelled)

`INIT_DIAG_DUMP_BASIC` (`src/include/diag_dump.h`) defines `diag_handler_cb`
in each daemon. The module has no variables. `diag_handler_cb(argc, argv,
buf)` is the handler as an operator, built from `STRCMP`, `STRLEN` and
`VALIDATE_FEATURE` (the header's `__STRCMP`, `__STRLEN` and
`__VALIDATE_FEATURE`). A string is a record of its text, its `strlen` and
whether it is NULL. `Registered` is the argument count that
`unixctl_command_register` admits. vtysh always sends `"dumpdiagbasic"`
with `{"basic", feature}` (argc 3 at the daemon). A matched feature name is
1 to `FEATURE_SIZE` = 30 characters long, the length `strndup` keeps. So
`Transact` tries both lengths at the boundary, 1 and 30. The
invalid-parameter branch is never taken, and the answer depends only on
whether the daemon's callback left a buffer.

### `DiagDumpSession` (modelled)

This module models one `diag-dump FEATURE basic [FILE]` command
(`vtysh_diag_dump_show`) over the dispatch model. The dispatch model is
instantiated as `D` with its caller removed (`calls <- 0`): the daemon
loop starts each dispatch itself by setting `mpc` to `"create"`.

- `spc` is the session's pc, named after the code's blocks and labels:
  `lookup`, `open`, `header`, `loop`, `dispatch`, `summary`,
  `USER_INTERRUPT`, `close`, `EXIT_FUN`.
- `lookup` is the result of `get_feature_mapping` plus the name search.
  `daemons` is the feature's daemon chain, as `<<name, flag>>` pairs.
  How the chain is built is checked by `FeatureMapping`.
- `OpenFile` fails, with a warning, when the file name fails
  `validate_cli_args`, when `open` fails, or when
  `vtysh_diag_check_crete_dir` fails. That function is an operator over
  what `DIAG_DUMP_DIR` is (`DirStates`): a directory, a regular file
  (which it unlinks and replaces), something else, nothing, or a `stat`
  error, with `unlink`, `mkdir` and `chmod` each able to fail.
- Every file write (`WRITE_ERR_HANDLE_LOG`) can fail. Once one has failed,
  the file stays in error (`ioError`). The failure branch is the macro's
  `goto USER_INTERRUPT`. It is not bounded: inside `USER_INTERRUPT`, a
  write to a file in error leaves every variable as it was, so the spin
  of the code is a stuttering step of the model.
- The worker's writes fail too when the file is in error. A failed worker
  write puts the file in error (`Run`).
- Signal handlers run only while the diag-dump handlers are `installed`
  (`Signal`). `intDuring` records the daemon whose dispatch was under way
  when the interrupt came.
- `validate_cli_args` (in `SupportabilityUtils`) is evaluated for a
  pattern that compiles and a name that matches or not.

### `FeatureMapping` (modelled)

This module models `parse_feature_mapping_yaml` as a fold (`FoldLeft`) of
`ParseScalar` over the scalar events of a YAML file. It covers every
configuration of up to two features with up to two daemons each, and a
parse error can happen at any event (`errAt`).

- The linked lists are a heap: node arrays `feats` and `dnodes` with
  `next` / `p_daemon` ids, where `NULL` is 0.
- `feature_mapping_add_feature` and `feature_mapping_add_daemon` append a
  node and link it after the given one, as the C does.
- `get_feature_mapping` is the lazy singleton. Its `fopen` may fail.
- `Table` walks the lists (RECURSIVE `FeatureChain` / `DaemonChain`).
  `ConfigTable` is the reference: the table the file describes.
- "diag-dump list" is a client of the registry in this module.
  `vtysh_diag_dump_list_show` calls `get_feature_mapping` and records
  (`listOut`) the names that `vtysh_diag_list_features` prints: the
  features whose own `diag_flag` is not DISABLE, in list order.
  `FeatureLookup` is any other command asking for the table.

### `DiagDumpAbstract` and the refinement

`DiagDumpAbstract` says what one dispatch promises its caller, the daemon
loop, with the threads, mutexes, deadline and signals hidden:

- `Call` starts the dispatch of a daemon.
- `Write` appends one record of that daemon's section. A section starts
  anywhere, and each later record comes right after the one before it.
- `Return` gives 1, or 0 only when the daemon's whole section ends the sink.
- `Back` hands control back to the loop.

`DiagDumpDispatch` maps onto it with one derived variable,
`DispatchPhase`: `mpc = "idle"` is idle, `mpc = "ret"` has returned, and
any other `mpc` is busy. `cur`, `out`, `rc` and `calls` map to themselves.

`DispatchRefinesAbstract` (`Abstract!ASpec`) is checked in the `safety`
run, with every environment behaviour on. That every dispatch returns is
the `live` run's `DispatchReturns`.

### `DiagDumpRun` and the session's refinement

`DiagDumpRun` says what one diag-dump command promises the user, with the
dispatch's worker thread, mutexes, deadline and signal handlers hidden. Its
state is a phase, the daemon list, the position reached, the dump, the
attempted and responded counts, the summary line and whether the user
has interrupted. Its actions:

- `Header` writes the feature header. `Reject` ends a command whose
  lookup or open failed.
- `WriteFails`: the header or footer write to the file fails.
- `Skip` passes a DISABLE daemon. `Attempt` counts an enabled one, and
  dispatches it unless an interrupt has been seen.
- `Write` appends the dispatched daemon's next record.
- `Return` may count the daemon only when its whole section ends the
  dump. It goes on to the next daemon, or stops if the user has
  interrupted.
- `Footer` comes only after the whole list. `Summarize` prints "captured"
  exactly when the counts are equal.
- `Close` ends an interrupted file dump with its note.

`DiagDumpSession` maps onto it (`Orchestrator`) by translating `spc`
into the abstract phase (`RunPhase`) and reading the summary off the
console lines (`SummaryLine`). `daemons`, `idx`, `fileArg`, `out`, the
two counts and `gDiagDumpUserInterrupt` map to themselves. The dispatch's
steps, the signals and `OpenFile` are stuttering steps of the
abstraction. `SessionRefinesRun` is checked in `session_safety`. It
implies the older order check on the dump, which it replaces.

### `OspfDebug` (modelled)

`OspfDebug` EXTENDS `FeatureMapping`. The OSPF CLI and diag-dump then share
one registry, which is what happens in vtysh.

- `initialized` and `ospf_feature_head` are the file's statics (lines 52-53).
- `OnFirstUse` fills them from `get_feature_mapping`. A NULL answer is a
  warning and leaves `initialized` clear.
- `FindFeature` is the lookup loop over the feature list.
- `LookupAndWalk` dereferences the iterator. A NULL iterator ends vtysh
  (`crashed`), as the code does at lines 330 and 403.
- `WalkDaemons` calls `vtysh_set_ospf_debug` once for each daemon of the
  feature, in list order.
- `vtysh_set_ospf_debug` is CMD_SUCCESS only when all three hold:
  - `vtysh_ospf_connect_to_target` finds a pid in the pid file;
  - the socket named after that pid listens;
  - the daemon answers with a result.

  Each daemon's end is one of three `DaemonEnvs` (running, died with its
  pid file left, never started). Its answer is one of `Replies`.
- `show_debugging_info` has `argc = 0`, and takes `argv[0]` from `ShowArgs`
  (NULL or "ospfv2"). `ospf_debug` takes `[argc, arg, flag]` from
  `DebugCommands`, one command per path through `ospf_debug`, out of
  `DebugDefuns`. That set translates every DEFUN and ALIAS of lines 424-714
  to the `argc`, `argv[0]` and flag it passes. "debug ospfv2 packet hello
  send" is one of these commands, and its `argv[0]` is "hello".
- `DiagDumpLookup` is diag-dump asking the registry (`diag_dump_vty.c:610`).

### `SupportabilityUtils` (partly modelled)

This module has `strcmp_with_nullcheck` and `read_pid_file` (with
`fscanf_pid`) as operators, which the registry and OSPF models use.
`validate_cli_args` returns 0, `REG_BADPAT` or `REG_NOMATCH` as regcomp
and regexec decide.
`connect_to_daemon` is an operator over what the daemon's run directory
holds (`RunDirs`): a writable plain `<target>.ctl` that a server listens
on or not, and a pid file (missing, or naming a pid whose per-pid socket
listens or not). The dispatch's `ConnectToDaemon` succeeds exactly when
`connect_to_daemon` does for one of those directories. The plain socket is
chosen by `access(W_OK)` alone. So a stale `.ctl` file fails the connect
without trying the pid file, and the dispatch reports the daemon as
failed.
`trim_white_space` and `get_value` are translated as RECURSIVE scanners
over sequences of characters. Nothing in this repository calls them, so no
run uses them.

## 3. Runs

The dispatch runs use `Daemons = {d1, d2}` and `MaxCalls = 2`. With two
dispatches, a second dispatch can meet what the first left behind: an
orphaned mutex, a stale flag, or a pending alarm. The session runs use the
same two daemons, in every order and every enabled/disabled combination,
so a session makes up to two dispatches. `session_safety` uses three
daemons (about 690,000 states, 40 s): lists of up to three, a DISABLE
daemon between two enabled ones, and a third dispatch after two others
that left flags, an alarm or a partial section behind. The parser run covers
two features by two daemons, with `MaxCalls = 2` calls to
`get_feature_mapping`. That is enough for a list after a failed open,
and for a second call served the cached table. The OSPF run uses the same two-by-two
configurations (one feature is "ospfv2"), `diag_flag` "y" only (the flag
plays no part in the OSPF commands), two registry calls, and the commands
listed above, which are all the argument shapes that lead to a different
path.

| Run | Module | Expect | Checks | Shows |
|---|---|---|---|---|
| `safety` | dispatch | pass | `TypeOK`, `ReturnedZeroMeansDumped`, `DispatchRefinesAbstract` | With every environment behaviour on, a dispatch that returns 0 has written the daemon's whole section. The dispatch implements `DiagDumpAbstract`. Signals can self-deadlock a thread, so this run does not check deadlock. |
| `live` | dispatch | pass | `DispatchReturns` | With no signals, racing replies or spurious wakeups, every dispatch returns under fairness. The mutex and connection properties are not checked here: this configuration only lets a cancel land at the transaction, so the windows where they fail are out of reach; the `double_close` and `orphaned_mutex` runs reach them. Deadlock is checked. |
| `lost_wakeup` | dispatch | violation | `AnsweredDaemonCounted` | A fast daemon's signal comes before main waits. Main times out and counts an answered daemon as failed. |
| `double_close` | dispatch | violation | `ConnectionClosedExactlyOnce` | A cancel between lines 989 and 990 makes the cleanup handler close `client` again. |
| `orphaned_mutex` | dispatch | violation | `NoOrphanedMutex` | A worker cancelled between lines 177 and 182 dies holding `gDiagDumpwaitMutex`. |
| `handler_deadlock` | dispatch | violation | `NoSelfDeadlock` | Ctrl-Z on a thread that holds `gDiagDumpwaitMutex` deadlocks it. |
| `parse` | registry | pass | `TypeOK`, `ParsedTableMatchesConfig`, `ListedFeaturesHaveEnabledDaemon` | Whenever the parse succeeds, the linked lists hold exactly the table the file describes: every feature, its description and its daemons with their flags, in file order. A parse cut short at any event returns 1 but keeps its list, which `get_feature_mapping` then serves for good (line 341). That list is a prefix of the file's table (`IsPartialTable`): only the last feature may lack its description, some daemons, or its last daemon's flag. No daemon is misplaced, and none is enabled that the file does not enable. After any parse, cut short or not, "diag-dump list" shows only features that have an enabled daemon. |
| `session_safety` | session | pass | `TypeOK`, `RespondedHaveSections`, `CapturedMeansAllDumped`, `SessionRefinesRun` | With signals, racing replies, spurious wakeups and failing writes, the command implements `DiagDumpRun`. The dump holds the header, then the enabled daemons' sections in list order and never interleaved, and the footer only after the whole list. No daemon is dispatched once the interrupt has been seen. Every daemon counted as responded has its whole section. "Diagnostic dump captured" is printed only when every enabled daemon's section is in the dump. |
| `session_live` | session | pass | `SessionTerminates` | Without user signals, every command returns, whatever the daemons do. |
| `alarm_leak` | session | violation | `AlarmNotLeaked` | Ctrl-C outside a dispatch's wait (during the lookup, say) arms `alarm(10)`. Nothing disarms it, and the command returns with the alarm pending under the restored SIGALRM action, which kills vtysh. |
| `interrupt_hang` | session | violation | `InterruptBlockExits` | Ctrl-C during a dispatch to a file that then fails. The "USER INTERRUPT" note's `WRITE_ERR_HANDLE_LOG` fails and jumps back to `USER_INTERRUPT`, whose condition still holds: vtysh spins there for ever. Deadlock is not checked, as in `session_safety`. |
| `ospf` | OSPF + registry | pass | `OspfTypeOK`, `CrashOnlyOnMissingFeature`, `DaemonsContactedInFileOrder` | vtysh crashes only on a name the file does not list, or after a failed parse. A found feature's daemons are all asked, in file order, whatever each answers. |

The violation runs are the code bugs recorded in `PROJECT.json`
(`findings`). A cancel can also land between opening the socket and
assigning `client` (line 890), which leaks the connection. The
`double_close` run reaches this state too, at the same depth as the double
close; TLC reports whichever it meets first. Both violate
`ConnectionClosedExactlyOnce`.

### Fairness

`FairSpec` gives weak fairness to the following:

- the steps of main and of the worker (the OS schedules both threads);
- the caller going on (in the session: every step of `vtysh_diag_dump_show`);
- the deadline (the clock advances);
- an armed alarm firing.

The daemon's answer and the user's keys get no fairness, because a daemon
may hang and the user may never press anything.

### Mutants

Each property of a passing run is killed by a mutant of the code it is
about (`PROJECT.json`, key `mutants`):

| Mutant | Effect |
|---|---|
| `CallDispatchUnbounded` | the loop does not stop |
| `UnlockCleanupMutexKeepFlag` | the timeout forgets `gDiagDumpCommandFailed` |
| `CheckErrorNoCancel` | a timeout joins without cancelling |
| `NewFeatureKeepDaemon` | `curr_daemon` not reset at a new feature |
| `SetFlagRaw` | `diag_flag` stored unconverted |
| `vtysh_diag_list_features_no_skip` | the list prints DISABLE features too |
| `LoopPastEnd` | the daemon loop runs one step past the list |
| `LoopIgnoreInterrupt` | the loop dispatches after an observed interrupt (breaks the session refinement) |
| `DispatchedCountAlways` | every returned dispatch counted as responded |
| `LoopNoAdvance` | a skipped daemon does not advance the iterator |
| `WriteSectionIgnoreError` | a failed `write()` is ignored and the section goes on (breaks the refinement) |
| `FindFeatureSkipLast` | the lookup loop stops before the last feature |
| `WalkDaemonsStopOnFailure` | the daemon loop stops at the first failure |
| `WalkDaemonsFeatureName` | the feature's name recorded for the daemon's |
| `SummaryRelaxed` | "captured" printed when no more daemons responded than were dispatched |

## 4. Not modelled, and why

- **Text formatting, `vty_out` wording, VLOG, and file paths.** Properties
  are about which sections appear, not about their text.
- **Short `write()`s.** A section record is the unit of output. Spec §4.4
  expects full writes. See the hazard at line 858.
- **`vty_diag_print_time`.** It only fills the header's time text, which is
  empty when it fails.
- **The worker's early returns when `pthread_setcancelstate` or
  `pthread_setcanceltype` fails (lines 161-170).** glibc does not fail these
  calls for valid arguments.
- **A reply carrying both `cmd_result` and `cmd_error`.** The daemon-side
  handler (`INIT_DIAG_DUMP_BASIC`) replies with one or the other.

- **Divergences seen while modelling, not given a run.** These are
  sequential and can be seen directly in the code. Each is a hazard in
  `PROJECT.json` with a note:
  - a feature's flag is its last daemon's (`feature_mapping.c:288`). A
    feature whose last daemon is disabled is therefore missing from
    "diag-dump list", even though diag-dump still dumps its enabled
    daemons. `ListedFeaturesHaveEnabledDaemon` checks the other direction;
  - a failed worker write does not abort the session (`diag_dump_vty.c:858`,
    against spec §7);
  - a worker that writes its whole section before the asynchronous cancel
    lands leaves the interrupted daemon's section in the dump, against
    spec §8 (line 229). `intDuring` in `DiagDumpSession` records which
    daemon was being dispatched.

  - a spurious wakeup of the timed wait after Ctrl-C has armed the alarm
    disarms it and skips the cancel (lines 229-234), so `pthread_join`
    waits for ever on a hung daemon. The `live` run leaves spurious
    wakeups out for this reason: checking `DispatchReturns` under
    `MCDiagDumpDispatch_live.cfg` with `SpuriousWakeups = TRUE` gives this
    hang.

  - of the OSPF debug commands (`DebugDefuns`, lines 424-714), only
    "[no] debug (ospfv2) (ism)" reaches the daemons. Every command with
    fewer than two variable tokens ("debug ospfv2 event", "debug ospfv2
    lsa flooding", ...) returns CMD_WARNING at line 363 and does nothing.
    The two-token packet forms ("debug ospfv2 packet hello send") look the
    packet kind up as a feature name, find none, and crash vtysh at
    line 403. The `ospf` run takes one command per path (`DebugCommands`
    is checked to be a subset of `DebugDefuns`), and
    `CrashOnlyOnMissingFeature` allows that crash, because "hello" is not a
    feature;

  - a Ctrl-C after the loop's last read of `gDiagDumpUserInterrupt`
    (line 724), or while the loop skips trailing DISABLE daemons, still
    gets the footer and "Diagnostic dump captured" (line 757), followed by
    the interrupt note. Spec §4.3 (5, 6) asks for the marker instead of
    the footer and no success report. `CapturedOnlyUninterrupted` in
    `DiagDumpSession` states this. Checking it as a PROPERTY under the
    constants of `MCDiagDumpSession_alarm_leak.cfg` gives an eight-state
    trace: a
    feature with one DISABLE daemon, and Ctrl-C before the footer.

  The model contains all six behaviours.
- **`show debugging ospfv2` with `argc = 0`.** Line 306 writes
  `fun_argv[0]` into a zero-length array and reads `argv[0]` past the
  arguments. This is undefined behaviour, so the model takes `argv[0]` as
  NULL or "ospfv2". With NULL, the `ospf` run reaches the crash at line
  330. `CrashOnlyOnMissingFeature` allows that crash, because NULL names
  no feature.
- **Pids above 65536.** `read_pid_file` rejects them. The limit depends on
  the host's `pid_max`, not on any state the program passes through.
- **`calloc`/`strndup` failure and names of `FEATURE_SIZE` characters or
  more in the parser.** They are allocation and truncation details, not
  control.
- **The mode bits of the dump file** (`open` without a mode, line 650).

`PROJECT.json` lists each component that is not modelled, or only partly
modelled, with the reason.
