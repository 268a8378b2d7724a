------------------------------ MODULE OspfDebug ------------------------------
(***************************************************************************)
(* The OSPF debug CLI, src/src/cli/quagga/ospf_debug_vty.c, a client of   *)
(* the feature registry.  It keeps its own static feature_head (here      *)
(* ospf_feature_head) and initialized flag, filled from                    *)
(* get_feature_mapping on first use; vtysh_diag_dump_show shares the      *)
(* registry's singleton (line 610 of diag_dump_vty.c: DiagDumpLookup).     *)
(*                                                                         *)
(* vtysh is single-threaded: one command, the unixctl transaction with    *)
(* each daemon of the feature included, is one step.  A daemon's end is   *)
(* what vtysh_ospf_connect_to_target finds on disk (the pid file and the  *)
(* control socket) and how its unixctl server answers.  Dereferencing a   *)
(* NULL iterator ends vtysh (crashed).                                     *)
(***************************************************************************)
EXTENDS FeatureMapping

CONSTANTS
    DebugCommands,  \* [argc, arg, flag] of the DEFUNs calling ospf_debug
    ShowArgs        \* what argv[0] holds for "show debugging ospfv2"

\* The calls ospf_debug(argv, argc, flag) the DEFUNs and ALIASes of lines
\* 424-714 make.  quagga passes the variable tokens, those in
\* parentheses, as argv; "debug" commands pass flag 0 and each "no debug"
\* twin flag 2.  argv[0] of a command with fewer than two such tokens is
\* never read (NULLSTR when there is none).
Call(n, a) == [argc |-> n, arg |-> a]
PacketKinds == {"hello", "dd", "ls-request", "ls-update", "ls-ack", "all"}

\* "[no] debug ospfv2 packet (P)", "... (P) (send|recv|detail)" and
\* "... (P) (send|recv) detail" (lines 424-522).
PacketDefuns == {Call(n, p) : n \in {1, 2}, p \in PacketKinds}

\* "[no] debug (ospfv2) (ism)", "[no] debug ospfv2 ism (status|events|
\* timers)" (lines 523-564).
IsmDefuns ==
    {Call(2, "ospfv2")} \cup
    {Call(1, s) : s \in {"status", "events", "timers"}}

\* nsm, lsa, event, nssa and (interface|redistribute) (lines 565-714).
OtherDefuns ==
    {Call(0, NULLSTR)} \cup
    {Call(1, s) : s \in {"status", "events", "timers", "generate",
                          "flooding", "install", "refresh", "interface",
                          "redistribute"}}

DebugDefuns ==
    {[argc |-> c.argc, arg |-> c.arg, flag |-> f] :
        c \in PacketDefuns \cup IsmDefuns \cup OtherDefuns, f \in {0, 2}}

ASSUME DebugCommands \subseteq DebugDefuns

VARIABLES
    initialized,        \* static char initialized
    ospf_feature_head,  \* static struct feature* feature_head
    crashed,            \* vtysh died on a NULL iterator
    crashArg,           \* the argv[0] it died on
    lastArg, lastRet,   \* the last command's argv[0] and return value
    contacted           \* <<daemon, rc>> per vtysh_set_ospf_debug call

ospfVars == <<initialized, ospf_feature_head, crashed, crashArg, lastArg,
              lastRet, contacted>>
allVars == <<vars, ospfVars>>

\* The end of a daemon: its pid file, and the pid whose control socket
\* <rundir>/<name>.<pid>.ctl is listening (0: none).
Number(n) == [kind |-> "number", value |-> n]
DaemonEnvs ==
    { [pidfile |-> Number(1234), sock |-> 1234],   \* running
      [pidfile |-> Number(1234), sock |-> 0],      \* died, pid file left
      [pidfile |-> [kind |-> "missing", value |-> 0], sock |-> 0] }
\* How unixctl_client_transact ends: rc != 0, a cmd_error, a cmd_result.
Replies == {"rcfail", "error", "result"}

\* vtysh_ospf_read_pid_file (lines 76-117): the same code as read_pid_file.
vtysh_ospf_read_pid_file(content) == read_pid_file(content)

\* vtysh_ospf_connect_to_target (lines 127-196) for a daemon name (never
\* starting with '/'): the socket named after the pid file's pid, which
\* unixctl_client_create connects to iff it is listening.
vtysh_ospf_connect_to_target(env) ==
    LET pid == vtysh_ospf_read_pid_file(env.pidfile)
    IN pid >= 0 /\ env.sock = pid

\* vtysh_set_ospf_debug (lines 211-289) with flag 0, 1 or 2: no
\* connection, a failed transaction and a cmd_error are CMD_WARNING.
vtysh_set_ospf_debug(env, reply) ==
    IF ~vtysh_ospf_connect_to_target(env) THEN "CMD_WARNING"
    ELSE IF reply \in {"rcfail", "error"} THEN "CMD_WARNING"
    ELSE "CMD_SUCCESS"

\* What one vtysh_set_ospf_debug call can return, over the daemon's ends
\* and answers.
SetDebugResults ==
    {vtysh_set_ospf_debug(env, reply) : env \in DaemonEnvs, reply \in Replies}

\* Mutant: the lookup loop stops before the last feature.
FindFeatureSkipLast(head, arg) ==
    LET fs == FeatureChain(head, Len(feats))
        is == {i \in 1..Len(fs) - 1 :
                  strcmp_with_nullcheck(feats[fs[i]].name, arg) = 0}
    IN IF is = {} THEN NULL ELSE fs[Min(is)]

\* The lookup loop (lines 324-325, 397-398): the first feature node named
\* arg, or NULL.
FindFeature(head, arg) ==
    LET fs == FeatureChain(head, Len(feats))
        is == {i \in DOMAIN fs :
                  strcmp_with_nullcheck(feats[fs[i]].name, arg) = 0}
    IN IF is = {} THEN NULL ELSE fs[Min(is)]

\* Mutant: the daemon loop leaves at the first daemon that fails.
WalkDaemonsStopOnFailure(arg) ==
    LET ds == (DaemonsOf(FindFeature(ospf_feature_head, arg)))'
    IN \E rc \in [DOMAIN ds -> SetDebugResults] :
         LET ok == {i \in DOMAIN ds : \A j \in 1..i - 1 :
                                         rc[j] = "CMD_SUCCESS"}
         IN contacted' = [i \in ok |-> <<dnodes'[ds[i]].name, rc[i]>>]

\* Mutant: the feature's name logged where the daemon's belongs.
WalkDaemonsFeatureName(arg) ==
    LET it == (FindFeature(ospf_feature_head, arg))'
        ds == (DaemonsOf(FindFeature(ospf_feature_head, arg)))'
    IN \E rc \in [DOMAIN ds -> SetDebugResults] :
         contacted' = [i \in DOMAIN ds |-> <<feats'[it].name, rc[i]>>]

\* The daemon loop (lines 330-348, 403-420): one vtysh_set_ospf_debug per
\* daemon of the feature, whatever the earlier ones returned.
WalkDaemons(arg) ==
    LET ds == (DaemonsOf(FindFeature(ospf_feature_head, arg)))'
    IN \E rc \in [DOMAIN ds -> SetDebugResults] :
         contacted' = [i \in DOMAIN ds |-> <<dnodes'[ds[i]].name, rc[i]>>]

\* From the lookup on, with ospf_feature_head' the table in use: a NULL
\* iterator is dereferenced at iter->p_daemon (lines 330, 403).
LookupAndWalk(arg) ==
    /\ lastArg' = arg
    /\ IF (FindFeature(ospf_feature_head, arg))' = NULL
       THEN /\ crashed' = TRUE /\ crashArg' = arg
            /\ lastRet' = "none"
            /\ UNCHANGED contacted
       ELSE /\ WalkDaemons(arg)
            /\ lastRet' = "CMD_SUCCESS"
            /\ UNCHANGED <<crashed, crashArg>>

\* The table on first use (lines 309-321, 382-394): a NULL from
\* get_feature_mapping is a warning and initialized stays 0.
OnFirstUse(arg) ==
    /\ ~initialized
    /\ get_feature_mapping
    /\ IF returned' = NULL
       THEN /\ lastArg' = arg /\ lastRet' = "CMD_WARNING"
            /\ UNCHANGED <<initialized, ospf_feature_head, crashed, crashArg,
                           contacted>>
       ELSE /\ initialized' = TRUE
            /\ ospf_feature_head' = returned'
            /\ LookupAndWalk(arg)

\* The body shared by show_debugging_info and ospf_debug, from the table
\* on.
OspfCommand(arg) ==
    /\ ~crashed
    /\ UNCHANGED listOut
    /\ \/ OnFirstUse(arg)
       \/ /\ initialized
          /\ UNCHANGED <<vars, initialized, ospf_feature_head>>
          /\ LookupAndWalk(arg)

\* show_debugging_info (lines 291-350): "show debugging ospfv2" has no
\* argument, so argc is 0 and argv[0] is read past the arguments.
show_debugging_info == \E arg \in ShowArgs : OspfCommand(arg)

\* ospf_debug (lines 352-422) through the DEFUNs of lines 424-714: fewer
\* than 2 arguments is a warning.
ospf_debug ==
    /\ ~crashed
    /\ \E cmd \in DebugCommands :
         IF cmd.argc < 2 \/ cmd.argc > 5
         THEN /\ lastArg' = cmd.arg /\ lastRet' = "CMD_WARNING"
              /\ UNCHANGED <<vars, initialized, ospf_feature_head, crashed,
                             crashArg, contacted>>
         ELSE OspfCommand(cmd.arg)

\* vtysh_diag_dump_show asks the registry too (diag_dump_vty.c line 610).
DiagDumpLookup ==
    /\ ~crashed
    /\ FeatureLookup
    /\ UNCHANGED ospfVars

\* vtysh is gone, or no registry call is left to make.
Finished ==
    /\ crashed \/ calls = MaxCalls
    /\ UNCHANGED allVars

OspfInit ==
    /\ Init
    /\ initialized = FALSE
    /\ ospf_feature_head = NULL
    /\ crashed = FALSE
    /\ crashArg = NULLSTR
    /\ lastArg = NULLSTR
    /\ lastRet = "none"
    /\ contacted = <<>>

OspfNext == show_debugging_info \/ ospf_debug \/ DiagDumpLookup \/ Finished

OspfSpec == OspfInit /\ [][OspfNext]_allVars
-----------------------------------------------------------------------------
(* Properties.                                                             *)

Rets == {"none", "CMD_SUCCESS", "CMD_WARNING"}
OspfTypeOK ==
    /\ TypeOK
    /\ initialized \in BOOLEAN /\ crashed \in BOOLEAN
    /\ ospf_feature_head \in 0..Len(feats)
    /\ lastRet \in Rets
    /\ contacted \in Seq(DaemonNames \X (Rets \ {"none"}))

\* The names the configuration file gives to features.
ConfigFeatureNames == {config[i][1] : i \in DOMAIN config}

\* vtysh dies on a NULL iterator only for a name the file does not list,
\* or after a parse of the file failed: a command for a feature of a
\* well-formed file always finds it.
CrashOnlyOnMissingFeature ==
    crashed => \/ crashArg \notin ConfigFeatureNames
               \/ lastRc # 0

\* A command that found its feature in a well-formed file sent its request
\* to every daemon the file lists for the feature, in file order, even
\* when earlier daemons were unreachable or answered with an error.
DaemonsContactedInFileOrder ==
    (lastRet = "CMD_SUCCESS" /\ lastRc = 0) =>
        \E i \in DOMAIN config :
            /\ config[i][1] = lastArg
            /\ Len(contacted) = Len(config[i][2])
            /\ \A j \in DOMAIN contacted :
                   contacted[j][1] = config[i][2][j][1]
====
