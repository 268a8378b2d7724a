-------------------------- MODULE DiagDumpHandler --------------------------
(***************************************************************************)
(* The daemon side of a basic diag-dump request: diag_handler_cb, which    *)
(* INIT_DIAG_DUMP_BASIC (src/include/diag_dump.h) defines in every daemon  *)
(* and registers as the unixctl command "dumpdiagbasic".  It validates the *)
(* arguments, calls the daemon's callback, and replies with the buffer the *)
(* callback filled, or with an error.                                      *)
(*                                                                         *)
(* A string is a record: its text and its strlen; a NULL char pointer is  *)
(* the record HNULL.  The unixctl server always passes an argv array, so  *)
(* the ( argv ) test of line 87 is left out.  The reply's text is         *)
(* abstracted to its kind and a tag for where it came from.               *)
(***************************************************************************)
EXTENDS Naturals, Sequences

HNULL == [text |-> "NULL", len |-> 0, null |-> TRUE]

\* Lines 37-45.
DIAG_DUMP_BASIC_CMD        == "dumpdiagbasic"
DIAG_BASIC                 == "basic"
DIAG_BASIC_ARG_MIN         == 2
DIAG_BASIC_ARG_MAX         == 2
DIAG_BASIC_MAX_FEATURE_LEN == 30

Str(t, n) == [text |-> t, len |-> n, null |-> FALSE]

\* __STRCMP (lines 47-48): both pointers non-NULL and the strings equal.
STRCMP(x, y) == ~x.null /\ ~y.null /\ x.text = y.text

\* __STRLEN (lines 50-51).
STRLEN(x) == IF x.null THEN 0 ELSE x.len

\* __VALIDATE_FEATURE (lines 53-55).
VALIDATE_FEATURE(x) ==
    STRLEN(x) <= DIAG_BASIC_MAX_FEATURE_LEN /\ STRLEN(x) > 0

\* diag_handler_cb (lines 80-115) for argument vector argv (argv[0] is
\* argv[1] here) and the buffer buf the callback CB_BASIC leaves: a
\* valid request replies with buf, or with an error when the callback
\* gave no data; an invalid one replies with an error without calling it.
diag_handler_cb(argc, argv, buf) ==
    IF /\ argc = 3
       /\ STRCMP(argv[1], Str(DIAG_DUMP_BASIC_CMD, 13))
       /\ STRCMP(argv[2], Str(DIAG_BASIC, 5))
       /\ VALIDATE_FEATURE(argv[3])
    THEN IF ~buf.null THEN [kind |-> "result", text |-> buf.text]
                        ELSE [kind |-> "error", text |-> "nodata"]
    ELSE [kind |-> "error", text |-> "invalid"]

\* unixctl_command_register (lines 116-117): the server passes requests of
\* DIAG_BASIC_ARG_MIN to DIAG_BASIC_ARG_MAX arguments, plus the command
\* name, to the handler.
Registered(argc) ==
    argc - 1 \in DIAG_BASIC_ARG_MIN..DIAG_BASIC_ARG_MAX
====
