------------------------ MODULE SupportabilityUtils ------------------------
(***************************************************************************)
(* The helpers of src/src/supportability_utils.c, as operators.  A char* *)
(* that is scanned character by character is a     *)
(* sequence of one-character strings; a char* that is only compared is a  *)
(* string value, NULLSTR standing for NULL.  A pointer into a scanned     *)
(* string is a position in it, NULL being 0.  trim_white_space and        *)
(* get_value have no caller in this repository.                            *)
(***************************************************************************)
EXTENDS Integers, Sequences, SequencesExt

NULLSTR == "NULL"   \* a NULL char*

\* strcmp_with_nullcheck (lines 72-78).  Callers only test the result
\* against 0, so the sign of strcmp is abstracted to 1.
strcmp_with_nullcheck(str1, str2) ==
    IF str1 = NULLSTR \/ str2 = NULLSTR THEN -1
    ELSE IF str1 = str2 THEN 0 ELSE 1

\* isspace() in the C locale.
IsSpace(c) == c \in {" ", "\t", "\n", "\r", "\f"}

\* trim_white_space (lines 96-126): beginptr skips the leading blanks; if
\* a character is left, endptr walks back from the last one while it is
\* blank and a terminator is written after it.  The result is the string
\* that starts at beginptr.
RECURSIVE SkipBlanks(_, _)
SkipBlanks(s, b) ==
    IF b <= Len(s) /\ IsSpace(s[b]) THEN SkipBlanks(s, b + 1) ELSE b

RECURSIVE BackOverBlanks(_, _, _)
BackOverBlanks(s, b, e) ==
    IF e > b /\ IsSpace(s[e]) THEN BackOverBlanks(s, b, e - 1) ELSE e

trim_white_space(s) ==
    LET beginptr == SkipBlanks(s, 1) IN
    IF beginptr > Len(s) THEN <<>>
    ELSE SubSeq(s, beginptr, BackOverBlanks(s, beginptr, Len(s)))

\* get_value (lines 166-185): the position just after the first '=', or
\* NULL when there is no '=' or nothing follows it.
RECURSIVE ValueAt(_, _)

ValueAt(s, i) ==
    IF i > Len(s) THEN 0
    ELSE IF s[i] = "=" THEN IF i < Len(s) THEN i + 1 ELSE 0
    ELSE ValueAt(s, i + 1)

get_value(s) == ValueAt(s, 1)

\* validate_cli_args (lines 288-308) for an argument, a pattern, whether
\* regcomp accepts the pattern and whether regexec finds a match: 0 on a
\* match, else the nonzero code of regcomp or regexec (glibc's values).
REG_NOMATCH == 1
REG_BADPAT  == 2

validate_cli_args(arg, regex, compiles, matches) ==
    CASE arg = NULLSTR \/ regex = NULLSTR -> 1
      [] ~compiles                         -> REG_BADPAT
      [] matches                           -> 0
      [] OTHER                             -> REG_NOMATCH

\* read_pid_file (lines 322-361) over what the pid file holds: nothing
\* (fopen fails), an empty file (fscanf returns EOF), text that is not a
\* number (fscanf returns 0), or a number.  pid stays 0 when fscanf
\* assigns nothing.  The range check compares fscanf's item count, not a
\* digit count, with MIN_PID_LEN..MAX_PID_LEN.
MIN_PID == 1
MAX_PID == 65536
MIN_PID_LEN == 1
MAX_PID_LEN == 5

PidFileKinds == {"missing", "empty", "text", "number"}

fscanf_pid(content) ==
    CASE content.kind = "empty"  -> [rc |-> -1, pid |-> 0]
      [] content.kind = "text"   -> [rc |-> 0, pid |-> 0]
      [] content.kind = "number" -> [rc |-> 1, pid |-> content.value]

read_pid_file(content) ==
    IF content.kind = "missing" THEN -1
    ELSE LET r == fscanf_pid(content) IN
         IF /\ r.rc >= MIN_PID_LEN /\ r.rc <= MAX_PID_LEN
            /\ r.pid >= MIN_PID /\ r.pid <= MAX_PID
         THEN r.pid ELSE -1

\* What connect_to_daemon finds in the run directory for a daemon:
\* whether <rundir>/<target>.ctl is writable (access W_OK) and a server
\* listens on it, the pid file, and the pid p for which a server listens
\* on <rundir>/<target>.<p>.ctl (0: none).
RunDirs ==
    LET num(n)  == [kind |-> "number", value |-> n]
        none    == [kind |-> "missing", value |-> 0]
        env(c, l, f, p) == [ctl |-> c, ctlListening |-> l, pidfile |-> f,
                            pidListening |-> p]
    IN { env(TRUE, TRUE, none, 0),          \* plain control socket
         env(TRUE, FALSE, none, 0),         \* stale socket file
         env(FALSE, FALSE, num(1234), 1234), \* per-pid control socket
         env(FALSE, FALSE, num(1234), 0),   \* pid file of a dead daemon
         env(FALSE, FALSE, none, 0) }       \* daemon never started

\* connect_to_daemon (lines 371-424): TRUE iff it returns a client.  The
\* plain socket is used when it is writable, else the per-pid socket of
\* the pid file's pid; unixctl_client_create succeeds iff a server
\* listens on the chosen name.  ovs_rundir never returns NULL and
\* xasprintf aborts rather than return NULL, so those early returns are
\* never taken.
connect_to_daemon(target, env) ==
    /\ target # NULLSTR
    /\ IF env.ctl
       THEN env.ctlListening
       ELSE LET pid == read_pid_file(env.pidfile)
            IN pid >= 0 /\ env.pidListening = pid
====
