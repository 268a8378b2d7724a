----------------------------- MODULE DiagDumpRun -----------------------------
(***************************************************************************)
(* What one "diag-dump FEATURE basic [FILENAME]" command promises, with    *)
(* the worker thread, the mutexes, the deadline and the signal handlers of *)
(* the dispatch hidden.  The command walks the feature's daemon list in    *)
(* order: it writes the feature header, then, for each enabled daemon, a   *)
(* section that grows one record at a time and may stop short, and after  *)
(* the list the footer and the summary line.  A user interrupt, once seen, *)
(* stops the walk before the next dispatch; an interrupted dump to a file *)
(* ends with a note.  A daemon counts as responded only when its whole    *)
(* section ends the dump.  DiagDumpSession implements this specification  *)
(* under the mapping defined there.                                        *)
(***************************************************************************)
EXTENDS Naturals, Sequences

CONSTANTS
    Daemons,
    Lists       \* the daemon lists a feature can have

VARIABLES
    phase,        \* begin, loop, busy, summary, stop, closing, end
    list,         \* the feature's daemons: <<name, diag_flag>> records
    pos,          \* the position in list the walk has reached
    file,         \* the dump goes to a file rather than the console
    out,          \* the dump: a sequence of records
    count,        \* enabled daemons reached (attempted)
    resp,         \* daemons counted as responded
    summary,      \* the summary line printed: none, captured, failed
    interrupted   \* the user has interrupted the command

rvars == <<phase, list, pos, file, out, count, resp, summary, interrupted>>

NoDaemon == "-"
Rec(k, d) == [kind |-> k, daemon |-> d]
Enabled(i) == i \in DOMAIN list /\ list[i][2] = "ENABLE"
Current == list[pos][1]

\* The record that must directly precede one of kind k in a section.
Follows == [body |-> "start", end |-> "body"]

\* The dispatched daemon's next record: a section starts once, after
\* records of other daemons or the header, and goes on in order.
MayWrite(k) ==
    /\ out # <<>>
    /\ IF k = "start" THEN out[Len(out)].daemon # Current
       ELSE out[Len(out)] = Rec(Follows[k], Current)

\* The dispatched daemon's whole section ends the dump.
SectionEnds ==
    /\ Len(out) >= 3
    /\ SubSeq(out, Len(out) - 2, Len(out)) =
           <<Rec("start", Current), Rec("body", Current), Rec("end", Current)>>

Header ==
    /\ phase = "begin"
    /\ out' = Append(out, Rec("fbegin", NoDaemon))
    /\ phase' = "loop"
    /\ UNCHANGED <<list, pos, file, count, resp, summary, interrupted>>

\* No table, no such feature, or the file cannot be opened.
Reject ==
    /\ phase = "begin"
    /\ phase' = "end"
    /\ UNCHANGED <<list, pos, file, out, count, resp, summary, interrupted>>

\* The header or the footer cannot be written to the file.
WriteFails ==
    /\ file
    /\ \/ phase = "begin"
       \/ phase = "loop" /\ pos > Len(list)
    /\ phase' = "stop"
    /\ UNCHANGED <<list, pos, file, out, count, resp, summary, interrupted>>

Skip ==
    /\ phase = "loop"
    /\ pos <= Len(list)
    /\ ~Enabled(pos)
    /\ pos' = pos + 1
    /\ UNCHANGED <<phase, list, file, out, count, resp, summary, interrupted>>

\* An enabled daemon is attempted, and dispatched unless the user has
\* interrupted.
Attempt ==
    /\ phase = "loop"
    /\ Enabled(pos)
    /\ count' = count + 1
    /\ phase' = IF interrupted THEN "stop" ELSE "busy"
    /\ UNCHANGED <<list, pos, file, out, resp, summary, interrupted>>

Write ==
    /\ phase = "busy"
    /\ \E k \in {"start", "body", "end"} :
          MayWrite(k) /\ out' = Append(out, Rec(k, Current))
    /\ UNCHANGED <<phase, list, pos, file, count, resp, summary, interrupted>>

Return ==
    /\ phase = "busy"
    /\ \/ resp' = resp
       \/ SectionEnds /\ resp' = resp + 1
    /\ IF interrupted THEN phase' = "stop" /\ UNCHANGED pos
                      ELSE phase' = "loop" /\ pos' = pos + 1
    /\ UNCHANGED <<list, file, out, count, summary, interrupted>>

Footer ==
    /\ phase = "loop"
    /\ pos > Len(list)
    /\ out' = Append(out, Rec("fend", NoDaemon))
    /\ phase' = "summary"
    /\ UNCHANGED <<list, pos, file, count, resp, summary, interrupted>>

Summarize ==
    /\ phase = "summary"
    /\ summary' = IF count = resp THEN "captured" ELSE "failed"
    /\ phase' = "stop"
    /\ UNCHANGED <<list, pos, file, out, count, resp, interrupted>>

\* An interrupted dump to a file gets its note before the file is closed.
Close ==
    /\ phase = "stop"
    /\ IF file /\ interrupted
       THEN out' = Append(out, Rec("interrupted", NoDaemon))
       ELSE UNCHANGED out
    /\ phase' = "closing"
    /\ UNCHANGED <<list, pos, file, count, resp, summary, interrupted>>

Finish ==
    /\ phase = "closing"
    /\ phase' = "end"
    /\ UNCHANGED <<list, pos, file, out, count, resp, summary, interrupted>>

Interrupt ==
    /\ ~interrupted
    /\ interrupted' = TRUE
    /\ UNCHANGED <<phase, list, pos, file, out, count, resp, summary>>

RInit ==
    /\ phase = "begin"
    /\ list \in Lists
    /\ pos = 1
    /\ file \in BOOLEAN
    /\ out = <<>>
    /\ count = 0
    /\ resp = 0
    /\ summary = "none"
    /\ interrupted = FALSE

RNext ==
    \/ Header \/ Reject \/ WriteFails \/ Skip \/ Attempt \/ Write
    \/ Return \/ Footer \/ Summarize \/ Close \/ Finish \/ Interrupt

RSpec == RInit /\ [][RNext]_rvars
=============================================================================
