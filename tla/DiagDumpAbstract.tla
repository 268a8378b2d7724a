-------------------------- MODULE DiagDumpAbstract --------------------------
(***************************************************************************)
(* What a dispatch of the diag-dump CLI promises its caller, the daemon    *)
(* loop of vtysh_diag_dump_show, with the threads, mutexes, deadline and   *)
(* signals of vtysh_diag_dump_create_thread hidden.  A dispatch of daemon  *)
(* d is busy for a while, during which d's section ("[Start] Daemon", the  *)
(* result, "[End] Daemon") grows in the sink one record at a time, in      *)
(* order, and may stop short; then it returns 1, or 0 when d's whole       *)
(* section ends the sink.  DiagDumpDispatch implements this specification  *)
(* under the refinement mapping defined there.                             *)
(***************************************************************************)
EXTENDS Naturals, Sequences

CONSTANTS Daemons, MaxCalls

VARIABLES
    phase,   \* "idle", "busy" (inside the dispatch) or "ret" (returned)
    cur,     \* the daemon of the current or last dispatch
    out,     \* the sink: a sequence of section records
    rc,      \* what the last dispatch returned
    calls    \* dispatches made so far

avars == <<phase, cur, out, rc, calls>>

Record(k, d) == [kind |-> k, daemon |-> d]

\* The record that must directly precede a record of kind k, if any.
Before == [body |-> "start", end |-> "body"]

\* A record of kind k of daemon d may be appended to s: a section starts
\* anywhere, and goes on only right after its previous record.
MayAppend(s, k, d) ==
    \/ k = "start"
    \/ /\ k \in DOMAIN Before
       /\ s # <<>>
       /\ s[Len(s)] = Record(Before[k], d)

\* d's whole section is the end of s.
SectionEnds(s, d) ==
    /\ Len(s) >= 3
    /\ SubSeq(s, Len(s) - 2, Len(s)) =
           <<Record("start", d), Record("body", d), Record("end", d)>>

Call ==
    /\ phase = "idle"
    /\ calls < MaxCalls
    /\ \E d \in Daemons : cur' = d
    /\ calls' = calls + 1
    /\ phase' = "busy"
    /\ UNCHANGED <<out, rc>>

Write ==
    /\ phase = "busy"
    /\ \E k \in {"start", "body", "end"} :
          /\ MayAppend(out, k, cur)
          /\ out' = Append(out, Record(k, cur))
    /\ UNCHANGED <<phase, cur, rc, calls>>

Return ==
    /\ phase = "busy"
    /\ \E r \in {0, 1} :
          /\ r = 0 => SectionEnds(out, cur)
          /\ rc' = r
    /\ phase' = "ret"
    /\ UNCHANGED <<cur, out, calls>>

Back ==
    /\ phase = "ret"
    /\ phase' = "idle"
    /\ UNCHANGED <<cur, out, rc, calls>>

AInit ==
    /\ phase = "idle"
    /\ cur \in Daemons
    /\ out = <<>>
    /\ rc = 0
    /\ calls = 0

ANext == Call \/ Write \/ Return \/ Back

ASpec == AInit /\ [][ANext]_avars
=============================================================================
