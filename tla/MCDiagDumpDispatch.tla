------------------------- MODULE MCDiagDumpDispatch -------------------------
(* Model-checking instance of DiagDumpDispatch: two daemons (model values  *)
(* set in the .cfg files), two dispatches, so that a second dispatch runs  *)
(* after whatever the first one left behind (mutex owners, client, alarm). *)
EXTENDS DiagDumpDispatch, TLC

\* Daemon names are interchangeable: used only in safety runs.
DaemonSymmetry == Permutations(Daemons)
=============================================================================
