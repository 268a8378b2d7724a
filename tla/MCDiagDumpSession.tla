------------------------- MODULE MCDiagDumpSession -------------------------
EXTENDS DiagDumpSession, TLC

DaemonSymmetry == Permutations(Daemons)
====
