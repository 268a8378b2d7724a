---------------------------- MODULE MCOspfDebug ----------------------------
EXTENDS OspfDebug, TLC

MCFeatureNames == {"ospfv2", "lldp"}
MCDaemonNames  == {"ops-ospfd", "ops-lldpd"}

\* One command per path of ospf_debug, from DebugDefuns: debug ospfv2
\* packet hello send (a lookup of "hello") / debug ospfv2 ism status
\* (argc < 2) / debug (ospfv2) (ism) / no debug (ospfv2) (ism).
MCDebugCommands ==
    { [argc |-> 2, arg |-> "hello",  flag |-> 0],
      [argc |-> 1, arg |-> "status", flag |-> 0],
      [argc |-> 2, arg |-> "ospfv2", flag |-> 0],
      [argc |-> 2, arg |-> "ospfv2", flag |-> 2] }

\* argv[0] of an argument-less command: NULL, or a stale token.
MCShowArgs == {NULLSTR, "ospfv2"}
====
