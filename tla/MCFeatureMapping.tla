-------------------------- MODULE MCFeatureMapping --------------------------
EXTENDS FeatureMapping, TLC

MCFeatureNames == {"lldp", "ntp"}
MCDaemonNames  == {"ops-lldpd", "ops-ntpd"}
====
