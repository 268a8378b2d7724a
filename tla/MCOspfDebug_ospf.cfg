\* Every configuration of up to two features (one of them ospfv2) with up
\* to two daemons each and every parse-failure point; OSPF debug and show
\* commands and diag-dump lookups in any order, two registry calls.  vtysh
\* may crash on a NULL iterator and then stops (Finished).
CONSTANTS
    FeatureNames <- MCFeatureNames
    DaemonNames <- MCDaemonNames
    DebugCommands <- MCDebugCommands
    ShowArgs <- MCShowArgs
    MaxFeatures = 2
    MaxDaemons = 2
    MaxCalls = 2
    FlagValues = {"y"}
SPECIFICATION OspfSpec
INVARIANT OspfTypeOK
INVARIANT CrashOnlyOnMissingFeature
INVARIANT DaemonsContactedInFileOrder
