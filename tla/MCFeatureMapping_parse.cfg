\* Every configuration of up to two features with up to two daemons each,
\* every diag_dump value, and every parse-failure point; two registry
\* calls, each a lookup or a "diag-dump list".
\* A file that parses completely must give the table it states.
CONSTANTS
    FeatureNames <- MCFeatureNames
    DaemonNames <- MCDaemonNames
    MaxFeatures = 2
    MaxDaemons = 2
    MaxCalls = 2
    FlagValues = {"y", "n", "none"}
SPECIFICATION Spec
INVARIANT TypeOK
INVARIANT ParsedTableMatchesConfig
INVARIANT ListedFeaturesHaveEnabledDaemon
