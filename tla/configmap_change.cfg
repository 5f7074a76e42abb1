SPECIFICATION FairSpec
CONSTANTS
    None = None
    Specs = {"one"}
    SpecEquals <- SameSpec
    Parse <- ParseConfigMap
    UsesConfigMap <- Always
    NeedsNATS <- Never
    MaxApps = 2
    MaxUpdates = 0
    MaxDeletes = 0
    MaxConfigMaps = 2
    MaxVersion = 3
    MaxLag = 2
    MaxCrashes = 0
    MaxAPIFaults = 0
    MaxParserFaults = 0
    MaxAvailChanges = 0
    Surge = 0
    InitialNATS = {"operator"}
    Resyncs = FALSE
    RaceFree = TRUE
    SlowTimers = TRUE
PROPERTIES
    ConfigMapChangeDeployed
\* A process that is deployed and reported needs no further step.
CHECK_DEADLOCK FALSE
