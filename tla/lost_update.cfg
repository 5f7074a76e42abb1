SPECIFICATION FairSpec
CONSTANTS
    None = None
    Specs = {"one", "two"}
    SpecEquals <- SameSpec
    Parse <- ParseSingle
    UsesConfigMap <- Never
    NeedsNATS <- Never
    MaxApps = 2
    MaxUpdates = 1
    MaxDeletes = 0
    MaxConfigMaps = 0
    MaxVersion = 2
    MaxLag = 2
    MaxCrashes = 0
    MaxAPIFaults = 0
    MaxParserFaults = 0
    MaxAvailChanges = 0
    Surge = 0
    InitialNATS = {"operator"}
    Resyncs = FALSE
    RaceFree = FALSE
    SlowTimers = TRUE
PROPERTIES
    SpecDeployed
\* A process that is deployed and reported needs no further step.
CHECK_DEADLOCK FALSE
