SPECIFICATION FairSpec
CONSTANTS
    None = None
    Specs = {"two"}
    SpecEquals <- SameSpec
    Parse <- ParseSingle
    UsesConfigMap <- Never
    NeedsNATS <- Never
    MaxApps = 2
    MaxUpdates = 0
    MaxDeletes = 0
    MaxConfigMaps = 0
    MaxVersion = 2
    MaxLag = 1
    MaxCrashes = 1
    MaxAPIFaults = 0
    MaxParserFaults = 1
    MaxAvailChanges = 3
    Surge = 0
    InitialNATS = {"operator"}
    Resyncs = TRUE
    RaceFree = FALSE
    SlowTimers = TRUE
PROPERTIES
    SpecDeployed
    StatusConverges
    DownReported
    PollingEnds
\* A process that is deployed and reported needs no further step.
CHECK_DEADLOCK FALSE
