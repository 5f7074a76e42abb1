SPECIFICATION Spec
CONSTANTS
    None = None
    Specs = {"one", "two"}
    SpecEquals <- SameSpec
    Parse <- ParseScaled
    UsesConfigMap <- Never
    NeedsNATS <- Never
    MaxApps = 2
    MaxUpdates = 1
    MaxDeletes = 1
    MaxConfigMaps = 0
    MaxVersion = 2
    MaxLag = 1
    MaxCrashes = 0
    MaxAPIFaults = 1
    MaxParserFaults = 1
    MaxAvailChanges = 0
    Surge = 0
    InitialNATS = {"operator"}
    Resyncs = FALSE
    RaceFree = TRUE
    SlowTimers = TRUE
INVARIANTS
    NoOrphans
    ClusterMatchesList
PROPERTIES
    NoClobber
\* A process that is deployed and reported needs no further step.
CHECK_DEADLOCK FALSE
