SPECIFICATION Spec
CONSTANTS
    None = None
    Specs = {"one", "two"}
    SpecEquals <- SameSpec
    Parse <- ParseConfigMap
    UsesConfigMap <- Always
    NeedsNATS <- TwoNeedsNATS
    MaxApps = 2
    MaxUpdates = 1
    MaxDeletes = 0
    MaxConfigMaps = 2
    MaxVersion = 3
    MaxLag = 2
    MaxCrashes = 0
    MaxAPIFaults = 1
    MaxParserFaults = 0
    MaxAvailChanges = 0
    Surge = 0
    InitialNATS = {"absent"}
    Resyncs = FALSE
    RaceFree = TRUE
    SlowTimers = TRUE
INVARIANTS
    NATSBeforeApps
PROPERTIES
    VersionsMonotone
\* A process that is deployed and reported needs no further step.
CHECK_DEADLOCK FALSE
