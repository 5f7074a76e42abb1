SPECIFICATION Spec
CONSTANTS
    None = None
    Specs <- AllSpecs
    OperatorConfigs <- ConfigsSeen
    InitialIngress <- IngressSeen
    SiddhiImage = "siddhi-runner"
    HealthPort = 9090
    MaxApps = 2
    MaxUpdates = 2
    MaxEvents = 2
INVARIANT UnwantedDeleted
\* A process that is deployed needs no further step.
CHECK_DEADLOCK FALSE
