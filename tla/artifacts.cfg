SPECIFICATION FairSpec
CONSTANTS
    None = None
    Specs <- AllSpecs
    OperatorConfigs <- ConfigsSeen
    InitialIngress <- IngressSeen
    SiddhiImage = "siddhi-runner"
    HealthPort = 9090
    MaxApps = 2
    MaxUpdates = 2
    MaxEvents = 2
INVARIANTS
    TypeOK
    MountsExist
    Converged
    PodsRunCurrentApp
    IngressComplete
PROPERTIES
    IngressKept
    UpdateRolledOut
\* A process that is deployed needs no further step.
CHECK_DEADLOCK FALSE
