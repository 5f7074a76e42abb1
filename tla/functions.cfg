SPECIFICATION Spec
CONSTANTS
    MaxApps = 3
    MaxReplicas = 2
    Surge = 2
    MaxLength = 2
    MaxEdits = 2
    Base = 10
    MaxSources = 4
    MaxAppConfigs = 2
    MaxVersion = 101
INVARIANTS
    TerminateMeansAllUp
    ReadyMeansStatefulUp
    ReorderingIsNoUpdate
    OnlyThreeBlindSpots
    PortsExposed
    NamesDistinct
\* Each part ends at its bounds.
CHECK_DEADLOCK FALSE
