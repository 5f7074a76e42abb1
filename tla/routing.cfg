SPECIFICATION FairSpec
CONSTANTS
    NoPod = NoPod
    None = None
    Pods = {"p1", "p2"}
    Processes = {"a", "b"}
    ConfigMaps = {"a", "m"}
    MaxExits = 1
    MaxChanges = 3
INVARIANTS
    TypeOK
    OneManager
PROPERTIES
    TakeOver
    OwnRequestArrives
    ChangeArrives
\* All pods may be gone and the user may be done.
CHECK_DEADLOCK FALSE
