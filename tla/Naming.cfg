SPECIFICATION Spec
CONSTANTS
    n1 = n1
    n2 = n2
    Nodes = {n1, n2}
    Endpoints = {e1}
    Requests = {r1, r2}
    Ops <- MCOps
    Confs <- MCConfs
    Skew <- MCSkewed
    Timeout = 1
    DeleteAfter = 2
    PersistentTimeout = 2
    FoundRows = FALSE
    MaxTime = 2
SYMMETRY Symmetry
INVARIANTS
    UnhealthyIsSilent
    ListedAreFresh
    InstanceHasService
PROPERTIES
    OnlySilentRemoved
CHECK_DEADLOCK FALSE
