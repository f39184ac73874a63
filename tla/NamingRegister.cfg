SPECIFICATION Spec
CONSTANTS
    n1 = n1
    n2 = n2
    Nodes = {n1}
    Endpoints = {e1}
    Requests = {r1}
    Ops <- Operations
    Confs <- MCConfs
    Skew <- MCExact
    Timeout = 1
    DeleteAfter = 2
    PersistentTimeout = 2
    FoundRows = TRUE
    MaxTime = 3
PROPERTIES
    RegisterTakesEffect
CHECK_DEADLOCK FALSE
