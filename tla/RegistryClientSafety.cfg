SPECIFICATION Spec
CONSTANTS
    App = App
    Stopper = Stopper
    Nobody = Nobody
    MaxStarts = 2
    BeatFailureThreshold = 2
    Namespace = public
    Public = public
    Auth = "password"
    MaxRevocations = 1
INVARIANTS
    StopCanReachEveryLoop
    LoopEndsBeforeDeregister
PROPERTIES
    RetryHasNewToken
CHECK_DEADLOCK FALSE
