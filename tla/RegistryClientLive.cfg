SPECIFICATION FairSpec
CONSTANTS
    App = App
    Stopper = Stopper
    Nobody = Nobody
    MaxStarts = 1
    BeatFailureThreshold = 2
    Namespace = public
    Public = public
    Auth = "password"
    MaxRevocations = 1
PROPERTIES
    RunningIsRegistered
    StoppedIsGone
    StopReturns
CHECK_DEADLOCK FALSE
