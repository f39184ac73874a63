SPECIFICATION FairSpec
CONSTANTS
    App = App
    Stopper = Stopper
    Nobody = Nobody
    MaxStarts = 1
    BeatFailureThreshold = 2
    Namespace = team
    Public = public
    Auth = "none"
    MaxRevocations = 1
PROPERTIES
    RunningIsRegistered
CHECK_DEADLOCK FALSE
