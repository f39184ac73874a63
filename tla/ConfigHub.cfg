SPECIFICATION FairSpec
CONSTANTS
    Keys = {k1}
    Contents = {a, b}
    Absent = Absent
    Listeners = {l1}
    Impatient = {l1}
    Writers = {w1, w2}
    NoWriter = NoWriter
INVARIANTS
    WatchedKeyUnchanged
    NoWatcherLeak
    HubFollowsDatabase
PROPERTIES
    ChangeReported
    PublishNeverBlocks
    LostListenersAnswered
CHECK_DEADLOCK FALSE
