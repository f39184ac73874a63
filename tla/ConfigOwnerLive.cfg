SPECIFICATION FairSpec
CONSTANTS
    k1 = k1
    a = a
    t1 = t1
    Keys = {k1}
    Contents = {a}
    TagNames = {t1}
    Absent = Absent
    NoProc = NoProc
    Procs = {p1}
    Requests = {r1, r2, r3}
    Impatient = {r1}
    Ops <- MCOneOp
PROPERTIES
    EveryRequestAnswered
    LostFreesLock
CHECK_DEADLOCK FALSE
