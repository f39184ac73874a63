SPECIFICATION Spec
CONSTANTS
    k1 = k1
    a = a
    t1 = t1
    Keys = {k1}
    Contents = {a}
    TagNames = {t1}
    Absent = Absent
    NoProc = NoProc
    Procs = {p1, p2}
    Requests = {r1, r2}
    Impatient = {r1, r2}
    Ops <- MCTwoOps
SYMMETRY Symmetry
INVARIANTS
    TypeOK
    OnlyOwnerWrites
    WorkIsCurrent
    Fenced
    TablesAgree
    TokenConserved
PROPERTIES
    ActsAsSingleActive
CHECK_DEADLOCK FALSE
