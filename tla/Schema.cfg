SPECIFICATION FairSpec
CONSTANTS
    Procs = {p1, p2, p3}
    Base <- MCBase
    Versions <- MCVersions
    Script <- MCMySQL
    Admin = Admin
    NoName = NoName
    Accounts = {Admin, Other}
    AuthEnabled = {p1, p2}
    PublicSeed = {p3}
    MaxFaults = 2
INVARIANTS
    LedgerMeansApplied
    ServingMeansReady
PROPERTIES
    ServesUnlessRefused
CHECK_DEADLOCK FALSE
