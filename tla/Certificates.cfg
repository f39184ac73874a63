SPECIFICATION FairSpec
CONSTANTS
    d = d
    s = s
    Domains = {d}
    Strangers = {s}
    Wildcard <- MCWildcard
    Eligible = {d}
    AcmeEnabled = TRUE
    WriteBack = TRUE
    MaxOnDemand = 1
    None = None
INVARIANTS
    TypeOK
    ChallengeOnlyWhileIssuing
PROPERTIES
    FallbackProvided
    IssuedIsRenewed
    RealBeatsPlaceholder
    RevokedIsForgotten
CHECK_DEADLOCK FALSE
