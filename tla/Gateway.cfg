SPECIFICATION Spec
CONSTANTS
    Components <- MCComponents
    Routes <- MCRoutes
    Instances <- MCInstances
    Policies <- MCPolicies
    DefaultPolicy <- MCDefaultPolicy
    None = None
    HashIndex <- MCHashIndex
    Requests = {q1, q2}
    Kinds <- MCKinds
    Refreshers = {tick}
    Stable = {"api"}
    MaxAttempts = 3
    MaxChanges = 1
SYMMETRY Symmetry
INVARIANTS
    OpenRequestsCounted
    NoPhantomRequests
    EveryCandidateTried
    NoReplayAfterBytes
    StableStaysRouted
    RoundRobinShares
CHECK_DEADLOCK FALSE
