SPECIFICATION Spec
CONSTRAINT OneKind
CONSTANTS
    Agents = {1, 2}
    Supervisors = {2}
    Author = 1
    Cards = {1, 2}
    Limits = {0, 1}
    RequireReview = TRUE
    MaxNow = 5
    Tasks = {1, 2}
    Leases = {1, 2}
    Sprints = {3}
    Ttls = {1, 2}
    LeaseTtl = 1
    QuietMax = 1
    StaleAfter = 1
    EscalateAfter = 1
    ReclaimAfter = 2
    Bucket = 2
    Keep = 1
    PruneEvery = 1
    MaxActions = 1
    MaxExpiries = 1
    MaxBlockers = 2
    Failures = TRUE
INVARIANTS
    ApprovalsAreOfThisReview
    
    DueClaimsAreTried
CHECK_DEADLOCK FALSE
