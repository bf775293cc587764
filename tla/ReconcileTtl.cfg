SPECIFICATION Spec
CONSTANTS
    Agents = {1}
    Supervisors = {1}
    Author = 1
    Cards = {}
    Limits = {0}
    RequireReview = TRUE
    MaxNow = 4
    Tasks = {1}
    Leases = {}
    Sprints = {}
    Ttls = {1, 2}
    LeaseTtl = 2
    QuietMax = 1
    StaleAfter = 1
    EscalateAfter = 1
    ReclaimAfter = 2
    Bucket = 2
    Keep = 9
    PruneEvery = 9
    MaxActions = 64
    MaxExpiries = 16
    MaxBlockers = 0
    Failures = FALSE
INVARIANTS
    HoldIsBounded
