SPECIFICATION ProcessSpec
CONSTANTS
    Daemons = {d1}
    Callers = {}
    MaxCalls = 3
    Channels = {}
    Timers = {}
    BusCapacity = 1
    MaxCommits = 2
    Periods = {2}
    Instants = {1}
    TimerQuota = 2
    MaxTime = 3
    Runs = {r1, r2}
    MaxSeq = 3
    MaxResets = 1
    StopCap = 1
    RefusalCap = 2
    PendingCap = 1
    Tokens = {}
    Editors = {}
    Posts = {}
    Mates = {m1, m2}
    MaxKeys = 1
    MaxNotes = 0
    MaxTries = 1
    Exes = {}
    Crews = {{}}
    MaxRuns = 0
    MaxEdits = 0
    Harnesses = {"agy"}
    MaxMail = 0
    MaxOffers = 0
    OfferCap = 1
    NoteCap = 1
    MaxTurns = 0
    MaxNoise = 0
    Signers = {}
    Nonces = {}
    Skew = 0
    Behind = 0
    LastTime = 0
    Uploaders = {}
    Blobs = {}
    Big = {}
    SizeOf <- EachSizeOne
    Quota = 0
    MaxFaults = 0
    MaxUploads = 0
CHECK_DEADLOCK FALSE
INVARIANT MarkHidesNothing
