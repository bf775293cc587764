SPECIFICATION ProcessSpec
CONSTANTS
    Daemons = {d1, d2, d3}
    Callers = {p1, p2}
    MaxCalls = 3
    Channels = {}
    Timers = {t1, t2}
    BusCapacity = 1
    MaxCommits = 2
    Periods = {2}
    Instants = {1}
    TimerQuota = 2
    MaxTime = 3
    Runs = {r1, r2}
    MaxSeq = 2
    MaxResets = 1
    StopCap = 1
    RefusalCap = 2
    PendingCap = 1
    Tokens = {t1, t2}
    Editors = {e1, e2}
    Posts = {p1, p2}
    Mates = {m1, m2, m3}
    MaxKeys = 2
    MaxNotes = 1
    MaxTries = 3
    Exes = {x1, x2}
    Crews = {{"codex"}, {"codex", "agy"}, {"copilot", "vscode"}, {"cursor", "opencode"}, {"claude"}}
    MaxRuns = 2
    MaxEdits = 1
    Harnesses = {"codex", "acp", "opencode", "agy"}
    MaxMail = 2
    MaxOffers = 2
    OfferCap = 2
    NoteCap = 1
    MaxTurns = 2
    MaxNoise = 1
    Signers = {s1, s2}
    Nonces = {n1}
    Skew = 1
    Behind = 1
    LastTime = 4
    Uploaders = {u1, u2}
    Blobs = {b1, b2}
    Big = {b1}
    SizeOf <- EachSizeOne
    Quota = 1
    MaxFaults = 2
    MaxUploads = 3
CHECK_DEADLOCK FALSE
INVARIANTS StoreHasOneOwner NoEventIsPassedOver SleepCoversEveryTimer
INVARIANTS HooksDeliverOnce TokenEditsSurvive RevokedIsRefused  
INVARIANTS  AppliesOnce 
INVARIANTS  OfferReachesOnce IdleIsNotMissed
 
