CONSTANTS
    MaxAttempts = 2
    FinishAttempts = 2
    Environments <- SafetyEnvironments
    Jobs = {1, 2, 3}
    Crowds <- SomeCrowds
    Readings <- SomeReadings
    Capacity <- OneCapacity
    Cpus = 8
    Budget = 7
    SmallWeight = 2
    MemBudget = 3
    QuietDrain = 2
    QuietMax = 2
    BackfillWait = 2
    LoadWait = 3
    Aging = 1
    Recheck = 1
    Retry = 1
    LastInstant = 4
    MaxTroubles = 1
    Works <- SomeWorks
    MaxAgents = 3
    MaxTasks = 4
    MaxRounds = 5
    Unit = 2
SPECIFICATION JobsSpec
CHECK_DEADLOCK FALSE
INVARIANTS CardFollows
           SleepMissesNothing SomeoneStarts WindowIsQuiet
           PlanKeepsRules AnswerIsGood
PROPERTIES PotentialFalls
