CONSTANTS
    MaxAttempts = 2
    FinishAttempts = 2
    Environments <- TwiceEnvironments
SPECIFICATION Spec
CHECK_DEADLOCK FALSE
INVARIANTS RunsOnce
