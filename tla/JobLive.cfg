CONSTANTS
    MaxAttempts = 2
    FinishAttempts = 2
    Environments <- LiveEnvironments
SPECIFICATION FairSpec
CHECK_DEADLOCK FALSE
PROPERTIES  EndIsRecorded
