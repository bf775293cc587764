SPECIFICATION ServiceSpec
CONSTANTS
    Window = 1
    MaxRequests = 3
    RequestIds = {i1, i2}
    MaxTasks = 2
    QueueCap = 1
    Letters = {l1, l2}
    Beating = {"rewake"}
    EndTime = 2
    MaxBeats = 1
    Burst = 1
    Refill = 2
CHECK_DEADLOCK FALSE
INVARIANTS CancelIsNotMissed NoRungIsSkipped
PROPERTIES EveryRequestEnds EveryRequestIsSettled EveryMessageEscalates
