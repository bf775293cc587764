SPECIFICATION DeliverySpec
CONSTANTS
    Channels = {c1, c2}
    Timers = {t1, t2}
    BusCapacity = 2
    MaxCommits = 3
    MaxCalls = 2
    EventQueue = 1
CHECK_DEADLOCK FALSE
INVARIANT NoticeWaitIsBusDriven
