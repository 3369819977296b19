SPECIFICATION FairSpec
CONSTANTS
    e1 = e1
    e2 = e2
    Event = {e1, e2}
    Earlier <- OneAggregate
    Slots = {s1, s2}
    NHandlers = 1
    MaxAttempts = 2
    MaxFaults = 1
    MaxOverruns = 0
    MaxOps = 0
    MaxMonths = 0
    NoEvent = NoEvent
INVARIANT InOrder
PROPERTY EventuallySettled
CHECK_DEADLOCK FALSE
