SPECIFICATION Spec
CONSTANTS
    e1 = e1
    e2 = e2
    Event = {e1}
    Earlier = {}
    Slots = {s1, s2}
    NHandlers = 2
    MaxAttempts = 2
    MaxFaults = 1
    MaxOverruns = 1
    MaxOps = 1
    MaxMonths = 1
    NoEvent = NoEvent
SYMMETRY SlotSymmetry
INVARIANTS OneRunner CompletedOnce DeliveredMeansDone DeadLetterExhausted
CHECK_DEADLOCK FALSE
