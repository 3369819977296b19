SPECIFICATION Spec
CONSTANTS
    Event = {e1}
    Slots = {c1, c2}
    Provider = "razorpay"
    MAX_ATTEMPTS = 2
    Amount = 1
    MaxRefunds = 1
    MaxDeliveries = 1
    NoEvent = NoEvent
INVARIANT NeverLeftOpen
CHECK_DEADLOCK FALSE
