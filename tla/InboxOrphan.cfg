SPECIFICATION FairSpec
CONSTANTS
    Event = {e1}
    Slots = {c1, c2}
    Provider = "razorpay"
    MAX_ATTEMPTS = 2
    Amount = 1
    MaxRefunds = 1
    MaxDeliveries = 2
    NoEvent = NoEvent
PROPERTY CrashIsRedelivered
CHECK_DEADLOCK FALSE
