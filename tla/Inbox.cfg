SPECIFICATION FairSpec
CONSTANTS
    Event = {e1}
    Slots = {c1, c2}
    Provider = "razorpay"
    MAX_ATTEMPTS = 2
    Amount = 1
    MaxRefunds = 1
    MaxDeliveries = 3
    NoEvent = NoEvent
INVARIANTS DeadLetterExhausted ClosedWithEvent
PROPERTY AcceptedIsHandled
CHECK_DEADLOCK FALSE
