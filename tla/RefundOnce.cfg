SPECIFICATION Spec
CONSTANTS
    Event = {e1, e2}
    Slots = {c1, c2}
    Provider = "razorpay"
    MAX_ATTEMPTS = 2
    Amount = 1
    MaxRefunds = 1
    MaxDeliveries = 1
    NoEvent = NoEvent
INVARIANT OncePerRefund
CHECK_DEADLOCK FALSE
