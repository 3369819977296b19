SPECIFICATION Spec
CONSTANTS
    Booking = {b1}
    Seats = {s1, s2}
    Orders = {}
    Slots = {c1, c2}
    Provider = "razorpay"
    Capacity = 2
    MaxQty = 2
    Methods = {"ONLINE", "CASH", "FREE"}
    Price = 2
    CouponPrices = {1}
    HoldTime = 2
    MaxHoldExtensions = 1
    StartsAt = 1
    MaxTime = 4
    ShowOps = {"pause", "reopen", "cancel", "block"}
    NoBooking = NoBooking
    NoOrder = NoOrder
SYMMETRY Symmetry
INVARIANTS TypeOK SeatDeadlinesAgree
PROPERTY ImplementsSeatSale
CHECK_DEADLOCK FALSE
