SPECIFICATION Spec
CONSTANTS
    Booking = {b1, b2}
    Seats = {s1, s2}
    Orders = {o1}
    Slots = {c1, c2}
    Provider = "razorpay"
    Capacity = 2
    MaxQty = 2
    Methods = {"ONLINE"}
    Price = 2
    CouponPrices = {}
    HoldTime = 1
    MaxHoldExtensions = 0
    StartsAt = 2
    MaxTime = 2
    ShowOps = {"block"}
    NoBooking = NoBooking
    NoOrder = NoOrder
SYMMETRY Symmetry
INVARIANTS SeatsSoldOnce SoldCounterMatchesMap
CHECK_DEADLOCK FALSE
