SPECIFICATION Spec
CONSTANTS
    Booking = {b1}
    Seats = {}
    Orders = {o1}
    Slots = {c1, c2}
    Provider = "stripe"
    Capacity = 1
    MaxQty = 1
    Methods = {"ONLINE"}
    Price = 2
    CouponPrices = {}
    HoldTime = 1
    MaxHoldExtensions = 1
    StartsAt = 3
    MaxTime = 2
    ShowOps = {}
    NoBooking = NoBooking
    NoOrder = NoOrder
PROPERTIES NoReleaseAfterCapture
CHECK_DEADLOCK FALSE
