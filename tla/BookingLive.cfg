SPECIFICATION FairSpec
CONSTANTS
    Booking = {b1}
    Seats = {s1}
    Orders = {o1}
    Slots = {c1, c2}
    Provider = "stripe"
    Capacity = 1
    MaxQty = 1
    Methods = {"ONLINE"}
    Price = 2
    CouponPrices = {1}
    HoldTime = 1
    MaxHoldExtensions = 0
    StartsAt = 2
    MaxTime = 2
    ShowOps = {"block"}
    NoBooking = NoBooking
    NoOrder = NoOrder
PROPERTIES LapsedHoldsSettle
CHECK_DEADLOCK FALSE
