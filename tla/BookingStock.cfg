SPECIFICATION Spec
CONSTANTS
    Booking = {b1, b2}
    Seats = {}
    Orders = {o1}
    Slots = {c1, c2}
    Provider = "razorpay"
    Capacity = 2
    MaxQty = 2
    Methods = {"ONLINE"}
    Price = 2
    CouponPrices = {}
    HoldTime = 1
    MaxHoldExtensions = 0
    StartsAt = 3
    MaxTime = 2
    ShowOps = {"cancel"}
    NoBooking = NoBooking
    NoOrder = NoOrder
SYMMETRY Symmetry
INVARIANTS InventoryAccounted NoOversell TicketsIssuedOnce
PROPERTIES SettledIsFinal ImplementsSale
CHECK_DEADLOCK FALSE
