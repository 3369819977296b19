SPECIFICATION Spec
CONSTANTS
    r1 = r1
    r2 = r2
    t1 = t1
    t2 = t2
    w1 = w1
    w2 = w2
    w3 = w3
    Refunds = {r1, r2}
    Tickets = {t1}
    Workers = {w1, w2, w3}
    Captured = 2
    MaxGen = 2
    DbErrors = TRUE
    Provider = "razorpay"
    NoRefund = NoRefund
SYMMETRY Symmetry
INVARIANTS PaidOncePerRefund VoidedMeansAccepted CompletedMeansPaid
CHECK_DEADLOCK FALSE
