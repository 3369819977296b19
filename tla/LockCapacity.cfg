SPECIFICATION Spec
CONSTANTS
    Locks = {l1, l2}
    Seats = {}
    Keys = {k1, k2}
    Calls = {c1, c2}
    Capacity = 1
    Second = 1
    Ttl = 2
    Window = 1
    MaxLife = 5
    Tombstone = 1
    Lag = 2
    MaxNow = 5
    NoLock = NoLock
    NoKey = NoKey
SYMMETRY Symmetry
INVARIANTS QuantityBounded
CHECK_DEADLOCK FALSE
