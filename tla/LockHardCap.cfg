SPECIFICATION Spec
CONSTANTS
    Locks = {l1, l2}
    Seats = {s1}
    Keys = {k1, k2}
    Calls = {c1, c2}
    Capacity = 1
    Second = 2
    Ttl = 2
    Window = 1
    MaxLife = 2
    Tombstone = 1
    Lag = 1
    MaxNow = 4
    NoLock = NoLock
    NoKey = NoKey
SYMMETRY Symmetry
INVARIANTS HardCap
CHECK_DEADLOCK FALSE
