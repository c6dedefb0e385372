SPECIFICATION SlotSpec
CONSTANTS
    Threads = {t1, t2, t3}
    NumSlots = 2
    MaxReturns = 3
    None = None
INVARIANT SlotsExclusive
CHECK_DEADLOCK FALSE
