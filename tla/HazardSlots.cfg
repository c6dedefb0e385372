SPECIFICATION CalmSpec
CONSTANTS
    Threads = {t1, t2, t3, t4}
    NumSlots = 3
    MaxReturns = 2
    None = None
INVARIANTS SlotsTyped SlotsExclusive SlotsRecycled
CHECK_DEADLOCK FALSE
