SPECIFICATION Spec
CONSTANTS
    Threads = {t1, t2}
    Allocators = {t1, t2}
    Kinds = {leaf, holder}
    Holder = {holder}
    OwnAlloc = {}
    Failing = {leaf}
    HookFailing = {}
    MaxSlots = 2
    MaxInst = 4
    MaxHandles = 1
    None = None
INVARIANT SlotsPartitioned
CHECK_DEADLOCK FALSE
