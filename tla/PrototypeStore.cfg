SPECIFICATION FairSpec
CONSTANTS
    Threads = {t1, t2}
    Allocators = {t1}
    Kinds = {leaf, own, holder}
    Holder = {holder}
    OwnAlloc = {own}
    Failing = {leaf, holder}
    HookFailing = {own}
    MaxSlots = 2
    MaxInst = 4
    MaxHandles = 1
    None = None
INVARIANTS TypeOK SlotsPartitioned RefcountIsHandles HeldIsAlive DestroyedOnce DeletedLast
PROPERTY StoreGoes
CHECK_DEADLOCK FALSE
