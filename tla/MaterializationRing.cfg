SPECIFICATION Spec
CONSTANTS
    a = a  b = b  c = c  p = p
    Threads = {t1, t2, t3}
    Keys = {a, b, c, p}
    Prototypes = {p}
    Desc <- OwnDesc
    Reg <- OneRegistry
    Deps <- Ring
    PostDeps <- None
    Throwing = {}
    PostThrowing = {}
    MaxCalls = 1
    NoThread = NoThread
    NoKey = NoKey
INVARIANTS NoWaitCycle CyclicNeverStored

