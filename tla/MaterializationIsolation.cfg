SPECIFICATION Spec
CONSTANTS
    a = a  b = b  c = c  p = p
    Threads = {t1}
    Keys = {a, b}
    Prototypes = {}
    Desc <- SameDesc
    Reg <- OwnRegistry
    Deps <- CrossContext
    PostDeps <- None
    Throwing = {}
    PostThrowing = {}
    MaxCalls = 1
    NoThread = NoThread
    NoKey = NoKey
INVARIANT CycleErrorsAreReal
