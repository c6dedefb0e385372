SPECIFICATION FairSpec
CONSTANTS
    a = a  b = b  c = c  p = p
    Threads = {t1, t2}
    Keys = {a, b, c, p}
    Prototypes = {p}
    Desc <- OwnDesc
    Reg <- OneRegistry
    Deps <- Diamond
    PostDeps <- DiamondHooks
    Throwing = {c}
    PostThrowing = {b}
    MaxCalls = 2
    NoThread = NoThread
    NoKey = NoKey
INVARIANTS TypeOK AtMostOneInstance ClaimsMatchFrames StackMirrorsFrames DepsStoredFirst CycleErrorsAreReal
PROPERTIES ImplementsSharedBeans EveryCallEnds
