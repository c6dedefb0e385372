SPECIFICATION Spec
CONSTANTS
    typed = typed
    typed2 = typed2
    global = global
    scoped = scoped
    scoped2 = scoped2
    root = root
    scope = scope
    Threads = {t1}
    Admins = {t1}
    Listeners <- Two
    Typed = {typed}
    Prio <- PrioTwo
    Scopes = {root}
    ScopeOf <- ScopeTwo
    Kept <- Two
    Throwing = {}
    NumSlots = 1
    MaxReturns = 1
    MaxEvents = 2
    MaxDepth = 2
    AllScopes = AllScopes
    None = None
INVARIANT ViewOutlivesDispatch
CHECK_DEADLOCK FALSE
