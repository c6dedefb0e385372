SPECIFICATION Spec
CONSTANTS
    typed = typed
    typed2 = typed2
    global = global
    scoped = scoped
    scoped2 = scoped2
    root = root
    scope = scope
    Threads = {t1}
    Admins = {t1}
    Listeners <- Five
    Typed = {typed, typed2, scoped, scoped2}
    Prio <- PrioFive
    Scopes = {root, scope}
    ScopeOf <- ScopeFive
    Kept = {}
    Throwing = {}
    NumSlots = 1
    MaxReturns = 1
    MaxEvents = 1
    MaxDepth = 1
    AllScopes = AllScopes
    None = None
INVARIANT HeardInOrder
CHECK_DEADLOCK FALSE
