SPECIFICATION Spec
CONSTANTS
    typed = typed
    typed2 = typed2
    global = global
    scoped = scoped
    scoped2 = scoped2
    root = root
    scope = scope
    Threads = {t1, t2}
    Admins = {t1}
    Listeners <- Three
    Typed = {typed}
    Prio <- PrioThree
    Scopes = {root, scope}
    ScopeOf <- ScopeThree
    Kept = {global}
    Throwing = {global}
    NumSlots = 1
    MaxReturns = 1
    MaxEvents = 1
    MaxDepth = 1
    AllScopes = AllScopes
    None = None
INVARIANTS TypeOK ViewOutlivesDispatch RetiredBounded HeardInOrder Delivered CallsGoOn
CHECK_DEADLOCK FALSE
