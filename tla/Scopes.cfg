SPECIFICATION Spec
CONSTANTS
    doc = doc
    history = history
    Scopes = {s1, s2}
    Discovered <- Order
    Deps <- DocDeps
    BindKeys = {user}
    Throwing = {user, doc}
    MaxInst = 4
    MaxDepth = 3
    MaxOrder = 1
    None = None
INVARIANTS TypeOK FindIsLive DestroyedOnce Accounted NoneOutlivesScope DepsOutlive
PROPERTY KeptUntilReplaced
