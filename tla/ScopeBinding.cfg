SPECIFICATION Spec
CONSTANTS
    doc = doc
    history = history
    Scopes = {s1, s2}
    Discovered <- Order
    Deps <- DocDeps
    BindKeys = {user}
    Throwing = {}
    MaxInst = 2
    MaxDepth = 1
    MaxOrder = 1
    None = None
INVARIANT BoundIsResolvable
