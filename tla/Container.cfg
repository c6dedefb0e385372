SPECIFICATION Spec
CONSTANTS
    a = a
    b = b
    c = c
    p = p
    q = q
    n = n
    alt = alt
    w1 = w1
    w2 = w2
    main = main
    ctx = ctx
    unnamed = unnamed
    Types = {a, b, c, p, q, ctx}
    Names = {unnamed, n, alt}
    Unnamed = unnamed
    NoDesc = NoDesc
    Ambiguous = Ambiguous
    Identities = {1, 2, 3, 4, 5, 6, 7, 8, 9}
    NoId = NoId
    CtxType = ctx
    CtxInst = CtxInst
    None = None
    Catalogs <- Programs
    MaxPending = 2
    MaxInst = 4
    MaxFailed = 2
    MaxDepth = 3
    Threads = {main, w1, w2}
    Main = main
    Beans = {p, q}
    Uses <- LocalUses
    MaxLocal = 3
INVARIANTS
    ContainerTypeOK
    SelectionIsBest
    InFlightIsBest
    FoundIsLive
    Accounted
    UsesOutlive
    EagerMade
    LocalIsOwn
    LocalsDestroyed
    TokensDistinct
SYMMETRY Symmetry
CHECK_DEADLOCK FALSE
