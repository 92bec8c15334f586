SPECIFICATION MCSpec
CONSTANTS
    ta = ta
    tb = tb
    tc = tc
    oldest = oldest
    mid = mid
    latest = latest
    gap = gap
    Nothing = Nothing
    Tables = {ta, tb, tc}
    MaxVersion = 3
    Layout <- MCLayout
    Builds = {oldest, mid, latest, gap}
    BuildVersion <- MCBuildVersion
    Declared <- MCDeclared
    Resumable = {2}
    Migratable <- MCMigratable
    d1 = d1
    d2 = d2
    i1 = i1
    r1 = r1
    x1 = x1
    Calls = {d1, d2, i1, r1, x1}
    Kind <- MCKind
    Wanted <- MCWanted
    Creation = Creation
    Backends = {"browser"}
    MaxIndex = 2
    MaxCalls = 2
    MaxWallets = 2
    seed = seed
    path1 = path1
    path2 = path2
    Seeds = {seed}
    Roots = {path1, path2}
    Indexes = {0}
    HeldKeys = {}
    MaxSigners = 1
    MaxFiles = 0
    MaxImports = 0
INVARIANT RemovalIsComplete
CHECK_DEADLOCK FALSE
