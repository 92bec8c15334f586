SPECIFICATION MCSpec
CONSTANTS
    ta = ta
    tb = tb
    tc = tc
    oldest = oldest
    mid = mid
    latest = latest
    gap = gap
    Nothing = Nothing
    Tables = {ta, tb, tc}
    MaxVersion = 3
    Layout <- MCLayout
    Builds = {oldest, mid, latest, gap}
    BuildVersion <- MCBuildVersion
    Declared <- MCDeclared
    Resumable = {2}
    Migratable <- MCMigratable
    d1 = d1
    d2 = d2
    i1 = i1
    r1 = r1
    x1 = x1
    Calls = {d1, d2, i1, r1, x1}
    Kind <- MCKind
    Wanted <- MCWanted
    Creation = Creation
    Backends = {"browser", "node"}
    MaxIndex = 2
    MaxCalls = 2
    MaxWallets = 2
    seed = seed
    path1 = path1
    path2 = path2
    Seeds = {seed}
    Roots = {path1, path2}
    Indexes = {0, 1}
    HeldKeys <- MCHeldKeys
    MaxSigners = 2
    MaxFiles = 2
    MaxImports = 2
INVARIANTS
    StorageTypeOK
    VersionTellsData
    RowsSurvive
    ReportedIsStored
    NoTwins
    KeepsAnAccount
    StorageFollowsWallet
    OneWalletPerSecret
PROPERTY DamageIsSticky
CHECK_DEADLOCK FALSE
