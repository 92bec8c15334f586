SPECIFICATION MCSpec
CONSTANTS
    na = na
    nu = nu
    nr = nr
    wallet = wallet
    o1 = o1
    o2 = o2
    home = home
    lab = lab
    Writes = {na, nu, nr}
    Task <- MCTask
    Operations = {o1, o2}
    Wallets = {wallet}
    Default = home
    Customs = {lab}
    DefaultRecord <- MCDefaultRecord
    Custom <- MCCustom
    Asked <- MCAsked
    add1 = add1
    add2 = add2
    change = change
    free = free
    dx = dx
    dy = dy
    Requests = {add1, add2, change, free}
    Job <- MCJob
    ForDeploy <- MCForDeploy
    Pending <- MCPending
    Wealth = 3
    w1 = w1
    w2 = w2
    Openings = {w1, w2}
    netA = netA
    netB = netB
    Nets = {netA, netB}
    Home = netA
    MaxAsked <- MCMaxAsked
    Rows <- MCRows
    Deploys = {1}
    Elsewhere = {3}
    Incoming = {2, 3}
    Offsets = {0, 1, 3}
    Limits = {1, 2}
    acc1 = acc1
    acc2 = acc2
    Accounts = {acc1, acc2}
    DeployIds = {dx, dy}
    Costs = {0, 1, 2}
    GasMin = 1
    GasMax = 2
    Balance = 2
    MaxRows = 2
INVARIANTS
    ServicesTypeOK
    OperationsKeepTheirNetwork
    WritesAgree
    ReservationsFitNetwork
    Tended
    LocksAgree
    LocksShown
    FormMirrorsSdk
PROPERTIES
    AnswersFit
    ImplementsNetworkTable
    PagesAgree
CHECK_DEADLOCK FALSE
