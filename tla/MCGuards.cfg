SPECIFICATION MCSpec
CONSTANTS
    transfer = transfer
    transfer2 = transfer2
    update = update
    remove = remove
    cleanup = cleanup
    cleanup2 = cleanup2
    creation = creation
    accountA = accountA
    accountB = accountB
    reservation = reservation
    fingerprint = fingerprint
    network = network
    None = None
    Operations = {transfer, transfer2, update, remove, cleanup, cleanup2, creation}
    Keys = {accountA, accountB, reservation, fingerprint}
    Scopes = {network}
    Exclusive = {cleanup, cleanup2}
    KeysOf <- MCKeysOf
    ScopeOf <- MCScopeOf
    u1 = u1
    u2 = u2
    u3 = u3
    NoUnlock = NoUnlock
    Unlocks = {u1, u2, u3}
    Timed = {u1, u2}
    MaxLocks = 2
    l1 = l1
    l2 = l2
    Listeners = {l1, l2}
    MaxWatches = 3
INVARIANTS
    KeyExclusion
    ScopeExclusion
    LockBeatsUnlock
    Zeroized
    OneEnding
PROPERTIES
    RefusalsJustified
    SessionLastsItsTime
    SessionsExpire
    EveryWatchEnds
CHECK_DEADLOCK FALSE
