CONSTANTS
    Clients = {c1, c2}
    Entries = {e1, e2}
    Ips = {p1, p2}
    i1 = i1
    Ids = {i1, i2}
    a1 = a1
    Accounts = {a1}
    AccountIds <- MCAccountIds
    Writers = {a1}
    None = None
    NoEntry = NoEntry
    BrokerClients = {k1, k2, k3}
    t1 = t1
    Topics = {t1, t2}
    f1 = f1
    f2 = f2
    Filters = {f1, f2}
    Covers <- MCCovers
    Packets <- MCPackets
    Readable <- MCReadable
    NoWill = NoWill
    Wills = {NoWill}
    MaxUndecided = 2
    MaxDeferred = 0
    MaxBytes = 1
    MaxSize = 2
    MaxOwn = 2
    MaxAll = 4
    MaxRetained = 1
    MaxRetainedBytes = 2
SYMMETRY Symmetry
SPECIFICATION AccessSpec
INVARIANTS
    TypeOK
    ClaimsSound
    OwnersServed
    BrokerAccounts
PROPERTY
    IdentityStable
