SPECIFICATION PartsSpec
CONSTANTS
    Sessions = {s1, s2, s3}
    Logins = {l1}
    Tunnels = {u1}
    NoSession = NoSession
    MaxStored = 2
    MaxGeneration = 2
    Sockets = {1, 2, 3}
    MaxPending = 2
    MaxHello = 2
    Lookups = {1, 2, 3}
    Addresses = {"a1"}
    MaxLookups = 1
    MaxWaiting = 1
    Hosts = {"h1", "h2", "h3", "h4"}
    Handshakes = {1, 2, 3}
    MaxActive = 2
    MaxQueued = 1
    MaxCache = 1
    c1 = c1
    BrokerClients = {c1, c2}
    t1 = t1
    Topics = {t1}
    f1 = f1
    f2 = f2
    Filters = {f1, f2}
    Covers <- MCCovers
    Packets <- MCPackets
    Readable <- MCReadable
    NoWill = NoWill
    Wills = {NoWill, t1}
    MaxUndecided = 1
    MaxDeferred = 2
    MaxBytes = 3
    MaxSize = 1
    MaxOwn = 2
    MaxAll = 3
    MaxRetained = 1
    MaxRetainedBytes = 2
INVARIANTS
    PartsTypeOK
    SessionsAgree
    WillWhenLost
    SlotsBalance
PROPERTIES
    PromisesKept
    AnswersAreCurrent
    PlacesComeBack
