CONSTANTS
    Entries = {e1, e2}
    Ips = {p1, p2}
    Targets = {t1, t2}
    Platforms = {"thinq2"}
    Unlisted = Unlisted
    Nobody = Nobody
    MaxFaults = 1
SPECIFICATION FairSpec
INVARIANT
    NoOrphanRules
PROPERTY
    WantedIsRestored
