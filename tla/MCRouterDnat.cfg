CONSTANTS
    Entries = {e1, e2}
    Ips = {p1, p2}
    Targets = {t1}
    Platforms = {"thinq1"}
    Unlisted = Unlisted
    Nobody = Nobody
    MaxFaults = 2
SYMMETRY Symmetry
SPECIFICATION Spec
INVARIANTS
    TypeOK
    OffIsKept
PROPERTY
    OffStaysOff
