CONSTANTS
    Entries = {e1}
    Ips = {p1}
    Targets = {t1}
    Platforms = {"thinq1", "thinq2"}
    Unlisted = Unlisted
    Nobody = Nobody
    MaxFaults = 0
SYMMETRY Symmetry
SPECIFICATION Spec
INVARIANT
    OffRemovesRules
