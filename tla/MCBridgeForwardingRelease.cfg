SPECIFICATION FairSpec
CONSTANTS
    Ids = {i1}
    Thinq1 = {}
    Elsewhere = {}
    Entries = {e1}
    Devs = {n1, n2}
    Keys = {k1, k2}
    None = None
    Unlisted = Unlisted
    NoBridge = NoBridge
    MaxRegs = 1
    MaxPlaced = 0
    MaxFaults = 1
PROPERTY ReleaseStopsForwarding
