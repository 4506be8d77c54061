SPECIFICATION Spec
CONSTANTS
    Ids = {i1}
    Thinq1 = {i1}
    Elsewhere = {}
    Entries = {e1}
    Devs = {n1, n2}
    Keys = {k1, k2, k3}
    None = None
    Unlisted = Unlisted
    NoBridge = NoBridge
    MaxRegs = 2
    MaxPlaced = 0
    MaxFaults = 1
SYMMETRY Symmetry
INVARIANTS
    TypeOK
    RegistrationsSound
    OneUpstream
    NeverStuck
    RunsWhatIsWanted
