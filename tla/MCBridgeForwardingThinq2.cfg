SPECIFICATION Spec
CONSTANTS
    i1 = i1
    i2 = i2
    x1 = x1
    e1 = e1
    e2 = e2
    n1 = n1
    n2 = n2
    k1 = k1
    None = None
    Unlisted = Unlisted
    NoBridge = NoBridge
SYMMETRY Symmetry
INVARIANTS
    RunsWhatIsWanted
