CONSTANTS
    T1Conns = {k1, k2}
    T2Conns = {c1, c2}
    T1Ids = {j1}
    T2Ids = {i1}
    Serials = {1, 2, 3}
    None = None
SPECIFICATION FairSpec
INVARIANTS
    TypeOK
    OneRegistration
    HandlerInCharge
PROPERTY
    GoneIsDropped
