SPECIFICATION StoreSpec
CONSTANTS
    SID = {s1, s2}
    KEY = {k1, k2}
    NAME = {n1}
    VAL = {v1}
    OWNER = {1, 2}
    LABEL = {}
    HOLDER = {h1}
    INACTIVE = {1}
    FINAL = {2}
    MaxTime = 2
    None = None
    Keep = Keep
SYMMETRY Symmetry
INVARIANTS
    StoreTypeOK
    NothingDangles
    OwnerIndexExact
PROPERTY RowMonotone
CHECK_DEADLOCK FALSE
