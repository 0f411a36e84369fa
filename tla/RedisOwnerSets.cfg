SPECIFICATION RedisSpec
CONSTANTS
    SID = {s1, s2}
    KEY = {k1, k2}
    NAME = {n1}
    VAL = {v1}
    OWNER = {1}
    LABEL = {}
    HOLDER = {h1}
    INACTIVE = {3}
    FINAL = {1, 3}
    MaxTime = 3
    SEC = 2
    MaxLag = 2
    None = None
    Keep = Keep
SYMMETRY Symmetry
INVARIANTS
    OwnerSetCovers
CHECK_DEADLOCK FALSE
