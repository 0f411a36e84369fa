SPECIFICATION RedisSpec
CONSTANTS
    SID = {s1}
    KEY = {k1, k2}
    NAME = {n1}
    VAL = {v1}
    OWNER = {1, 2}
    LABEL = {}
    HOLDER = {h1}
    INACTIVE = {2}
    FINAL = {3}
    MaxTime = 4
    SEC = 2
    MaxLag = 1
    None = None
    Keep = Keep
SYMMETRY Symmetry
INVARIANTS
    OneDeadline
    OwnerSetCovers
    KeptWithinLimits
PROPERTIES
    RunsOutWhenExpired
    ImplementsContract
CHECK_DEADLOCK FALSE
