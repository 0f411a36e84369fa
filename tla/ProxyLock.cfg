SPECIFICATION FairSpec
CONSTANTS
    None = None
    Keep = Keep
    v1 = v1
    SID = {s1, s2, s3}
    KEY = {k1, k2, k3}
    NAME = {n1}
    VAL = {v1}
    OWNER = {1}
    LABEL = {}
    REQ = {r1, r2}
    HOLDER = {r1, r2}
    INACTIVE = {2}
    FINAL = {3}
    MaxTime = 2
    Inactive = 2
    Final = 3
    RotateInterval = 1
    RotateOnLogin = TRUE
    CLIENT = {c1}
    REQUIRED = {None}
    RESPONSE <- LockResponses
    Synchronize = TRUE
    FailOpen = FALSE
    MaxFaults = 1
    EffectLost = FALSE
INVARIANTS
    ClientNotStranded
PROPERTIES
    LockReleasedByHolder
    EveryRequestAnswered
CHECK_DEADLOCK FALSE
