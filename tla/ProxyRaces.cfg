SPECIFICATION Spec
CONSTANTS
    None = None
    Keep = Keep
    v1 = v1
    SID = {s1, s2, s3}
    KEY = {k1, k2, k3}
    NAME = {n1}
    VAL = {v1}
    OWNER = {1}
    LABEL = {user}
    REQ = {r1, r2}
    HOLDER = {r1, r2}
    INACTIVE = {1}
    FINAL = {2}
    MaxTime = 2
    Inactive = 1
    Final = 2
    RotateInterval = 1
    RotateOnLogin = TRUE
    CLIENT = {c1}
    REQUIRED = {None, user}
    RESPONSE <- AllResponses
    Synchronize = TRUE
    FailOpen = TRUE
    MaxFaults = 1
    EffectLost = TRUE
SYMMETRY RequestSymmetry
INVARIANTS
    NothingDangles
    OwnerIndexExact
    LogoutIsFinal
    LogoutKillsKey
    TypeOK
    SingleKey
    KeyKeepsItsGrant
PROPERTIES
    AuthorizedAtTouch
    StaleResponseInert
CHECK_DEADLOCK FALSE
