SPECIFICATION HandlersSpec

CONSTANTS
    s1 = s1
    s2 = s2
    db1 = db1
    db2 = db2
    SID = {s1, s2}
    KEY = {k1, k2}
    NAME = {}
    VAL = {}
    OWNER = {1, 2}
    LABEL = {}
    HOLDER = {}
    INACTIVE = {1}
    FINAL = {1}
    MaxTime = 1
    None = None
    Keep = Keep
    MaxHandlers = 2
    DB = {db1, db2}
    Home <- MCHome
    CALL = {a1}
    MaxFaults = 1

INVARIANT RevokeNeverMeetsClosedClient

CHECK_DEADLOCK FALSE
