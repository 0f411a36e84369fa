SPECIFICATION StagingSpec
CONSTANTS
    REQ = {r1, r2}
    CHUNK = {2}
    MemoryLimit = 2
    MaxBytes = 4
    AggregateBytes = 6
    MaxInformational = 1
    MaxMetadataBytes = 2
    Allowance = 1
    None = None
SYMMETRY Symmetry
INVARIANTS
    StagingTypeOK
    BudgetExact
    StagedIsReserved
    RefusedGivesNothing
    SentWhole
    NoFailureAfterProcessing
    NothingManagedSent
CHECK_DEADLOCK FALSE
