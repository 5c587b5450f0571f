SPECIFICATION Spec
CONSTANTS
    Jobs = {j1}
    Concurrency = 1
    Requests <- AllRequests
    MaxBytes = 2
    MaxOutput = 3
    DiskSize = 4
    Leaks = {0, 1}
    Gpu = TRUE
INVARIANTS
    TypeOK
    FallbackExhausted
PROPERTIES
    LateJobStoresNothing
    EveryJobReturns
    ImplementsContract
