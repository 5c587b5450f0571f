SPECIFICATION Spec
CONSTANTS
    Routes = 3
INVARIANTS
    TypeOK
    BlockedOnEveryRoute
    SourceBlockTrue
    PaidDeliverySettled
PROPERTIES
    LateIngestStoresNothing
    IngestKeepsContract
    IngestReturns
