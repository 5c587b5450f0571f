SPECIFICATION Spec
CONSTANTS
    N = 2
    Gpu = TRUE
    Libass = TRUE
INVARIANTS
    TypeOK
    SummaryTellsAll
    NoRungLostUntried
PROPERTIES
    LateClipStoresNothing
    ClipJobReturns
    ClipsKeepContract
